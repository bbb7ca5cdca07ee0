---------------------------- MODULE TrustedClock ----------------------------
(***************************************************************************)
(* A device learns the server's time from the round trip of a request and  *)
(* then keeps it, on a clock of its own that only counts from the last     *)
(* boot, and on the wall clock, which the user may set.  The four clients  *)
(* do it differently; each behaviour follows one of them.                  *)
(*                                                                         *)
(* The kernel is a pure function of the saved state and of the readings.   *)
(* When it is called, what survives a restart, and who raises the lower    *)
(* bounds it is given is the client's doing, after TRUSTED_CLOCK.md.       *)
(* Times are whole milliseconds of which the safe range is left out.       *)
(***************************************************************************)
EXTENDS Integers

CONSTANTS
  None,
  Profiles,     \* the clients, of "apple", "android", "desktop", "pwa"
  Skew,         \* SKEW: how far recovery may move time ahead
  Drift,        \* DRIFT: disagreement of the desktop's two clocks
  Uncertainty,  \* UNCERTAINTY: bound on the uncertainty of a sample
  Start,        \* the time at which a behaviour starts
  MaxNow,       \* bound on real time
  Offsets,      \* what the wall clock may be ahead of real time
  Leads,        \* what the server's HLC may be ahead of its time
  MaxTime,      \* bound on the times a client emits
  MaxUpsets     \* bound on wall edits, sleeps, restarts and reboots

ASSUME ClockAssumption ==
  /\ Profiles \subseteq {"apple", "android", "desktop", "pwa"}
  /\ Skew \in Nat /\ Drift \in Nat /\ Uncertainty \in 0 .. Skew
  /\ Start \in Nat \ {0} /\ MaxNow \in Nat /\ MaxTime \in Nat /\ MaxUpsets \in Nat
  /\ Leads \subseteq Nat
  /\ 0 \in Offsets /\ \A ahead \in Offsets : ahead \in Int /\ Start + ahead > 0
  /\ None \notin Int \X Int \X Int
  /\ None \notin [offset : Int, uncertainty : Int, server : Int,
                  physical : Int, elapsed : Int]

VARIABLES
  profile,   \* the client
  now,       \* real time, which is the server's
  offset,    \* what the wall clock is ahead of real time
  ticks,     \* the device's monotonic reading
  boot,      \* the boot it counts from
  upsets,    \* wall edits, sleeps, restarts and reboots so far
  started,   \* the client has restored its clock in this process
  exchange,  \* the request to the server under way, or None
  clock,     \* the clock state the kernel is given and returns
  past       \* what happened to the clocks since each sample was requested

device == <<now, offset, ticks, boot>>
vars == <<profile, device, upsets, started, exchange, clock, past>>

Wall == now + offset
Greater(a, b) == IF a > b THEN a ELSE b
Gap(a, b) == Greater(a - b, b - a)

(* Rust divides towards zero.                                              *)
Half(n) == IF n >= 0 THEN n \div 2 ELSE - ((- n) \div 2)

-----------------------------------------------------------------------------
(* What happened since a request was sent: the wall clock was edited, the  *)
(* monotonic clock stopped, at all or while the request was under way, the *)
(* device rebooted; lead is what the client's lower bound was ahead of     *)
(* real time when a read made an anchor of it.                             *)

Calm == [edited |-> FALSE, slept |-> FALSE, stretched |-> FALSE,
         rebooted |-> FALSE, lead |-> 0]

(* A request under way; the sample of a response that Android is still     *)
(* working on; the sample the client has saved; the one that the runtime   *)
(* of the PWA was seeded from.                                             *)
Slots == {"exchange", "fresh", "saved", "runtime"}

-----------------------------------------------------------------------------
(* The clock states.  A sample is a record or None; on Android the point   *)
(* of a saved sample, its place on the wall and the monotonic clock, can   *)
(* be cleared alone.                                                       *)

InitialClock(p) ==
  CASE p = "apple"   -> [sample |-> None, last |-> 0]
    [] p = "android" -> [saved |-> None, retained |-> 0,
                         anchor |-> None, request |-> None]
    [] p = "desktop" -> [sample |-> None, anchor |-> None]
    [] p = "pwa"     -> [sample |-> None, minimum |-> 0, runtime |-> None]

(* The state of a new process: what is not persisted is lost.              *)
Reopened(c) ==
  CASE profile = "apple"   -> c
    [] profile = "android" -> [c EXCEPT !.anchor = None, !.request = None]
    [] profile = "desktop" -> [c EXCEPT !.anchor = None]
    [] profile = "pwa"     -> [c EXCEPT !.runtime = None]

Restores == {"android", "desktop"}

HasSample == IF profile = "android" THEN clock.saved # None
                                    ELSE clock.sample # None
HasFresh == profile = "android" /\ clock.request # None

InUse == {slot \in Slots :
            \/ slot = "exchange" /\ exchange # None
            \/ slot = "fresh" /\ HasFresh
            \/ slot = "saved" /\ HasSample
            \/ slot = "runtime" /\ profile = "pwa" /\ clock.runtime # None}

Upset(field) ==
  /\ upsets < MaxUpsets
  /\ upsets' = upsets + 1
  /\ past' = [slot \in Slots |->
       IF slot \notin InUse THEN past[slot]
       ELSE [past[slot] EXCEPT ![field] = TRUE,
               !.stretched = @ \/ (field = "slept" /\ slot = "exchange")]]

Init ==
  /\ profile \in Profiles
  /\ now = Start /\ offset \in Offsets /\ ticks = 0 /\ boot = 1
  /\ upsets = 0 /\ started = (profile \notin Restores)
  /\ exchange = None
  /\ clock = InitialClock(profile)
  /\ past = [slot \in Slots |-> Calm]

-----------------------------------------------------------------------------
(* The device.                                                             *)

Tick ==
  /\ now < MaxNow
  /\ now' = now + 1 /\ ticks' = ticks + 1
  /\ UNCHANGED <<profile, offset, boot, upsets, started, exchange, clock,
                 past>>

(* Only Android counts the time the device sleeps.                         *)
Sleep ==
  /\ now < MaxNow
  /\ profile # "android"
  /\ Upset("slept")
  /\ now' = now + 1
  /\ UNCHANGED <<profile, offset, ticks, boot, started, exchange, clock>>

EditWall ==
  /\ Upset("edited")
  /\ offset' \in Offsets \ {offset}
  /\ UNCHANGED <<profile, now, ticks, boot, started, exchange, clock>>

EndProcess ==
  /\ started' = (profile \notin Restores)
  /\ exchange' = None
  /\ clock' = Reopened(clock)
  /\ UNCHANGED <<profile, offset>>

Restart ==
  /\ upsets < MaxUpsets /\ upsets' = upsets + 1
  /\ EndProcess
  /\ UNCHANGED <<now, ticks, boot, past>>

Reboot ==
  /\ now < MaxNow
  /\ Upset("rebooted")
  /\ EndProcess
  /\ now' = now + 1 /\ ticks' = 0 /\ boot' = boot + 1

(* A client restores the clock before it reads it.  Android may find no    *)
(* boot identity to compare with.                                          *)
RestoreAndroid ==
  /\ profile = "android"
  /\ \E bootId \in {boot, None} :
       LET s == clock.saved
           kept == s = None \/ s.point = None
                   \/ /\ s.boot # None /\ s.boot = bootId
                      /\ ticks >= s.point.elapsed
       IN  clock' = IF kept THEN clock
                    ELSE [clock EXCEPT !.saved.point = None, !.saved.boot = None]

\* Mutant: the desktop looks at its monotonic clock alone.
AgreeAlone(s) == ticks >= s.ticks

(* Whether the desktop's two clocks have agreed since it took the sample,  *)
(* and the time it then is.                                                *)
Agree(s) ==
  /\ ticks >= s.ticks
  /\ Gap(Wall, s.wall + ticks - s.ticks) <= Drift

Projected(s) == s.trusted + ticks - s.ticks

RestoreDesktop ==
  /\ profile = "desktop"
  /\ clock' = IF clock.sample = None THEN clock
              ELSE IF Agree(clock.sample) THEN [clock EXCEPT !.anchor = clock.sample]
              ELSE [clock EXCEPT !.sample = None]

Restore ==
  /\ ~ started /\ started' = TRUE
  /\ RestoreAndroid \/ RestoreDesktop
  /\ UNCHANGED <<profile, device, upsets, exchange, past>>

-----------------------------------------------------------------------------
(* The round trip of a request.                                            *)

Send ==
  /\ started /\ exchange = None
  /\ exchange' = [wall |-> Wall, ticks |-> ticks, stamp |-> None]
  /\ past' = [past EXCEPT !["exchange"] = Calm]
  /\ UNCHANGED <<profile, device, upsets, started, clock>>

Serve ==
  /\ exchange # None /\ exchange.stamp = None
  /\ exchange' = [exchange EXCEPT !.stamp = now]
  /\ UNCHANGED <<profile, device, upsets, started, clock, past>>

Lose ==
  /\ exchange # None
  /\ exchange' = None
  /\ past' = [past EXCEPT !["exchange"] = Calm]
  /\ UNCHANGED <<profile, device, upsets, started, clock>>

Trip == ticks - exchange.ticks
WallTrip == Wall - exchange.wall

(* Apple measures the trip on its uptime alone.                            *)
AppleSample ==
  LET half == Trip \div 2
  IN  [offset |-> exchange.stamp - (exchange.wall + half),
       uncertainty |-> (Trip + 1) \div 2,
       anchor |-> exchange.stamp + half, uptime |-> ticks]

AndroidSample ==
  LET midpoint == exchange.wall + Half(WallTrip)
  IN  [offset |-> exchange.stamp - midpoint,
       uncertainty |-> (Trip + 1) \div 2 + Gap(WallTrip, Trip),
       server |-> exchange.stamp, physical |-> midpoint,
       elapsed |-> exchange.ticks + Trip \div 2]

\* Mutant: it is a sample like the first one.
AndroidResample == AndroidSample

(* A later response of the same transaction moves the sample along; what   *)
(* the server says the time is then does not count.                        *)
AndroidAdvance ==
  LET previous == clock.request
      advanced == previous.server + ticks - previous.elapsed
  IN  [offset |-> advanced - Wall,
       uncertainty |-> Greater(previous.uncertainty, AndroidSample.uncertainty),
       server |-> advanced, physical |-> Wall, elapsed |-> ticks]

\* Mutant: the disagreement of the clocks does not count.
DesktopSampleOfTrip ==
  LET half == Trip \div 2
  IN  [offset |-> exchange.stamp - (exchange.wall + half),
       uncertainty |-> (Trip + 1) \div 2,
       wall |-> Wall, ticks |-> ticks, trusted |-> exchange.stamp + Trip - half]

DesktopSample ==
  LET half == Trip \div 2
  IN  [offset |-> exchange.stamp - (exchange.wall + half),
       uncertainty |-> (Trip + 1) \div 2 + Gap(WallTrip, Trip),
       wall |-> Wall, ticks |-> ticks, trusted |-> exchange.stamp + Trip - half]

(* The PWA measures it on the wall clock alone.                            *)
PwaSample ==
  LET midpoint == exchange.wall + WallTrip \div 2
  IN  [offset |-> exchange.stamp - midpoint,
       uncertainty |-> (WallTrip + 1) \div 2, sampledAt |-> midpoint]

Sampled ==
  CASE profile = "apple"   -> AppleSample
    [] profile = "android" -> AndroidSample
    [] profile = "desktop" -> DesktopSample
    [] profile = "pwa"     -> PwaSample

(* What a response must satisfy; lead is what its HLC is ahead of its time. *)
Acceptable(lead) ==
  /\ lead <= Skew
  /\ Sampled.uncertainty <= Uncertainty
  /\ profile \in {"desktop", "pwa"} => WallTrip >= 0
  /\ profile = "desktop" => Gap(WallTrip, Trip) <= Drift

Installed(sample) ==
  CASE profile = "android" -> [clock EXCEPT !.request = sample]
    [] profile = "desktop" -> [clock EXCEPT !.sample = sample, !.anchor = sample]
    [] OTHER               -> [clock EXCEPT !.sample = sample]

(* The sample is taken over, or the response refused and nothing changed.  *)
Receive ==
  /\ exchange # None /\ exchange.stamp # None
  /\ exchange' = None
  /\ \E lead \in Leads :
       IF Acceptable(lead)
       THEN /\ clock' = Installed(Sampled)
            /\ past' = [past EXCEPT
                 ![IF profile = "android" THEN "fresh" ELSE "saved"] = past["exchange"],
                 !["exchange"] = Calm]
       ELSE /\ past' = [past EXCEPT !["exchange"] = Calm]
            /\ UNCHANGED clock
  /\ UNCHANGED <<profile, device, upsets, started>>

ReceiveLater ==
  /\ HasFresh
  /\ exchange # None /\ exchange.stamp # None
  /\ exchange' = None
  /\ Acceptable(0)
  /\ clock' = [clock EXCEPT !.request = AndroidAdvance]
  /\ past' = [past EXCEPT !["exchange"] = Calm]
  /\ UNCHANGED <<profile, device, upsets, started>>

(* The Android client saves the sample when it has accepted the response.  *)
Install ==
  /\ HasFresh
  /\ LET s == clock.request
     IN  clock' = [clock EXCEPT
           !.saved = [offset |-> s.offset, uncertainty |-> s.uncertainty,
                      point |-> [physical |-> s.physical, elapsed |-> s.elapsed],
                      boot |-> boot],
           !.anchor = None, !.request = None]
  /\ past' = [past EXCEPT !["saved"] = past["fresh"], !["fresh"] = Calm]
  /\ UNCHANGED <<profile, device, upsets, started, exchange>>

-----------------------------------------------------------------------------
(* Reads of the trusted time.  A reading has the time, what it rests on    *)
(* (no sample, the wall clock and an offset, or the monotonic clock) and   *)
(* the state the kernel returns.  The kernel may refuse to give one.       *)

Reading(value, basis, next) == [value |-> value, basis |-> basis, next |-> next]
If(condition, reading) == IF condition THEN {reading} ELSE {}

(* A time goes through a floating Date in seconds before it is recorded,   *)
(* and may lose a millisecond there.                                       *)
Recorded(value) == {r \in {value - 1, value} : r >= 1}

(* A candidate at or before the last emission is moved past it; advance    *)
(* records what it emits.                                                  *)
Emitted(candidate, basis, advance) ==
  LET value == IF clock.last > 0 /\ candidate <= clock.last
               THEN clock.last + 1 ELSE candidate
  IN  IF advance /\ clock.sample # None
      THEN {Reading(value, basis, [clock EXCEPT !.last = Greater(@, r)]) :
              r \in Recorded(value)}
      ELSE {Reading(value, basis, clock)}

AppleReadings(advance) ==
  LET s == clock.sample
      recovered == Wall + s.offset
  IN  IF s = None THEN Emitted(Wall, "local", advance)
      ELSE IF ticks >= s.uptime
      THEN Emitted(s.anchor + ticks - s.uptime, "steady", advance)
      ELSE IF /\ recovered >= 1
              /\ recovered <= Greater(s.anchor, clock.last) + Skew
      THEN Emitted(recovered, "wall", advance)
      ELSE {}

(* The transaction's own sample first, then the anchor of this process,    *)
(* then the saved point, and the wall clock last.                          *)
Anchoring(value, basis) ==
  Reading(value, basis, [clock EXCEPT !.anchor = [server |-> value, elapsed |-> ticks]])

AndroidReadings ==
  LET s == clock.saved
      r == clock.request
      a == clock.anchor
      recovered == Wall + s.offset
  IN  IF r # None
      THEN If(ticks >= r.elapsed,
              Reading(r.server + ticks - r.elapsed, "steady", clock))
      ELSE IF a # None /\ ticks >= a.elapsed
      THEN {Reading(a.server + ticks - a.elapsed, "steady", clock)}
      ELSE IF s = None THEN {Reading(Wall, "local", clock)}
      ELSE IF s.point # None /\ ticks >= s.point.elapsed
      THEN {Anchoring(s.point.physical + s.offset + ticks - s.point.elapsed, "steady")}
      ELSE If(/\ recovered >= 1
              /\ recovered <= clock.retained + Skew - s.uncertainty,
              Anchoring(Greater(recovered, clock.retained), "wall"))

(* The desktop installs the anchor when it finds the clocks in agreement,  *)
(* and asks no more while it has it.                                       *)
Modes == {"local", "wall", "monotonic"}

DesktopReadings(mode) ==
  LET s == clock.sample
      holds == IF clock.anchor = s THEN ticks >= s.ticks ELSE Agree(s)
  IN  IF mode = "local" \/ s = None THEN {Reading(Wall, "local", clock)}
      ELSE IF mode = "wall" THEN {Reading(Wall + s.offset, "wall", clock)}
      ELSE IF holds
      THEN {Reading(Projected(s), "steady", [clock EXCEPT !.anchor = s])}
      ELSE {Reading(Wall, "local", clock)}

(* The runtime is known by the sample it was seeded from, not by the       *)
(* request.  A browser may have no monotonic reading.                      *)
Identity(s) == IF s = None THEN None
               ELSE <<s.offset, s.uncertainty, s.sampledAt>>

PwaReadings(measured) ==
  LET s == clock.sample
      r == clock.runtime
      wall == Greater(Wall + IF s = None THEN 0 ELSE s.offset, clock.minimum)
      Basis(how) == IF s = None THEN "local" ELSE how
      runs == r # None /\ r.identity = Identity(s) /\ ticks >= r.ticks
  IN  IF ~ measured THEN {Reading(wall, Basis("wall"), clock)}
      ELSE IF runs
      THEN {Reading(Greater(r.wall + ticks - r.ticks, clock.minimum),
                    Basis("steady"), clock)}
      ELSE {Reading(wall, Basis("wall"),
                    [clock EXCEPT !.runtime = [identity |-> Identity(s),
                                               ticks |-> ticks, wall |-> wall]])}

Readings ==
  IF ~ started THEN {}
  ELSE CASE profile = "apple"   -> UNION {AppleReadings(a) : a \in BOOLEAN}
         [] profile = "android" -> AndroidReadings
         [] profile = "desktop" -> UNION {DesktopReadings(m) : m \in Modes}
         [] profile = "pwa"     -> UNION {PwaReadings(m) : m \in BOOLEAN}

(* The bound below which a client does not go.                             *)
Floor(c) ==
  CASE profile = "apple"   -> c.last + 1
    [] profile = "android" -> c.retained
    [] profile = "desktop" -> 0
    [] profile = "pwa"     -> c.minimum

(* The HLC that a client ticks with the time becomes its lower bound.      *)
Retained(c, value) ==
  CASE profile = "android" -> [c EXCEPT !.retained = Greater(@, value)]
    [] profile = "pwa"     -> [c EXCEPT !.minimum = Greater(@, value)]
    [] OTHER               -> c

(* What a read leaves of the past: of a time from the wall clock it may    *)
(* make an anchor, which on the PWA has a past of its own.                 *)
InForce == IF HasFresh THEN "fresh" ELSE "saved"

Left(reading) ==
  LET lead == Greater(past[InForce].lead, Floor(clock) - now)
  IN  IF reading.basis # "wall" \/ reading.next = clock THEN past
      ELSE IF profile = "pwa"
      THEN [past EXCEPT !["runtime"] = [past["saved"] EXCEPT !.lead = lead]]
      ELSE [past EXCEPT !["saved"].lead = lead]

Read ==
  /\ \E reading \in Readings, retain \in BOOLEAN :
       /\ reading.value <= MaxTime
       /\ clock' = IF retain THEN Retained(reading.next, reading.value)
                            ELSE reading.next
       /\ past' = Left(reading)
  /\ UNCHANGED <<profile, device, upsets, started, exchange>>

Next ==
  \/ Tick \/ Sleep \/ EditWall \/ Restart \/ Reboot
  \/ Restore \/ Send \/ Serve \/ Lose \/ Receive \/ ReceiveLater \/ Install
  \/ Read

Spec == Init /\ [][Next]_vars

-----------------------------------------------------------------------------
(* The type of the state; a sample that is kept is as certain as the       *)
(* kernel requires of those it is given (uncertainty).                     *)
Certain == 0 .. Uncertainty

AppleClocks ==
  [sample : {None} \cup [offset : Int, uncertainty : Certain,
                         anchor : Nat, uptime : Nat],
   last : Nat]

AndroidClocks ==
  [saved : {None} \cup
     [offset : Int, uncertainty : Certain,
      point : {None} \cup [physical : Nat, elapsed : Nat], boot : Nat \cup {None}],
   retained : Nat,
   anchor : {None} \cup [server : Nat, elapsed : Nat],
   request : {None} \cup [offset : Int, uncertainty : Certain, server : Nat,
                          physical : Nat, elapsed : Nat]]

DesktopSamples == {None} \cup [offset : Int, uncertainty : Certain, wall : Nat,
                               ticks : Nat, trusted : Nat]
DesktopClocks == [sample : DesktopSamples, anchor : DesktopSamples]

PwaClocks ==
  [sample : {None} \cup [offset : Int, uncertainty : Certain, sampledAt : Nat],
   minimum : Nat,
   runtime : {None} \cup [identity : {None} \cup (Int \X Certain \X Nat),
                          ticks : Nat, wall : Nat]]

ClockOK ==
  CASE profile = "apple"   -> clock \in AppleClocks
    [] profile = "android" -> clock \in AndroidClocks
    [] profile = "desktop" -> clock \in DesktopClocks
    [] profile = "pwa"     -> clock \in PwaClocks

Flags == [edited : BOOLEAN, slept : BOOLEAN, stretched : BOOLEAN,
          rebooted : BOOLEAN, lead : Nat]

TypeOK ==
  /\ profile \in Profiles
  /\ now \in Nat /\ offset \in Offsets /\ ticks \in Nat /\ boot \in Nat
  /\ upsets \in 0 .. MaxUpsets /\ started \in BOOLEAN
  /\ exchange = None \/ exchange.stamp \in Nat \cup {None}
  /\ ClockOK
  /\ past \in [Slots -> Flags]

Since(reading) ==
  past[IF profile = "pwa" /\ reading.basis = "steady" THEN "runtime" ELSE InForce]
Trusted == {reading \in Readings : reading.basis # "local"}

(* What the sample in force, and the lower bound, allow time to be off.    *)
InUncertainty ==
  CASE profile = "android" /\ HasFresh   -> clock.request.uncertainty
    [] profile = "android" /\ ~ HasFresh -> clock.saved.uncertainty
    [] OTHER -> clock.sample.uncertainty

Allowed(reading) ==
  Greater(InUncertainty, Greater(Since(reading).lead, Floor(clock) - now))

(* Whether the wall clock has had a part in a reading.                     *)
RestsOnWall(reading) ==
  CASE profile = "android" -> ~ HasFresh /\ clock.saved.point = None
    [] profile = "pwa"     -> TRUE
    [] OTHER               -> reading.basis = "wall"

(* A time that a client reads is ahead of the server's by no more than the *)
(* uncertainty of the sample, or than the client's own lower bound is,     *)
(* whatever the monotonic clock missed and however often the device was    *)
(* restarted.  Only an edit of the wall clock adds to that under a clock   *)
(* that reads it; where Apple and Android recover from a reboot, no more   *)
(* than SKEW (continued, recovered).                                       *)
NeverAhead ==
  \A reading \in Trusted :
    \/ reading.value <= now + Allowed(reading)
    \/ /\ RestsOnWall(reading) /\ profile \in {"apple", "android"}
       /\ Since(reading).edited \/ Since(reading).stretched
       /\ reading.value <= now + Allowed(reading) + Skew
    \/ /\ RestsOnWall(reading) /\ profile \in {"desktop", "pwa"}
       /\ Since(reading).edited

(* Nor is it behind by more, as long as the clock that the time rests on   *)
(* was not disturbed: the monotonic clock by sleep or a reboot, which      *)
(* Android and, up to DRIFT, the desktop notice and Apple and the PWA need *)
(* not; the wall clock by an edit.                                         *)
Undisturbed(reading) ==
  CASE profile = "apple"   -> ~ Since(reading).slept /\ ~ Since(reading).rebooted
    [] profile = "android" -> RestsOnWall(reading) => ~ Since(reading).edited
    [] profile = "desktop" -> /\ ~ Since(reading).slept
                              /\ Since(reading).rebooted \/ RestsOnWall(reading)
                                 => ~ Since(reading).edited
    [] profile = "pwa"     -> ~ Since(reading).slept /\ ~ Since(reading).edited

NeverBehind ==
  \A reading \in Trusted :
    Undisturbed(reading) =>
      reading.value >= now - InUncertainty
                       - IF profile = "desktop" /\ Since(reading).rebooted THEN Drift ELSE 0

(* As long as the device is not rebooted and the sample not replaced, the  *)
(* time that rests on the monotonic clock does not go back and passes as   *)
(* that clock does, except up to the client's lower bound: an edit of the  *)
(* wall clock, a restart, a second response in a transaction and saving    *)
(* the sample do not show (current of each profile; advance of Android).   *)
Steady == {reading \in Readings : reading.basis = "steady"}

Paced ==
  \A before \in Steady : \A after \in Steady' :
    /\ after.value >= before.value
    /\ after.value <= Greater(before.value + ticks' - ticks, Floor(clock)')

SteadyPace == [][boot' = boot /\ ~ Receive => Paced]_vars
=============================================================================
