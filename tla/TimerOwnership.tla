--------------------------- MODULE TimerOwnership ---------------------------
(***************************************************************************)
(* The tabs of one PWA installation share a workspace and one owner record *)
(* with a lease.  The record says which tab finishes a timer at its        *)
(* deadline; another tab takes over when the lease has run out.  A server  *)
(* and another device change the timer meanwhile.                          *)
(*                                                                         *)
(* Every action of a tab is one guarded storage transaction: it reads the  *)
(* stored workspace, but the timer it was asked to act on is what the tab  *)
(* showed some time before.  The lease runs on the wall clock, commands on *)
(* trusted time; here they differ by a constant.  Retained operations are  *)
(* all displayed (Preferences shows that a PWA that started clean hides    *)
(* none), and requests are not lost (Outbox has that).                     *)
(***************************************************************************)
EXTENDS TimerBoundary, FiniteSets

CONSTANTS
  Breaks,      \* the timers among Timers that finishes generate
  Tabs,        \* tab identities; a reopened tab is a new one
  Planned,     \* planned duration of every timer
  Lease,       \* duration of a lease
  MaxNow,      \* bound on trusted time
  MaxCommands, \* bound on the commands of all devices
  Reserve,     \* of these, kept for finishes at a deadline
  Means,       \* what the users of this device do: subset of UserKinds
  PeerKinds,   \* what the other device does
  AutoStart,   \* what the preference to start breaks may be, subset of BOOLEAN
  Evidence     \* whether the host keeps the evidence of natural finishes

UserKinds == {"start", "pause", "cancelAndClear", "finish"}

\* left is the time until the lease runs out; 0 when it has, or has no end
\* recorded.
Owner == [timer : Timers, tab : Tabs \cup {None}, left : 0 .. Lease]

ASSUME OwnershipAssumption ==
  /\ None \notin Owner
  /\ Breaks \subseteq Timers /\ Means \subseteq UserKinds
  /\ PeerKinds \subseteq {"start", "pause", "resume", "finish", "cancel"}
  /\ Planned \in Nat \ {0} /\ Lease \in Nat \ {0}
  /\ MaxNow \in Nat /\ MaxCommands \in Nat /\ Reserve \in 0 .. MaxCommands
  /\ AutoStart \subseteq BOOLEAN /\ AutoStart # {} /\ Evidence \in BOOLEAN

VARIABLES
  now,      \* trusted time
  issued,   \* commands issued so far; their order keys are 1 .. issued
  log,      \* commands the server has
  queue,    \* commands the device retains
  claim,    \* the order keys of those that are at the server
  base,     \* the canonical snapshot the device holds
  shown,    \* the retained commands replayed over it, without deadlines
  owner,    \* the owner record, None when there is none
  screen,   \* the timer each tab shows
  open,     \* tabs that are open
  consumed  \* timers whose natural end this device has finished

vars == <<now, issued, log, queue, claim, base, shown, owner, screen, open,
          consumed>>

Devices == {"local", "peer"}

-----------------------------------------------------------------------------
(* Replays.                                                                *)

Fresh == [sessions |-> [t \in Timers |-> None], current |-> None,
          outcome |-> "applied"]

\* One command more.  Apply reads the state many times; bound to s it is
\* evaluated once.
Step(st, c) == CHOOSE next \in {Apply(s, c) : s \in {st}} : TRUE

Keyed(cmds, n) == {c \in cmds : c.id = n}

\* The command with the key n, if there is one.
ReplayStep(cmds, st, n) ==
  IF Keyed(cmds, n) = {} THEN st ELSE Step(st, CHOOSE c \in Keyed(cmds, n) : TRUE)

\* The states that lead from a seed through commands in their order: the n-th
\* one has seen those with a key up to n.
Replay(seed, cmds) ==
  LET state[n \in 0 .. MaxCommands] ==
        IF n = 0 THEN seed ELSE ReplayStep(cmds, state[n - 1], n)
  IN state

\* The server's state: the commands of its log in their order.
Served(cmds) == Replay(Fresh, cmds)[MaxCommands]

\* The workspace without deadlines, replayed at 1970.
Unexpired(b, q) == Replay(Seed(b.timer, b.rows), q)[MaxCommands]

\* The timer a tab sees.
Current == Canonical(Projected(shown, now))

StartOf(t, cmds) == {c \in cmds : c.kind = "start" /\ c.timer = t}

Used(t) == StartOf(t, log \cup queue) # {}

-----------------------------------------------------------------------------
(* timer_ownership.rs, ownership_plan.rs                                   *)

Running(timer) == timer # None /\ timer.status \in Active

\* can_claim_missing: the device that started the timer, or a retained start.
CanClaimMissing(b, q, t) ==
  IF b.timer # None /\ b.timer.timer = t THEN b.starter = "local"
                                         ELSE StartOf(t, q) # {}

\* Mutant: the lease of another tab does not matter.
OwnsAnyLease(o, t, tab) == o.timer = t

\* Mutant: a lease without an end can be taken over by its own tab only.
OwnsOwnLease(o, t, tab) == o.timer = t /\ o.tab = tab

\* owns_lease: its own tab, or any tab of the device when it has run out.
OwnsLease(o, t, tab) == o.timer = t /\ (o.tab = tab \/ o.left = 0)

\* record_write.
Leased(t, tab) == [timer |-> t, tab |-> tab, left |-> Lease]

\* plan_existing: only the owner renews, and only what it shows.
Renewed(o, t, tab, presented) ==
  IF presented = t /\ OwnsLease(o, t, tab) THEN Leased(t, tab) ELSE o

\* plan: a record that is not about the active timer goes; a missing one is
\* installed for a timer that shows as active.  Whether it is active is asked
\* without deadlines first: a natural end waits for its finish.
PlannedOwner(b, q, replay, o, tab, presented) ==
  LET timer     == Canonical(Projected(replay, now))
      unexpired == Canonical(replay) IN
  IF o # None
  THEN IF ~ Running(unexpired) \/ o.timer # unexpired.timer THEN None
       ELSE Renewed(o, o.timer, tab, presented)
  ELSE IF Running(timer) /\ CanClaimMissing(b, q, timer.timer)
       THEN Leased(timer.timer, tab) ELSE None

\* A heartbeat renews the lease of the timer that the tab shows.
Heartbeat(tab) ==
  /\ tab \in open /\ screen[tab] # None
  /\ owner' = PlannedOwner(base, queue, shown, owner, tab, screen[tab].timer)
  /\ UNCHANGED <<now, issued, log, queue, claim, base, shown, screen, open,
                 consumed>>

\* A tab goes, with a release on pagehide or without; one tab stays.
Close(tab) ==
  /\ tab \in open /\ open # {tab}
  /\ open' = open \ {tab}
  /\ screen' = [screen EXCEPT ![tab] = None]
  /\ \/ owner' = owner
     \/ /\ owner # None /\ owner.tab = tab
        /\ owner' = [owner EXCEPT !.left = 0]
  /\ UNCHANGED <<now, issued, log, queue, claim, base, shown, consumed>>

-----------------------------------------------------------------------------
(* Commands.                                                               *)

Cmd(k, device, kind, t, at, observed, parent) ==
  [id |-> issued + k, device |-> device, timer |-> t, task |-> None,
   kind |-> kind, phase |-> IF t \in Breaks THEN "short_break" ELSE "focus",
   planned |-> Planned, at |-> at, observed |-> observed, parent |-> parent]

\* What a device measures for a command.
Measured(timer, at) ==
  IF timer.status = "running" THEN ElapsedAt(timer, at) ELSE timer.elapsed

\* inherited_dependency: the latest retained command of the timer, if it
\* waits for another one.
Inherited(t) ==
  LET own == {c \in queue : c.timer = t} IN
  IF \E c \in own : c.parent # None /\ \A d \in own : d.id <= c.id
  THEN (CHOOSE c \in own : \A d \in own : d.id <= c.id).id
  ELSE None

\* Commands of this device are retained and shown.
Retain(cmds) ==
  /\ issued' = issued + Cardinality(cmds)
  /\ queue' = queue \cup cmds
  /\ \E replay \in {Unexpired(base, queue \cup cmds)} : shown' = replay

\* A command a user asks for.
Issue(cmds) ==
  /\ issued + Cardinality(cmds) <= MaxCommands - Reserve
  /\ Retain(cmds)

\* The host records the new owner, with a lease or as an earlier release did.
StartTimer(tab) ==
  /\ "start" \in Means /\ tab \in open
  /\ \E t \in Timers \ Breaks :
       /\ ~ Used(t)
       /\ Issue({Cmd(1, "local", "start", t, now, 0, None)})
       /\ owner' \in {Leased(t, tab), [timer |-> t, tab |-> None, left |-> 0]}
  /\ UNCHANGED <<now, log, claim, base, screen, open, consumed>>

PauseOrResume(tab) ==
  /\ "pause" \in Means /\ tab \in open /\ Running(Current)
  /\ Issue({Cmd(1, "local",
                IF Current.status = "running" THEN "pause" ELSE "resume",
                Current.timer, now, Measured(Current, now), Inherited(Current.timer))})
  /\ UNCHANGED <<now, log, claim, base, owner, screen, open, consumed>>

\* Refused when the timer has changed under the tab (stale_target).
CancelAndClear(tab) ==
  /\ "cancelAndClear" \in Means /\ tab \in open
  /\ screen[tab] # None /\ Current # None
  /\ screen[tab].timer = Current.timer /\ Current.status # "superseded"
  /\ LET t == Current.timer
         parent == Inherited(t)
         cancel == Cmd(1, "local", "cancel", t, now, Measured(Current, now), parent) IN
     Issue(IF Running(Current)
           THEN {cancel, Cmd(2, "local", "clear", t, now, 0,
                             IF parent = None THEN None ELSE cancel.id)}
           ELSE {Cmd(1, "local", "clear", t, now, 0, parent)})
  /\ owner' = None
  /\ UNCHANGED <<now, log, claim, base, screen, open, consumed>>

-----------------------------------------------------------------------------
(* completion_mutation.rs, completion_mutation/natural.rs                  *)

\* A completed timer that no command ended.
NaturalEnd(timer) ==
  timer # None /\ timer.status = "completed" /\ timer.intent # None
    /\ timer.intent.kind \in {"start", "resume"}

\* Mutant: what the tab shows is taken for what is stored.
BeforeAsShown(tab) == screen[tab]

\* plan_finish: the timer the decision is made on.  A tab that shows a running
\* timer and keeps no evidence looks at it without its deadline.
Before(tab) ==
  IF screen[tab].status = "completed" \/ Evidence THEN Current
  ELSE Canonical(shown)

\* stale: the tab shows another timer, or another state of it.
Stale(tab, timer) ==
  \/ timer.intent # None /\ timer.intent.kind \in {"finish", "cancel"}
  \/ screen[tab] # timer

\* natural.rs presented_stale, superseded_obligation.
NaturalAdmitted(tab, timer) ==
  /\ NaturalEnd(timer)
  /\ ~ Stale(tab, IF Evidence /\ screen[tab].status = "running"
                  THEN Canonical(shown) ELSE timer)
  /\ \A c \in queue : ~ (c.timer = timer.timer /\ c.kind = "finish")
  /\ timer.timer \notin consumed

\* automatic_owner.
AutomaticOwner(tab, timer) ==
  IF owner = None THEN CanClaimMissing(base, queue, timer.timer)
                  ELSE OwnsLease(owner, timer.timer, tab)

\* An explicit finish of an active timer asks for no owner, an automatic one
\* asks that the deadline has passed too.
ActiveAdmitted(tab, timer, automatic) ==
  /\ Running(timer) /\ Running(screen[tab]) /\ ~ Stale(tab, timer)
  /\ automatic => /\ timer.status = "running"
                  /\ ElapsedAt(timer, now) >= timer.planned
                  /\ AutomaticOwner(tab, timer)

Add(cmds, automatic) ==
  IF automatic THEN issued + Cardinality(cmds) <= MaxCommands /\ Retain(cmds)
               ELSE Issue(cmds)

\* prepare_finish.  What a finish measures is not read.
FinishOf(timer) ==
  Cmd(1, "local", "finish", timer.timer, now, 0, Inherited(timer.timer))

\* generated_break.rs: the break waits for the finish.
BreakOf(finish, t) == Cmd(2, "local", "start", t, now, 0, finish.id)

\* commit: the finish and, when breaks start by themselves, the break.
CommitFinish(tab, timer, automatic) ==
  LET finish == FinishOf(timer) IN
  \/ /\ TRUE \in AutoStart /\ timer.phase = "focus"
     /\ \E t \in Breaks :
          /\ ~ Used(t)
          /\ Add({finish, BreakOf(finish, t)}, automatic)
          /\ owner' = Leased(t, tab)
  \/ /\ FALSE \in AutoStart \/ timer.phase # "focus"
     /\ Add({finish}, automatic)
     /\ owner' = None

\* natural.rs record: the natural end is finished.
Remember(timer) == consumed' = consumed \cup {timer.timer}

Finish(tab, automatic) ==
  /\ tab \in open /\ screen[tab] # None
  /\ ~ automatic => "finish" \in Means
  /\ \E timer \in {Before(tab)} :
       /\ timer # None
       /\ \/ /\ ActiveAdmitted(tab, timer, automatic)
             /\ consumed' = consumed
          \/ /\ timer.status = "completed"
             /\ NaturalAdmitted(tab, timer) /\ AutomaticOwner(tab, timer)
             /\ Remember(timer)
       /\ CommitFinish(tab, timer, automatic)
  /\ UNCHANGED <<now, log, claim, base, screen, open>>

-----------------------------------------------------------------------------
(* The server and the other device.                                        *)

PeerCommand(kind, t) ==
  LET s == Projected(Served(log), now).sessions[t] IN
  /\ issued < MaxCommands - Reserve /\ kind \in PeerKinds /\ t \notin Breaks
  /\ IF kind = "start" THEN ~ Used(t) ELSE s # None
  /\ issued' = issued + 1
  /\ log' = log \cup
       {Cmd(1, "peer", kind, t, now,
            IF kind = "start" THEN 0 ELSE Measured(s, now), None)}
  /\ UNCHANGED <<now, queue, claim, base, shown, owner, screen, open, consumed>>

\* The planner's batch ends before the first command that waits for another.
Deliver ==
  LET batch == {c \in queue : \A d \in queue : d.parent # None => c.id < d.id} IN
  /\ claim = {} /\ batch # {}
  /\ claim' = {c.id : c \in batch}
  /\ log' = log \cup batch
  /\ UNCHANGED <<now, issued, queue, base, shown, owner, screen, open, consumed>>

OutcomeOf(c) == Served({d \in log : d.id <= c.id}).outcome

\* A finish with a generated break opens it if the server completed the focus
\* with it, no other timer is live there, and no later start waits here.
Opens(f, st) ==
  LET live == Canonical(st) IN
  /\ \E r \in History(st) : r.timer = f.timer /\ r.cmd = f.id /\ r.status = "completed"
  /\ Running(live) => live.timer = f.timer
  /\ \A c \in queue : c.kind = "start" /\ c.id > f.id => c.parent # None

\* What the acknowledged commands open: the parents of what may go next.
Opened(st) ==
  {c.id : c \in {d \in queue : /\ d.id \in claim
                              /\ IF \E g \in queue : g.parent = d.id /\ g.kind = "start"
                                 THEN Opens(d, st)
                                 ELSE OutcomeOf(d) = "applied"}}

\* Commands that wait, directly or not, for a refused one.
DroppedBy(refused) ==
  {c \in queue : \A S \in SUBSET queue :
     (\A x \in queue : x.parent \in refused \cup {y.id : y \in S} => x \in S) => c \in S}

\* A response is installed: acknowledged commands leave, dependents are opened
\* or dropped, the snapshot comes in, and the owner is planned on it.
Install(tab) ==
  LET st     == Projected(Served(log), now)
      opened == Opened(st)
      kept   == {c \in queue : c.id \notin claim} \ DroppedBy(claim \ opened)
      left   == {[c EXCEPT !.parent = IF @ \in opened THEN None ELSE @] : c \in kept}
      timer  == Canonical(st)
      b      == [timer |-> timer, rows |-> History(st),
                 starter |-> IF timer = None THEN None
                             ELSE (CHOOSE c \in StartOf(timer.timer, log) : TRUE).device]
      replay == Unexpired(b, left) IN
  /\ tab \in open
  /\ base' = b /\ queue' = left /\ claim' = {} /\ shown' = replay
  /\ owner' = PlannedOwner(b, left, replay, owner, tab, None)
  /\ UNCHANGED <<now, issued, log, screen, open, consumed>>

-----------------------------------------------------------------------------
See(tab) ==
  /\ tab \in open
  /\ screen' = [screen EXCEPT ![tab] = Current]
  /\ UNCHANGED <<now, issued, log, queue, claim, base, shown, owner, open, consumed>>

\* Time passes.  At the bound only leases go on ageing.
Tick ==
  /\ now < MaxNow \/ (owner # None /\ owner.left > 0)
  /\ now' = IF now < MaxNow THEN now + 1 ELSE now
  /\ owner' = IF owner = None \/ owner.left = 0 THEN owner
              ELSE [owner EXCEPT !.left = @ - 1]
  /\ UNCHANGED <<issued, log, queue, claim, base, shown, screen, open, consumed>>

Init ==
  /\ now = 0 /\ issued = 0
  /\ log = {} /\ queue = {} /\ claim = {}
  /\ base = [timer |-> None, rows |-> {}, starter |-> None]
  /\ shown = Fresh
  /\ owner = None
  /\ screen = [tab \in Tabs |-> None]
  /\ open = Tabs
  /\ consumed = {}

Next ==
  \/ \E tab \in Tabs :
       \/ Heartbeat(tab) \/ Close(tab) \/ See(tab)
       \/ StartTimer(tab) \/ PauseOrResume(tab) \/ CancelAndClear(tab)
       \/ \E automatic \in BOOLEAN : Finish(tab, automatic)
       \/ Install(tab)
  \/ \E kind \in PeerKinds, t \in Timers : PeerCommand(kind, t)
  \/ Deliver
  \/ Tick

Spec == Init /\ [][Next]_vars

\* An open tab is redrawn, and when some tab can always finish what is over,
\* one does.  Nothing is asked of sync or of heartbeats.
Fairness ==
  /\ \A tab \in Tabs : WF_vars(See(tab))
  /\ WF_vars(\E tab \in Tabs : Finish(tab, TRUE))
  /\ WF_vars(Tick)

FairSpec == Spec /\ Fairness

-----------------------------------------------------------------------------
(* Type correctness.                                                       *)
CommandOK(c) ==
  /\ c.id \in 1 .. issued /\ c.device \in Devices /\ c.timer \in Timers
  /\ c.kind \in Kinds /\ c.at \in 0 .. MaxNow
  /\ c.parent \in (1 .. issued) \cup {None}

TypeOK ==
  /\ now \in 0 .. MaxNow /\ issued \in 0 .. MaxCommands
  /\ \A c \in log \cup queue : CommandOK(c)
  /\ claim \subseteq {c.id : c \in queue}
  /\ base.timer \in Snapshot \cup {None} /\ base.rows \subseteq Row
  /\ shown \in Reduction
  /\ owner \in Owner \cup {None}
  /\ screen \in [Tabs -> Snapshot \cup {None}]
  /\ open \subseteq Tabs /\ consumed \subseteq Timers

(* Whatever the server and the other device did, the retained commands can *)
(* be replayed over the installed snapshot, with and without its deadline, *)
(* and the result can be read again (timer/workspace.rs: "must not return  *)
(* a timer/history aggregate that its own next zero-command read rejects").*)
Readable ==
  \A st \in {shown, Projected(shown, now)} :
    ValidPair(Canonical(st), History(st))

Consistent == TypeOK /\ Readable

\* Finishes of a timer by this device, wherever they are now.
OwnFinishes(t) ==
  {c \in log \cup queue : c.device = "local" /\ c.kind = "finish" /\ c.timer = t}

(* A timer is finished once: this device sends a second finish only after  *)
(* the timer was taken up again.  Two tabs, a lease that runs out, a late  *)
(* acknowledgement and a natural end that the server saw first must not    *)
(* make two ("does not create another session or another completed focus", *)
(* PWA_NATURAL_COMPLETION.md).                                             *)
OneFinish ==
  \A t \in Timers : \A f, g \in OwnFinishes(t) :
    f.id < g.id =>
      \E c \in log \cup queue :
        /\ c.timer = t /\ c.kind \in {"start", "pause", "resume"}
        /\ f.id < c.id /\ c.id < g.id

\* The lease goes on: the same tab owns the same timer.
Keeps(o) == owner # None /\ owner.timer = o.timer /\ owner.tab = o.tab

\* The timer is the active one, deadlines aside.
StillActive(t) ==
  LET timer == Canonical(shown) IN Running(timer) /\ timer.timer = t

(* A live lease is honoured: another tab gets it, or nobody, only when the *)
(* timer is over or another one runs - the deadline alone takes it from no *)
(* tab (ownership_plan.rs "Keep the peer lease until completion commits"). *)
LeaseKept ==
  [][\A o \in {owner} : o # None /\ o.left > 0 =>
       Keeps(o)' \/ ~ StillActive(o.timer)']_vars

\* The natural end of an own timer whose finish is still owed.
Owed(t) ==
  /\ NaturalEnd(Current) /\ Current.timer = t /\ t \notin consumed
  /\ StartOf(t, log \cup queue) # {} /\ \A c \in StartOf(t, log \cup queue) : c.device = "local"

(* A natural end is not forgotten: whichever tabs close or crash, the      *)
(* finish that acknowledgements and statistics depend on is sent at last,  *)
(* unless the timer is taken up again or cleared.                          *)
FinishedAtLast == \A t \in Timers : Owed(t) ~> ~ Owed(t)
=============================================================================
