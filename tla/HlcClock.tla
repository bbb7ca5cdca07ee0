------------------------------ MODULE HlcClock ------------------------------
(***************************************************************************)
(* The hybrid logical clock (src/clock.rs) as devices use it: every device *)
(* keeps one clock, stamps each operation it creates with a tick, and      *)
(* ticks past the stamp of each operation it receives.  Operations reach a *)
(* device late, repeatedly, in any order or never.  The physical clock of  *)
(* a device may read anything, and may go backwards between two readings.  *)
(***************************************************************************)
EXTENDS Integers, Sequences

CONSTANTS
  Devices,  \* the devices of one account
  MaxSafe,  \* the largest integer of a clock (2^53 - 1 in the code)
  MaxWall,  \* the latest physical reading
  MaxOps,   \* bound: operations created in one behaviour
  Error     \* the error outcome of a tick

Clock == [wall : 0 .. MaxSafe, counter : 0 .. MaxSafe]

ASSUME HlcAssumption ==
  /\ MaxSafe \in Nat /\ MaxWall \in 0 .. MaxSafe /\ MaxOps \in Nat
  /\ Error \notin Clock
  /\ Error \notin Int

Before(a, b) ==
  a.wall < b.wall \/ (a.wall = b.wall /\ a.counter < b.counter)

MaxOf(x, y) == IF x < y THEN y ELSE x

Increment(value) == IF value + 1 > MaxSafe THEN Error ELSE value + 1

Stamp(wall, counter) ==
  IF counter = Error THEN Error ELSE [wall |-> wall, counter |-> counter]

\* Mutant: the local counter wins although the remote one is as late.
TickLocalFirst(local, remote, now) ==
  LET wall == MaxOf(MaxOf(local.wall, remote.wall), now)
  IN  Stamp(wall,
        CASE wall = local.wall -> Increment(local.counter)
          [] wall # local.wall /\ wall = remote.wall -> Increment(remote.counter)
          [] OTHER -> 0)

\* Mutant: a full counter carries into the wall clock.
TickCarrying(local, remote, now) ==
  LET wall == MaxOf(MaxOf(local.wall, remote.wall), now)
      c    == MaxOf(local.counter, remote.counter)
  IN  IF c = MaxSafe THEN [wall |-> wall + 1, counter |-> 0]
      ELSE [wall |-> wall, counter |-> c + 1]

\* tick_json with a remote clock.
HlcTick(local, remote, now) ==
  LET wall == MaxOf(MaxOf(local.wall, remote.wall), now)
  IN  Stamp(wall,
        CASE wall = local.wall /\ wall = remote.wall ->
               Increment(MaxOf(local.counter, remote.counter))
          [] wall = local.wall /\ wall # remote.wall -> Increment(local.counter)
          [] wall # local.wall /\ wall = remote.wall -> Increment(remote.counter)
          [] OTHER -> 0)

\* tick_json without one.
LocalTick(local, now) ==
  LET wall == MaxOf(local.wall, now)
  IN  Stamp(wall, IF wall = local.wall THEN Increment(local.counter) ELSE 0)

\* head_json: the latest of the observed clocks and the physical reading.
Heads(observed, now) ==
  LET all == observed \cup {[wall |-> now, counter |-> 0]}
  IN  {c \in all : \A b \in all : ~ Before(c, b)}

-----------------------------------------------------------------------------
VARIABLES
  hlc,  \* the clock of each device
  log,    \* the operations created so far: device, stamp, known operations
  seen,   \* the operations that a device has created or received
  latest  \* the latest physical reading any device has used

hlcVars == <<hlc, log, seen, latest>>

HlcInit ==
  /\ hlc = [d \in Devices |-> [wall |-> 0, counter |-> 0]]
  /\ log = <<>>
  /\ seen = [d \in Devices |-> {}]
  /\ latest = 0

\* A device creates an operation at the physical reading now.
Create(d, now) ==
  LET at == LocalTick(hlc[d], now) IN
  /\ Len(log) < MaxOps
  /\ at # Error
  /\ hlc' = [hlc EXCEPT ![d] = at]
  /\ log' = Append(log, [dev |-> d, at |-> at, past |-> seen[d]])
  /\ seen' = [seen EXCEPT ![d] = @ \cup {Len(log) + 1}]
  /\ latest' = MaxOf(latest, now)

\* A device receives an operation, perhaps not for the first time.
ReceiveOp(d, i, now) ==
  LET at == HlcTick(hlc[d], log[i].at, now) IN
  /\ at # Error
  /\ hlc' = [hlc EXCEPT ![d] = at]
  /\ seen' = [seen EXCEPT ![d] = @ \cup {i} \cup log[i].past]
  /\ latest' = MaxOf(latest, now)
  /\ UNCHANGED log

\* A device catches up with the clocks it finds in its stored workspace.
Observe(d, now) ==
  /\ \E c \in Heads({hlc[d]} \cup {log[i].at : i \in seen[d]}, now) :
       hlc' = [hlc EXCEPT ![d] = c]
  /\ latest' = MaxOf(latest, now)
  /\ UNCHANGED <<log, seen>>

HlcNext ==
  \E d \in Devices, now \in 0 .. MaxWall :
    \/ Create(d, now)
    \/ \E i \in 1 .. Len(log) : ReceiveOp(d, i, now)
    \/ Observe(d, now)

HlcSpec == HlcInit /\ [][HlcNext]_hlcVars

-----------------------------------------------------------------------------
(* Type correctness of clocks, operations and what devices know.           *)
HlcTypeOK ==
  /\ hlc \in [Devices -> Clock]
  /\ log \in Seq([dev : Devices, at : Clock, past : SUBSET Nat])
  /\ seen \in [Devices -> SUBSET (1 .. Len(log))]
  /\ latest \in 0 .. MaxSafe
  /\ \A i \in 1 .. Len(log) : log[i].past \subseteq 1 .. i - 1

(* An operation that was created knowing another one, directly or through  *)
(* a chain of devices, has the later stamp, whatever the physical clocks   *)
(* read: replay order (wall, counter, device, id) never contradicts cause, *)
(* and no two operations of one device share a key.                        *)
CausalStamps ==
  \A i \in 1 .. Len(log) : \A j \in log[i].past : Before(log[j].at, log[i].at)

(* Receiving from a device that is ahead never pushes a clock beyond the   *)
(* latest physical reading that was really taken anywhere.                 *)
NoRunaway == \A d \in Devices : hlc[d].wall <= latest

(* A clock never goes back, though the physical clock may.                 *)
ClockForward ==
  [][\A d \in Devices : ~ Before(hlc'[d], hlc[d])]_hlcVars
=============================================================================
