------------------------- MODULE PreferenceReducer -------------------------
(***************************************************************************)
(* The last-writer-wins domains of sync_projection.rs: tasks, durations,   *)
(* automatic breaks and the selected task.  All four are slots that the    *)
(* operation with the greatest clock key fills; a task is a slot of its    *)
(* own, as a duration phase is.  A task's title follows from its id        *)
(* (is_canonical_task_identity), so a task slot says only whether the task *)
(* is there.                                                               *)
(*                                                                         *)
(* Operations carry the key (hlc, device).  The code compares wall,        *)
(* counter, device and id; wall and counter are one number here, and the   *)
(* id never decides, since a device does not use a clock value twice.      *)
(***************************************************************************)
EXTENDS Integers, FiniteSets

CONSTANTS
  Devices,    \* devices, ordered as their identifiers are
  Tasks,      \* task ids
  Phases,     \* phases with a duration of their own
  Durations,  \* values of a duration
  Standard,   \* what a phase lasts before anybody changed it
  None,       \* no task, no clock
  MaxStamp    \* bound on the clock values

ASSUME DevicesAssumption == Devices \subseteq Int
ASSUME SlotsAssumption ==
  /\ Tasks \cap Phases = {}
  /\ None \notin Tasks
  /\ {"auto", "selection"} \cap (Tasks \cup Phases) = {}
  /\ Standard \in Durations
ASSUME BoundAssumption == MaxStamp \in Nat /\ None \notin 0 .. MaxStamp

Slots == Tasks \cup Phases \cup {"auto", "selection"}

\* What an operation may write into a slot.
Choices(s) ==
  CASE s \in Tasks       -> {"active", "deleted"}
    [] s \in Phases      -> Durations
    [] s = "auto"        -> {"on", "off"}
    [] s = "selection"   -> Tasks \cup {None}

Values == Durations \cup Tasks \cup {None, "active", "deleted", "on", "off"}

View == [Slots -> Values]

Stamps == 1 .. MaxStamp

Operation == [slot : Slots, value : Values, hlc : Stamps, device : Devices]

\* The queue an operation waits in.
Domain(s) ==
  CASE s \in Tasks      -> "taskOperations"
    [] s \in Phases     -> "durationOperations"
    [] s = "auto"       -> "autoStartOperations"
    [] s = "selection"  -> "selectedTaskOperations"

SameDomain(o, p) == Domain(o.slot) = Domain(p.slot)

-----------------------------------------------------------------------------
\* operation_clock_key, compared.
Later(o, p) == o.hlc > p.hlc \/ (o.hlc = p.hlc /\ o.device > p.device)

\* select_clock_winners: operation o has the greatest key of its slot.
Wins(o, ops) == \A p \in ops : p.slot = o.slot => p = o \/ Later(o, p)

Touched(ops, s) == \E o \in ops : o.slot = s

Winners(ops, s) == {o \in ops : o.slot = s /\ Wins(o, ops)}

\* The only one: no two operations have the same key.
Winner(ops, s) == CHOOSE o \in Winners(ops, s) : TRUE

\* What an account without any operation looks like.
Defaults ==
  [s \in Slots |->
     CASE s \in Tasks     -> "deleted"
       [] s \in Phases    -> Standard
       [] s = "auto"      -> "off"
       [] s = "selection" -> None]

\* The value of a slot after a replay over base.
Written(base, ops, s) ==
  IF Touched(ops, s) THEN Winner(ops, s).value ELSE base[s]

\* Mutant: the selection is taken as it was written.
SelectionUnfiltered(base, ops) == Written(base, ops, "selection")

\* replay_selected_task: a selected task must be active after the replay of
\* the task operations.
SelectionOf(base, ops) ==
  LET wanted == Written(base, ops, "selection") IN
  IF wanted \in Tasks /\ Written(base, ops, wanted) = "active"
  THEN wanted ELSE None

\* One projection: tasks, durations and automatic breaks first, the selection
\* over the tasks that are left (projection.rs project).
Project(base, ops) ==
  [s \in Slots |-> IF s = "selection" THEN SelectionOf(base, ops)
                                      ELSE Written(base, ops, s)]

\* The snapshot of a log (the server replays all of it).
Canonical(log) == Project(Defaults, log)
=============================================================================
