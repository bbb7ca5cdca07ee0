---------------------------- MODULE Preferences ----------------------------
(***************************************************************************)
(* Devices whose users edit tasks and preferences, a server that keeps the *)
(* log, and what every device shows meanwhile: its last snapshot with the  *)
(* part of its retained operations that may be replayed over it.           *)
(*                                                                         *)
(* Which part that is depends on the host.  Most hosts use the delivery    *)
(* policy (reconciliation/delivery.rs): a queue is replayed if all of it   *)
(* was provably never sent and is later than the server's clock.  The PWA  *)
(* keeps a display context (reconciliation/workspace/display.rs): the rows *)
(* it already showed stay, others join under the same conditions.          *)
(*                                                                         *)
(* User intents are planned by workspace_intent/mutation.rs, while no timer *)
(* is active: a timer would add retarget and clear commands, which are not *)
(* in these queues.  A host serialises its requests.  A claim is one of    *)
(* them; an empty request asks for a snapshot only.  A request may reach   *)
(* the server more than once and its answer may be lost.                   *)
(***************************************************************************)
EXTENDS PreferenceReducer, Sequences

CONSTANTS
  Profiles,  \* the hosts that the devices may be; the others do nothing
             \* and for each of them:
  Intents,   \* what users want
  Legacy,    \* operations that devices may retain from before the model starts
  MaxOps,    \* bound on the operations in the model
  LastStamp, \* bound on their clock values
  MaxLead    \* bound on how far timer commands moved the server's clock ahead

Hosts == {"apple", "android", "desktop", "pwa"}

Intent ==
  [kind : {"selectTask"}, task : Tasks \cup {None}]
  \cup [kind : {"upsertTask", "addAndSelectTask", "deleteTask"}, task : Tasks]
  \cup [kind : {"renameTask"}, task : Tasks, new : Tasks]
  \cup [kind : {"setDuration"}, phase : Phases, value : Durations]
  \cup [kind : {"setAutoStart"}, value : {"on", "off"}]

ASSUME ProfileAssumption ==
  Profiles \subseteq UNION {[D -> Hosts] : D \in SUBSET Devices}
ASSUME IntentsAssumption == Intents \in [Profiles -> SUBSET Intent]
ASSUME LegacyAssumption ==
  /\ Legacy \in [Profiles -> SUBSET {o \in Operation : o.value \in Choices(o.slot)}]
  /\ \A P \in Profiles :
       /\ IsFiniteSet(Legacy[P])
       /\ \A o, p \in Legacy[P] : o.hlc = p.hlc /\ o.device = p.device => o = p
ASSUME MaxAssumption ==
  /\ MaxOps \in [Profiles -> Nat] /\ MaxLead \in [Profiles -> Nat]
  /\ LastStamp \in [Profiles -> 0 .. MaxStamp]

VARIABLES
  Profile,  \* the host of each device in use (Compatibility)
  log,      \* operations the server has
  queue,    \* operations a device retains
  unsent,   \* those with a proof that they never left
  claim,    \* the saved claim, {} when there is none
  display,  \* stored display records of a PWA
  base,     \* canonical snapshot a device holds
  head,     \* server clock that came with it, None before the first one
  clock,    \* greatest clock value a device used or saw
  answer,   \* answer in flight to the device, None when there is none
  seen,     \* history: the log behind base
  clean     \* history: PWAs that started with nothing hidden

deviceVars == <<Profile, queue, unsent, claim, display, base, head, clock, seen,
                clean>>
vars == <<log, answer, deviceVars>>

Active == DOMAIN Profile

Pwa == {d \in Active : Profile[d] = "pwa"}

Answer == [log : SUBSET Operation, head : 0 .. MaxStamp]

Greatest(ops) == IF ops = {} THEN 0
                 ELSE CHOOSE h \in {o.hlc : o \in ops} : \A o \in ops : o.hlc <= h

Larger(a, b) == IF a >= b THEN a ELSE b

-----------------------------------------------------------------------------
\* Mutant: a tie with the head is good enough.
AtLeastHead(o, h) == h # None /\ o.hlc >= h

\* A clock value beats the head; without a head nothing does.
AboveHead(o, h) == h # None /\ o.hlc > h

\* delivery.rs projectable: a domain is replayed as a whole or not at all.
Projectable(ops, proven, h) ==
  {o \in ops : \A p \in ops : SameDomain(o, p) => p \in proven /\ AboveHead(p, h)}

\* Mutant: every row for itself, instead of the whole domain.
FreshSingly(ops, proven, h, stored) ==
  {o \in ops \ stored : o \in proven /\ (h = None \/ AboveHead(o, h))}

\* display.rs fresh_records: rows that join the stored ones, all of a domain
\* or none.  Here the absence of a head stops nothing.
Fresh(ops, proven, h, stored) ==
  LET others == ops \ stored IN
  {o \in others : \A p \in others :
     SameDomain(o, p) => p \in proven /\ (h = None \/ AboveHead(p, h))}

\* display.rs queues.
Displayed(ops, proven, h, stored) == stored \cup Fresh(ops, proven, h, stored)

\* The operations device d replays over its snapshot.
Replayed(d) ==
  IF d \in Pwa THEN Displayed(queue[d], unsent[d], head[d], display[d])
               ELSE Projectable(queue[d], unsent[d], head[d])

\* What device d shows (workspace.project.v1).
Shown(d) == Project(base[d], Replayed(d))
-----------------------------------------------------------------------------
Init ==
  /\ Profile \in Profiles
  /\ queue \in [Devices -> SUBSET Legacy[Profile]]
  /\ \A d \in Devices : \A o \in queue[d] : o.device = d
  /\ unsent \in [Devices -> SUBSET Legacy[Profile]]
  /\ \A d \in Devices : unsent[d] \subseteq queue[d]
  /\ display \in [Devices -> SUBSET Legacy[Profile]]
  /\ \A d \in Devices : display[d] \subseteq (IF d \in Pwa THEN queue[d] ELSE {})
  /\ log \in SUBSET UNION {queue[d] \ unsent[d] : d \in Devices}
  /\ claim = [d \in Devices |-> {}]
  /\ base = [d \in Devices |-> Defaults]
  /\ head = [d \in Devices |-> None]
  /\ clock = [d \in Devices |-> Greatest(queue[d])]
  /\ answer = [d \in Devices |-> None]
  /\ seen = [d \in Devices |-> {}]
  /\ clean = {d \in Pwa : display[d] = queue[d]}

\* What the planner of an intent looks at (projection.rs entrypoint).  Some
\* hosts show it all they retain, whatever they display.
Before(d) ==
  IF Profile[d] = "android" \/ (Profile[d] = "desktop" /\ head[d] = None)
  THEN Project(base[d], queue[d]) ELSE Shown(d)

ActiveFor(d, t) == Before(d)[t] = "active"

\* A selected task is active in what the planner sees or, where the host keeps
\* complete queues, in their replay (admission.rs validate_selection_task).
Selectable(d, t) ==
  \/ ActiveFor(d, t)
  \/ /\ Profile[d] \in {"desktop", "pwa"}
     /\ Project(base[d], queue[d])[t] = "active"

Write(s, v) == [slot |-> s, value |-> v]

\* mutation.rs select: nothing when it is selected already, except on desktop.
SelectWrites(d, t) ==
  IF Before(d)["selection"] # t \/ Profile[d] = "desktop"
  THEN <<Write("selection", t)>> ELSE <<>>

\* mutation.rs delete: a selection goes with its task, except on the PWA.
DeleteWrites(d, t) ==
  <<Write(t, "deleted")>>
    \o (IF Before(d)["selection"] = t /\ Profile[d] # "pwa"
        THEN <<Write("selection", None)>> ELSE <<>>)

\* Mutant: the new task is not written when the old one is renamed.
RenameWritesOnlyOld(d, t, u) ==
  <<Write(t, "deleted")>>
    \o (IF Before(d)["selection"] = t THEN <<Write("selection", u)>> ELSE <<>>)

\* mutation.rs rename: the new task first, then the old one leaves, and the
\* selection follows.
RenameWrites(d, t, u) ==
  (IF ActiveFor(d, u) THEN <<>> ELSE <<Write(u, "active")>>)
    \o <<Write(t, "deleted")>>
    \o (IF Before(d)["selection"] = t THEN <<Write("selection", u)>> ELSE <<>>)

\* What an Apple host compares a switch with: its last retained operation.
SwitchFor(d) ==
  IF Profile[d] = "apple" /\ Touched(queue[d], "auto")
  THEN Winner(queue[d], "auto").value ELSE Before(d)["auto"]

\* The operations of an intent, in the order they are allocated; none when the
\* intent changes nothing.
Writes(d, i) ==
  CASE i.kind = "selectTask" -> SelectWrites(d, i.task)
    [] i.kind = "upsertTask" -> <<Write(i.task, "active")>>
    [] i.kind = "addAndSelectTask" ->
         IF ActiveFor(d, i.task) THEN SelectWrites(d, i.task)
         ELSE <<Write(i.task, "active"), Write("selection", i.task)>>
    [] i.kind = "deleteTask" -> DeleteWrites(d, i.task)
    [] i.kind = "renameTask" -> RenameWrites(d, i.task, i.new)
    [] i.kind = "setDuration" ->
         IF Profile[d] = "pwa" /\ Before(d)[i.phase] = i.value THEN <<>>
         ELSE <<Write(i.phase, i.value)>>
    [] i.kind = "setAutoStart" ->
         IF Profile[d] # "desktop" /\ SwitchFor(d) = i.value THEN <<>>
         ELSE <<Write("auto", i.value)>>

\* Intents the planner does not refuse outright.  An Android host names the
\* change of a duration, not its new value; both end in a row here.  A desktop may delete a task
\* that it remembers without showing it (known_tasks.rs).
Accepted(d, i) ==
  CASE i.kind = "selectTask" -> i.task \in Tasks => Selectable(d, i.task)
    [] i.kind = "addAndSelectTask" -> Profile[d] # "apple"
    [] i.kind = "deleteTask" -> ActiveFor(d, i.task) \/ Profile[d] = "desktop"
    [] i.kind = "renameTask" -> ActiveFor(d, i.task) /\ i.task # i.new
    [] OTHER -> TRUE

\* The operations with their clocks: one tick each, the first one at h.
Group(d, writes, h) ==
  {[slot |-> writes[k].slot, value |-> writes[k].value, hlc |-> h + k - 1,
    device |-> d] : k \in 1 .. Len(writes)}

\* Rows a new duration makes superfluous (superseded_durations): provably
\* unsent ones of the phase.  A PWA leaves those of other tabs alone.
Superseded(d, i) ==
  LET rows == {o \in unsent[d] : i.kind = "setDuration" /\ o.slot = i.phase} IN
  IF d \in Pwa THEN SUBSET rows ELSE {rows}

\* admission.rs group: replayed over all that is retained, every operation of
\* the group wins and says what holds then.
Admitted(d, group, ops) ==
  \A o \in group : Wins(o, ops) /\ Project(base[d], ops)[o.slot] = o.value

\* allocation.rs tick.
Ticked(d, h) == h > clock[d]

\* A user intent: planned, admitted, stored.  A PWA also stores what it shows
\* from then on (persist_result).
Edit(d) ==
  \E i \in Intents[Profile], h \in Stamps :
    LET writes == Writes(d, i)
        group == Group(d, writes, h)
        last == h + Len(writes) - 1 IN
    \E retired \in Superseded(d, i) :
      LET ops == (queue[d] \ retired) \cup group
          proven == (unsent[d] \ retired) \cup group IN
      /\ Accepted(d, i) /\ writes # <<>>
      /\ Ticked(d, h) /\ last <= LastStamp[Profile]
      /\ Cardinality(log \cup UNION {queue[c] : c \in Devices}) + Len(writes)
           <= MaxOps[Profile]
      /\ Admitted(d, group, ops)
      /\ clock' = [clock EXCEPT ![d] = last]
      /\ queue' = [queue EXCEPT ![d] = ops]
      /\ unsent' = [unsent EXCEPT ![d] = proven]
      /\ display' = IF d \in Pwa
                    THEN [display EXCEPT ![d] =
                            Displayed(ops, proven, head[d], @ \cap ops)]
                    ELSE display
      /\ UNCHANGED <<Profile, log, answer, claim, base, head, seen, clean>>

\* A batch: the first operations of some queues.  Their proofs are retired in
\* the same transaction.
Claim(d) ==
  /\ claim[d] = {} /\ answer[d] = None
  /\ \E batch \in SUBSET queue[d] :
       /\ batch # {}
       /\ \A o \in batch, p \in queue[d] :
            SameDomain(o, p) /\ Later(o, p) => p \in batch
       /\ claim' = [claim EXCEPT ![d] = batch]
       /\ unsent' = [unsent EXCEPT ![d] = @ \ batch]
  /\ UNCHANGED <<Profile, log, answer, queue, display, base, head, clock, seen,
                 clean>>

\* The server takes a request, perhaps once more, and answers with a snapshot.
\* Its clock has passed every operation; timer commands may move it further.
Serve(d) ==
  /\ d \in Active /\ answer[d] = None
  /\ log' = log \cup claim[d]
  /\ \E lead \in 0 .. MaxLead[Profile] :
       LET h == Greatest(log') + lead IN
       h <= LastStamp[Profile] /\ answer' = [answer EXCEPT ![d] = [log |-> log', head |-> h]]
  /\ UNCHANGED deviceVars

\* The answer is lost.
Lose(d) ==
  /\ answer[d] # None
  /\ answer' = [answer EXCEPT ![d] = None]
  /\ UNCHANGED <<log, deviceVars>>

\* Mutant: after an acknowledgement the context starts afresh.
ContextRebuilt(ops, proven, h, before) == Displayed(ops, proven, h, {})

\* Mutant: the stored context is kept as it was.
ContextKept(ops, proven, h, before) == before

\* terminal.rs display_after: the records shown before, as far as they are
\* still retained, and those that may join now.
ContextAfter(ops, proven, h, before) ==
  Displayed(ops, proven, h, before \cap ops)

\* Mutant: an acknowledgement removes everything about its slot.
UnacknowledgedSlots(ops, batch) ==
  {o \in ops : \A p \in batch : p.slot # o.slot}

\* Mutant: acknowledged operations are kept for another retry.
Unremoved(ops, batch) == ops

\* acknowledgements.rs filter_pending: by identity.
Unacknowledged(ops, batch) == ops \ batch

\* reconcile.rebase: acknowledged operations leave the queue, the snapshot and
\* its head come in.  Every operation of a claim is acknowledged.
Receive(d) ==
  LET ans == answer[d]
      left == Unacknowledged(queue[d], claim[d])
      before == Displayed(queue[d], unsent[d], ans.head, display[d]) IN
  /\ ans # None
  /\ answer' = [answer EXCEPT ![d] = None]
  /\ queue' = [queue EXCEPT ![d] = left]
  /\ unsent' = [unsent EXCEPT ![d] = @ \cap left]
  /\ claim' = [claim EXCEPT ![d] = {}]
  /\ display' = IF d \in Pwa
                THEN [display EXCEPT ![d] =
                        ContextAfter(left, unsent[d] \cap left, ans.head, before)]
                ELSE display
  /\ base' = [base EXCEPT ![d] = Canonical(ans.log)]
  /\ head' = [head EXCEPT ![d] = ans.head]
  /\ clock' = [clock EXCEPT ![d] = Larger(@, ans.head)]
  /\ seen' = [seen EXCEPT ![d] = ans.log]
  /\ UNCHANGED <<Profile, log, clean>>

Next == \E d \in Active : Edit(d) \/ Claim(d) \/ Serve(d) \/ Lose(d) \/ Receive(d)

Spec == Init /\ [][Next]_vars

\* Sync is started again and again, and an answer arrives at last.
Fairness ==
  \A d \in Devices :
    SF_vars(Claim(d)) /\ WF_vars(Serve(d)) /\ SF_vars(Receive(d))

FairSpec == Spec /\ Fairness

-----------------------------------------------------------------------------
(* Type correctness.                                                       *)
TypeOK ==
  /\ Profile \in Profiles
  /\ log \subseteq Operation
  /\ queue \in [Devices -> SUBSET Operation]
  /\ unsent \in [Devices -> SUBSET Operation]
  /\ claim \in [Devices -> SUBSET Operation]
  /\ display \in [Devices -> SUBSET Operation]
  /\ base \in [Devices -> View]
  /\ head \in [Devices -> (0 .. MaxStamp) \cup {None}]
  /\ clock \in [Devices -> 0 .. MaxStamp]
  /\ answer \in [Devices -> Answer \cup {None}]
  /\ seen \in [Devices -> SUBSET Operation]
  /\ clean \subseteq Pwa

\* A selection that only a retained operation can bring back: the snapshot
\* dropped it with its task, and the retained operations add the task again.
Revived(d) ==
  LET whole == Canonical(seen[d] \cup Replayed(d)) IN
  /\ Shown(d)["selection"] = None
  /\ base[d]["selection"] = None
  /\ ~ Touched(Replayed(d), "selection")
  /\ Touched(Replayed(d), whole["selection"])

(* Under the delivery policy a device previews honestly: it shows what the *)
(* server would show if the replayed operations arrived next, and of the   *)
(* others nothing.  A head that ties with an operation would break it      *)
(* ("Older and possibly delivered work ... does not overwrite the newer    *)
(* canonical snapshot", IMMUTABLE_RECONCILIATION.md).  The one difference  *)
(* is a selection that the snapshot lost together with its task: a replay  *)
(* over the snapshot cannot bring it back, a replay of the log would.      *)
HonestPreview ==
  \A d \in Devices \ Pwa :
    LET whole == Canonical(seen[d] \cup Replayed(d)) IN
    \A s \in Slots :
      \/ Shown(d)[s] = whole[s]
      \/ s = "selection" /\ Revived(d)

\* The selection of a snapshot and of a display names an active task.
SelectionActive ==
  \A d \in Devices : \A v \in {base[d], Shown(d)} :
    v["selection"] # None => v[v["selection"]] = "active"

\* The display context of a PWA holds nothing but retained operations.
ContextRetained == \A d \in Pwa : display[d] \subseteq queue[d]

(* Whatever is projected can be projected over: the state is well typed, no *)
(* selection outlives its task, as the next projection demands              *)
(* (projection.rs validate_base_selected_task refuses another base), and no *)
(* acknowledgement leaves a record behind in the display context, which     *)
(* would make every later call fail (display.rs validate_stored).           *)
Consistent == TypeOK /\ SelectionActive /\ ContextRetained

(* A PWA that hid nothing at first never hides an edit: whatever is claimed, *)
(* overtaken by other devices or acknowledged, every retained operation is  *)
(* shown (PWA_DISPLAY_CONTEXT.md, CORE-PWA07).                              *)
NothingHidden == \A d \in clean : display[d] = queue[d]

\* Rows that a newer one of the same slot, written now, replaced before they
\* were ever sent.
Replaced(d) ==
  {o \in unsent[d] : \E p \in queue'[d] \ queue[d] : p.slot = o.slot /\ Later(p, o)}

(* What a PWA shows of its own edits stays until the server has it, and     *)
(* rows join only so that all rows of their domain are shown then: "hiding  *)
(* a domain barrier invents a winner" (display.rs).                         *)
DisplayStep ==
  [][\A d \in Pwa :
       /\ display[d] \ display'[d] \subseteq (claim[d] \cap seen'[d]) \cup Replaced(d)
       /\ \A o \in display'[d] \ display[d], p \in queue'[d] :
            SameDomain(o, p) => p \in display'[d]]_vars

(* An edit leaves the device only together with the snapshot that contains *)
(* it, or unsent for a newer edit of the same slot: none is lost by a late *)
(* or a lost answer, and none is missing from what the device shows in     *)
(* between.                                                                *)
NothingLost ==
  [][\A d \in Devices :
       queue[d] \ queue'[d] \subseteq (log' \cap seen'[d]) \cup Replaced(d)]_vars

(* A user is never refused what the display offers: if nothing retained is *)
(* hidden from the planner, the group of any intent it accepts wins the    *)
(* replay of the whole retained ledger (admission.rs "workspace group      *)
(* failed retained-ledger admission" is for hidden rows only).             *)
OfferedIsAdmitted ==
  \A d \in Active :
    Before(d) = Project(base[d], queue[d]) =>
      \A i \in {j \in Intents[Profile] : Accepted(d, j)} :
        LET writes == Writes(d, i) IN
        \A retired \in Superseded(d, i), h \in {k \in Stamps : Ticked(d, k)} :
          LET group == Group(d, writes, h) IN
          Admitted(d, group, (queue[d] \ retired) \cup group)

(* When the users stop, everything is delivered and all devices show the    *)
(* same: what a replay of all operations gives.                             *)
Converges ==
  <>[](\A d \in Active : queue[d] = {} /\ Shown(d) = Canonical(log))
=============================================================================
