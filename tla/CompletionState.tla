-------------------------- MODULE CompletionState --------------------------
(***************************************************************************)
(* What a completed timer makes of the selected phase: the cadence of      *)
(* completion_plan.rs and the installation rules of                        *)
(* completion_plan/state.rs, which each client follows in its own way.     *)
(*                                                                         *)
(* A selection is [phase, generation, explicit].  An advance records that  *)
(* the finish cmd of timer moved the selection from one phase to another   *)
(* before any server knew of it; cmd is the place among the client's       *)
(* commands.  An installation is a record: the rows before and after, the  *)
(* canonical timer, what is still retained, the outcomes the server gave   *)
(* (acks, a function of command ids), and the last place of a command.  A  *)
(* PWA says with it what it knows of its own completions (lifecycle): it   *)
(* is "absent" from the requests of one that has not opted in, "plain", or *)
(* holds the "evidence" of its finishes.                                   *)
(***************************************************************************)
EXTENDS TimerBoundary, SequencesExt

CONSTANTS
  LongEvery,   \* every how many focuses the break is long (4 in the code)
  DayLength,   \* milliseconds of a civil day
  Generations  \* how many generations there are before they wrap (2^63)

ASSUME CompletionAssumption ==
  /\ LongEvery \in Nat \ {0} /\ DayLength \in Nat \ {0}
  /\ Generations \in Nat \ {0} /\ Timers \subseteq Nat

Selections == [phase : Phases, generation : 0 .. Generations - 1,
               explicit : BOOLEAN]

Advance == [cmd : Nat, timer : Timers, previous : Phases, advanced : Phases,
            generation : 0 .. Generations - 1]

-----------------------------------------------------------------------------
(* Replays.                                                                *)

Nothing == [timer |-> None, rows |-> {}]

\* The states after the first n commands of a line, those that ids leaves out
\* passed over.
Reducing(b, line, ids) ==
  LET st[n \in 0 .. Len(line)] ==
        IF n = 0 THEN Seed(b.timer, b.rows)
        ELSE IF line[n].id \in ids THEN Apply(st[n - 1], line[n]) ELSE st[n - 1]
  IN  st

Reduced(b, line, ids) == Reducing(b, line, ids)[Len(line)]

Shown(st) == [timer |-> Canonical(st), rows |-> History(st)]

-----------------------------------------------------------------------------
(* Cadence.                                                                *)

Day(at) == at \div DayLength

CompletedRows(rows) == {r \in rows : r.status = "completed"}

FocusCount(rows, day) ==
  Cardinality({r \in CompletedRows(rows) : r.phase = "focus"
                                           /\ Day(r.ended) = day})

BreakForCount(n) ==
  IF n > 0 /\ n % LongEvery = 0 THEN "long_break" ELSE "short_break"

PhaseAfter(phase, rows, day) ==
  IF phase = "focus" THEN BreakForCount(FocusCount(rows, day)) ELSE "focus"

\* A skipped focus counts as if it had been completed.
PhaseSkipped(phase, rows, day) ==
  CASE phase # "focus" -> "focus"
    [] FocusCount(rows, day) % LongEvery = LongEvery - 1 -> "long_break"
    [] OTHER -> "short_break"

\* They wrap.
NextGeneration(g) == IF g = Generations - 1 THEN 0 ELSE g + 1
PreviousGeneration(g) == IF g = 0 THEN Generations - 1 ELSE g - 1

-----------------------------------------------------------------------------
(* Rollback of advances (completion_plan/state/rollback.rs).               *)

\* The installed state holds exactly this finish.
Exact(p, a, in) ==
  \/ \E r \in CompletedRows(in.after) :
       /\ r.timer = a.timer /\ r.cmd = a.cmd
       /\ p = "apple" \/ r.phase = a.previous
  \/ /\ in.timer # None /\ in.timer.timer = a.timer
     /\ in.timer.status = "completed"
     /\ p = "apple" \/ in.timer.phase = a.previous
     /\ in.timer.intent # None /\ in.timer.intent.cmd = a.cmd
     /\ p = "apple" => in.timer.intent.kind = "finish"

Acked(a, in) == a.cmd \in DOMAIN in.acks

Resolved(p, a, in) ==
  Acked(a, in) \/ (p = "desktop" /\ a.cmd \in in.discarded)

\* Mutant: an applied finish is good, whatever was installed with it.
InvalidUnlessApplied(p, a, in) ==
  Resolved(p, a, in) /\ Acked(a, in) /\ in.acks[a.cmd] = "rejected"

Invalid(p, a, in) ==
  /\ Resolved(p, a, in)
  /\ IF p = "apple" THEN in.acks[a.cmd] = "rejected" \/ ~ Exact(p, a, in)
     ELSE /\ ~ Exact(p, a, in)
          /\ a.cmd \in in.discarded \/ in.acks[a.cmd] # "applied"

\* Mutant: whatever the user chose since, the old phase comes back.
RestoreUnfenced(p, sel, a) ==
  IF sel.phase # a.advanced THEN sel
  ELSE [sel EXCEPT !.phase = a.previous,
          !.generation = IF p = "apple" THEN PreviousGeneration(@) ELSE @]

\* retire: an invalid advance gives its phase back if it is still in force.
Restore(p, sel, a) ==
  IF sel.generation # a.generation \/ sel.phase # a.advanced THEN sel
  ELSE [sel EXCEPT !.phase = a.previous,
          !.generation = IF p = "apple" THEN PreviousGeneration(@) ELSE @]

\* What is undone.  On Apple an advance stands on those before it.
Undone(p, in) ==
  {a \in in.advances :
     IF p = "apple" THEN \E b \in in.advances : b.cmd <= a.cmd /\ Invalid(p, b, in)
                    ELSE Invalid(p, a, in)}

Unresolved(p, in) ==
  {a \in in.advances : ~ Resolved(p, a, in)} \ Undone(p, in)

\* The k-th command was a finish whose advance is undone.
RestoreAt(p, sel, k, in) ==
  LET due == {a \in Undone(p, in) : a.cmd = k}
  IN  IF due = {} THEN sel ELSE Restore(p, sel, CHOOSE a \in due : TRUE)

-----------------------------------------------------------------------------
(* Apple and the desktop look for the latest completion (state.rs).        *)

SameCompletion(b, r) ==
  /\ b.status = "completed" /\ b.timer = r.timer
  /\ b.phase = r.phase /\ b.cmd = r.cmd

Newest(in) ==
  {r \in CompletedRows(in.after) :
     \A q \in CompletedRows(in.after) : q.ended <= r.ended}

Latest(p, in) ==
  LET open == {r \in Newest(in) :
                 p = "apple" \/ ~ \E b \in in.before : SameCompletion(b, r)}
  IN  CASE open = {}   -> None
        [] p = "apple" -> CHOOSE r \in open : \A q \in open : q.timer <= r.timer
        [] OTHER       -> CHOOSE r \in open : \A q \in open : r.timer <= q.timer

InUse(timer) == timer # None /\ timer.status \in Active

\* Mutant: the installation does not ask whether the user has chosen.
BlockedUnlessChosen(p, in) ==
  InUse(in.timer) \/ (p = "apple" /\ in.pending # {})

\* pending holds the retained rows; of the desktop, only those it may send.
Blocked(p, in) ==
  \/ InUse(in.timer)
  \/ p = "apple" /\ (in.pending # {} \/ in.selection.explicit)
  \/ p = "desktop" /\ (Unresolved(p, in) # {} \/ in.pending # {} \/ in.other)

\* Apple goes by the day it is, the desktop by the phase that is selected.
Selects(p, row, sel, in) ==
  IF p = "apple" THEN Day(row.ended) = Day(in.reference)
  ELSE sel.phase = row.phase

\* sel: the selection with the advances rolled back.
LatestInstall(p, sel, in) ==
  LET row == Latest(p, in)
  IN  IF Blocked(p, in) \/ row = None \/ ~ Selects(p, row, sel, in) THEN sel
      ELSE [sel EXCEPT !.phase = PhaseAfter(row.phase, in.after, Day(row.ended))]

-----------------------------------------------------------------------------
(* Android looks at the finishes of the request (state/sent.rs).           *)

\* The answered finish that was made as the n-th command, if any.
Finishes(cmds, n, in) ==
  {c \in cmds : c.id = n /\ c.kind = "finish" /\ n \in DOMAIN in.acks}

RowsOf(t, in) == {r \in CompletedRows(in.after) : r.timer = t}

\* The day a finish is counted on.
ReferenceAt(c, in) ==
  LET rows == {r \in RowsOf(c.timer, in) : r.cmd \in {None, c.id}}
  IN  CASE rows # {} -> (CHOOSE r \in rows : TRUE).ended
        [] in.timer # None /\ in.timer.timer = c.timer
             /\ in.timer.status = "completed" -> in.timer.anchor
        [] OTHER -> c.at

AndroidPhase(c, phase, in) ==
  CASE RowsOf(c.timer, in) # {} ->
         PhaseAfter(c.phase, in.after, Day(ReferenceAt(c, in)))
    [] RowsOf(c.timer, in) = {} /\ in.acks[c.id] # "applied" ->
         IF in.timer # None /\ in.timer.timer = c.timer THEN in.timer.phase
                                                       ELSE c.phase
    [] OTHER ->
         IF in.next # None /\ in.next.intent # None /\ in.next.intent.cmd = c.id
         THEN in.next.phase ELSE phase

\* Mutant: only the phase tells whether the user has chosen since.
ChosenByPhase(in) == in.captured.phase # in.selection.phase

ChosenSinceSend(in) ==
  \/ in.captured.phase # in.selection.phase
  \/ in.captured.generation # in.selection.generation

AndroidAt(sel, k, in) ==
  LET due == Finishes(in.sent, k, in)
  IN  IF due = {} \/ ChosenSinceSend(in) THEN sel
      ELSE [sel EXCEPT !.phase = AndroidPhase(CHOOSE c \in due : TRUE, @, in)]

-----------------------------------------------------------------------------
(* The PWA undoes rejected finishes and consumes what it has not seen      *)
(* complete (state/sent.rs, state/pwa.rs).                                 *)

Completion(t, cmd, phase) == [timer |-> t, cmd |-> cmd, phase |-> phase]

NaturalConsumed(t, phase, in) ==
  \/ Completion(t, None, phase) \in in.consumed
  \/ \E b \in CompletedRows(in.before) :
       b.timer = t /\ b.phase = phase /\ b.cmd = None

\* A choice, and a completion whose finish was discharged, stand.  Without a
\* lifecycle nothing does.
Protected(t, phase, in) ==
  /\ in.lifecycle # "absent"
  /\ \/ in.selection.explicit
     \/ /\ in.lifecycle = "evidence"
        /\ Completion(t, None, phase) \in in.consumed
        /\ \E i \in in.consumed : i.timer = t /\ i.phase = phase /\ i.cmd # None

CompletedNow(t, phase, in) ==
  /\ in.timer # None /\ in.timer.timer = t
  /\ in.timer.phase = phase /\ in.timer.status = "completed"

Natural(timer, row) ==
  /\ row.cmd = None /\ timer.intent # None
  /\ timer.intent.kind \in {"start", "resume"}

RowNow(in) == CHOOSE r \in in.after : r.timer = in.timer.timer

AfterRow(row, in) ==
  IF in.selection.explicit \/ in.selection.phase # row.phase
  THEN in.selection.phase
  ELSE PhaseAfter(row.phase, in.after, Day(row.ended))

\* pwa_phase: a rejected finish gives its phase back if nobody has moved on.
RejectedPhase(c, phase, in) ==
  IF in.acks[c.id] = "rejected"
     /\ phase = PhaseAfter(c.phase, in.optimistic, Day(c.at))
  THEN c.phase ELSE phase

\* Mutant: a late answer is believed over what the user has chosen.
PwaPhaseUnprotected(c, phase, in) ==
  CASE CompletedNow(c.timer, c.phase, in) /\ Natural(in.timer, RowNow(in)) ->
         AfterRow(RowNow(in), in)
    [] OTHER -> RejectedPhase(c, phase, in)

PwaPhase(c, phase, in) ==
  CASE Protected(c.timer, c.phase, in) -> in.selection.phase
    [] CompletedNow(c.timer, c.phase, in)
         /\ NaturalConsumed(c.timer, c.phase, in) -> in.selection.phase
    [] CompletedNow(c.timer, c.phase, in)
         /\ ~ NaturalConsumed(c.timer, c.phase, in)
         /\ ~ Protected(c.timer, c.phase, in)
         /\ Natural(in.timer, RowNow(in)) -> AfterRow(RowNow(in), in)
    [] OTHER -> RejectedPhase(c, phase, in)

\* exact_completion: how the current timer was completed is in its history.
ExactCompletion(timer, row) ==
  \/ Natural(timer, row)
  \/ /\ timer.intent # None /\ timer.intent.kind = "finish"
     /\ row.cmd = timer.intent.cmd

\* Whether an installation shows a completion that was not consumed yet.
Unseen(in) ==
  /\ in.timer # None /\ in.timer.status = "completed"
  /\ ~ \E c \in in.queued : c.kind = "finish" /\ c.timer = in.timer.timer
  /\ in.pending = {} /\ ~ in.other
  /\ \E r \in in.after : r.timer = in.timer.timer
  /\ ExactCompletion(in.timer, RowNow(in))
  /\ ~ \E i \in in.consumed : i.timer = in.timer.timer
                              /\ i.phase = in.timer.phase
  /\ ~ \E b \in CompletedRows(in.before) : b.timer = in.timer.timer
                                           /\ b.phase = in.timer.phase

PwaConsumed(in) ==
  IF Unseen(in)
  THEN in.consumed \cup {Completion(in.timer.timer, RowNow(in).cmd, in.timer.phase)}
  ELSE in.consumed

PwaAt(sel, k, in) ==
  LET due == Finishes(in.queued, k, in)
  IN  IF due = {} THEN sel
      ELSE [sel EXCEPT !.phase = PwaPhase(CHOOSE c \in due : TRUE, @, in)]

\* sel: the selection that the answered finishes leave.
PwaInstall(sel, in) ==
  IF Unseen(in) /\ ~ sel.explicit /\ sel.phase = RowNow(in).phase
  THEN [sel EXCEPT !.phase =
          PhaseAfter(sel.phase, in.after, Day(in.timer.anchor))]
  ELSE sel

-----------------------------------------------------------------------------
(* An installation.                                                        *)

\* What the k-th command makes of the selection.
ResolveAt(p, sel, k, in) ==
  CASE p = "android" -> AndroidAt(sel, k, in)
    [] p = "pwa"     -> PwaAt(sel, k, in)
    [] OTHER         -> RestoreAt(p, sel, k, in)

\* One command after the other, on Apple and in the PWA the last one first:
\* the selection after n of them.
Resolving(p, in) ==
  LET sel[n \in 0 .. in.last] ==
        IF n = 0 THEN in.selection
        ELSE ResolveAt(p, sel[n - 1],
                       IF p \in {"apple", "pwa"} THEN in.last + 1 - n ELSE n, in)
  IN  sel

\* The selection and the advances that an installation leaves.
Installed(p, in) ==
  LET sel == Resolving(p, in)[in.last]
  IN  CASE p = "android" -> [selection |-> sel, advances |-> {}]
        [] p = "pwa"     -> [selection |-> PwaInstall(sel, in), advances |-> {}]
        [] OTHER         -> [selection |-> LatestInstall(p, sel, in),
                             advances |-> Unresolved(p, in)]
=============================================================================
