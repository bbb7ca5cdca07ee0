--------------------------- MODULE TimerBoundary ---------------------------
(***************************************************************************)
(* The raw workspace boundary of the timer (src/timer/workspace.rs): which *)
(* pairs of a canonical timer and history rows a replay accepts, and how   *)
(* it seeds the reducer's sessions from them.                              *)
(***************************************************************************)
EXTENDS TimerReducer

Snapshot ==
  [timer : Timers, task : Tasks \cup {None}, phase : Phases,
   status : Active \cup Ended, planned : Nat, elapsed : Nat, anchor : Int,
   intent : Intent \cup {None}]

Row ==
  [id : Timers \cup LegacyIds, timer : Timers, task : Tasks \cup {None},
   cmd : Nat \cup {None}, phase : Phases, status : Ended, planned : Nat,
   ended : Int \cup {None}, completed : Int \cup {None}]

ASSUME BoundaryAssumption == None \notin Snapshot

\* validate_history: one row per history id and per timer, and a terminal
\* instant in the field that the status asks for.
ValidHistory(rows) ==
  /\ \A r, q \in rows : r # q => r.id # q.id /\ r.timer # q.timer
  /\ \A r \in rows : IF r.status = "completed" THEN r.completed # None
                                               ELSE r.ended # None

\* A history id names its own session, never another one that is known here.
NoAlias(timer, rows) ==
  /\ \A r, q \in rows : r.id = q.timer => r.id = r.timer
  /\ timer # None =>
       \A r \in rows : r.id = timer.timer => r.timer = timer.timer

FullElapsed(timer) == timer.status = "completed" => timer.elapsed = timer.planned

\* validate_terminal_intent: the provenance a terminal status must have.
TerminalIntent(timer, terminalCmd) ==
  LET i     == timer.intent
      exact == terminalCmd = i.cmd
  IN  IF i = None THEN terminalCmd = None \/ timer.status = "superseded"
      ELSE \/ /\ \/ timer.status = "completed" /\ i.kind = "finish"
                 \/ timer.status = "cancelled" /\ i.kind = "cancel"
              /\ exact /\ i.at = timer.anchor
           \/ /\ timer.status = "completed" /\ i.kind \in {"start", "resume"}
              /\ terminalCmd = None /\ i.at <= timer.anchor
           \/ /\ timer.status = "superseded"
              /\ i.kind \in {"start", "pause", "resume"} /\ ~ exact

Standalone(timer) ==
  timer.status \in Ended =>
    /\ FullElapsed(timer)
    /\ TerminalIntent(timer,
         IF timer.intent # None /\ timer.intent.kind \in {"finish", "cancel"}
         THEN timer.intent.cmd ELSE None)

Matches(timer, r) ==
  /\ r.status = timer.status /\ r.phase = timer.phase
  /\ r.task = timer.task /\ r.planned = timer.planned
  /\ r.completed \in {None, timer.anchor} /\ r.ended \in {None, timer.anchor}
  /\ FullElapsed(timer)
  /\ timer.status # "completed" => r.completed = None
  /\ TerminalIntent(timer, r.cmd)

ValidPair(timer, rows) ==
  /\ timer # None => timer.elapsed <= timer.planned
  /\ ValidHistory(rows)
  /\ NoAlias(timer, rows)
  /\ timer # None =>
       /\ \A r \in rows : r.timer = timer.timer => Matches(timer, r)
       /\ (\A r \in rows : r.timer # timer.timer) => Standalone(timer)

-----------------------------------------------------------------------------
(* Seeding.                                                                *)

SessionFromHistory(r) ==
  LET at == IF r.status = "completed" THEN r.completed ELSE r.ended
  IN  [historyId |-> r.id, task |-> r.task, phase |-> r.phase,
       status |-> r.status, planned |-> r.planned,
       elapsed |-> IF r.status = "completed" THEN r.planned ELSE 0,
       anchor |-> at, ended |-> at, lastCmd |-> r.cmd, terminalCmd |-> r.cmd,
       supersededBy |-> None, intent |-> None]

\* session_from_canonical, corrected by canonical_session: the intent of a
\* timer that its deadline or another timer ended names no terminal command.
SessionFromCanonical(timer) ==
  LET over == timer.status \in Ended
      i    == timer.intent
      cmd  == IF i = None THEN None ELSE i.cmd
  IN  [historyId |-> timer.timer, task |-> timer.task, phase |-> timer.phase,
       status |-> timer.status, planned |-> timer.planned,
       elapsed |-> timer.elapsed, anchor |-> timer.anchor,
       ended |-> IF over THEN timer.anchor ELSE None, lastCmd |-> cmd,
       terminalCmd |-> IF over /\ i # None
                          /\ i.kind \notin {"start", "pause", "resume"}
                       THEN cmd ELSE None,
       supersededBy |-> None, intent |-> i]

\* The validated row owns the history id and the terminal command; the
\* canonical timer owns the elapsed time and the last intent.
SeedSession(timer, rows, t) ==
  LET own == {r \in rows : r.timer = t}
      row == SessionFromHistory(CHOOSE r \in own : TRUE)
  IN  IF timer = None \/ timer.timer # t
      THEN IF own = {} THEN None ELSE row
      ELSE IF own = {} THEN SessionFromCanonical(timer)
      ELSE [SessionFromCanonical(timer) EXCEPT
              !.historyId = row.historyId, !.terminalCmd = row.terminalCmd,
              !.ended = row.ended]

Seed(timer, rows) ==
  [sessions |-> [t \in Timers |-> SeedSession(timer, rows, t)],
   current |-> IF timer = None THEN None ELSE timer.timer,
   outcome |-> "applied"]
=============================================================================
