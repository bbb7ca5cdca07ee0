---------------------------- MODULE TimerReducer ----------------------------
(***************************************************************************)
(* The deterministic timer reducer (src/timer.rs) as operators on a        *)
(* reduction state: the sessions by timer and the current timer.           *)
(*                                                                         *)
(* An instant is an integer number of milliseconds.  A session keeps every *)
(* field that a handler reads or that the projection shows, except         *)
(* startedAt and startedByDeviceId, which no handler reads back.           *)
(***************************************************************************)
EXTENDS Integers

CONSTANTS
  Timers,     \* timer identifiers
  LegacyIds,  \* history identifiers that are not a timer's own identifier
  Tasks,      \* task identifiers
  None        \* the absent value of every optional field

Phases    == {"focus", "short_break", "long_break"}
Active    == {"running", "paused"}
Ended     == {"completed", "cancelled", "superseded"}
Kinds     == {"start", "pause", "resume", "finish", "cancel", "clear",
              "retarget", "unknown"}
Lifecycle == {"start", "pause", "resume", "finish", "cancel", "clear"}

Intent == [kind : Lifecycle, cmd : Nat, at : Int]

Session ==
  [historyId : Timers \cup LegacyIds, task : Tasks \cup {None}, phase : Phases,
   status : Active \cup Ended, planned : Nat, elapsed : Nat, anchor : Int,
   ended : Int \cup {None}, lastCmd : Nat \cup {None},
   terminalCmd : Nat \cup {None}, supersededBy : Timers \cup {None},
   intent : Intent \cup {None}]

Command ==
  [id : Nat, timer : Timers, task : Tasks \cup {None}, kind : Kinds,
   phase : Phases, planned : Nat, at : Int, observed : Int]

ASSUME ReducerAssumption ==
  None \notin Timers \cup LegacyIds \cup Tasks \cup Int \cup Session \cup Intent
             \cup Command

Outcomes == {"applied", "ignored", "rejected"}

Reduction ==
  [sessions : [Timers -> Session \cup {None}], current : Timers \cup {None},
   outcome : Outcomes]

Clamp(v, lo, hi) == IF v < lo THEN lo ELSE IF v > hi THEN hi ELSE v

IsActive(s) == s.status \in Active

Exists(st, t) == t # None /\ st.sessions[t] # None

-----------------------------------------------------------------------------
(* Elapsed focus time and the two transitions nobody asked the timer for.  *)

ElapsedAt(s, at) ==
  Clamp(s.elapsed + (IF at > s.anchor THEN at - s.anchor ELSE 0), 0, s.planned)

Deadline(s) ==
  s.anchor + (IF s.planned > s.elapsed THEN s.planned - s.elapsed ELSE 0)

\* Mutant: the deadline is recorded at the instant somebody noticed it.
AutoCompleteAtRead(s, at) ==
  IF s.status # "running" \/ ElapsedAt(s, at) < s.planned THEN s
  ELSE [s EXCEPT !.status = "completed", !.elapsed = s.planned,
                 !.anchor = at, !.ended = at]

AutoComplete(s, at) ==
  IF s.status # "running" \/ ElapsedAt(s, at) < s.planned THEN s
  ELSE [s EXCEPT !.status = "completed", !.elapsed = s.planned,
                 !.anchor = Deadline(s), !.ended = Deadline(s)]

AutoCompleteCurrent(st, at) ==
  IF ~ Exists(st, st.current) THEN st
  ELSE [st EXCEPT !.sessions[st.current] = AutoComplete(@, at)]

Supersede(s, at, replacement, cmd) ==
  [s EXCEPT !.elapsed = IF s.status = "running" THEN ElapsedAt(s, at) ELSE @,
            !.status = "superseded", !.anchor = at, !.ended = at,
            !.lastCmd = cmd, !.terminalCmd = cmd, !.supersededBy = replacement]

\* Mutant: a paused timer is left behind when another one takes over.
SupersedeRunning(st, c) ==
  IF Exists(st, st.current) /\ st.current # c.timer
                            /\ st.sessions[st.current].status = "running"
  THEN [st EXCEPT !.sessions[st.current] = Supersede(@, c.at, c.timer, c.id)]
  ELSE st

SupersedeActive(st, c) ==
  IF Exists(st, st.current) /\ st.current # c.timer
                            /\ IsActive(st.sessions[st.current])
  THEN [st EXCEPT !.sessions[st.current] = Supersede(@, c.at, c.timer, c.id)]
  ELSE st

-----------------------------------------------------------------------------
(* The handler of each command kind.  Each returns the whole next state.   *)

WithOutcome(st, o) == [st EXCEPT !.outcome = o]

CommandIntent(c) == [kind |-> c.kind, cmd |-> c.id, at |-> c.at]

StartedSession(c) ==
  [historyId |-> c.timer, task |-> c.task, phase |-> c.phase,
   status |-> "running", planned |-> c.planned, elapsed |-> 0,
   anchor |-> c.at, ended |-> None, lastCmd |-> c.id, terminalCmd |-> None,
   supersededBy |-> None, intent |-> CommandIntent(c)]

\* A start derives its history id from the timer id; a legacy session of
\* another timer may already own that history id.
HistoryIdTaken(st, t) ==
  \E u \in Timers \ {t} :
     st.sessions[u] # None /\ st.sessions[u].historyId = t

Start(st, c) ==
  IF HistoryIdTaken(st, c.timer) THEN WithOutcome(st, "rejected")
  ELSE [sessions |-> [SupersedeActive(st, c).sessions
                        EXCEPT ![c.timer] = StartedSession(c)],
        current |-> c.timer, outcome |-> "applied"]

\* Mutant: a retaken timer keeps the command that had ended it.
TransitionKeepingTerminal(s, c, status, elapsed) ==
  [s EXCEPT !.status = status, !.elapsed = elapsed, !.anchor = c.at,
            !.ended = IF status \in Ended THEN c.at ELSE None,
            !.lastCmd = c.id,
            !.terminalCmd = IF status \in Ended THEN c.id ELSE @,
            !.supersededBy = None, !.intent = CommandIntent(c)]

\* transition_session: what pause, resume, finish and cancel have in common.
Transition(s, c, status, elapsed) ==
  [s EXCEPT !.status = status, !.elapsed = elapsed, !.anchor = c.at,
            !.ended = IF status \in Ended THEN c.at ELSE None,
            !.lastCmd = c.id,
            !.terminalCmd = IF status \in Ended THEN c.id ELSE None,
            !.supersededBy = None, !.intent = CommandIntent(c)]

\* The target of pause, resume, finish and cancel becomes the current timer,
\* even when another timer was active: that timer is superseded.
Retake(st, c, status, elapsed) ==
  IF st.sessions[c.timer] = None THEN WithOutcome(st, "ignored")
  ELSE [sessions |-> [SupersedeActive(st, c).sessions
                        EXCEPT ![c.timer] = Transition(@, c, status, elapsed)],
        current |-> c.timer, outcome |-> "applied"]

\* Mutant: the device's own measure is believed, whatever it is.
ObservedUnchecked(st, c) == c.observed

Observed(st, c) == Clamp(c.observed, 0, st.sessions[c.timer].planned)

Activate(st, c) ==
  Retake(st, c, IF c.kind = "pause" THEN "paused" ELSE "running",
         Observed(st, c))

Terminate(st, c) ==
  IF c.kind = "finish"
  THEN Retake(st, c, "completed", st.sessions[c.timer].planned)
  ELSE Retake(st, c, "cancelled", Observed(st, c))

Clear(st, c) ==
  IF st.sessions[c.timer] = None THEN WithOutcome(st, "ignored")
  ELSE [sessions |-> [st.sessions EXCEPT ![c.timer].lastCmd = c.id,
                                         ![c.timer].intent = CommandIntent(c)],
        current |-> IF st.current = c.timer THEN None ELSE st.current,
        outcome |-> "applied"]

\* Task attribution is not a lifecycle intent: retarget keeps the intent.
Retarget(st, c) ==
  IF /\ Exists(st, c.timer) /\ st.current = c.timer
     /\ IsActive(st.sessions[c.timer])
     /\ st.sessions[c.timer].phase = "focus" /\ c.phase = "focus"
  THEN [st EXCEPT !.sessions[c.timer].task = c.task,
                  !.sessions[c.timer].lastCmd = c.id, !.outcome = "applied"]
  ELSE WithOutcome(st, "ignored")

Handle(st, c) ==
  CASE c.kind = "start"                -> Start(st, c)
    [] c.kind \in {"pause", "resume"}  -> Activate(st, c)
    [] c.kind \in {"finish", "cancel"} -> Terminate(st, c)
    [] c.kind = "clear"                -> Clear(st, c)
    [] c.kind = "retarget"             -> Retarget(st, c)
    [] OTHER                           -> WithOutcome(st, "rejected")

\* ReductionState::apply: the deadline of the current timer comes first.
Apply(st, c) == Handle(AutoCompleteCurrent(st, c.at), c)

-----------------------------------------------------------------------------
(* The projection: the canonical timer and the rows of the history.  The   *)
(* order of the rows (newest first) is left out.                           *)

Canonical(st) ==
  IF ~ Exists(st, st.current) THEN None
  ELSE LET s == st.sessions[st.current]
       IN  [timer |-> st.current, task |-> s.task, phase |-> s.phase,
            status |-> s.status, planned |-> s.planned,
            elapsed |-> Clamp(s.elapsed, 0, s.planned), anchor |-> s.anchor,
            intent |-> s.intent]

HistoryRow(t, s) ==
  [id |-> s.historyId, timer |-> t, task |-> s.task, cmd |-> s.terminalCmd,
   phase |-> s.phase, status |-> s.status, planned |-> s.planned,
   ended |-> s.ended,
   completed |-> IF s.status = "completed" THEN s.ended ELSE None]

History(st) ==
  {HistoryRow(t, st.sessions[t]) :
     t \in {u \in Timers : /\ st.sessions[u] # None
                           /\ st.sessions[u].status \in Ended}}

\* ReductionState::finish: what a reader sees at the instant now.
Projected(st, now) == AutoCompleteCurrent(st, now)
=============================================================================
