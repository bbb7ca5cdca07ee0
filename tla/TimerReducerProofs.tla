------------------------- MODULE TimerReducerProofs -------------------------
(***************************************************************************)
(* Lemmas about the operators of the timer reducer: their types, and what  *)
(* a handler may do to the sessions.  Every proof about a system that      *)
(* replays timer commands rests on them.                                   *)
(***************************************************************************)
EXTENDS TimerBoundary, TLAPS, WellFoundedInduction

-----------------------------------------------------------------------------
(* Types of the pure operators.                                            *)

LEMMA ClampType ==
  ASSUME NEW v \in Int, NEW hi \in Nat
  PROVE  Clamp(v, 0, hi) \in Nat /\ Clamp(v, 0, hi) <= hi
  BY DEF Clamp

LEMMA ElapsedType ==
  ASSUME NEW s \in Session, NEW at \in Int
  PROVE  ElapsedAt(s, at) \in Nat /\ Deadline(s) \in Int
<1>1. s.elapsed \in Nat /\ s.planned \in Nat /\ s.anchor \in Int
  BY DEF Session
<1> DEFINE v == s.elapsed + (IF at > s.anchor THEN at - s.anchor ELSE 0)
<1>2. v \in Int
  BY <1>1
<1>3. ElapsedAt(s, at) = Clamp(v, 0, s.planned)
  BY DEF ElapsedAt
<1>4. Deadline(s) \in Int
  BY <1>1 DEF Deadline
<1> HIDE DEF v
<1> QED
  BY <1>1, <1>2, <1>3, <1>4, ClampType

LEMMA AutoCompleteType ==
  ASSUME NEW s \in Session, NEW at \in Int
  PROVE  AutoComplete(s, at) \in Session
<1>1. Deadline(s) \in Int
  BY ElapsedType
<1>2. "completed" \in Active \cup Ended
  BY DEF Ended
<1> QED
  BY <1>1, <1>2 DEF AutoComplete, Session

LEMMA AutoCompleteCurrentType ==
  ASSUME NEW r \in Reduction, NEW at \in Int
  PROVE  AutoCompleteCurrent(r, at) \in Reduction
<1>1. CASE ~ Exists(r, r.current)
  BY <1>1 DEF AutoCompleteCurrent
<1>2. CASE Exists(r, r.current)
  <2>1. /\ r.current \in Timers
        /\ r.sessions[r.current] \in Session
    BY <1>2 DEF Exists, Reduction
  <2>2. AutoComplete(r.sessions[r.current], at) \in Session
    BY <2>1, AutoCompleteType
  <2> QED
    BY <1>2, <2>1, <2>2 DEF AutoCompleteCurrent, Reduction
<1> QED
  BY <1>1, <1>2

LEMMA SupersedeType ==
  ASSUME NEW s \in Session, NEW c \in Command
  PROVE  Supersede(s, c.at, c.timer, c.id) \in Session
<1>1. c.at \in Int /\ c.timer \in Timers /\ c.id \in Nat
  BY DEF Command
<1>2. ElapsedAt(s, c.at) \in Nat
  BY <1>1, ElapsedType
<1>3. "superseded" \in Active \cup Ended
  BY DEF Ended
<1> DEFINE e == IF s.status = "running" THEN ElapsedAt(s, c.at) ELSE s.elapsed
<1>4. e \in Nat
  BY <1>2 DEF Session
<1>5. Supersede(s, c.at, c.timer, c.id) =
        [s EXCEPT !.elapsed = e, !.status = "superseded", !.anchor = c.at,
                  !.ended = c.at, !.lastCmd = c.id, !.terminalCmd = c.id,
                  !.supersededBy = c.timer]
  BY DEF Supersede, Session
<1> HIDE DEF e
<1> QED
  BY <1>1, <1>3, <1>4, <1>5 DEF Session

LEMMA SupersedeActiveType ==
  ASSUME NEW r \in Reduction, NEW c \in Command
  PROVE  SupersedeActive(r, c) \in Reduction
<1>1. CASE /\ Exists(r, r.current) /\ r.current # c.timer
           /\ IsActive(r.sessions[r.current])
  <2>1. /\ r.current \in Timers
        /\ r.sessions[r.current] \in Session
    BY <1>1 DEF Exists, Reduction
  <2>2. Supersede(r.sessions[r.current], c.at, c.timer, c.id) \in Session
    BY <2>1, SupersedeType
  <2> QED
    BY <1>1, <2>1, <2>2 DEF SupersedeActive, Reduction
<1>2. CASE ~ (/\ Exists(r, r.current) /\ r.current # c.timer
              /\ IsActive(r.sessions[r.current]))
  BY <1>2 DEF SupersedeActive
<1> QED
  BY <1>1, <1>2

LEMMA CommandIntentType ==
  ASSUME NEW c \in Command, c.kind \in Lifecycle
  PROVE  CommandIntent(c) \in Intent
  BY DEF Command, CommandIntent, Intent

LEMMA StartedSessionType ==
  ASSUME NEW c \in Command, c.kind = "start"
  PROVE  StartedSession(c) \in Session
<1>1. CommandIntent(c) \in Intent
  BY CommandIntentType DEF Lifecycle
<1>2. "running" \in Active
  BY DEF Active
<1> QED
  BY <1>1, <1>2 DEF StartedSession, Session, Command

LEMMA TransitionType ==
  ASSUME NEW s \in Session, NEW c \in Command, c.kind \in Lifecycle,
         NEW status \in Active \cup Ended, NEW elapsed \in Nat
  PROVE  Transition(s, c, status, elapsed) \in Session
<1>1. CommandIntent(c) \in Intent
  BY CommandIntentType
<1>2. c.at \in Int /\ c.id \in Nat
  BY DEF Command
<1>3. PICK ended \in Int \cup {None} : ended = IF status \in Ended THEN c.at ELSE None
  BY <1>2
<1>4. PICK last \in Nat \cup {None} : last = IF status \in Ended THEN c.id ELSE None
  BY <1>2
<1>5. Transition(s, c, status, elapsed) =
        [s EXCEPT !.status = status, !.elapsed = elapsed, !.anchor = c.at, !.ended = ended,
                  !.lastCmd = c.id, !.terminalCmd = last, !.supersededBy = None,
                  !.intent = CommandIntent(c)]
  BY <1>3, <1>4 DEF Transition
<1> QED
  BY <1>1, <1>2, <1>5 DEF Session

LEMMA OutcomeType ==
  ASSUME NEW r \in Reduction, NEW o \in Outcomes
  PROVE  WithOutcome(r, o) \in Reduction
  BY DEF WithOutcome, Reduction

LEMMA RetakeType ==
  ASSUME NEW r \in Reduction, NEW c \in Command, c.kind \in Lifecycle,
         NEW status \in Active \cup Ended, NEW elapsed,
         r.sessions[c.timer] # None => elapsed \in Nat
  PROVE  Retake(r, c, status, elapsed) \in Reduction
<1>1. c.timer \in Timers
  BY DEF Command
<1>2. CASE r.sessions[c.timer] = None
  BY <1>2, OutcomeType DEF Retake, Outcomes
<1>3. CASE r.sessions[c.timer] # None
  <2> DEFINE q == SupersedeActive(r, c)
  <2>1. q \in Reduction
    BY SupersedeActiveType
  <2>2. q.sessions[c.timer] = r.sessions[c.timer]
    BY <1>1 DEF SupersedeActive, Reduction
  <2>3. q.sessions[c.timer] \in Session
    BY <1>1, <1>3, <2>2 DEF Reduction
  <2>4. Transition(q.sessions[c.timer], c, status, elapsed) \in Session
    BY <1>3, <2>3, TransitionType
  <2> HIDE DEF q
  <2>5. [q.sessions EXCEPT ![c.timer] =
           Transition(q.sessions[c.timer], c, status, elapsed)]
          \in [Timers -> Session \cup {None}]
    BY <1>1, <2>1, <2>4 DEF Reduction
  <2> QED
    BY <1>1, <1>3, <2>5 DEF q, Retake, Reduction, Outcomes
<1> QED
  BY <1>2, <1>3

LEMMA StartType ==
  ASSUME NEW r \in Reduction, NEW c \in Command, c.kind = "start"
  PROVE  Start(r, c) \in Reduction
<1>1. c.timer \in Timers /\ StartedSession(c) \in Session
  BY StartedSessionType DEF Command
<1>2. CASE HistoryIdTaken(r, c.timer)
  BY <1>2, OutcomeType DEF Start, Outcomes
<1>3. CASE ~ HistoryIdTaken(r, c.timer)
  <2> DEFINE q == SupersedeActive(r, c)
  <2>1. q \in Reduction
    BY SupersedeActiveType
  <2> HIDE DEF q
  <2>2. [q.sessions EXCEPT ![c.timer] = StartedSession(c)]
          \in [Timers -> Session \cup {None}]
    BY <1>1, <2>1 DEF Reduction
  <2> QED
    BY <1>1, <1>3, <2>2 DEF q, Start, Reduction, Outcomes
<1> QED
  BY <1>2, <1>3

LEMMA ObservedType ==
  ASSUME NEW r \in Reduction, NEW c \in Command, r.sessions[c.timer] # None
  PROVE  Observed(r, c) \in Nat /\ r.sessions[c.timer].planned \in Nat
<1>1. r.sessions[c.timer].planned \in Nat /\ c.observed \in Int
  BY DEF Reduction, Session, Command
<1> QED
  BY <1>1, ClampType DEF Observed

LEMMA ClearType ==
  ASSUME NEW r \in Reduction, NEW c \in Command, c.kind = "clear"
  PROVE  Clear(r, c) \in Reduction
<1>1. c.timer \in Timers /\ c.id \in Nat /\ CommandIntent(c) \in Intent
  BY CommandIntentType DEF Command, Lifecycle
<1>2. CASE r.sessions[c.timer] = None
  BY <1>2, OutcomeType DEF Clear, Outcomes
<1>3. CASE r.sessions[c.timer] # None
  <2>1. r.sessions[c.timer] \in Session
    BY <1>1, <1>3 DEF Reduction
  <2>2. [r.sessions[c.timer] EXCEPT !.lastCmd = c.id,
                                    !.intent = CommandIntent(c)] \in Session
    BY <1>1, <2>1 DEF Session
  <2> DEFINE s == [r.sessions EXCEPT ![c.timer] =
                     [r.sessions[c.timer] EXCEPT !.lastCmd = c.id,
                                                 !.intent = CommandIntent(c)]]
  <2>3. s \in [Timers -> Session \cup {None}]
    BY <1>1, <2>2 DEF Reduction
  <2>4. Clear(r, c) =
          [sessions |-> s,
           current |-> IF r.current = c.timer THEN None ELSE r.current,
           outcome |-> "applied"]
    BY <1>1, <1>3, <2>1 DEF Clear, Reduction, Session
  <2> HIDE DEF s
  <2> QED
    BY <2>3, <2>4 DEF Reduction, Outcomes
<1> QED
  BY <1>2, <1>3

LEMMA RetargetType ==
  ASSUME NEW r \in Reduction, NEW c \in Command
  PROVE  Retarget(r, c) \in Reduction
<1>1. c.timer \in Timers /\ c.id \in Nat /\ c.task \in Tasks \cup {None}
  BY DEF Command
<1>2. CASE Retarget(r, c) = WithOutcome(r, "ignored")
  BY <1>2, OutcomeType DEF Outcomes
<1>3. CASE Retarget(r, c) # WithOutcome(r, "ignored")
  <2>1. r.sessions[c.timer] \in Session
    BY <1>1, <1>3 DEF Retarget, Exists, Reduction
  <2> DEFINE q == [r.sessions[c.timer] EXCEPT !.task = c.task, !.lastCmd = c.id]
  <2>2. q \in Session
    BY <1>1, <2>1 DEF Session
  <2>3. Retarget(r, c) = [r EXCEPT !.sessions = [r.sessions EXCEPT ![c.timer] = q],
                                   !.outcome = "applied"]
    BY <1>1, <1>3, <2>1 DEF Retarget, Reduction, Session
  <2> HIDE DEF q
  <2> QED
    BY <1>1, <2>2, <2>3 DEF Reduction, Outcomes
<1> QED
  BY <1>2, <1>3

LEMMA HandleType ==
  ASSUME NEW r \in Reduction, NEW c \in Command
  PROVE  Handle(r, c) \in Reduction
<1>1. CASE c.kind = "start"
  BY <1>1, StartType DEF Handle
<1>2. CASE c.kind \in {"pause", "resume"}
  <2>1. Activate(r, c) \in Reduction
    <3>1. /\ c.kind \in Lifecycle
          /\ (IF c.kind = "pause" THEN "paused" ELSE "running")
               \in Active \cup Ended
      BY <1>2 DEF Lifecycle, Active
    <3> QED
      BY <3>1, ObservedType, RetakeType DEF Activate
  <2> QED
    BY <1>2, <2>1 DEF Handle
<1>3. CASE c.kind \in {"finish", "cancel"}
  <2>1. Terminate(r, c) \in Reduction
    <3>1. c.kind \in Lifecycle /\ {"completed", "cancelled"} \subseteq Active \cup Ended
      BY <1>3 DEF Lifecycle, Ended
    <3> QED
      BY <1>3, <3>1, ObservedType, RetakeType DEF Terminate
  <2> QED
    BY <1>3, <2>1 DEF Handle
<1>4. CASE c.kind = "clear"
  BY <1>4, ClearType DEF Handle
<1>5. CASE c.kind = "retarget"
  BY <1>5, RetargetType DEF Handle
<1>6. CASE c.kind = "unknown"
  BY <1>6, OutcomeType DEF Handle, Outcomes
<1> QED
  BY <1>1, <1>2, <1>3, <1>4, <1>5, <1>6 DEF Command, Kinds

LEMMA ApplyType ==
  ASSUME NEW r \in Reduction, NEW c \in Command
  PROVE  Apply(r, c) \in Reduction
<1>1. c.at \in Int
  BY DEF Command
<1> QED
  BY <1>1, AutoCompleteCurrentType, HandleType DEF Apply

-----------------------------------------------------------------------------
(* What a handler may do to the sessions: the target changes in one of     *)
(* three ways, and of all other sessions only the current one can change,  *)
(* by being superseded.                                                    *)

Superseded(r, q, c, t) ==
  /\ r.sessions[t] # None /\ IsActive(r.sessions[t])
  /\ q.sessions[t] = Supersede(r.sessions[t], c.at, c.timer, c.id)

Takeover(q, c) ==
  /\ q.current = c.timer
  /\ q.sessions[c.timer] # None
  /\ q.sessions[c.timer].lastCmd = c.id
  /\ q.sessions[c.timer].supersededBy = None

Cleared(r, q, c) ==
  /\ r.sessions[c.timer] # None
  /\ q.sessions[c.timer] = [r.sessions[c.timer] EXCEPT !.lastCmd = c.id,
                                                    !.intent = CommandIntent(c)]
  /\ c.kind = "clear"
  /\ q.current = IF r.current = c.timer THEN None ELSE r.current

Retargeted(r, q, c) ==
  /\ r.current = c.timer /\ q.current = r.current
  /\ r.sessions[c.timer] # None
  /\ q.sessions[c.timer] = [r.sessions[c.timer] EXCEPT !.task = c.task,
                                                    !.lastCmd = c.id]

Effect(r, q, c) ==
  \/ q.sessions = r.sessions /\ q.current = r.current
  \/ /\ Takeover(q, c)
     /\ \A t \in Timers \ {c.timer} :
          \/ q.sessions[t] = r.sessions[t] /\ (r.current = t =>
                r.sessions[t] = None \/ ~ IsActive(r.sessions[t]))
          \/ r.current = t /\ Superseded(r, q, c, t)
  \/ /\ Cleared(r, q, c) \/ Retargeted(r, q, c)
     /\ \A t \in Timers \ {c.timer} : q.sessions[t] = r.sessions[t]

\* The states that a start or a retake leads to.
LEMMA TakenEffect ==
  ASSUME NEW r \in Reduction, NEW c \in Command, NEW s \in Session,
         s.lastCmd = c.id, s.supersededBy = None, NEW q,
         q = [sessions |-> [SupersedeActive(r, c).sessions EXCEPT ![c.timer] = s],
              current |-> c.timer, outcome |-> "applied"],
         None \notin Session
  PROVE  Effect(r, q, c)
<1> DEFINE sup == SupersedeActive(r, c)
<1>1. c.timer \in Timers
  BY DEF Command
<1>2. sup \in Reduction
  BY SupersedeActiveType
<1>3. \A t \in Timers \ {c.timer} :
        \/ sup.sessions[t] = r.sessions[t] /\ (r.current = t =>
              r.sessions[t] = None \/ ~ IsActive(r.sessions[t]))
        \/ /\ r.current = t /\ r.sessions[t] # None /\ IsActive(r.sessions[t])
           /\ sup.sessions[t] = Supersede(r.sessions[t], c.at, c.timer, c.id)
  <2> TAKE t \in Timers \ {c.timer}
  <2>1. CASE Exists(r, r.current) /\ r.current # c.timer /\ IsActive(r.sessions[r.current])
    BY <2>1 DEF SupersedeActive, Exists, Reduction
  <2>2. CASE ~ (Exists(r, r.current) /\ r.current # c.timer /\ IsActive(r.sessions[r.current]))
    <3>1. sup = r
      BY <2>2 DEF SupersedeActive
    <3> QED
      BY <2>2, <3>1, ReducerAssumption DEF Exists
  <2> QED
    BY <2>1, <2>2
<1> HIDE DEF sup
<1>4. /\ q.current = c.timer /\ q.sessions[c.timer] = s
      /\ \A t \in Timers \ {c.timer} : q.sessions[t] = sup.sessions[t]
  BY <1>1, <1>2 DEF sup, Reduction
<1>5. Takeover(q, c)
  BY <1>4 DEF Takeover
<1> QED
  BY <1>3, <1>4, <1>5 DEF Effect, Superseded

LEMMA RetakeEffect ==
  ASSUME NEW r \in Reduction, NEW c \in Command, c.kind \in Lifecycle,
         NEW status \in Active \cup Ended, NEW elapsed,
         r.sessions[c.timer] # None => elapsed \in Nat
  PROVE  Effect(r, Retake(r, c, status, elapsed), c)
<1>1. c.timer \in Timers
  BY DEF Command
<1>2. CASE r.sessions[c.timer] = None
  BY <1>2 DEF Retake, WithOutcome, Effect, Reduction
<1>3. CASE r.sessions[c.timer] # None
  <2> DEFINE s == SupersedeActive(r, c).sessions[c.timer]
             z == Transition(s, c, status, elapsed)
  <2>1. SupersedeActive(r, c).sessions \in [Timers -> Session \cup {None}]
    BY SupersedeActiveType DEF Reduction
  <2>2. s = r.sessions[c.timer]
    BY <1>1 DEF SupersedeActive, Reduction
  <2>3. s \in Session
    BY <1>1, <1>3, <2>2 DEF Reduction
  <2>4. z \in Session
    BY <1>3, <2>3, TransitionType
  <2>5. z.lastCmd = c.id /\ z.supersededBy = None
    BY <2>3 DEF Transition, Session
  <2>6. Retake(r, c, status, elapsed) =
          [sessions |-> [SupersedeActive(r, c).sessions EXCEPT ![c.timer] = z],
           current |-> c.timer, outcome |-> "applied"]
    BY <1>1, <1>3, <2>1 DEF Retake
  <2> HIDE DEF z, s
  <2> QED
    BY <2>4, <2>5, <2>6, TakenEffect, ReducerAssumption
<1> QED
  BY <1>2, <1>3

LEMMA HandleEffect ==
  ASSUME NEW r \in Reduction, NEW c \in Command
  PROVE  Effect(r, Handle(r, c), c)
<1>1. c.timer \in Timers
  BY DEF Command
<1>2. CASE c.kind = "start"
  <2>1. CASE HistoryIdTaken(r, c.timer)
    BY <1>2, <2>1 DEF Handle, Start, WithOutcome, Effect, Reduction
  <2>2. CASE ~ HistoryIdTaken(r, c.timer)
    <3>1. StartedSession(c) \in Session
      BY <1>2, StartedSessionType
    <3>2. StartedSession(c).lastCmd = c.id /\ StartedSession(c).supersededBy = None
      BY DEF StartedSession
    <3>3. Handle(r, c) =
            [sessions |-> [SupersedeActive(r, c).sessions
                             EXCEPT ![c.timer] = StartedSession(c)],
             current |-> c.timer, outcome |-> "applied"]
      BY <1>2, <2>2 DEF Handle, Start
    <3> QED
      BY <3>1, <3>2, <3>3, TakenEffect, ReducerAssumption
  <2> QED
    BY <2>1, <2>2
<1>3. CASE c.kind \in {"pause", "resume"}
  <2>1. /\ c.kind \in Lifecycle
        /\ (IF c.kind = "pause" THEN "paused" ELSE "running") \in Active \cup Ended
    BY <1>3 DEF Lifecycle, Active
  <2>2. Handle(r, c) = Activate(r, c)
    BY <1>3 DEF Handle
  <2> QED
    BY <2>1, <2>2, ObservedType, RetakeEffect DEF Activate
<1>4. CASE c.kind \in {"finish", "cancel"}
  <2>1. c.kind \in Lifecycle /\ {"completed", "cancelled"} \subseteq Active \cup Ended
    BY <1>4 DEF Lifecycle, Ended
  <2>2. Handle(r, c) = Terminate(r, c)
    BY <1>4 DEF Handle
  <2> QED
    BY <1>4, <2>1, <2>2, ObservedType, RetakeEffect DEF Terminate
<1>5. CASE c.kind = "clear"
  <2>1. Handle(r, c) = Clear(r, c)
    BY <1>5 DEF Handle
  <2>2. CASE r.sessions[c.timer] = None
    BY <2>1, <2>2 DEF Clear, WithOutcome, Effect, Reduction
  <2>3. CASE r.sessions[c.timer] # None
    <3>1. r.sessions[c.timer] \in Session
      BY <1>1, <2>3 DEF Reduction
    <3>2. Cleared(r, Clear(r, c), c)
      BY <1>1, <1>5, <2>3, <3>1 DEF Clear, Cleared, Reduction, Session
    <3>3. \A t \in Timers \ {c.timer} : Clear(r, c).sessions[t] = r.sessions[t]
      BY <1>1, <2>3 DEF Clear, Reduction
    <3> QED
      BY <2>1, <3>2, <3>3 DEF Effect
  <2> QED
    BY <2>2, <2>3
<1>6. CASE c.kind = "retarget"
  <2>1. Handle(r, c) = Retarget(r, c)
    BY <1>6 DEF Handle
  <2>2. CASE Retarget(r, c) = WithOutcome(r, "ignored")
    BY <2>1, <2>2 DEF WithOutcome, Effect, Reduction
  <2>3. CASE Retarget(r, c) # WithOutcome(r, "ignored")
    <3>1. r.sessions[c.timer] \in Session
      BY <1>1, <2>3 DEF Retarget, Exists, Reduction
    <3>2. Retargeted(r, Retarget(r, c), c)
      BY <1>1, <2>3, <3>1 DEF Retarget, Exists, Retargeted, Reduction, Session
    <3>3. \A t \in Timers \ {c.timer} : Retarget(r, c).sessions[t] = r.sessions[t]
      BY <1>1, <2>3 DEF Retarget, Reduction
    <3> QED
      BY <2>1, <3>2, <3>3 DEF Effect
  <2> QED
    BY <2>2, <2>3
<1>7. CASE c.kind = "unknown"
  BY <1>7 DEF Handle, WithOutcome, Effect, Reduction
<1> QED
  BY <1>2, <1>3, <1>4, <1>5, <1>6, <1>7 DEF Command, Kinds

\* A deadline changes the status of the current timer and nothing that a
\* later command or a superseder is recorded in.
LEMMA DeadlineEffect ==
  ASSUME NEW r \in Reduction, NEW at \in Int, NEW t \in Timers,
         None \notin Session
  PROVE  LET q == AutoCompleteCurrent(r, at)
             s == r.sessions[t]
             z == q.sessions[t]
         IN  /\ q.current = r.current
             /\ \/ z = s
                \/ /\ s # None /\ z # None
                   /\ s.status = "running" /\ z.status = "completed"
                   /\ t = r.current
                   /\ z.lastCmd = s.lastCmd /\ z.terminalCmd = s.terminalCmd
                   /\ z.supersededBy = s.supersededBy /\ z.intent = s.intent
<1>1. CASE ~ Exists(r, r.current)
  BY <1>1 DEF AutoCompleteCurrent
<1>2. CASE Exists(r, r.current)
  <2> DEFINE s == r.sessions[r.current]
             z == AutoComplete(s, at)
  <2>1. r.current \in Timers /\ s \in Session
    BY <1>2 DEF Exists, Reduction
  <2>2. z \in Session
    BY <2>1, AutoCompleteType
  <2>3. \/ z = s
        \/ /\ s.status = "running" /\ z.status = "completed"
           /\ z.lastCmd = s.lastCmd /\ z.terminalCmd = s.terminalCmd
           /\ z.supersededBy = s.supersededBy /\ z.intent = s.intent
    BY <2>1 DEF AutoComplete, Session
  <2>4. /\ AutoCompleteCurrent(r, at).current = r.current
        /\ AutoCompleteCurrent(r, at).sessions = [r.sessions EXCEPT ![r.current] = z]
    BY <1>2, <2>1 DEF AutoCompleteCurrent, Reduction
  <2> HIDE DEF z
  <2> QED
    BY <2>1, <2>2, <2>3, <2>4 DEF Reduction
<1> QED
  BY <1>1, <1>2

\* A superseded session is over and names the command that superseded it.
LEMMA SupersededEnds ==
  ASSUME NEW s \in Session, NEW c \in Command
  PROVE  /\ ~ IsActive(Supersede(s, c.at, c.timer, c.id))
         /\ Supersede(s, c.at, c.timer, c.id).status = "superseded"
         /\ Supersede(s, c.at, c.timer, c.id).lastCmd = c.id
         /\ Supersede(s, c.at, c.timer, c.id).terminalCmd = c.id
         /\ Supersede(s, c.at, c.timer, c.id).supersededBy = c.timer
         /\ Supersede(s, c.at, c.timer, c.id) \in Session
<1>1. Supersede(s, c.at, c.timer, c.id) \in Session
  BY SupersedeType
<1> QED
  BY <1>1 DEF Supersede, IsActive, Active, Session

-----------------------------------------------------------------------------
(* What a command makes of the session of one timer, and of the current    *)
(* timer: nothing beside that session, the one that the command addresses  *)
(* and the current timer decides it.                                       *)

\* The command makes its timer the current one.
Takes(target, c) ==
  c.kind = "start" \/ (c.kind \in {"pause", "resume", "finish", "cancel"} /\ target # None)

ClearedSession(s, c) == [s EXCEPT !.lastCmd = c.id, !.intent = CommandIntent(c)]

RetargetedSession(s, c) == [s EXCEPT !.task = c.task, !.lastCmd = c.id]

TargetAfter(s, cur, c) ==
  IF c.kind = "start" THEN StartedSession(c)
  ELSE IF s = None THEN None
  ELSE IF c.kind = "pause" THEN Transition(s, c, "paused", Clamp(c.observed, 0, s.planned))
  ELSE IF c.kind = "resume" THEN Transition(s, c, "running", Clamp(c.observed, 0, s.planned))
  ELSE IF c.kind = "finish" THEN Transition(s, c, "completed", s.planned)
  ELSE IF c.kind = "cancel" THEN Transition(s, c, "cancelled", Clamp(c.observed, 0, s.planned))
  ELSE IF c.kind = "clear" THEN ClearedSession(s, c)
  ELSE IF /\ c.kind = "retarget" /\ cur = c.timer /\ IsActive(s)
          /\ s.phase = "focus" /\ c.phase = "focus"
       THEN RetargetedSession(s, c)
       ELSE s

OtherAfter(s, t, target, cur, c) ==
  IF Takes(target, c) /\ cur = t /\ s # None /\ IsActive(s)
  THEN Supersede(s, c.at, c.timer, c.id) ELSE s

CurrentAfter(target, cur, c) ==
  IF Takes(target, c) THEN c.timer
  ELSE IF c.kind = "clear" /\ target # None /\ cur = c.timer THEN None ELSE cur

SessionAfter(r, t, c) ==
  IF t = c.timer THEN TargetAfter(r.sessions[t], r.current, c)
  ELSE OtherAfter(r.sessions[t], t, r.sessions[c.timer], r.current, c)

\* The state that handling leads to, apart from its outcome.
Becomes(r, q, c) ==
  /\ \A t \in Timers : q.sessions[t] = SessionAfter(r, t, c)
  /\ q.current = CurrentAfter(r.sessions[c.timer], r.current, c)

LEMMA SupersedeActivePointwise ==
  ASSUME NEW r \in Reduction, NEW c \in Command, NEW t \in Timers
  PROVE  SupersedeActive(r, c).sessions[t] =
           IF t # c.timer /\ r.current = t /\ r.sessions[t] # None /\ IsActive(r.sessions[t])
           THEN Supersede(r.sessions[t], c.at, c.timer, c.id) ELSE r.sessions[t]
<1>1. CASE Exists(r, r.current) /\ r.current # c.timer /\ IsActive(r.sessions[r.current])
  BY <1>1, ReducerAssumption DEF SupersedeActive, Exists, Reduction
<1>2. CASE ~ (Exists(r, r.current) /\ r.current # c.timer /\ IsActive(r.sessions[r.current]))
  <2>1. SupersedeActive(r, c) = r
    BY <1>2 DEF SupersedeActive
  <2> QED
    BY <1>2, <2>1, ReducerAssumption DEF Exists
<1> QED
  BY <1>1, <1>2

LEMMA TakesPointwise ==
  ASSUME NEW r \in Reduction, NEW c \in Command, NEW s,
         Takes(r.sessions[c.timer], c), s = TargetAfter(r.sessions[c.timer], r.current, c),
         NEW q,
         q = [sessions |-> [SupersedeActive(r, c).sessions EXCEPT ![c.timer] = s],
              current |-> c.timer, outcome |-> "applied"]
  PROVE  Becomes(r, q, c)
<1>1. c.timer \in Timers /\ SupersedeActive(r, c).sessions \in [Timers -> Session \cup {None}]
  BY SupersedeActiveType DEF Command, Reduction
<1>2. q.current = c.timer /\ q.sessions[c.timer] = s
  BY <1>1
<1>3. \A t \in Timers \ {c.timer} : q.sessions[t] = SupersedeActive(r, c).sessions[t]
  BY <1>1
<1>4. \A t \in Timers \ {c.timer} :
        SupersedeActive(r, c).sessions[t] =
          OtherAfter(r.sessions[t], t, r.sessions[c.timer], r.current, c)
  BY SupersedeActivePointwise DEF OtherAfter
<1> QED
  BY <1>1, <1>2, <1>3, <1>4 DEF Becomes, SessionAfter, CurrentAfter

LEMMA RetakePointwise ==
  ASSUME NEW r \in Reduction, NEW c \in Command, NEW status, NEW elapsed,
         c.kind \in {"pause", "resume", "finish", "cancel"},
         r.sessions[c.timer] # None,
         Transition(r.sessions[c.timer], c, status, elapsed) =
           TargetAfter(r.sessions[c.timer], r.current, c)
  PROVE  Becomes(r, Retake(r, c, status, elapsed), c)
<1>1. /\ c.timer \in Timers
      /\ SupersedeActive(r, c).sessions \in [Timers -> Session \cup {None}]
  BY SupersedeActiveType DEF Command, Reduction
<1>2. SupersedeActive(r, c).sessions[c.timer] = r.sessions[c.timer]
  BY <1>1, SupersedeActivePointwise
<1>3. Takes(r.sessions[c.timer], c)
  BY DEF Takes
<1>4. Retake(r, c, status, elapsed) =
        [sessions |-> [SupersedeActive(r, c).sessions EXCEPT ![c.timer] =
                         Transition(r.sessions[c.timer], c, status, elapsed)],
         current |-> c.timer, outcome |-> "applied"]
  BY <1>1, <1>2 DEF Retake
<1> QED
  BY <1>3, <1>4, TakesPointwise

LEMMA HandlePointwise ==
  ASSUME NEW r \in Reduction, NEW c \in Command,
         c.kind = "start" => ~ HistoryIdTaken(r, c.timer)
  PROVE  Becomes(r, Handle(r, c), c)
<1> DEFINE target == r.sessions[c.timer]
<1>1. c.timer \in Timers
  BY DEF Command
<1>2. ASSUME ~ Takes(target, c), c.kind # "clear" \/ target = None,
             TargetAfter(target, r.current, c) = target,
             NEW o, Handle(r, c) = WithOutcome(r, o)
      PROVE  Becomes(r, Handle(r, c), c)
  <2>1. Handle(r, c).sessions = r.sessions /\ Handle(r, c).current = r.current
    BY <1>2 DEF WithOutcome, Reduction
  <2> QED
    BY <1>2, <2>1 DEF Becomes, SessionAfter, OtherAfter, CurrentAfter
<1>3. CASE c.kind = "start"
  <2>1. Handle(r, c) = Start(r, c)
    BY <1>3 DEF Handle
  <2> QED
    BY <1>3, <2>1, TakesPointwise DEF Start, Takes, TargetAfter
<1>4. CASE c.kind \in {"pause", "resume", "finish", "cancel"} /\ target # None
  <2>1. CASE c.kind \in {"pause", "resume"}
    <3>1. Handle(r, c) = Activate(r, c)
      BY <2>1 DEF Handle
    <3> QED
      BY <1>4, <2>1, <3>1, RetakePointwise DEF Activate, Observed, TargetAfter
  <2>2. CASE c.kind \in {"finish", "cancel"}
    <3>1. Handle(r, c) = Terminate(r, c)
      BY <2>2 DEF Handle
    <3> QED
      BY <1>4, <2>2, <3>1, RetakePointwise DEF Terminate, Observed, TargetAfter
  <2> QED
    BY <1>4, <2>1, <2>2
<1>5. CASE c.kind \in {"pause", "resume", "finish", "cancel", "clear"} /\ target = None
  <2>1. Handle(r, c) \in {Activate(r, c), Terminate(r, c), Clear(r, c)}
    BY <1>5 DEF Handle
  <2>2. Handle(r, c) = WithOutcome(r, "ignored")
    BY <1>5, <2>1 DEF Activate, Terminate, Retake, Clear
  <2> QED
    BY <1>2, <1>5, <2>2 DEF Takes, TargetAfter
<1>6. CASE c.kind = "clear" /\ target # None
  <2> DEFINE z == ClearedSession(target, c)
  <2>1. target \in Session
    BY <1>1, <1>6 DEF Reduction
  <2>2. /\ Handle(r, c).sessions = [r.sessions EXCEPT ![c.timer] = z]
        /\ Handle(r, c).current = IF r.current = c.timer THEN None ELSE r.current
    <3>1. Handle(r, c) = Clear(r, c)
      BY <1>6 DEF Handle
    <3> DEFINE y == [r.sessions[c.timer] EXCEPT !.lastCmd = c.id,
                                                !.intent = CommandIntent(c)]
    <3>2. Clear(r, c) =
            [sessions |-> [r.sessions EXCEPT ![c.timer] = y],
             current |-> IF r.current = c.timer THEN None ELSE r.current,
             outcome |-> "applied"]
      BY <1>1, <1>6, <2>1 DEF Clear, Reduction, Session
    <3>3. z = y
      BY Zenon DEF ClearedSession
    <3> HIDE DEF y, z
    <3> QED
      BY <3>1, <3>2, <3>3
  <2>3. TargetAfter(target, r.current, c) = z /\ ~ Takes(target, c)
    BY <1>6 DEF TargetAfter, Takes
  <2> HIDE DEF z
  <2> QED
    BY <1>1, <1>6, <2>2, <2>3 DEF Becomes, SessionAfter, OtherAfter, CurrentAfter, Reduction
<1>7. CASE c.kind = "retarget"
  <2>1. Handle(r, c) = Retarget(r, c) /\ ~ Takes(target, c)
    BY <1>7 DEF Handle, Takes
  <2>2. CASE Exists(r, c.timer) /\ r.current = c.timer /\ IsActive(target)
             /\ target.phase = "focus" /\ c.phase = "focus"
    <3> DEFINE z == RetargetedSession(target, c)
    <3>1. target \in Session /\ target # None
      BY <1>1, <2>2 DEF Exists, Reduction
    <3>2. /\ Handle(r, c).sessions = [r.sessions EXCEPT ![c.timer] = z]
          /\ Handle(r, c).current = r.current
      <4> DEFINE y == [r.sessions[c.timer] EXCEPT !.task = c.task, !.lastCmd = c.id]
      <4>1. Handle(r, c) = [r EXCEPT !.sessions = [r.sessions EXCEPT ![c.timer] = y],
                                     !.outcome = "applied"]
        BY <1>1, <2>1, <2>2, <3>1 DEF Retarget, Reduction, Session
      <4>2. z = y
        BY Zenon DEF RetargetedSession
      <4> HIDE DEF y, z
      <4> QED
        BY <4>1, <4>2 DEF Reduction
    <3>3. TargetAfter(target, r.current, c) = z
      BY <1>7, <2>2, <3>1 DEF TargetAfter
    <3> HIDE DEF z
    <3> QED
      BY <1>1, <1>7, <2>1, <3>2, <3>3
         DEF Becomes, SessionAfter, OtherAfter, CurrentAfter, Reduction
  <2>3. CASE ~ (Exists(r, c.timer) /\ r.current = c.timer /\ IsActive(target)
                /\ target.phase = "focus" /\ c.phase = "focus")
    <3>1. Handle(r, c) = WithOutcome(r, "ignored")
      BY <2>1, <2>3 DEF Retarget
    <3>2. TargetAfter(target, r.current, c) = target
      BY <1>1, <1>7, <2>3, ReducerAssumption DEF TargetAfter, Exists
    <3> QED
      BY <1>2, <1>7, <2>1, <3>1, <3>2
  <2> QED
    BY <2>2, <2>3
<1>8. CASE c.kind = "unknown"
  <2>1. Handle(r, c) = WithOutcome(r, "rejected") /\ ~ Takes(target, c)
    BY <1>8 DEF Handle, Takes
  <2>2. TargetAfter(target, r.current, c) = target
    BY <1>8 DEF TargetAfter
  <2> QED
    BY <1>2, <1>8, <2>1, <2>2
<1> QED
  BY <1>3, <1>4, <1>5, <1>6, <1>7, <1>8 DEF Command, Kinds

\* The same for the deadline.
LEMMA DeadlinePointwise ==
  ASSUME NEW r \in Reduction, NEW at
  PROVE  /\ AutoCompleteCurrent(r, at).current = r.current
         /\ \A t \in Timers :
              AutoCompleteCurrent(r, at).sessions[t] =
                IF r.current = t /\ r.sessions[t] # None
                THEN AutoComplete(r.sessions[t], at) ELSE r.sessions[t]
<1>1. CASE ~ Exists(r, r.current)
  BY <1>1, ReducerAssumption DEF AutoCompleteCurrent, Exists
<1>2. CASE Exists(r, r.current)
  BY <1>2, ReducerAssumption DEF AutoCompleteCurrent, Exists, Reduction
<1> QED
  BY <1>1, <1>2

-----------------------------------------------------------------------------
(* The fields of a session after each of the changes above.                *)

LEMMA SupersedeFields ==
  ASSUME NEW s \in Session, NEW c \in Command
  PROVE  LET z == Supersede(s, c.at, c.timer, c.id) IN
         /\ z \in Session /\ z.status = "superseded"
         /\ z.elapsed = IF s.status = "running" THEN ElapsedAt(s, c.at) ELSE s.elapsed
         /\ z.anchor = c.at /\ z.ended = c.at /\ z.lastCmd = c.id
         /\ z.terminalCmd = c.id /\ z.supersededBy = c.timer
         /\ z.historyId = s.historyId /\ z.task = s.task /\ z.phase = s.phase
         /\ z.planned = s.planned /\ z.intent = s.intent
<1>1. Supersede(s, c.at, c.timer, c.id) \in Session
  BY SupersedeType
<1> DEFINE e == IF s.status = "running" THEN ElapsedAt(s, c.at) ELSE s.elapsed
<1>2. Supersede(s, c.at, c.timer, c.id) =
        [s EXCEPT !.elapsed = e, !.status = "superseded", !.anchor = c.at,
                  !.ended = c.at, !.lastCmd = c.id, !.terminalCmd = c.id,
                  !.supersededBy = c.timer]
  BY DEF Supersede, Session
<1>3. e = IF s.status = "running" THEN ElapsedAt(s, c.at) ELSE s.elapsed
  OBVIOUS
<1> HIDE DEF e
<1> QED
  BY <1>1, <1>2, <1>3 DEF Session

LEMMA TransitionFields ==
  ASSUME NEW s \in Session, NEW c \in Command, c.kind \in Lifecycle,
         NEW status \in Active \cup Ended, NEW elapsed \in Nat
  PROVE  LET z == Transition(s, c, status, elapsed) IN
         /\ z \in Session /\ z.status = status /\ z.elapsed = elapsed
         /\ z.anchor = c.at /\ z.lastCmd = c.id /\ z.supersededBy = None
         /\ z.ended = IF status \in Ended THEN c.at ELSE None
         /\ z.terminalCmd = IF status \in Ended THEN c.id ELSE None
         /\ z.intent = CommandIntent(c)
         /\ z.historyId = s.historyId /\ z.task = s.task /\ z.phase = s.phase
         /\ z.planned = s.planned
<1> DEFINE e == IF status \in Ended THEN c.at ELSE None
           t == IF status \in Ended THEN c.id ELSE None
<1>1. Transition(s, c, status, elapsed) \in Session
  BY TransitionType
<1>2. Transition(s, c, status, elapsed) =
        [s EXCEPT !.status = status, !.elapsed = elapsed, !.anchor = c.at, !.ended = e,
                  !.lastCmd = c.id, !.terminalCmd = t, !.supersededBy = None,
                  !.intent = CommandIntent(c)]
  BY DEF Transition
<1>3. /\ e = IF status \in Ended THEN c.at ELSE None
      /\ t = IF status \in Ended THEN c.id ELSE None
  OBVIOUS
<1> HIDE DEF e, t
<1> QED
  BY <1>1, <1>2, <1>3 DEF Session

LEMMA StartedFields ==
  ASSUME NEW c \in Command, c.kind = "start"
  PROVE  LET z == StartedSession(c) IN
         /\ z \in Session /\ z.status = "running" /\ z.elapsed = 0
         /\ z.anchor = c.at /\ z.lastCmd = c.id /\ z.supersededBy = None
         /\ z.ended = None /\ z.terminalCmd = None /\ z.intent = CommandIntent(c)
         /\ z.historyId = c.timer /\ z.task = c.task /\ z.phase = c.phase
         /\ z.planned = c.planned
  BY StartedSessionType DEF StartedSession

LEMMA ClearedFields ==
  ASSUME NEW s \in Session, NEW c \in Command, c.kind = "clear"
  PROVE  LET z == ClearedSession(s, c) IN
         /\ z \in Session /\ z.lastCmd = c.id /\ z.intent = CommandIntent(c)
         /\ z.status = s.status /\ z.elapsed = s.elapsed /\ z.anchor = s.anchor
         /\ z.ended = s.ended /\ z.terminalCmd = s.terminalCmd
         /\ z.supersededBy = s.supersededBy /\ z.historyId = s.historyId
         /\ z.task = s.task /\ z.phase = s.phase /\ z.planned = s.planned
<1>1. CommandIntent(c) \in Intent /\ c.id \in Nat
  BY CommandIntentType DEF Command, Lifecycle
<1> QED
  BY <1>1 DEF ClearedSession, Session

LEMMA RetargetedFields ==
  ASSUME NEW s \in Session, NEW c \in Command
  PROVE  LET z == RetargetedSession(s, c) IN
         /\ z \in Session /\ z.lastCmd = c.id /\ z.task = c.task
         /\ z.status = s.status /\ z.elapsed = s.elapsed /\ z.anchor = s.anchor
         /\ z.ended = s.ended /\ z.terminalCmd = s.terminalCmd
         /\ z.supersededBy = s.supersededBy /\ z.historyId = s.historyId
         /\ z.intent = s.intent /\ z.phase = s.phase /\ z.planned = s.planned
<1>1. c.task \in Tasks \cup {None} /\ c.id \in Nat
  BY DEF Command
<1> QED
  BY <1>1 DEF RetargetedSession, Session

LEMMA CompletedFields ==
  ASSUME NEW s \in Session, NEW at \in Int
  PROVE  LET z == AutoComplete(s, at) IN
         \/ z = s
         \/ /\ z \in Session /\ s.status = "running" /\ z.status = "completed"
            /\ z.elapsed = s.planned /\ z.anchor = Deadline(s)
            /\ z.ended = Deadline(s) /\ ~ ElapsedAt(s, at) < s.planned
            /\ z.lastCmd = s.lastCmd /\ z.terminalCmd = s.terminalCmd
            /\ z.supersededBy = s.supersededBy /\ z.historyId = s.historyId
            /\ z.task = s.task /\ z.intent = s.intent /\ z.phase = s.phase
            /\ z.planned = s.planned
<1>1. CASE s.status # "running" \/ ElapsedAt(s, at) < s.planned
  BY <1>1 DEF AutoComplete
<1>2. CASE ~ (s.status # "running" \/ ElapsedAt(s, at) < s.planned)
  <2>1. AutoComplete(s, at) \in Session
    BY AutoCompleteType
  <2> QED
    BY <1>2, <2>1 DEF AutoComplete, Session
<1> QED
  BY <1>1, <1>2

LEMMA ElapsedBounded ==
  ASSUME NEW s \in Session, NEW at \in Int
  PROVE  ElapsedAt(s, at) <= s.planned
<1>1. s.elapsed \in Nat /\ s.planned \in Nat /\ s.anchor \in Int
  BY DEF Session
<1> QED
  BY <1>1 DEF ElapsedAt, Clamp

\* No session goes away, and a start always leaves one.
LEMMA SessionStays ==
  ASSUME NEW r \in Reduction, NEW c \in Command, NEW t \in Timers,
         r.sessions[t] # None \/ (t = c.timer /\ c.kind = "start")
  PROVE  SessionAfter(r, t, c) \in Session
<1> DEFINE s == r.sessions[t]
<1>1. s # None => s \in Session
  BY DEF Reduction
<1> HIDE DEF s
<1>2. CASE t = c.timer /\ c.kind = "start"
  BY <1>2, StartedSessionType DEF SessionAfter, TargetAfter
<1>3. CASE t = c.timer /\ c.kind \in {"pause", "resume", "finish", "cancel"} /\ s # None
  <2>1. /\ {"paused", "running", "completed", "cancelled"} \subseteq Active \cup Ended
        /\ c.kind \in Lifecycle
    BY <1>3 DEF Active, Ended, Lifecycle
  <2>2. Clamp(c.observed, 0, s.planned) \in Nat /\ s.planned \in Nat
    BY <1>1, <1>3, ClampType DEF Session, Command
  <2>3. SessionAfter(r, t, c) \in
          {Transition(s, c, "paused", Clamp(c.observed, 0, s.planned)),
           Transition(s, c, "running", Clamp(c.observed, 0, s.planned)),
           Transition(s, c, "completed", s.planned),
           Transition(s, c, "cancelled", Clamp(c.observed, 0, s.planned))}
    BY <1>3 DEF SessionAfter, TargetAfter, s
  <2> QED
    BY <1>1, <1>3, <2>1, <2>2, <2>3, TransitionType
<1>4. CASE t = c.timer /\ c.kind = "clear" /\ s # None
  BY <1>1, <1>4, ClearedFields DEF SessionAfter, TargetAfter, s
<1>5. CASE t = c.timer /\ c.kind \in {"retarget", "unknown"} /\ s # None
  <2>1. SessionAfter(r, t, c) \in {RetargetedSession(s, c), s}
    BY <1>5 DEF SessionAfter, TargetAfter, s
  <2> QED
    BY <1>1, <1>5, <2>1, RetargetedFields
<1>6. CASE t # c.timer
  <2>1. SessionAfter(r, t, c) \in {s, Supersede(s, c.at, c.timer, c.id)} /\ s # None
    BY <1>6 DEF SessionAfter, OtherAfter, s
  <2> QED
    BY <1>1, <2>1, SupersedeFields
<1> QED
  BY <1>2, <1>3, <1>4, <1>5, <1>6 DEF Command, Kinds, s

\* The ways in which handling changes a session.
Moves == {<<"pause", "paused">>, <<"resume", "running">>, <<"finish", "completed">>,
          <<"cancel", "cancelled">>}

LEMMA SessionCases ==
  ASSUME NEW r \in Reduction, NEW c \in Command, NEW t \in Timers
  PROVE  LET s == r.sessions[t]
             z == SessionAfter(r, t, c)
         IN  \/ z = s
             \/ t = c.timer /\ c.kind = "start" /\ z = StartedSession(c)
             \/ /\ t = c.timer /\ s \in Session /\ c.kind \in Lifecycle
                /\ \E status \in Active \cup Ended, elapsed \in 0 .. s.planned :
                     /\ z = Transition(s, c, status, elapsed)
                     /\ <<c.kind, status>> \in Moves
                     /\ status = "completed" => elapsed = s.planned
             \/ t = c.timer /\ s \in Session /\ c.kind = "clear" /\ z = ClearedSession(s, c)
             \/ /\ t = c.timer /\ s \in Session /\ IsActive(s) /\ r.current = t
                /\ c.kind = "retarget" /\ z = RetargetedSession(s, c)
             \/ /\ t # c.timer /\ s \in Session /\ IsActive(s) /\ r.current = t
                /\ Takes(r.sessions[c.timer], c)
                /\ z = Supersede(s, c.at, c.timer, c.id)
<1> DEFINE s == r.sessions[t]
           z == SessionAfter(r, t, c)
<1>1. s # None => s \in Session
  BY DEF Reduction
<1> HIDE DEF s
<1>2. CASE t # c.timer
  BY <1>1, <1>2 DEF SessionAfter, OtherAfter, s
<1>3. CASE t = c.timer /\ c.kind = "start"
  BY <1>3 DEF SessionAfter, TargetAfter
<1>4. CASE t = c.timer /\ c.kind \in {"pause", "resume", "finish", "cancel"} /\ s # None
  <2>1. /\ {"paused", "running", "completed", "cancelled"} \subseteq Active \cup Ended
        /\ c.kind \in Lifecycle
    BY <1>4 DEF Active, Ended, Lifecycle
  <2>2. Clamp(c.observed, 0, s.planned) \in 0 .. s.planned /\ s.planned \in 0 .. s.planned
    BY <1>1, <1>4, ClampType DEF Session, Command
  <2>3. \E status \in Active \cup Ended, elapsed \in 0 .. s.planned :
          /\ z = Transition(s, c, status, elapsed)
          /\ <<c.kind, status>> \in Moves
          /\ status = "completed" => elapsed = s.planned
    <3>1. CASE c.kind = "pause"
      BY <1>4, <2>1, <2>2, <3>1 DEF SessionAfter, TargetAfter, Moves, s
    <3>2. CASE c.kind = "resume"
      BY <1>4, <2>1, <2>2, <3>2 DEF SessionAfter, TargetAfter, Moves, s
    <3>3. CASE c.kind = "finish"
      BY <1>4, <2>1, <2>2, <3>3 DEF SessionAfter, TargetAfter, Moves, s
    <3>4. CASE c.kind = "cancel"
      BY <1>4, <2>1, <2>2, <3>4 DEF SessionAfter, TargetAfter, Moves, s
    <3> QED
      BY <1>4, <3>1, <3>2, <3>3, <3>4
  <2> QED
    BY <1>1, <1>4, <2>1, <2>3 DEF s
<1>5. CASE t = c.timer /\ c.kind = "clear" /\ s # None
  BY <1>1, <1>5 DEF SessionAfter, TargetAfter, s
<1>6. CASE t = c.timer /\ c.kind \in {"retarget", "unknown"} /\ s # None
  BY <1>1, <1>6 DEF SessionAfter, TargetAfter, s
<1>7. CASE t = c.timer /\ c.kind # "start" /\ s = None
  BY <1>7 DEF SessionAfter, TargetAfter, s
<1> QED
  BY <1>2, <1>3, <1>4, <1>5, <1>6, <1>7 DEF Command, Kinds

\* A rejected start changes no session.
LEMMA HandleCases ==
  ASSUME NEW r \in Reduction, NEW c \in Command
  PROVE  \/ Becomes(r, Handle(r, c), c) /\ (c.kind = "start" => ~ HistoryIdTaken(r, c.timer))
         \/ /\ Handle(r, c).sessions = r.sessions
            /\ Handle(r, c).current = r.current
<1>1. CASE c.kind = "start" /\ HistoryIdTaken(r, c.timer)
  <2>1. Handle(r, c) = Start(r, c)
    BY <1>1 DEF Handle
  <2> QED
    BY <1>1, <2>1 DEF Start, WithOutcome, Reduction
<1> QED
  BY <1>1, HandlePointwise

-----------------------------------------------------------------------------
(* Seeding.                                                                *)

LEMMA FromHistoryType ==
  ASSUME NEW r \in Row,
         IF r.status = "completed" THEN r.completed # None ELSE r.ended # None
  PROVE  SessionFromHistory(r) \in Session
<1> DEFINE at == IF r.status = "completed" THEN r.completed ELSE r.ended
<1>1. at \in Int
  BY DEF Row
<1>2. (IF r.status = "completed" THEN r.planned ELSE 0) \in Nat
  BY DEF Row
<1> HIDE DEF at
<1>3. SessionFromHistory(r) =
        [historyId |-> r.id, task |-> r.task, phase |-> r.phase,
         status |-> r.status, planned |-> r.planned,
         elapsed |-> IF r.status = "completed" THEN r.planned ELSE 0,
         anchor |-> at, ended |-> at, lastCmd |-> r.cmd, terminalCmd |-> r.cmd,
         supersededBy |-> None, intent |-> None]
  BY DEF at, SessionFromHistory
<1> QED
  BY <1>1, <1>2, <1>3 DEF Row, Session

LEMMA FromCanonicalType ==
  ASSUME NEW snap \in Snapshot, snap # None
  PROVE  SessionFromCanonical(snap) \in Session
<1> DEFINE cmd == IF snap.intent = None THEN None ELSE snap.intent.cmd
<1>1. cmd \in Nat \cup {None}
  BY DEF Snapshot, Intent
<1>2. SessionFromCanonical(snap) =
        [historyId |-> snap.timer, task |-> snap.task, phase |-> snap.phase,
         status |-> snap.status, planned |-> snap.planned,
         elapsed |-> snap.elapsed, anchor |-> snap.anchor,
         ended |-> IF snap.status \in Ended THEN snap.anchor ELSE None,
         lastCmd |-> cmd,
         terminalCmd |-> IF snap.status \in Ended /\ snap.intent # None
                            /\ snap.intent.kind \notin {"start", "pause", "resume"}
                         THEN cmd ELSE None,
         supersededBy |-> None, intent |-> snap.intent]
  BY DEF SessionFromCanonical
<1> HIDE DEF cmd
<1> QED
  BY <1>1, <1>2 DEF Snapshot, Session

LEMMA SeedSessionType ==
  ASSUME NEW snap \in Snapshot \cup {None}, NEW rows \in SUBSET Row,
         ValidHistory(rows), NEW t \in Timers
  PROVE  /\ SeedSession(snap, rows, t) \in Session \cup {None}
         /\ snap = None \/ snap.timer # t =>
              \/ SeedSession(snap, rows, t) = None
              \/ SeedSession(snap, rows, t).status \in Ended
         /\ SeedSession(snap, rows, t) # None =>
              SeedSession(snap, rows, t).supersededBy = None
<1> DEFINE own == {r \in rows : r.timer = t}
           row == SessionFromHistory(CHOOSE r \in own : TRUE)
           can == SessionFromCanonical(snap)
<1>1. own # {} => /\ row \in Session /\ row.status \in Ended
                  /\ row.supersededBy = None
  <2> SUFFICES ASSUME own # {}
               PROVE  /\ row \in Session /\ row.status \in Ended
                      /\ row.supersededBy = None
    OBVIOUS
  <2> DEFINE pick == CHOOSE r \in own : TRUE
  <2>1. pick \in own
    OBVIOUS
  <2>2. /\ pick \in Row
        /\ IF pick.status = "completed" THEN pick.completed # None
                                        ELSE pick.ended # None
    BY <2>1 DEF ValidHistory
  <2> HIDE DEF pick
  <2>3. SessionFromHistory(pick) \in Session
    BY <2>2, FromHistoryType
  <2>4. /\ SessionFromHistory(pick).status \in Ended
        /\ SessionFromHistory(pick).supersededBy = None
    BY <2>2 DEF SessionFromHistory, Row
  <2> QED
    BY <2>3, <2>4 DEF pick
<1>2. CASE snap = None \/ snap.timer # t
  BY <1>1, <1>2 DEF SeedSession
<1>3. CASE ~ (snap = None \/ snap.timer # t)
  <2>1. can \in Session /\ can.supersededBy = None
    BY <1>3, FromCanonicalType DEF SessionFromCanonical
  <2>2. own # {} =>
          LET s == [can EXCEPT !.historyId = row.historyId,
                               !.terminalCmd = row.terminalCmd,
                               !.ended = row.ended]
          IN  s \in Session /\ s.supersededBy = None
    <3> HIDE DEF can, row, own
    <3> QED
      BY <1>1, <2>1 DEF Session
  <2>3. SeedSession(snap, rows, t) =
          IF own = {} THEN can
          ELSE [can EXCEPT !.historyId = row.historyId,
                           !.terminalCmd = row.terminalCmd,
                           !.ended = row.ended]
    BY <1>3 DEF SeedSession
  <2> HIDE DEF can, row, own
  <2>4. SeedSession(snap, rows, t) \in Session
    BY <2>1, <2>2, <2>3
  <2>5. SeedSession(snap, rows, t).supersededBy = None
    BY <2>1, <2>2, <2>3
  <2> QED
    BY <1>3, <2>4, <2>5
<1> QED
  BY <1>2, <1>3

LEMMA SeedType ==
  ASSUME NEW snap \in Snapshot \cup {None}, NEW rows \in SUBSET Row,
         ValidHistory(rows)
  PROVE  Seed(snap, rows) \in Reduction
<1>1. (IF snap = None THEN None ELSE snap.timer) \in Timers \cup {None}
  BY DEF Snapshot
<1>2. [t \in Timers |-> SeedSession(snap, rows, t)]
        \in [Timers -> Session \cup {None}]
  BY SeedSessionType
<1> QED
  BY <1>1, <1>2 DEF Seed, Reduction, Outcomes

-----------------------------------------------------------------------------
(* The readable projection.  The pair that a read projects is accepted by  *)
(* the boundary again because history ids stay apart, because what is over *)
(* has an instant, and because of what made the current timer what it is.  *)

\* Two sessions share neither a history id nor one's history id and a timer.
IdsApart(r) ==
  \A t, u \in Timers :
    t # u /\ r.sessions[t] # None /\ r.sessions[u] # None =>
      /\ r.sessions[t].historyId # r.sessions[u].historyId
      /\ r.sessions[t].historyId # u

Ends(r) ==
  \A t \in Timers :
    r.sessions[t] # None /\ r.sessions[t].status \in Ended => r.sessions[t].ended # None

\* The current session: running, its intent is what activated it; over, its
\* provenance is one that the boundary knows.
Provenance(s) ==
  /\ s.status = "running" =>
       /\ s.terminalCmd = None
       /\ s.intent # None => s.intent.kind \in {"start", "resume"} /\ s.intent.at <= s.anchor
  /\ s.status \in Ended => /\ s.ended = s.anchor /\ FullElapsed(s)
                           /\ TerminalIntent(s, s.terminalCmd)

CurrentProvenance(r) == Exists(r, r.current) => Provenance(r.sessions[r.current])

Presentable(r) == IdsApart(r) /\ Ends(r) /\ CurrentProvenance(r)

LEMMA DeadlineReadable ==
  ASSUME NEW r \in Reduction, Presentable(r), NEW at \in Int
  PROVE  Presentable(AutoCompleteCurrent(r, at))
<1> DEFINE d == AutoCompleteCurrent(r, at)
<1>1. /\ d.current = r.current
      /\ \A t \in Timers : d.sessions[t] = IF r.current = t /\ r.sessions[t] # None
                                           THEN AutoComplete(r.sessions[t], at)
                                           ELSE r.sessions[t]
  BY DeadlinePointwise
<1> HIDE DEF d
<1>2. ASSUME NEW t \in Timers, r.sessions[t] # None
      PROVE  LET s == r.sessions[t]
                 z == AutoComplete(s, at)
             IN  /\ z # None /\ z.historyId = s.historyId
                 /\ (s.status \in Ended => s.ended # None)
                      => (z.status \in Ended => z.ended # None)
                 /\ Provenance(s) => Provenance(z)
  <2> DEFINE s == r.sessions[t]
             z == AutoComplete(s, at)
  <2>1. s \in Session
    BY <1>2 DEF Reduction
  <2>2. z # None
    BY <2>1, AutoCompleteType, ReducerAssumption
  <2>3. CASE z = s
    BY <2>2, <2>3
  <2>4. CASE z # s
    <3>1. /\ s.status = "running" /\ z.status = "completed" /\ z.elapsed = s.planned
          /\ z.anchor = Deadline(s) /\ z.ended = Deadline(s)
          /\ z.terminalCmd = s.terminalCmd /\ z.historyId = s.historyId
          /\ z.intent = s.intent /\ z.planned = s.planned
      BY <2>1, <2>4, CompletedFields
    <3>2. Deadline(s) \in Int /\ Deadline(s) >= s.anchor /\ s.anchor \in Int
      BY <2>1 DEF Deadline, Session
    <3>3. s.intent # None => s.intent.at \in Int
      BY <2>1 DEF Session, Intent
    <3> HIDE DEF z, s
    <3>4. Provenance(s) => Provenance(z)
      BY <3>1, <3>2, <3>3 DEF Provenance, FullElapsed, TerminalIntent
    <3>5. z.ended # None
      BY <3>1, <3>2, ReducerAssumption
    <3> QED
      BY <2>2, <3>1, <3>4, <3>5 DEF z, s
  <2> QED
    BY <2>3, <2>4
<1>3. IdsApart(d)
  BY <1>1, <1>2 DEF Presentable, IdsApart
<1>4. Ends(d)
  BY <1>1, <1>2 DEF Presentable, Ends
<1>5. CurrentProvenance(d)
  BY <1>1, <1>2, ReducerAssumption DEF Presentable, CurrentProvenance, Exists, Reduction
<1> QED
  BY <1>3, <1>4, <1>5 DEF Presentable, d

\* What handling does to the history id and the end of a session.
LEMMA SessionAfterKeeps ==
  ASSUME NEW r \in Reduction, NEW c \in Command, NEW t \in Timers,
         SessionAfter(r, t, c) # None
  PROVE  LET s == r.sessions[t]
             z == SessionAfter(r, t, c)
         IN  /\ \/ s # None /\ z.historyId = s.historyId
                \/ t = c.timer /\ c.kind = "start" /\ z.historyId = t
             /\ (s # None /\ s.status \in Ended => s.ended # None)
                  => (z.status \in Ended => z.ended # None)
<1> DEFINE s == r.sessions[t]
           z == SessionAfter(r, t, c)
<1>1. c.at # None
  BY ReducerAssumption DEF Command
<1>2. CASE z = s
  BY <1>2
<1>3. CASE t = c.timer /\ c.kind = "start" /\ z = StartedSession(c)
  BY <1>3, StartedFields DEF Ended
<1>4. ASSUME s \in Session, c.kind \in Lifecycle,
             NEW status \in Active \cup Ended, NEW elapsed \in 0 .. s.planned,
             z = Transition(s, c, status, elapsed)
      PROVE  z.historyId = s.historyId /\ (z.status \in Ended => z.ended # None)
  <2>1. elapsed \in Nat
    BY <1>4 DEF Session
  <2> QED
    BY <1>1, <1>4, <2>1, TransitionFields
<1>5. CASE s \in Session /\ c.kind = "clear" /\ z = ClearedSession(s, c)
  BY <1>5, ClearedFields, ReducerAssumption
<1>6. CASE s \in Session /\ z = RetargetedSession(s, c)
  BY <1>6, RetargetedFields, ReducerAssumption
<1>7. CASE s \in Session /\ z = Supersede(s, c.at, c.timer, c.id)
  BY <1>1, <1>7, SupersedeFields, ReducerAssumption
<1>8. s \in Session => s # None
  BY ReducerAssumption
<1> HIDE DEF s, z
<1> QED
  BY <1>2, <1>3, <1>4, <1>5, <1>6, <1>7, <1>8, SessionCases DEF s, z

\* A session that was taken carries its command as its provenance.
LEMMA TakenProvenance ==
  ASSUME NEW r \in Reduction, NEW c \in Command, Takes(r.sessions[c.timer], c)
  PROVE  Provenance(SessionAfter(r, c.timer, c))
<1> DEFINE s == r.sessions[c.timer]
           z == SessionAfter(r, c.timer, c)
<1>1. c.timer \in Timers /\ c.at \in Int
  BY DEF Command
<1>2. c.kind \in {"start", "pause", "resume", "finish", "cancel"}
  BY DEF Takes
<1>3. /\ CommandIntent(c) # None /\ CommandIntent(c).kind = c.kind
      /\ CommandIntent(c).at = c.at /\ CommandIntent(c).cmd = c.id
  BY <1>2, CommandIntentType, ReducerAssumption DEF CommandIntent, Lifecycle
<1>4. CASE c.kind = "start"
  <2>1. z = StartedSession(c)
    BY <1>4 DEF SessionAfter, TargetAfter
  <2>2. /\ z.status = "running" /\ z.terminalCmd = None /\ z.intent = CommandIntent(c)
        /\ z.anchor = c.at
    BY <1>4, <2>1, StartedFields
  <2> HIDE DEF z
  <2>3. Provenance(z)
    BY <1>1, <1>3, <1>4, <2>2 DEF Provenance, Ended
  <2> QED
    BY <2>3 DEF z
<1>5. CASE c.kind # "start"
  <2>1. s \in Session /\ s # None
    BY <1>1, <1>5 DEF Takes, Reduction
  <2>2. /\ {"paused", "running", "completed", "cancelled"} \subseteq Active \cup Ended
        /\ c.kind \in Lifecycle
    BY <1>2 DEF Active, Ended, Lifecycle
  <2>3. Clamp(c.observed, 0, s.planned) \in Nat /\ s.planned \in Nat
    BY <2>1, ClampType DEF Session, Command
  <2>4. ASSUME NEW status \in Active \cup Ended, NEW elapsed \in Nat,
               z = Transition(s, c, status, elapsed)
        PROVE  /\ z.status = status /\ z.elapsed = elapsed /\ z.anchor = c.at
               /\ z.ended = IF status \in Ended THEN c.at ELSE None
               /\ z.terminalCmd = IF status \in Ended THEN c.id ELSE None
               /\ z.intent = CommandIntent(c) /\ z.planned = s.planned
    BY <2>1, <2>2, <2>4, TransitionFields
  <2>5. CASE c.kind = "pause"
    <3>1. z = Transition(s, c, "paused", Clamp(c.observed, 0, s.planned))
      BY <2>1, <2>5 DEF SessionAfter, TargetAfter
    <3>2. z.status = "paused"
      BY <2>2, <2>3, <2>4, <3>1
    <3> QED
      BY <3>2 DEF Provenance, Ended
  <2>6. CASE c.kind = "resume"
    <3>1. z = Transition(s, c, "running", Clamp(c.observed, 0, s.planned))
      BY <2>1, <2>6 DEF SessionAfter, TargetAfter
    <3>2. z.status = "running" /\ z.terminalCmd = None /\ z.anchor = c.at
          /\ z.intent = CommandIntent(c)
      BY <2>2, <2>3, <2>4, <3>1 DEF Ended
    <3> HIDE DEF z
    <3>3. Provenance(z)
      BY <1>1, <1>3, <2>6, <3>2 DEF Provenance, Ended
    <3> QED
      BY <3>3 DEF z
  <2>7. CASE c.kind = "finish"
    <3>1. z = Transition(s, c, "completed", s.planned)
      BY <2>1, <2>7 DEF SessionAfter, TargetAfter
    <3>2. /\ z.status = "completed" /\ z.terminalCmd = c.id /\ z.anchor = c.at
          /\ z.ended = c.at /\ z.intent = CommandIntent(c) /\ z.elapsed = z.planned
      BY <2>2, <2>3, <2>4, <3>1 DEF Ended
    <3> HIDE DEF z
    <3>3. Provenance(z)
      BY <1>3, <2>7, <3>2 DEF Provenance, FullElapsed, TerminalIntent
    <3> QED
      BY <3>3 DEF z
  <2>8. CASE c.kind = "cancel"
    <3>1. z = Transition(s, c, "cancelled", Clamp(c.observed, 0, s.planned))
      BY <2>1, <2>8 DEF SessionAfter, TargetAfter
    <3>2. /\ z.status = "cancelled" /\ z.terminalCmd = c.id /\ z.anchor = c.at
          /\ z.ended = c.at /\ z.intent = CommandIntent(c)
      BY <2>2, <2>3, <2>4, <3>1 DEF Ended
    <3> HIDE DEF z
    <3>3. Provenance(z)
      BY <1>3, <2>8, <3>2 DEF Provenance, FullElapsed, TerminalIntent
    <3> QED
      BY <3>3 DEF z
  <2> QED
    BY <1>2, <1>5, <2>5, <2>6, <2>7, <2>8
<1> QED
  BY <1>4, <1>5

LEMMA HandleReadable ==
  ASSUME NEW r \in Reduction, Presentable(r), NEW c \in Command
  PROVE  Presentable(Handle(r, c))
<1> DEFINE h == Handle(r, c)
<1>1. c.timer \in Timers
  BY DEF Command
<1>2. CASE h.sessions = r.sessions /\ h.current = r.current
  BY <1>2 DEF Presentable, IdsApart, Ends, CurrentProvenance, Exists
<1>3. CASE Becomes(r, h, c) /\ (c.kind = "start" => ~ HistoryIdTaken(r, c.timer))
  <2> HIDE DEF h
  <2>1. \A t \in Timers : h.sessions[t] = SessionAfter(r, t, c)
    BY <1>3 DEF Becomes
  <2>2. \A t \in Timers : h.sessions[t] # None =>
          \/ r.sessions[t] # None /\ h.sessions[t].historyId = r.sessions[t].historyId
          \/ t = c.timer /\ c.kind = "start" /\ h.sessions[t].historyId = t
    BY <2>1, SessionAfterKeeps
  <2>3. IdsApart(h)
    <3> SUFFICES ASSUME NEW t \in Timers, NEW u \in Timers, t # u,
                        h.sessions[t] # None, h.sessions[u] # None
                 PROVE  /\ h.sessions[t].historyId # h.sessions[u].historyId
                        /\ h.sessions[t].historyId # u
      BY DEF IdsApart
    <3>1. CASE /\ r.sessions[t] # None /\ h.sessions[t].historyId = r.sessions[t].historyId
               /\ r.sessions[u] # None /\ h.sessions[u].historyId = r.sessions[u].historyId
      BY <3>1 DEF Presentable, IdsApart
    <3>2. CASE t = c.timer /\ c.kind = "start" /\ h.sessions[t].historyId = t
      BY <1>3, <2>2, <3>2 DEF HistoryIdTaken
    <3>3. CASE /\ u = c.timer /\ c.kind = "start" /\ h.sessions[u].historyId = u
               /\ r.sessions[t] # None /\ h.sessions[t].historyId = r.sessions[t].historyId
      BY <1>3, <3>3 DEF HistoryIdTaken
    <3> QED
      BY <2>2, <3>1, <3>2, <3>3
  <2>4. Ends(h)
    BY <2>1, SessionAfterKeeps DEF Presentable, Ends
  <2>5. CurrentProvenance(h)
    <3> SUFFICES ASSUME Exists(h, h.current)
                 PROVE  Provenance(h.sessions[h.current])
      BY DEF CurrentProvenance
    <3>1. CASE Takes(r.sessions[c.timer], c)
      BY <1>1, <1>3, <2>1, <3>1, TakenProvenance DEF Becomes, CurrentAfter
    <3>2. CASE ~ Takes(r.sessions[c.timer], c)
      <4> DEFINE t == r.current
                 s == r.sessions[t]
      <4>1. /\ h.current = t /\ t \in Timers /\ h.sessions[t] # None
            /\ ~ (c.kind = "clear" /\ t = c.timer /\ s # None)
        BY <1>3, <3>2 DEF Becomes, CurrentAfter, Exists, Reduction
      <4>2. h.sessions[t] = s \/ (s \in Session /\ h.sessions[t] = RetargetedSession(s, c))
        <5>1. CASE t = c.timer
          <6>1. SessionAfter(r, t, c) = TargetAfter(s, r.current, c) /\ s # None
            BY <2>1, <3>2, <4>1, <5>1 DEF SessionAfter, TargetAfter, Takes
          <6>2. SessionAfter(r, t, c) \in {s, RetargetedSession(s, c)}
            BY <3>2, <4>1, <5>1, <6>1 DEF TargetAfter, Takes
          <6>3. s \in Session
            BY <4>1, <6>1 DEF Reduction
          <6> QED
            BY <2>1, <4>1, <6>2, <6>3
        <5>2. CASE t # c.timer
          BY <2>1, <3>2, <4>1, <5>2 DEF SessionAfter, OtherAfter
        <5> QED
          BY <5>1, <5>2
      <4>3. CASE h.sessions[t] = s
        BY <4>1, <4>3 DEF Presentable, CurrentProvenance, Exists
      <4>4. CASE s \in Session /\ h.sessions[t] = RetargetedSession(s, c)
        <5> DEFINE z == RetargetedSession(s, c)
        <5>1. /\ z.status = s.status /\ z.terminalCmd = s.terminalCmd /\ z.intent = s.intent
              /\ z.anchor = s.anchor /\ z.ended = s.ended /\ z.elapsed = s.elapsed
              /\ z.planned = s.planned
          BY <4>4, RetargetedFields
        <5>2. Provenance(s)
          BY <4>1, <4>4, ReducerAssumption DEF Presentable, CurrentProvenance, Exists, Reduction
        <5> HIDE DEF z, s
        <5>3. Provenance(z)
          BY <5>1, <5>2 DEF Provenance, FullElapsed, TerminalIntent
        <5> QED
          BY <4>1, <4>4, <5>3 DEF z, s
      <4> QED
        BY <4>1, <4>2, <4>3, <4>4
    <3> QED
      BY <3>1, <3>2
  <2> QED
    BY <2>3, <2>4, <2>5 DEF Presentable, h
<1> QED
  BY <1>2, <1>3, HandleCases

\* Where a seeded session comes from.
LEMMA SeedCases ==
  ASSUME NEW snap \in Snapshot \cup {None}, NEW rows \in SUBSET Row,
         ValidHistory(rows), NEW t \in Timers, SeedSession(snap, rows, t) # None
  PROVE  LET s == SeedSession(snap, rows, t) IN
         \/ \E row \in rows :
              /\ row.timer = t /\ s.historyId = row.id
              /\ s.ended = IF row.status = "completed" THEN row.completed ELSE row.ended
              /\ s.ended # None
              /\ snap # None /\ snap.timer = t =>
                   /\ s.status = snap.status /\ s.elapsed = snap.elapsed
                   /\ s.planned = snap.planned /\ s.anchor = snap.anchor
                   /\ s.intent = snap.intent /\ s.terminalCmd = row.cmd
         \/ /\ snap # None /\ snap.timer = t /\ \A row \in rows : row.timer # t
            /\ s = SessionFromCanonical(snap)
<1> DEFINE own == {r \in rows : r.timer = t}
           pick == CHOOSE r \in own : TRUE
           row == SessionFromHistory(pick)
           can == SessionFromCanonical(snap)
           s == SeedSession(snap, rows, t)
<1>1. own # {} => pick \in own
  OBVIOUS
<1> HIDE DEF pick
<1>2. own # {} =>
        /\ pick \in rows /\ pick.timer = t /\ row.historyId = pick.id
        /\ row.terminalCmd = pick.cmd
        /\ row.ended = IF pick.status = "completed" THEN pick.completed ELSE pick.ended
        /\ row.ended # None
  BY <1>1 DEF SessionFromHistory, ValidHistory
<1>3. CASE snap = None \/ snap.timer # t
  <2>1. own # {} /\ s = row
    BY <1>3 DEF SeedSession, pick
  <2> QED
    BY <1>2, <1>3, <2>1
<1>4. CASE snap # None /\ snap.timer = t /\ own = {}
  BY <1>4 DEF SeedSession
<1>5. CASE snap # None /\ snap.timer = t /\ own # {}
  <2>1. s = [can EXCEPT !.historyId = row.historyId, !.terminalCmd = row.terminalCmd,
                        !.ended = row.ended]
    BY <1>5 DEF SeedSession, pick
  <2>2. can \in Session
    BY <1>5, FromCanonicalType
  <2>3. /\ can.status = snap.status /\ can.elapsed = snap.elapsed
        /\ can.planned = snap.planned /\ can.anchor = snap.anchor
        /\ can.intent = snap.intent
    BY DEF SessionFromCanonical
  <2> HIDE DEF s, can, row
  <2>4. /\ s.status = can.status /\ s.elapsed = can.elapsed
        /\ s.planned = can.planned /\ s.anchor = can.anchor
        /\ s.intent = can.intent /\ s.terminalCmd = row.terminalCmd
        /\ s.historyId = row.historyId /\ s.ended = row.ended
    BY <2>1, <2>2 DEF Session
  <2> QED
    BY <1>2, <1>5, <2>3, <2>4 DEF s
<1> QED
  BY <1>3, <1>4, <1>5

\* A running snapshot carries the intent that activated it, no later than its
\* anchor, or none.
RunningIntentOK(snap) ==
  snap.status = "running" /\ snap.intent # None =>
    snap.intent.kind \in {"start", "resume"} /\ snap.intent.at <= snap.anchor

LEMMA SeedReadable ==
  ASSUME NEW snap \in Snapshot \cup {None}, NEW rows \in SUBSET Row,
         ValidPair(snap, rows), snap # None => RunningIntentOK(snap)
  PROVE  Presentable(Seed(snap, rows))
<1> DEFINE r == Seed(snap, rows)
<1>1. /\ \A t \in Timers : r.sessions[t] = SeedSession(snap, rows, t)
      /\ r.current = IF snap = None THEN None ELSE snap.timer
  BY DEF Seed
<1>2. ValidHistory(rows) /\ NoAlias(snap, rows) /\ None \notin Snapshot
  BY BoundaryAssumption DEF ValidPair
<1> HIDE DEF r
<1>3. ASSUME NEW t \in Timers, r.sessions[t] # None
      PROVE  \/ \E row \in rows : row.timer = t /\ r.sessions[t].historyId = row.id
             \/ /\ snap # None /\ snap.timer = t /\ \A row \in rows : row.timer # t
                /\ r.sessions[t].historyId = t
  BY <1>1, <1>2, <1>3, SeedCases DEF SessionFromCanonical
<1>4. IdsApart(r)
  <2> SUFFICES ASSUME NEW t \in Timers, NEW u \in Timers, t # u,
                      r.sessions[t] # None, r.sessions[u] # None
               PROVE  /\ r.sessions[t].historyId # r.sessions[u].historyId
                      /\ r.sessions[t].historyId # u
    BY DEF IdsApart
  <2> QED
    BY <1>2, <1>3 DEF NoAlias, ValidHistory
<1>5. Ends(r)
  <2> SUFFICES ASSUME NEW t \in Timers, r.sessions[t] # None,
                      r.sessions[t].status \in Ended
               PROVE  r.sessions[t].ended # None
    BY DEF Ends
  <2>1. CASE r.sessions[t] = SessionFromCanonical(snap) /\ snap # None
    BY <2>1, ReducerAssumption DEF SessionFromCanonical, Snapshot
  <2> QED
    BY <1>1, <1>2, <2>1, SeedCases
<1>6. CurrentProvenance(r)
  <2> SUFFICES ASSUME snap # None, NEW t, t = snap.timer, r.sessions[t] # None
               PROVE  Provenance(r.sessions[t])
    BY <1>1 DEF CurrentProvenance, Exists
  <2> DEFINE s == r.sessions[t]
  <2>1. t \in Timers /\ snap \in Snapshot
    BY DEF Snapshot
  <2>2. CASE \E row \in rows :
               /\ row.timer = t /\ s.ended # None
               /\ s.ended = IF row.status = "completed" THEN row.completed ELSE row.ended
               /\ s.status = snap.status /\ s.elapsed = snap.elapsed
               /\ s.planned = snap.planned /\ s.anchor = snap.anchor
               /\ s.intent = snap.intent /\ s.terminalCmd = row.cmd
    <3>1. PICK row \in rows :
               /\ row.timer = t /\ s.ended # None
               /\ s.ended = IF row.status = "completed" THEN row.completed ELSE row.ended
               /\ s.status = snap.status /\ s.elapsed = snap.elapsed
               /\ s.planned = snap.planned /\ s.anchor = snap.anchor
               /\ s.intent = snap.intent /\ s.terminalCmd = row.cmd
      BY <2>2
    <3>2. Matches(snap, row)
      BY <3>1 DEF ValidPair
    <3>3. s.status \in Ended /\ s.status # "running"
      BY <3>1, <3>2 DEF Matches, Row, Ended
    <3> HIDE DEF s
    <3>4. Provenance(s)
      BY <3>1, <3>2, <3>3 DEF Provenance, Matches, FullElapsed, TerminalIntent
    <3> QED
      BY <3>4 DEF s
  <2>3. CASE s = SessionFromCanonical(snap) /\ \A row \in rows : row.timer # t
    <3>1. /\ s.status = snap.status /\ s.elapsed = snap.elapsed
          /\ s.planned = snap.planned /\ s.anchor = snap.anchor
          /\ s.intent = snap.intent
          /\ s.ended = IF snap.status \in Ended THEN snap.anchor ELSE None
          /\ s.terminalCmd = IF snap.status \in Ended /\ snap.intent # None
                                /\ snap.intent.kind \notin {"start", "pause", "resume"}
                             THEN snap.intent.cmd ELSE None
      BY <2>3 DEF SessionFromCanonical
    <3>2. Standalone(snap)
      BY <2>3 DEF ValidPair
    <3> HIDE DEF s
    <3>3. ASSUME snap.status \in Ended
          PROVE  Provenance(s)
      <4>1. FullElapsed(snap) /\ s.status # "running"
        BY <3>1, <3>2, <3>3 DEF Standalone, Ended
      <4>2. TerminalIntent(snap, s.terminalCmd)
        <5>1. TerminalIntent(snap, IF snap.intent # None
                                      /\ snap.intent.kind \in {"finish", "cancel"}
                                   THEN snap.intent.cmd ELSE None)
          BY <3>2, <3>3 DEF Standalone
        <5>2. snap.intent # None => snap.intent.kind \in Lifecycle
          BY <2>1 DEF Snapshot, Intent
        <5> QED
          BY <3>1, <3>3, <5>1, <5>2 DEF TerminalIntent, Lifecycle
      <4> QED
        BY <3>1, <3>3, <4>1, <4>2 DEF Provenance, FullElapsed, TerminalIntent
    <3>4. ASSUME snap.status \notin Ended
          PROVE  Provenance(s)
      <4>1. RunningIntentOK(snap)
        OBVIOUS
      <4> QED
        BY <3>1, <3>4, <4>1 DEF Provenance, RunningIntentOK
    <3>5. Provenance(s)
      BY <3>3, <3>4
    <3> QED
      BY <3>5 DEF s
  <2> QED
    BY <1>1, <1>2, <2>1, <2>2, <2>3, SeedCases
<1> QED
  BY <1>4, <1>5, <1>6 DEF Presentable, r

LEMMA ReadableValid ==
  ASSUME NEW r \in Reduction, Presentable(r)
  PROVE  ValidPair(Canonical(r), History(r))
<1> DEFINE timer == Canonical(r)
           rows == History(r)
           cur == r.sessions[r.current]
<1>1. ASSUME NEW row \in rows
      PROVE  \E t \in Timers : /\ r.sessions[t] \in Session
                               /\ r.sessions[t].status \in Ended
                               /\ row = HistoryRow(t, r.sessions[t])
                               /\ r.sessions[t].ended # None
  BY <1>1 DEF History, Presentable, Ends, Reduction
<1>2. timer # None => /\ Exists(r, r.current) /\ timer.timer = r.current
                      /\ timer.task = cur.task /\ timer.phase = cur.phase
                      /\ timer.status = cur.status /\ timer.planned = cur.planned
                      /\ timer.elapsed = Clamp(cur.elapsed, 0, cur.planned)
                      /\ timer.anchor = cur.anchor /\ timer.intent = cur.intent
                      /\ Provenance(cur)
  BY DEF Canonical, Presentable, CurrentProvenance
<1>3. timer # None => cur \in Session /\ r.current \in Timers
  BY <1>2, ReducerAssumption DEF Exists, Reduction
<1> HIDE DEF timer, rows
<1>4. timer # None => timer.elapsed <= timer.planned
  BY <1>2, <1>3 DEF Clamp, Session
<1>5. ValidHistory(rows)
  <2>1. ASSUME NEW row \in rows, NEW other \in rows, row # other
        PROVE  row.id # other.id /\ row.timer # other.timer
    BY <1>1, <2>1, ReducerAssumption DEF HistoryRow, Presentable, IdsApart
  <2>2. ASSUME NEW row \in rows
        PROVE  IF row.status = "completed" THEN row.completed # None
                                           ELSE row.ended # None
    BY <1>1, <2>2 DEF HistoryRow
  <2> QED
    BY <2>1, <2>2 DEF ValidHistory
<1>6. NoAlias(timer, rows)
  <2>1. ASSUME NEW row \in rows, NEW other \in rows, row.id = other.timer
        PROVE  row.id = row.timer
    BY <1>1, <2>1, ReducerAssumption DEF HistoryRow, Presentable, IdsApart
  <2>2. ASSUME timer # None, NEW row \in rows, row.id = timer.timer
        PROVE  row.timer = timer.timer
    BY <1>1, <1>2, <1>3, <2>2, ReducerAssumption DEF HistoryRow, Presentable, IdsApart
  <2> QED
    BY <2>1, <2>2 DEF NoAlias
<1>7. timer # None => (FullElapsed(cur) => FullElapsed(timer))
  BY <1>2, <1>3 DEF FullElapsed, Clamp, Session
<1>8. ASSUME timer # None, NEW row \in rows, row.timer = timer.timer
      PROVE  Matches(timer, row)
  <2>1. /\ row = HistoryRow(r.current, cur) /\ cur.status \in Ended
    BY <1>1, <1>2, <1>8 DEF HistoryRow
  <2>2. cur.ended = cur.anchor /\ FullElapsed(cur) /\ TerminalIntent(cur, cur.terminalCmd)
    BY <1>2, <1>8, <2>1 DEF Provenance
  <2> HIDE DEF cur
  <2>3. TerminalIntent(timer, row.cmd)
    BY <1>2, <1>8, <2>1, <2>2 DEF TerminalIntent, HistoryRow
  <2> QED
    BY <1>2, <1>7, <1>8, <2>1, <2>2, <2>3 DEF Matches, HistoryRow
<1>9. ASSUME timer # None, \A row \in rows : row.timer # timer.timer
      PROVE  Standalone(timer)
  <2>1. cur.status \in Ended => HistoryRow(r.current, cur) \in rows
    BY <1>2, <1>3, <1>9, ReducerAssumption DEF rows, History
  <2>2. timer.status \notin Ended
    BY <1>2, <1>9, <2>1 DEF HistoryRow
  <2> QED
    BY <2>2 DEF Standalone
<1> QED
  BY <1>4, <1>5, <1>6, <1>8, <1>9 DEF ValidPair, timer, rows

-----------------------------------------------------------------------------
(* The states that a replay can be in: S has the timers that were started. *)

Good(S) ==
  {r \in Reduction : /\ Presentable(r)
                     /\ \A t \in Timers : r.sessions[t] # None =>
                          r.sessions[t].historyId = t /\ t \in S}

LEMMA GoodIdFree ==
  ASSUME NEW S, NEW r \in Good(S), NEW t \in Timers
  PROVE  ~ HistoryIdTaken(r, t)
  BY DEF Good, HistoryIdTaken

LEMMA GoodDeadline ==
  ASSUME NEW S, NEW r \in Good(S), NEW at \in Int
  PROVE  AutoCompleteCurrent(r, at) \in Good(S)
<1> DEFINE d == AutoCompleteCurrent(r, at)
<1>1. r \in Reduction /\ Presentable(r)
  BY DEF Good
<1>2. d \in Reduction /\ Presentable(d)
  BY <1>1, AutoCompleteCurrentType, DeadlineReadable
<1>3. ASSUME NEW t \in Timers, d.sessions[t] # None
      PROVE  d.sessions[t].historyId = t /\ t \in S
  <2>1. /\ r.sessions[t] # None
        /\ d.sessions[t] \in {r.sessions[t], AutoComplete(r.sessions[t], at)}
    BY <1>1, <1>3, DeadlinePointwise
  <2>2. r.sessions[t] \in Session
    BY <1>1, <2>1 DEF Reduction
  <2>3. AutoComplete(r.sessions[t], at).historyId = r.sessions[t].historyId
    BY <2>2, CompletedFields
  <2> QED
    BY <2>1, <2>3 DEF Good
<1> QED
  BY <1>2, <1>3 DEF Good

LEMMA GoodHandle ==
  ASSUME NEW S, NEW d \in Good(S), NEW c \in Command, c.kind = "start" => c.timer \in S
  PROVE  Handle(d, c) \in Good(S)
<1> DEFINE h == Handle(d, c)
<1>1. d \in Reduction /\ Presentable(d)
  BY DEF Good
<1>2. h \in Reduction /\ Presentable(h)
  BY <1>1, HandleType, HandleReadable
<1>3. Becomes(d, h, c) \/ h.sessions = d.sessions
  BY <1>1, HandleCases
<1> HIDE DEF h
<1>4. ASSUME NEW t \in Timers, h.sessions[t] # None
      PROVE  h.sessions[t].historyId = t /\ t \in S
  <2>1. CASE h.sessions = d.sessions
    BY <1>4, <2>1 DEF Good
  <2>2. CASE Becomes(d, h, c)
    <3>1. h.sessions[t] = SessionAfter(d, t, c)
      BY <2>2 DEF Becomes
    <3>2. \/ d.sessions[t] # None /\ h.sessions[t].historyId = d.sessions[t].historyId
          \/ t = c.timer /\ c.kind = "start" /\ h.sessions[t].historyId = t
      BY <1>1, <1>4, <3>1, SessionAfterKeeps
    <3> QED
      BY <3>2 DEF Good
  <2> QED
    BY <1>3, <2>1, <2>2
<1> QED
  BY <1>2, <1>4 DEF Good, h

-----------------------------------------------------------------------------
(* Snapshots: what a state projects, and the state that is seeded from it. *)

PairOK(timer, rows) ==
  /\ timer \in Snapshot \cup {None} /\ rows \subseteq Row
  /\ ValidPair(timer, rows)
  /\ timer # None => RunningIntentOK(timer)
  /\ \A row \in rows : row.id = row.timer

Covered(timer, rows, S) ==
  (timer # None => timer.timer \in S) /\ \A row \in rows : row.timer \in S

LEMMA CanonicalFields ==
  ASSUME NEW r \in Reduction, Canonical(r) # None
  PROVE  LET s == r.sessions[r.current]
         IN  /\ r.current \in Timers /\ s \in Session
             /\ Canonical(r) \in Snapshot /\ Canonical(r).timer = r.current
             /\ Canonical(r).status = s.status /\ Canonical(r).intent = s.intent
             /\ Canonical(r).anchor = s.anchor /\ Canonical(r).phase = s.phase
             /\ Canonical(r).planned = s.planned
<1> DEFINE s == r.sessions[r.current]
           snap == [timer |-> r.current, task |-> s.task, phase |-> s.phase,
                    status |-> s.status, planned |-> s.planned,
                    elapsed |-> Clamp(s.elapsed, 0, s.planned), anchor |-> s.anchor,
                    intent |-> s.intent]
<1>1. Exists(r, r.current) /\ Canonical(r) = snap
  BY DEF Canonical
<1>2. r.current \in Timers /\ s \in Session
  BY <1>1 DEF Exists, Reduction
<1> HIDE DEF s
<1>3. Clamp(s.elapsed, 0, s.planned) \in Nat
  BY <1>2 DEF Clamp, Session
<1>4. snap \in Snapshot
  BY <1>2, <1>3 DEF Snapshot, Session
<1> QED
  BY <1>1, <1>2, <1>4 DEF s

LEMMA HistoryFields ==
  ASSUME NEW r \in Reduction, NEW row \in History(r)
  PROVE  \E t \in Timers : /\ r.sessions[t] \in Session /\ r.sessions[t].status \in Ended
                           /\ row \in Row /\ row.timer = t
                           /\ row.id = r.sessions[t].historyId
<1>1. PICK t \in Timers : /\ r.sessions[t] \in Session /\ r.sessions[t].status \in Ended
                          /\ row = HistoryRow(t, r.sessions[t])
  BY DEF History, Reduction
<1> DEFINE s == r.sessions[t]
<1>2. row \in Row
  <2> HIDE DEF s
  <2>1. s \in Session /\ s.status \in Ended
    BY <1>1 DEF s
  <2>2. (IF s.status = "completed" THEN s.ended ELSE None) \in Int \cup {None}
    BY <2>1 DEF Session
  <2>3. HistoryRow(t, s) \in Row
    BY <2>1, <2>2 DEF HistoryRow, Row, Session
  <2> QED
    BY <1>1, <2>3 DEF s
<1> QED
  BY <1>1, <1>2 DEF HistoryRow

LEMMA ProjectionOK ==
  ASSUME NEW S, NEW r \in Good(S)
  PROVE  PairOK(Canonical(r), History(r)) /\ Covered(Canonical(r), History(r), S)
<1>1. r \in Reduction /\ Presentable(r)
  BY DEF Good
<1>2. ValidPair(Canonical(r), History(r))
  BY <1>1, ReadableValid
<1>3. ASSUME Canonical(r) # None
      PROVE  RunningIntentOK(Canonical(r)) /\ Canonical(r) \in Snapshot /\ Canonical(r).timer \in S
  <2>1. Exists(r, r.current)
    BY <1>3 DEF Canonical
  <2>2. Provenance(r.sessions[r.current])
    BY <1>1, <2>1 DEF Presentable, CurrentProvenance
  <2>3. /\ r.current \in Timers
        /\ Canonical(r) \in Snapshot /\ Canonical(r).timer = r.current
        /\ Canonical(r).status = r.sessions[r.current].status
        /\ Canonical(r).intent = r.sessions[r.current].intent
        /\ Canonical(r).anchor = r.sessions[r.current].anchor
    BY <1>1, <1>3, CanonicalFields
  <2>4. RunningIntentOK(Canonical(r))
    BY <2>2, <2>3 DEF RunningIntentOK, Provenance
  <2> QED
    BY <2>1, <2>3, <2>4 DEF Exists, Good
<1>4. ASSUME NEW row \in History(r)
      PROVE  row \in Row /\ row.id = row.timer /\ row.timer \in S
  <2>1. PICK t \in Timers : /\ r.sessions[t] \in Session
                            /\ row \in Row /\ row.timer = t
                            /\ row.id = r.sessions[t].historyId
    BY <1>1, HistoryFields
  <2> QED
    BY <2>1, ReducerAssumption DEF Good
<1> QED
  BY <1>2, <1>3, <1>4 DEF PairOK, Covered

LEMMA SeedGood ==
  ASSUME NEW S, NEW timer, NEW rows, PairOK(timer, rows), Covered(timer, rows, S)
  PROVE  Seed(timer, rows) \in Good(S)
<1> DEFINE r == Seed(timer, rows)
<1>1. timer \in Snapshot \cup {None} /\ rows \in SUBSET Row /\ ValidPair(timer, rows)
      /\ ValidHistory(rows)
  BY DEF PairOK, ValidPair
<1>2. r \in Reduction
  BY <1>1, SeedType
<1>3. Presentable(r)
  BY <1>1, SeedReadable DEF PairOK
<1>4. ASSUME NEW t \in Timers, r.sessions[t] # None
      PROVE  r.sessions[t].historyId = t /\ t \in S
  <2>1. r.sessions[t] = SeedSession(timer, rows, t)
    BY DEF Seed
  <2> HIDE DEF r
  <2>2. \/ \E row \in rows : row.timer = t /\ r.sessions[t].historyId = row.id
        \/ /\ timer # None /\ timer.timer = t
           /\ r.sessions[t] = SessionFromCanonical(timer)
    BY <1>1, <1>4, <2>1, SeedCases
  <2>3. SessionFromCanonical(timer).historyId = timer.timer
    BY DEF SessionFromCanonical
  <2> QED
    BY <2>2, <2>3 DEF PairOK, Covered
<1> QED
  BY <1>2, <1>3, <1>4 DEF Good

-----------------------------------------------------------------------------
(* Commands applied one after the other.  Induction over them goes by a    *)
(* least counterexample.                                                   *)

LEMMA LeastPlace ==
  ASSUME NEW T, T \subseteq Nat, T # {}
  PROVE  \E x \in T : \A y \in T : x <= y
<1>1. PICK x \in T : \A y \in T : ~ (<<y, x>> \in OpToRel(<, Nat))
  BY NatLessThanWellFounded, WFMin
<1>2. \A y \in T : ~ (y < x)
  BY <1>1 DEF OpToRel
<1> QED
  BY <1>2

\* What the n-th command of a line makes of a state.
ReduceAt(line, ids, r, n) ==
  IF line[n].id \in ids THEN Apply(r, line[n]) ELSE r

\* f lists the states up to m.
LineUnfolds(f, seed, line, ids, m) ==
  f = [n \in 0 .. m |-> IF n = 0 THEN seed ELSE ReduceAt(line, ids, f[n - 1], n)]

LEMMA ReducingExists ==
  ASSUME NEW seed, NEW line, NEW ids, NEW m \in Nat
  PROVE  \E f : LineUnfolds(f, seed, line, ids, m)
<1> DEFINE Is(f, k) == LineUnfolds(f, seed, line, ids, k)
           T == {k \in Nat : ~ \E f : Is(f, k)}
<1>1. SUFFICES ASSUME T # {}
               PROVE  FALSE
  OBVIOUS
<1>2. PICK k \in T : \A j \in T : k <= j
  <2>1. T \subseteq Nat
    OBVIOUS
  <2> HIDE DEF T
  <2> QED
    BY <1>1, <2>1, LeastPlace
<1>3. k \in Nat /\ ~ \E f : Is(f, k)
  OBVIOUS
<1>4. k # 0
  <2>1. Is([n \in 0 .. 0 |-> seed], 0)
    BY DEF LineUnfolds
  <2> QED
    BY <1>3, <2>1
<1>5. k - 1 \in Nat /\ k - 1 \notin T
  BY <1>2, <1>3, <1>4
<1>6. PICK g : Is(g, k - 1)
  BY <1>5
<1> DEFINE h == [n \in 0 .. k |-> IF n = k THEN ReduceAt(line, ids, g[k - 1], k) ELSE g[n]]
<1>7. \A n \in 0 .. k - 1 : h[n] = g[n]
  BY <1>3, <1>4
<1>8. \A n \in 0 .. k : h[n] = IF n = 0 THEN seed ELSE ReduceAt(line, ids, h[n - 1], n)
  <2> SUFFICES ASSUME NEW n \in 0 .. k
               PROVE  h[n] = IF n = 0 THEN seed ELSE ReduceAt(line, ids, h[n - 1], n)
    OBVIOUS
  <2>1. CASE n = k
    <3>1. h[n] = ReduceAt(line, ids, g[k - 1], k) /\ h[k - 1] = g[k - 1]
      BY <1>3, <1>4, <1>7, <2>1
    <3> QED
      BY <1>4, <2>1, <3>1
  <2>2. CASE n # k
    <3>1. n \in 0 .. k - 1 /\ (n # 0 => n - 1 \in 0 .. k - 1)
      BY <1>3, <2>2
    <3>2. g[n] = IF n = 0 THEN seed ELSE ReduceAt(line, ids, g[n - 1], n)
      BY <1>6, <3>1 DEF LineUnfolds
    <3>3. h[n] = g[n] /\ (n # 0 => h[n - 1] = g[n - 1])
      BY <1>7, <3>1
    <3> HIDE DEF h
    <3> QED
      BY <3>2, <3>3
  <2> QED
    BY <2>1, <2>2
<1>9. h = [n \in 0 .. k |-> h[n]]
  OBVIOUS
<1> HIDE DEF h
<1>10. Is(h, k)
  BY <1>8, <1>9 DEF LineUnfolds
<1> QED
  BY <1>3, <1>10

\* What the seed is and what every command keeps, the end of the line is.
LEMMA LineStays ==
  ASSUME NEW f, NEW seed, NEW line, NEW ids, NEW m \in Nat, NEW G,
         LineUnfolds(f, seed, line, ids, m), seed \in G,
         \A n \in 1 .. m : line[n].id \in ids =>
           \A r \in G : Apply(r, line[n]) \in G
  PROVE  f[m] \in G
<1> DEFINE T == {n \in 0 .. m : f[n] \notin G}
<1>1. SUFFICES ASSUME T # {}
               PROVE  FALSE
  OBVIOUS
<1>2. PICK k \in T : \A j \in T : k <= j
  <2>1. T \subseteq Nat
    OBVIOUS
  <2> HIDE DEF T
  <2> QED
    BY <1>1, <2>1, LeastPlace
<1>3. k # 0 /\ k \in 1 .. m /\ k - 1 \in 0 .. m
  BY <1>2 DEF LineUnfolds
<1>4. f[k - 1] \in G
  BY <1>2, <1>3
<1>5. f[k] = ReduceAt(line, ids, f[k - 1], k)
  BY <1>3 DEF LineUnfolds
<1> QED
  BY <1>2, <1>3, <1>4, <1>5 DEF ReduceAt
=============================================================================
