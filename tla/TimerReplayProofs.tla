------------------------- MODULE TimerReplayProofs -------------------------
(***************************************************************************)
(* Theorems about every replay of the timer domain, at once or in pages,   *)
(* whatever the timers, the tasks, the payloads, the bases and the number  *)
(* of commands.                                                            *)
(***************************************************************************)
EXTENDS TimerReplay, PagedReplay, TimerReducerProofs

-----------------------------------------------------------------------------
(* The state is always well typed, whatever the base and the payloads.     *)

LEMMA IssueType ==
  ASSUME next \in Nat, NEW p \in Payloads
  PROVE  Issue(p) \in Command
  BY LogAssumption DEF Issue, Numbered, Payload, Command

LEMMA StepFromNext ==
  ASSUME Next
  PROVE  \E p \in Payloads : Step(p)
  BY DEF Next, ApplyStart, ApplyActivation, ApplyTerminal, ApplyClear,
         ApplyRetarget, ApplyUnknown

(* Whatever is replayed over whatever base, the reducer's state stays a    *)
(* state of the reducer: timers name sessions, fields are in range.        *)
THEOREM TypeCorrect == Spec => []TypeOK
<1>1. Init => TypeOK
  <2> SUFFICES ASSUME Init PROVE TypeOK
    OBVIOUS
  <2>1. PICK snap \in BaseTimers, rows \in BaseHistories :
          ValidPair(snap, rows) /\ st = Seed(snap, rows)
    BY DEF Init
  <2>2. /\ snap \in Snapshot \cup {None} /\ rows \in SUBSET Row
        /\ ValidHistory(rows)
    BY <2>1, ReplayAssumption, ReducerAssumption DEF ValidPair
  <2> QED
    BY <2>1, <2>2, SeedType, ReplayAssumption, ReducerAssumption DEF Init, TypeOK
<1>2. TypeOK /\ [Next]_vars => TypeOK'
  <2> SUFFICES ASSUME TypeOK, [Next]_vars PROVE TypeOK'
    OBVIOUS
  <2>1. CASE Next
    <3>1. PICK p \in Payloads : Step(p)
      BY <2>1, StepFromNext
    <3>2. Issue(p) \in Command
      BY IssueType DEF TypeOK
    <3>3. Apply(st, Issue(p)) \in Reduction
      BY <3>2, ApplyType DEF TypeOK
    <3> QED
      BY <3>1, <3>2, <3>3 DEF Step, TypeOK
  <2>2. CASE UNCHANGED vars
    BY <2>2 DEF vars, TypeOK
  <2> QED
    BY <2>1, <2>2
<1> QED
  BY <1>1, <1>2, PTL DEF Spec

-----------------------------------------------------------------------------
(* One live timer: LiveTimerUnique is inductive on well typed reductions.  *)

LiveUnique(r) ==
  \A t \in Timers :
    /\ r.sessions[t] # None
    /\ IsActive(r.sessions[t])
    /\ r.current # t
    => /\ r.sessions[t].intent # None
       /\ r.sessions[t].intent.kind = "clear"

LEMMA LiveUniqueHandle ==
  ASSUME NEW r \in Reduction, NEW c \in Command, LiveUnique(r)
  PROVE  LiveUnique(Handle(r, c))
<1> DEFINE q == Handle(r, c)
<1>1. Effect(r, q, c) /\ q \in Reduction /\ c.timer \in Timers
  BY HandleEffect, HandleType DEF Command
<1> HIDE DEF q
<1> SUFFICES ASSUME NEW t \in Timers, q.sessions[t] # None,
                    IsActive(q.sessions[t]), q.current # t
             PROVE  /\ q.sessions[t].intent # None
                    /\ q.sessions[t].intent.kind = "clear"
  BY DEF LiveUnique, q
<1>2. CASE q.sessions = r.sessions /\ q.current = r.current
  BY <1>2 DEF LiveUnique
<1>3. CASE Takeover(q, c) /\ t # c.timer
  <2>1. \/ q.sessions[t] = r.sessions[t] /\ (r.current = t =>
              r.sessions[t] = None \/ ~ IsActive(r.sessions[t]))
        \/ r.current = t /\ Superseded(r, q, c, t)
        \/ q.sessions[t] = r.sessions[t] /\ q.current = r.current
        \/ /\ Cleared(r, q, c) \/ Retargeted(r, q, c)
           /\ q.sessions[t] = r.sessions[t]
    BY <1>1, <1>3 DEF Effect
  <2>2. ~ (r.current = t /\ Superseded(r, q, c, t))
    BY SupersededEnds DEF Superseded, Reduction
  <2>3. Cleared(r, q, c) => r.current # t
    BY <1>1, <1>3, ReducerAssumption DEF Cleared, Takeover
  <2>4. Retargeted(r, q, c) => r.current # t
    BY <1>3 DEF Retargeted
  <2> QED
    BY <2>1, <2>2, <2>3, <2>4 DEF LiveUnique
<1>4. CASE Cleared(r, q, c) /\ t # c.timer
  BY <1>1, <1>3, <1>4 DEF Effect, Cleared, LiveUnique, Takeover
<1>5. CASE Cleared(r, q, c) /\ t = c.timer
  <2>1. r.sessions[t] \in Session
    BY <1>5 DEF Cleared, Reduction
  <2>2. q.sessions[t].intent = CommandIntent(c) /\ q.sessions[t] \in Session
    BY <1>1, <1>5, <2>1 DEF Cleared, Session, Reduction
  <2>3. CommandIntent(c) \in Intent /\ CommandIntent(c).kind = "clear"
    BY <1>5, CommandIntentType DEF Cleared, CommandIntent, Lifecycle
  <2> QED
    BY <2>2, <2>3, ReducerAssumption
<1>6. CASE Retargeted(r, q, c)
  BY <1>1, <1>3, <1>6 DEF Effect, Retargeted, LiveUnique, Takeover, Cleared
<1>7. CASE Takeover(q, c) /\ t = c.timer
  BY <1>7 DEF Takeover
<1> QED
  BY <1>1, <1>2, <1>3, <1>4, <1>5, <1>6, <1>7 DEF Effect

LEMMA LiveUniqueDeadline ==
  ASSUME NEW r \in Reduction, NEW at \in Int, LiveUnique(r)
  PROVE  LiveUnique(AutoCompleteCurrent(r, at))
<1> DEFINE q == AutoCompleteCurrent(r, at)
<1> SUFFICES ASSUME NEW t \in Timers, q.sessions[t] # None,
                    IsActive(q.sessions[t]), q.current # t
             PROVE  /\ q.sessions[t].intent # None
                    /\ q.sessions[t].intent.kind = "clear"
  BY DEF LiveUnique
<1>1. /\ q.current = r.current
      /\ q.sessions[t] = r.sessions[t] \/ q.sessions[t].status = "completed"
  BY DeadlineEffect, ReducerAssumption
<1> HIDE DEF q
<1> QED
  BY <1>1 DEF LiveUnique, IsActive, Active

\* However many commands arrive in whatever order: at most one timer is
\* running or paused that nobody cleared from the screen (supersede_active).
THEOREM LiveTimerUniqueHolds == Spec => []LiveTimerUnique
<1>1. Init => LiveTimerUnique
  <2> SUFFICES ASSUME Init, NEW t \in Timers, st.sessions[t] # None,
                      st.current # t
               PROVE  ~ IsActive(st.sessions[t])
    BY DEF LiveTimerUnique
  <2>1. PICK snap \in BaseTimers, rows \in BaseHistories :
          ValidPair(snap, rows) /\ st = Seed(snap, rows)
    BY DEF Init
  <2>2. /\ snap \in Snapshot \cup {None} /\ rows \in SUBSET Row
        /\ ValidHistory(rows)
    BY <2>1, ReplayAssumption, ReducerAssumption DEF ValidPair
  <2>3. /\ st.sessions[t] = SeedSession(snap, rows, t)
        /\ snap = None \/ snap.timer # t
    BY <2>1 DEF Seed
  <2>4. SeedSession(snap, rows, t).status \in Ended
    BY <2>2, <2>3, SeedSessionType
  <2> QED
    BY <2>3, <2>4 DEF IsActive, Active, Ended
<1>2. TypeOK /\ LiveTimerUnique /\ [Next]_vars => LiveTimerUnique'
  <2> SUFFICES ASSUME TypeOK, LiveTimerUnique, [Next]_vars
               PROVE  LiveTimerUnique'
    OBVIOUS
  <2>1. CASE Next
    <3>1. PICK p \in Payloads : Step(p)
      BY <2>1, StepFromNext
    <3>2. Issue(p) \in Command /\ Issue(p).at \in Int /\ st \in Reduction
      BY IssueType DEF TypeOK, Command
    <3>3. LiveUnique(st)
      BY DEF LiveTimerUnique, LiveUnique
    <3>4. LiveUnique(Apply(st, Issue(p)))
      BY <3>2, <3>3, LiveUniqueDeadline, LiveUniqueHandle,
         AutoCompleteCurrentType DEF Apply
    <3> QED
      BY <3>1, <3>4 DEF Step, LiveTimerUnique, LiveUnique
  <2>2. CASE UNCHANGED vars
    BY <2>2 DEF vars, LiveTimerUnique
  <2> QED
    BY <2>1, <2>2
<1> QED
  BY <1>1, <1>2, TypeCorrect, PTL DEF Spec

-----------------------------------------------------------------------------
(* A terminal session changes only under a command of its own timer.       *)

LEMMA EndedKept ==
  ASSUME NEW r \in Reduction, NEW c \in Command, NEW t \in Timers,
         r.sessions[t] # None, r.sessions[t].status \in Ended, c.timer # t
  PROVE  Apply(r, c).sessions[t] = r.sessions[t]
<1> DEFINE d == AutoCompleteCurrent(r, c.at)
<1>1. c.at \in Int /\ c.timer \in Timers
  BY DEF Command
<1>2. d \in Reduction /\ d.sessions[t] = r.sessions[t]
  BY <1>1, AutoCompleteCurrentType, DeadlineEffect, ReducerAssumption DEF Ended
<1> HIDE DEF d
<1>3. Effect(d, Handle(d, c), c)
  BY <1>2, HandleEffect
<1>4. ~ Superseded(d, Handle(d, c), c, t)
  BY <1>2 DEF Superseded, IsActive, Active, Ended
<1> QED
  BY <1>2, <1>3, <1>4 DEF Effect, Apply, d

\* History cannot be rewritten by somebody else's command, for every command
\* order (EndedRewrittenOnlyByOwner).
THEOREM EndedRewrittenOnlyByOwnerHolds == Spec => EndedRewrittenOnlyByOwner
<1>1. TypeOK /\ [Next]_vars =>
        [\A t \in Timers :
           /\ st.sessions[t] # None
           /\ st.sessions[t].status \in Ended
           /\ st'.sessions[t] # st.sessions[t]
           => last'.timer = t]_vars
  <2> SUFFICES ASSUME TypeOK, Next, NEW t \in Timers, st.sessions[t] # None,
                      st.sessions[t].status \in Ended,
                      st'.sessions[t] # st.sessions[t]
               PROVE  last'.timer = t
    OBVIOUS
  <2>1. PICK p \in Payloads : Step(p)
    BY StepFromNext
  <2>2. Issue(p) \in Command /\ st \in Reduction
    BY IssueType DEF TypeOK
  <2>3. st' = Apply(st, Issue(p)) /\ last' = Issue(p)
    BY <2>1 DEF Step
  <2> QED
    BY <2>2, <2>3, EndedKept
<1> QED
  BY <1>1, TypeCorrect, PTL DEF Spec, EndedRewrittenOnlyByOwner

-----------------------------------------------------------------------------
(* Reading the projection twice is reading it once, later.                 *)

LEMMA AutoCompleteStable ==
  ASSUME NEW s \in Session, NEW n1 \in Int, NEW n2 \in Int, n1 <= n2
  PROVE  AutoComplete(AutoComplete(s, n1), n2) = AutoComplete(s, n2)
<1>1. CASE s.status # "running" \/ ElapsedAt(s, n1) < s.planned
  BY <1>1 DEF AutoComplete
<1>2. CASE ~ (s.status # "running" \/ ElapsedAt(s, n1) < s.planned)
  <2>1. AutoComplete(s, n1).status = "completed"
    BY <1>2 DEF AutoComplete, Session
  <2>2. ~ ElapsedAt(s, n2) < s.planned
    BY <1>2 DEF ElapsedAt, Clamp, Session
  <2>3. AutoComplete(s, n2) = AutoComplete(s, n1)
    BY <1>2, <2>2 DEF AutoComplete
  <2> QED
    BY <2>1, <2>3 DEF AutoComplete
<1> QED
  BY <1>1, <1>2

LEMMA ProjectedStable ==
  ASSUME NEW r \in Reduction, NEW n1 \in Int, NEW n2 \in Int, n1 <= n2
  PROVE  Projected(Projected(r, n1), n2) = Projected(r, n2)
<1>1. CASE ~ Exists(r, r.current)
  BY <1>1 DEF Projected, AutoCompleteCurrent
<1>2. CASE Exists(r, r.current)
  <2> DEFINE s == r.sessions[r.current]
             At(n) == AutoComplete(s, n)
  <2>1. r.current \in Timers /\ s \in Session
    BY <1>2 DEF Exists, Reduction
  <2>2. At(n1) \in Session /\ At(n2) \in Session
    BY <2>1, AutoCompleteType
  <2>3. AutoComplete(At(n1), n2) = At(n2)
    BY <2>1, AutoCompleteStable
  <2>4. \A n \in {n1, n2} :
          Projected(r, n) = [r EXCEPT !.sessions = [r.sessions EXCEPT ![r.current] = At(n)]]
    BY <1>2, <2>1 DEF Projected, AutoCompleteCurrent, Reduction
  <2> HIDE DEF At
  <2> DEFINE q == Projected(r, n1)
  <2>5. /\ q.current = r.current /\ q.outcome = r.outcome
        /\ q.sessions = [r.sessions EXCEPT ![r.current] = At(n1)]
        /\ q \in Reduction
        /\ q.sessions[q.current] = At(n1) /\ Exists(q, q.current)
    BY <1>2, <2>1, <2>2, <2>4, ReducerAssumption DEF Exists, Reduction
  <2>6. Projected(q, n2) =
          [q EXCEPT !.sessions = [q.sessions EXCEPT ![q.current] = AutoComplete(At(n1), n2)]]
    <3> HIDE DEF q
    <3> QED
      BY <2>5 DEF Projected, AutoCompleteCurrent, Reduction
  <2> QED
    BY <2>1, <2>3, <2>4, <2>5, <2>6 DEF Reduction
<1> QED
  BY <1>1, <1>2

\* Whoever reads, and however often: the deadline that a read applies is the
\* one that the next read would have applied (ReductionState::finish).
THEOREM DeadlineReadStableHolds == Spec => []DeadlineReadStable
<1>1. TypeOK => DeadlineReadStable
  BY ProjectedStable, LogAssumption, ReducerAssumption DEF TypeOK, DeadlineReadStable
<1> QED
  BY <1>1, TypeCorrect, PTL

-----------------------------------------------------------------------------
(* The superseder is known.  SupersederKnown is not inductive alone: that  *)
(* a later command does not precede the one that superseded needs every    *)
(* superseding command to be older than the next one.                      *)

SupersederOld(r, n) ==
  \A t \in Timers :
    LET s == r.sessions[t] IN
      s # None /\ s.supersededBy # None =>
        /\ s.status = "superseded" /\ s.supersededBy # t
        /\ s.terminalCmd \in Nat /\ s.terminalCmd < n
        /\ s.supersededBy \in Timers
        /\ r.sessions[s.supersededBy] # None
        /\ r.sessions[s.supersededBy].lastCmd \in Nat
        /\ r.sessions[s.supersededBy].lastCmd >= s.terminalCmd

LEMMA SupersederOldDeadline ==
  ASSUME NEW r \in Reduction, NEW at \in Int, NEW n \in Nat, SupersederOld(r, n)
  PROVE  SupersederOld(AutoCompleteCurrent(r, at), n)
<1> DEFINE q == AutoCompleteCurrent(r, at)
<1>1. \A t \in Timers :
        \/ q.sessions[t] = r.sessions[t]
        \/ /\ r.sessions[t] # None /\ q.sessions[t] # None
           /\ r.sessions[t].status = "running"
           /\ q.sessions[t].lastCmd = r.sessions[t].lastCmd
           /\ q.sessions[t].supersededBy = r.sessions[t].supersededBy
  BY DeadlineEffect, ReducerAssumption
<1> HIDE DEF q
<1> QED
  BY <1>1 DEF SupersederOld, q

LEMMA EffectLast ==
  ASSUME NEW r \in Reduction, NEW c \in Command, NEW u \in Timers,
         r.sessions[u] # None
  PROVE  /\ Handle(r, c).sessions[u] # None
         /\ \/ Handle(r, c).sessions[u].lastCmd = r.sessions[u].lastCmd
            \/ Handle(r, c).sessions[u].lastCmd = c.id
<1> DEFINE q == Handle(r, c)
           s == r.sessions[u]
           z == q.sessions[u]
<1>1. Effect(r, q, c) /\ q \in Reduction /\ c.timer \in Timers
  BY HandleEffect, HandleType DEF Command
<1>2. s \in Session /\ None \notin Session
  BY ReducerAssumption DEF Reduction
<1>3. \/ z = s
      \/ z # None /\ z.lastCmd = c.id
      \/ /\ c.kind = "clear"
         /\ z = [s EXCEPT !.lastCmd = c.id, !.intent = CommandIntent(c)]
      \/ z = [s EXCEPT !.task = c.task, !.lastCmd = c.id]
      \/ z = Supersede(s, c.at, c.timer, c.id)
  <2> HIDE DEF q
  <2> QED
    BY <1>1 DEF Effect, Takeover, Cleared, Retargeted, Superseded
<1>4. CASE /\ c.kind = "clear"
           /\ z = [s EXCEPT !.lastCmd = c.id, !.intent = CommandIntent(c)]
  <2>1. CommandIntent(c) \in Intent /\ c.id \in Nat
    BY <1>4, CommandIntentType DEF Command, Lifecycle
  <2>2. z \in Session /\ z.lastCmd = c.id
    <3> HIDE DEF q, s
    <3> QED
      BY <1>2, <1>4, <2>1 DEF Session
  <2> QED
    BY <1>2, <2>2
<1>5. CASE z = [s EXCEPT !.task = c.task, !.lastCmd = c.id]
  <2>1. c.id \in Nat /\ c.task \in Tasks \cup {None}
    BY DEF Command
  <2>2. z \in Session /\ z.lastCmd = c.id
    <3> HIDE DEF q, s
    <3> QED
      BY <1>2, <1>5, <2>1 DEF Session
  <2> QED
    BY <1>2, <2>2
<1> QED
  BY <1>2, <1>3, <1>4, <1>5, SupersededEnds

LEMMA SupersederOldHandle ==
  ASSUME NEW r \in Reduction, NEW c \in Command, SupersederOld(r, c.id)
  PROVE  SupersederOld(Handle(r, c), c.id + 1)
<1> DEFINE q == Handle(r, c)
<1>1. /\ Effect(r, q, c) /\ q \in Reduction
      /\ c.timer \in Timers /\ c.id \in Nat
  BY HandleEffect, HandleType DEF Command
<1>2. \A u \in Timers :
        r.sessions[u] # None =>
          /\ q.sessions[u] # None
          /\ \/ q.sessions[u].lastCmd = r.sessions[u].lastCmd
             \/ q.sessions[u].lastCmd = c.id
  BY EffectLast
<1> HIDE DEF q
<1> SUFFICES ASSUME NEW t \in Timers, q.sessions[t] # None,
                    q.sessions[t].supersededBy # None
             PROVE  LET s == q.sessions[t] IN
                    /\ s.status = "superseded" /\ s.supersededBy # t
                    /\ s.terminalCmd \in Nat /\ s.terminalCmd < c.id + 1
                    /\ s.supersededBy \in Timers
                    /\ q.sessions[s.supersededBy] # None
                    /\ q.sessions[s.supersededBy].lastCmd \in Nat
                    /\ q.sessions[s.supersededBy].lastCmd >= s.terminalCmd
  BY DEF SupersederOld, q
<1>3. \/ /\ r.sessions[t] # None
         /\ q.sessions[t].status = r.sessions[t].status
         /\ q.sessions[t].supersededBy = r.sessions[t].supersededBy
         /\ q.sessions[t].terminalCmd = r.sessions[t].terminalCmd
      \/ /\ t # c.timer /\ Takeover(q, c)
         /\ q.sessions[t].status = "superseded"
         /\ q.sessions[t].supersededBy = c.timer
         /\ q.sessions[t].terminalCmd = c.id
  <2>1. CASE t = c.timer
    BY <1>1, <2>1, ReducerAssumption
       DEF Effect, Takeover, Cleared, Retargeted, Reduction, Session
  <2>2. CASE t # c.timer
    <3>1. \/ q.sessions[t] = r.sessions[t]
          \/ Takeover(q, c) /\ Superseded(r, q, c, t)
      BY <1>1, <2>2 DEF Effect
    <3> QED
      BY <2>2, <3>1, SupersededEnds, ReducerAssumption DEF Superseded, Reduction
  <2> QED
    BY <2>1, <2>2
<1>4. CASE /\ r.sessions[t] # None
           /\ q.sessions[t].status = r.sessions[t].status
           /\ q.sessions[t].supersededBy = r.sessions[t].supersededBy
           /\ q.sessions[t].terminalCmd = r.sessions[t].terminalCmd
  <2> DEFINE u == r.sessions[t].supersededBy
  <2>1. /\ r.sessions[t].status = "superseded" /\ u # t
        /\ r.sessions[t].terminalCmd \in Nat /\ r.sessions[t].terminalCmd < c.id
        /\ u \in Timers /\ r.sessions[u] # None
        /\ r.sessions[u].lastCmd \in Nat
        /\ r.sessions[u].lastCmd >= r.sessions[t].terminalCmd
    BY <1>4 DEF SupersederOld
  <2> QED
    BY <1>1, <1>2, <1>4, <2>1
<1>5. CASE /\ t # c.timer /\ Takeover(q, c)
           /\ q.sessions[t].status = "superseded"
           /\ q.sessions[t].supersededBy = c.timer
           /\ q.sessions[t].terminalCmd = c.id
  BY <1>1, <1>5 DEF Takeover
<1> QED
  BY <1>3, <1>4, <1>5

SupersederInv == SupersederOld(st, next)

\* A superseded session names a session that exists and that was addressed no
\* earlier than the command that superseded it (supersede_active).
THEOREM SupersederKnownHolds == Spec => []SupersederKnown
<1>1. Init => SupersederInv
  <2> SUFFICES ASSUME Init, NEW t \in Timers, st.sessions[t] # None
               PROVE  st.sessions[t].supersededBy = None
    BY DEF SupersederInv, SupersederOld
  <2>1. PICK snap \in BaseTimers, rows \in BaseHistories :
          ValidPair(snap, rows) /\ st = Seed(snap, rows)
    BY DEF Init
  <2>2. /\ snap \in Snapshot \cup {None} /\ rows \in SUBSET Row
        /\ ValidHistory(rows)
    BY <2>1, ReplayAssumption, ReducerAssumption DEF ValidPair
  <2>3. st.sessions[t] = SeedSession(snap, rows, t)
    BY <2>1 DEF Seed
  <2> QED
    BY <2>2, <2>3, SeedSessionType
<1>2. TypeOK /\ SupersederInv /\ [Next]_vars => SupersederInv'
  <2> SUFFICES ASSUME TypeOK, SupersederInv, [Next]_vars
               PROVE  SupersederInv'
    OBVIOUS
  <2>1. CASE Next
    <3>1. PICK p \in Payloads : Step(p)
      BY <2>1, StepFromNext
    <3>2. /\ Issue(p) \in Command /\ Issue(p).at \in Int /\ Issue(p).id = next
          /\ st \in Reduction /\ next \in Nat
      BY IssueType DEF TypeOK, Command, Issue, Numbered
    <3>3. SupersederOld(Apply(st, Issue(p)), next + 1)
      BY <3>2, SupersederOldDeadline, SupersederOldHandle,
         AutoCompleteCurrentType DEF Apply, SupersederInv
    <3> QED
      BY <3>1, <3>3 DEF Step, SupersederInv
  <2>2. CASE UNCHANGED vars
    BY <2>2 DEF vars, SupersederInv
  <2> QED
    BY <2>1, <2>2
<1>3. SupersederInv => SupersederKnown
  BY ReducerAssumption DEF SupersederInv, SupersederOld, SupersederKnown
<1> QED
  BY <1>1, <1>2, <1>3, TypeCorrect, PTL DEF Spec

-----------------------------------------------------------------------------
(* The natural end.  What has to be carried along is that a timer started  *)
(* here and still running has never been touched since.                    *)

NaturalSession(s) ==
  s.intent # None /\ s.intent.kind = "start" /\ s.intent.cmd >= FirstId =>
    /\ s.status = "running" => s.anchor = s.intent.at /\ s.elapsed = 0
    /\ s.status = "completed" /\ s.terminalCmd = None =>
         s.ended = s.intent.at + s.planned

Natural(r) == \A t \in Timers : r.sessions[t] # None => NaturalSession(r.sessions[t])

LEMMA NaturalDeadline ==
  ASSUME NEW r \in Reduction, Natural(r), NEW at \in Int
  PROVE  Natural(AutoCompleteCurrent(r, at))
<1> SUFFICES ASSUME NEW s \in Session, NaturalSession(s)
             PROVE  NaturalSession(AutoComplete(s, at))
  <2>1. \A t \in Timers :
          AutoCompleteCurrent(r, at).sessions[t] =
            IF r.current = t /\ r.sessions[t] # None
            THEN AutoComplete(r.sessions[t], at) ELSE r.sessions[t]
    BY DeadlinePointwise
  <2>2. \A t \in Timers : r.sessions[t] # None => r.sessions[t] \in Session
    BY DEF Reduction
  <2> QED
    BY <2>1, <2>2 DEF Natural
<1> DEFINE z == AutoComplete(s, at)
<1>1. CASE z = s
  BY <1>1
<1>2. CASE z # s
  <2>1. /\ s.status = "running" /\ z.status = "completed" /\ z.ended = Deadline(s)
        /\ z.intent = s.intent /\ z.planned = s.planned
    BY <1>2, CompletedFields
  <2>2. s.planned \in Nat
    BY DEF Session
  <2>3. s.anchor = s.intent.at /\ s.elapsed = 0 => Deadline(s) = s.intent.at + s.planned
    BY <2>2 DEF Deadline
  <2> HIDE DEF z
  <2>4. NaturalSession(z)
    BY <2>1, <2>3 DEF NaturalSession
  <2> QED
    BY <2>4 DEF z
<1> QED
  BY <1>1, <1>2

LEMMA NaturalHandle ==
  ASSUME NEW r \in Reduction, Natural(r), NEW c \in Command
  PROVE  Natural(Handle(r, c))
<1> SUFFICES ASSUME Becomes(r, Handle(r, c), c), NEW t \in Timers,
                    SessionAfter(r, t, c) # None
             PROVE  NaturalSession(SessionAfter(r, t, c))
  BY HandleCases DEF Natural, Becomes
<1> DEFINE s == r.sessions[t]
           z == SessionAfter(r, t, c)
<1>1. CommandIntent(c).kind = c.kind /\ CommandIntent(c).at = c.at
  BY DEF CommandIntent
<1>2. CASE z = s
  BY <1>2 DEF Natural
<1>3. CASE c.kind = "start" /\ z = StartedSession(c)
  <2>1. /\ z.status = "running" /\ z.anchor = c.at /\ z.elapsed = 0
        /\ z.intent = CommandIntent(c)
    BY <1>3, StartedFields
  <2> HIDE DEF z
  <2>2. NaturalSession(z)
    BY <1>1, <2>1 DEF NaturalSession
  <2> QED
    BY <2>2 DEF z
<1>4. ASSUME s \in Session, c.kind \in Lifecycle,
             NEW status \in Active \cup Ended, NEW elapsed \in 0 .. s.planned,
             z = Transition(s, c, status, elapsed), <<c.kind, status>> \in Moves
      PROVE  NaturalSession(z)
  <2>1. elapsed \in Nat /\ c.kind # "start"
    BY <1>4 DEF Moves, Session
  <2>2. z.intent = CommandIntent(c)
    BY <1>4, <2>1, TransitionFields
  <2> HIDE DEF z
  <2> QED
    BY <1>1, <2>1, <2>2 DEF NaturalSession
<1>5. CASE s \in Session /\ c.kind = "clear" /\ z = ClearedSession(s, c)
  <2>1. z.intent = CommandIntent(c)
    BY <1>5, ClearedFields
  <2> HIDE DEF z
  <2>2. NaturalSession(z)
    BY <1>1, <1>5, <2>1 DEF NaturalSession
  <2> QED
    BY <2>2 DEF z
<1>6. CASE s \in Session /\ z = RetargetedSession(s, c)
  <2>1. /\ z.intent = s.intent /\ z.status = s.status /\ z.anchor = s.anchor
        /\ z.elapsed = s.elapsed /\ z.terminalCmd = s.terminalCmd
        /\ z.ended = s.ended /\ z.planned = s.planned
    BY <1>6, RetargetedFields
  <2>2. NaturalSession(s)
    BY <1>6, ReducerAssumption DEF Natural
  <2> HIDE DEF z, s
  <2>3. NaturalSession(z)
    BY <2>1, <2>2 DEF NaturalSession
  <2> QED
    BY <2>3 DEF z
<1>7. CASE s \in Session /\ z = Supersede(s, c.at, c.timer, c.id)
  <2>1. z.status = "superseded"
    BY <1>7, SupersedeFields
  <2> HIDE DEF z
  <2>2. NaturalSession(z)
    BY <2>1 DEF NaturalSession
  <2> QED
    BY <2>2 DEF z
<1> QED
  BY <1>2, <1>3, <1>4, <1>5, <1>6, <1>7, SessionCases

NaturalInv == Natural(st)

\* A session that was seeded carries the intent of the canonical timer, if any.
LEMMA SeedIntent ==
  ASSUME NEW snap \in Snapshot \cup {None}, NEW rows \in SUBSET Row,
         ValidHistory(rows), NEW t \in Timers, SeedSession(snap, rows, t) # None
  PROVE  \/ SeedSession(snap, rows, t).intent = None
         \/ /\ snap # None /\ snap.timer = t
            /\ SeedSession(snap, rows, t).intent = snap.intent
<1> DEFINE own == {r \in rows : r.timer = t}
           row == SessionFromHistory(CHOOSE r \in own : TRUE)
           can == SessionFromCanonical(snap)
<1>1. row.intent = None
  BY DEF SessionFromHistory
<1>2. CASE snap = None \/ snap.timer # t
  BY <1>1, <1>2 DEF SeedSession
<1>3. CASE snap # None /\ snap.timer = t
  <2>1. can \in Session /\ can.intent = snap.intent
    BY <1>3, FromCanonicalType DEF SessionFromCanonical
  <2>2. SeedSession(snap, rows, t) =
          IF own = {} THEN can
          ELSE [can EXCEPT !.historyId = row.historyId,
                           !.terminalCmd = row.terminalCmd,
                           !.ended = row.ended]
    BY <1>3 DEF SeedSession
  <2> HIDE DEF can, row, own
  <2> QED
    BY <1>3, <2>1, <2>2 DEF Session
<1> QED
  BY <1>2, <1>3

(* A timer that was started here and that only its deadline ended, ended   *)
(* at the deadline: also when the replay noticed it late, because of a     *)
(* later command or at the read (auto_complete, ReductionState::apply).    *)
THEOREM NaturalEndAtDeadlineHolds == Spec => []NaturalEndAtDeadline
<1>1. Init => NaturalInv
  <2> SUFFICES ASSUME Init, NEW t \in Timers, st.sessions[t] # None
               PROVE  NaturalSession(st.sessions[t])
    BY DEF NaturalInv, Natural
  <2>1. PICK snap \in BaseTimers, rows \in BaseHistories :
          ValidPair(snap, rows) /\ st = Seed(snap, rows)
    BY DEF Init
  <2>2. /\ snap \in Snapshot \cup {None} /\ rows \in SUBSET Row
        /\ ValidHistory(rows)
        /\ snap # None /\ snap.intent # None => snap.intent.cmd < FirstId
    BY <2>1, ReplayAssumption DEF ValidPair, BaseIdOK
  <2>3. st.sessions[t] = SeedSession(snap, rows, t)
    BY <2>1 DEF Seed
  <2>4. \/ st.sessions[t].intent = None
        \/ st.sessions[t].intent = snap.intent /\ snap # None
    BY <2>2, <2>3, SeedIntent
  <2>5. snap # None /\ snap.intent # None => snap.intent.cmd \in Nat /\ FirstId \in Nat
    BY <2>2, ReplayAssumption DEF Snapshot, Intent
  <2> QED
    BY <2>2, <2>4, <2>5 DEF NaturalSession
<1>2. TypeOK /\ NaturalInv /\ [Next]_vars => NaturalInv'
  <2> SUFFICES ASSUME TypeOK, NaturalInv, [Next]_vars
               PROVE  NaturalInv'
    OBVIOUS
  <2>1. CASE Next
    <3>1. PICK p \in Payloads : Step(p)
      BY <2>1, StepFromNext
    <3>2. Issue(p) \in Command /\ Issue(p).at \in Int /\ st \in Reduction
      BY IssueType DEF TypeOK, Command
    <3>3. Natural(Apply(st, Issue(p)))
      BY <3>2, NaturalDeadline, NaturalHandle, AutoCompleteCurrentType
         DEF Apply, NaturalInv
    <3> QED
      BY <3>1, <3>3 DEF Step, NaturalInv
  <2>2. CASE UNCHANGED vars
    BY <2>2 DEF vars, NaturalInv
  <2> QED
    BY <2>1, <2>2
<1>3. NaturalInv => NaturalEndAtDeadline
  BY DEF NaturalInv, Natural, NaturalSession, NaturalEndAtDeadline
<1> QED
  BY <1>1, <1>2, <1>3, TypeCorrect, PTL DEF Spec

-----------------------------------------------------------------------------
(* The readable projection (TimerReducerProofs).                           *)

ReadableInv == Presentable(st)

(* Whatever was replayed on an accepted base, and whenever it is read: the *)
(* projected pair of timer and history is one that the boundary accepts,   *)
(* so that the next read of it does not fail (timer/workspace.rs, replay). *)
THEOREM ProjectionReadableHolds == Spec => []ProjectionReadable
<1>1. Init => ReadableInv
  <2> SUFFICES ASSUME Init
               PROVE  ReadableInv
    OBVIOUS
  <2>1. PICK snap \in BaseTimers, rows \in BaseHistories :
          ValidPair(snap, rows) /\ st = Seed(snap, rows)
    BY DEF Init
  <2>2. /\ snap \in Snapshot \cup {None} /\ rows \in SUBSET Row
        /\ snap # None => ActiveIntentOK(snap)
    BY <2>1, ReplayAssumption
  <2>3. snap # None => RunningIntentOK(snap)
    BY <2>2 DEF RunningIntentOK, ActiveIntentOK
  <2> QED
    BY <2>1, <2>2, <2>3, SeedReadable DEF ReadableInv
<1>2. TypeOK /\ ReadableInv /\ [Next]_vars => ReadableInv'
  <2> SUFFICES ASSUME TypeOK, ReadableInv, [Next]_vars
               PROVE  ReadableInv'
    OBVIOUS
  <2>1. CASE Next
    <3>1. PICK p \in Payloads : Step(p)
      BY <2>1, StepFromNext
    <3>2. Issue(p) \in Command /\ Issue(p).at \in Int /\ st \in Reduction
      BY IssueType DEF TypeOK, Command
    <3>3. Presentable(Apply(st, Issue(p)))
      BY <3>2, DeadlineReadable, HandleReadable, AutoCompleteCurrentType
         DEF Apply, ReadableInv
    <3> QED
      BY <3>1, <3>3 DEF Step, ReadableInv
  <2>2. CASE UNCHANGED vars
    BY <2>2 DEF vars, ReadableInv
  <2> QED
    BY <2>1, <2>2
<1>3. TypeOK /\ ReadableInv => ProjectionReadable
  <2> SUFFICES ASSUME TypeOK, ReadableInv, NEW now \in Instants
               PROVE  ValidPair(Canonical(Projected(st, now)), History(Projected(st, now)))
    BY DEF ProjectionReadable
  <2>1. now \in Int /\ st \in Reduction
    BY LogAssumption DEF TypeOK
  <2>2. Projected(st, now) \in Reduction /\ Presentable(Projected(st, now))
    BY <2>1, AutoCompleteCurrentType, DeadlineReadable DEF Projected, ReadableInv
  <2> QED
    BY <2>2, ReadableValid
<1> QED
  BY <1>1, <1>2, <1>3, TypeCorrect, PTL DEF Spec

-----------------------------------------------------------------------------
(* Paged replay: pages add up, whatever the log, the size of a page, the   *)
(* sessions that the host passes to it, and the pages it starts again.     *)

(* The states that a log started from nothing leads to.  Every session     *)
(* owns its history id, so no start is rejected for one.                   *)

SoundSession(s, t) == s \in Session /\ s.historyId = t /\ Restorable(s)

Sound(r) ==
  /\ r \in Reduction
  /\ \A t \in Timers : r.sessions[t] # None => SoundSession(r.sessions[t], t)
  /\ r.current # None => Exists(r, r.current)

\* The state q knows of the state r what concerns the timers in S, and S is
\* closed: the current timer is in it.
Agree(q, r, S) ==
  /\ q \in Reduction /\ q.current = r.current
  /\ \A t \in Timers : q.sessions[t] = IF t \in S THEN r.sessions[t] ELSE None
  /\ r.current # None => r.current \in S

\* From r to z nothing happened outside S, and no session went away.
Within(r, z, S) ==
  \A t \in Timers :
    /\ t \notin S => z.sessions[t] = r.sessions[t]
    /\ r.sessions[t] # None => z.sessions[t] # None

LEMMA SessionAfterSound ==
  ASSUME NEW r, Sound(r), NEW c \in Command, NEW t \in Timers,
         SessionAfter(r, t, c) # None
  PROVE  SoundSession(SessionAfter(r, t, c), t)
<1> DEFINE s == r.sessions[t]
<1>1. s # None => SoundSession(s, t)
  BY DEF Sound
<1>2. c.at \in Int /\ c.observed \in Int /\ c.planned \in Nat
  BY DEF Command
<1>3. s # None => s.planned \in Nat /\ s.planned <= s.planned
  BY <1>1 DEF SoundSession, Session
<1>4. s # None => /\ Clamp(c.observed, 0, s.planned) \in Nat
                  /\ Clamp(c.observed, 0, s.planned) <= s.planned
  BY <1>2, <1>3, ClampType
<1>5. ASSUME s # None, NEW status \in Active \cup Ended, NEW elapsed \in Nat,
             elapsed <= s.planned, c.kind \in Lifecycle, t = c.timer
      PROVE  SoundSession(Transition(s, c, status, elapsed), t)
  BY <1>1, <1>2, <1>5, TransitionFields, ReducerAssumption DEF SoundSession, Restorable
<1> HIDE DEF s
<1>6. CASE t = c.timer /\ c.kind = "start"
  <2>1. SessionAfter(r, t, c) = StartedSession(c)
    BY <1>6 DEF SessionAfter, TargetAfter
  <2> QED
    BY <1>2, <1>6, <2>1, StartedFields DEF SoundSession, Restorable, Ended
<1>7. CASE t = c.timer /\ c.kind \in {"pause", "resume", "finish", "cancel"} /\ s # None
  <2>1. {"paused", "running", "completed", "cancelled"} \subseteq Active \cup Ended
    BY DEF Active, Ended
  <2>2. c.kind \in Lifecycle
    BY <1>7 DEF Lifecycle
  <2>3. SessionAfter(r, t, c) \in
          {Transition(s, c, "paused", Clamp(c.observed, 0, s.planned)),
           Transition(s, c, "running", Clamp(c.observed, 0, s.planned)),
           Transition(s, c, "completed", s.planned),
           Transition(s, c, "cancelled", Clamp(c.observed, 0, s.planned))}
    BY <1>7 DEF SessionAfter, TargetAfter, s
  <2> QED
    BY <1>3, <1>4, <1>5, <1>7, <2>1, <2>2, <2>3
<1>8. CASE t = c.timer /\ c.kind = "clear" /\ s # None
  <2>1. SessionAfter(r, t, c) = ClearedSession(s, c)
    BY <1>8 DEF SessionAfter, TargetAfter, s
  <2> QED
    BY <1>1, <1>8, <2>1, ClearedFields DEF SoundSession, Restorable
<1>9. CASE t = c.timer /\ c.kind \in {"retarget", "unknown"} /\ s # None
  <2>1. SessionAfter(r, t, c) \in {RetargetedSession(s, c), s}
    BY <1>9 DEF SessionAfter, TargetAfter, s
  <2> QED
    BY <1>1, <1>9, <2>1, RetargetedFields DEF SoundSession, Restorable
<1>10. CASE t = c.timer /\ c.kind # "start" /\ s = None
  BY <1>10 DEF SessionAfter, TargetAfter, s
<1>11. CASE t # c.timer
  <2>1. SessionAfter(r, t, c) \in {s, Supersede(s, c.at, c.timer, c.id)} /\ s # None
    BY <1>11 DEF SessionAfter, OtherAfter, s
  <2>2. s \in Session /\ s.elapsed <= s.planned
    BY <1>1, <2>1 DEF SoundSession, Restorable
  <2>3. LET z == Supersede(s, c.at, c.timer, c.id) IN SoundSession(z, t)
    BY <1>1, <1>2, <2>1, <2>2, SupersedeFields, ElapsedBounded, ReducerAssumption
       DEF SoundSession, Restorable, Ended
  <2> QED
    BY <1>1, <2>1, <2>3
<1> QED
  BY <1>6, <1>7, <1>8, <1>9, <1>10, <1>11 DEF Command, Kinds

LEMMA NoHistoryIdTaken ==
  ASSUME NEW r, Sound(r), NEW t \in Timers
  PROVE  ~ HistoryIdTaken(r, t)
  BY DEF HistoryIdTaken, Sound, SoundSession

LEMMA AgreeNoHistoryIdTaken ==
  ASSUME NEW r, Sound(r), NEW q, NEW S, Agree(q, r, S), NEW t \in Timers
  PROVE  ~ HistoryIdTaken(q, t)
  BY DEF HistoryIdTaken, Agree, Sound, SoundSession

LEMMA HandleSound ==
  ASSUME NEW r, Sound(r), NEW c \in Command
  PROVE  Sound(Handle(r, c))
<1> DEFINE h == Handle(r, c)
<1>1. c.timer \in Timers /\ h \in Reduction
  BY HandleType DEF Sound, Command
<1>2. Becomes(r, h, c)
  BY <1>1, HandlePointwise, NoHistoryIdTaken DEF Sound
<1> HIDE DEF h
<1>3. \A t \in Timers : h.sessions[t] # None => SoundSession(h.sessions[t], t)
  BY <1>2, SessionAfterSound DEF Becomes
<1>4. h.current # None => Exists(h, h.current)
  <2> SUFFICES ASSUME h.current # None
               PROVE  h.sessions[h.current] # None
    BY DEF Exists
  <2>1. CASE Takes(r.sessions[c.timer], c)
    <3>1. h.current = c.timer /\ h.sessions[c.timer] = SessionAfter(r, c.timer, c)
      BY <1>1, <1>2, <2>1 DEF Becomes, CurrentAfter
    <3>2. SessionAfter(r, c.timer, c) \in Session
      BY <1>1, <2>1, SessionStays DEF Takes, Sound
    <3> QED
      BY <3>1, <3>2, ReducerAssumption
  <2>2. CASE ~ Takes(r.sessions[c.timer], c)
    <3>1. h.current = r.current /\ r.current \in Timers /\ r.sessions[r.current] # None
      BY <1>2, <2>2, ReducerAssumption DEF Becomes, CurrentAfter, Sound, Exists, Reduction
    <3>2. SessionAfter(r, r.current, c) \in Session
      BY <3>1, SessionStays DEF Sound
    <3> QED
      BY <1>2, <3>1, <3>2, ReducerAssumption DEF Becomes
  <2> QED
    BY <2>1, <2>2
<1> QED
  BY <1>1, <1>3, <1>4 DEF Sound, h

LEMMA DeadlineSound ==
  ASSUME NEW r, Sound(r), NEW at \in Int
  PROVE  Sound(AutoCompleteCurrent(r, at))
<1> DEFINE d == AutoCompleteCurrent(r, at)
<1>1. d \in Reduction
  BY AutoCompleteCurrentType DEF Sound
<1>2. /\ d.current = r.current
      /\ \A t \in Timers : d.sessions[t] = IF r.current = t /\ r.sessions[t] # None
                                           THEN AutoComplete(r.sessions[t], at)
                                           ELSE r.sessions[t]
  BY DeadlinePointwise DEF Sound
<1> HIDE DEF d
<1>3. ASSUME NEW t \in Timers, r.sessions[t] # None
      PROVE  SoundSession(AutoComplete(r.sessions[t], at), t)
  <2> DEFINE s == r.sessions[t]
  <2>1. s \in Session /\ s.planned \in Nat /\ SoundSession(s, t)
    BY <1>3 DEF Sound, SoundSession, Session
  <2>2. Deadline(s) \in Int
    BY <2>1, ElapsedType
  <2> HIDE DEF s
  <2>3. SoundSession(AutoComplete(s, at), t)
    BY <2>1, <2>2, CompletedFields, ReducerAssumption DEF SoundSession, Restorable, Ended
  <2> QED
    BY <2>3 DEF s
<1>4. \A t \in Timers : d.sessions[t] # None => SoundSession(d.sessions[t], t)
  BY <1>2, <1>3 DEF Sound
<1>5. \A t \in Timers : r.sessions[t] # None => d.sessions[t] # None
  BY <1>2, <1>3, ReducerAssumption DEF SoundSession
<1> QED
  BY <1>1, <1>2, <1>4, <1>5 DEF Sound, Exists, d, Reduction

-----------------------------------------------------------------------------
(* A page computes what the whole log would have.                          *)

LEMMA HandleAgrees ==
  ASSUME NEW r, Sound(r), NEW S \in SUBSET Timers, NEW q, Agree(q, r, S),
         NEW c \in Command, c.timer \in S
  PROVE  Agree(Handle(q, c), Handle(r, c), S) /\ Within(r, Handle(r, c), S)
<1> DEFINE g == Handle(q, c)
           h == Handle(r, c)
<1>1. c.timer \in Timers /\ g \in Reduction /\ h \in Reduction
  BY HandleType DEF Sound, Agree
<1>2. Becomes(r, h, c) /\ Becomes(q, g, c)
  BY <1>1, HandlePointwise, NoHistoryIdTaken, AgreeNoHistoryIdTaken DEF Sound, Agree
<1> HIDE DEF g, h
<1>3. g.current = h.current /\ (h.current # None => h.current \in S)
  BY <1>2 DEF Agree, Becomes, CurrentAfter
<1>4. ASSUME NEW t \in Timers, t \in S
      PROVE  g.sessions[t] = h.sessions[t]
  BY <1>1, <1>2, <1>4 DEF Agree, Becomes, SessionAfter
<1>5. ASSUME NEW t \in Timers, t \notin S
      PROVE  g.sessions[t] = None /\ h.sessions[t] = r.sessions[t]
  <2>1. t # c.timer /\ q.sessions[t] = None /\ r.current # t
    BY <1>5, ReducerAssumption DEF Agree
  <2> QED
    BY <1>2, <2>1 DEF Becomes, SessionAfter, OtherAfter
<1>6. ASSUME NEW t \in Timers, r.sessions[t] # None
      PROVE  h.sessions[t] # None
  BY <1>2, <1>6, SessionStays, ReducerAssumption DEF Becomes, Sound
<1> QED
  BY <1>1, <1>3, <1>4, <1>5, <1>6 DEF Agree, Within, g, h

LEMMA DeadlineAgrees ==
  ASSUME NEW r, Sound(r), NEW S \in SUBSET Timers, NEW q, Agree(q, r, S), NEW at \in Int
  PROVE  /\ Agree(AutoCompleteCurrent(q, at), AutoCompleteCurrent(r, at), S)
         /\ Within(r, AutoCompleteCurrent(r, at), S)
<1> DEFINE g == AutoCompleteCurrent(q, at)
           h == AutoCompleteCurrent(r, at)
<1>1. g \in Reduction
  BY AutoCompleteCurrentType DEF Agree
<1>2. /\ h.current = r.current
      /\ \A t \in Timers : h.sessions[t] = IF r.current = t /\ r.sessions[t] # None
                                           THEN AutoComplete(r.sessions[t], at)
                                           ELSE r.sessions[t]
  BY DeadlinePointwise DEF Sound
<1>3. /\ g.current = q.current
      /\ \A t \in Timers : g.sessions[t] = IF q.current = t /\ q.sessions[t] # None
                                           THEN AutoComplete(q.sessions[t], at)
                                           ELSE q.sessions[t]
  BY DeadlinePointwise DEF Agree
<1> HIDE DEF g, h
<1>4. \A t \in Timers : r.sessions[t] # None => AutoComplete(r.sessions[t], at) # None
  BY AutoCompleteType, ReducerAssumption DEF Sound, SoundSession
<1>5. Agree(g, h, S)
  BY <1>1, <1>2, <1>3 DEF Agree
<1>6. Within(r, h, S)
  BY <1>2, <1>4, ReducerAssumption DEF Agree, Within
<1> QED
  BY <1>5, <1>6 DEF g, h

LEMMA ApplyAgrees ==
  ASSUME NEW r, Sound(r), NEW S \in SUBSET Timers, NEW q, Agree(q, r, S),
         NEW c \in Command, c.timer \in S
  PROVE  /\ Sound(Apply(r, c))
         /\ Agree(Apply(q, c), Apply(r, c), S)
         /\ Within(r, Apply(r, c), S)
<1> DEFINE d == AutoCompleteCurrent(r, c.at)
           e == AutoCompleteCurrent(q, c.at)
<1>1. c.at \in Int
  BY DEF Command
<1>2. Sound(d) /\ Agree(e, d, S) /\ Within(r, d, S)
  BY <1>1, DeadlineSound, DeadlineAgrees
<1> HIDE DEF d, e
<1>3. /\ Sound(Handle(d, c)) /\ Agree(Handle(e, c), Handle(d, c), S)
      /\ Within(d, Handle(d, c), S)
  BY <1>2, HandleSound, HandleAgrees
<1>4. Within(r, Handle(d, c), S)
  BY <1>2, <1>3 DEF Within
<1> QED
  BY <1>3, <1>4 DEF Apply, d, e

-----------------------------------------------------------------------------
(* The inductive invariant.                                                *)

\* What the host has stored is one replay, and so is what the page adds to it.
Stored ==
  /\ Sound(done) /\ Sound(whole)
  /\ kept \in Reduction
  /\ kept.sessions = done.sessions /\ kept.current = done.current

\* The commands of the page that was stored last are all behind.
Behind ==
  /\ after \in Nat /\ latest \in Nat /\ after <= latest
  /\ head # None => head.id \in Nat /\ head.id <= latest
  /\ first # None => first.id \in Nat /\ first.id <= after

\* Between pages nothing is computed; in a page it is what the log asks for.
InStep ==
  /\ scope \subseteq Timers
  /\ page = None => whole = done /\ latest = after
  /\ page # None => Agree(page, whole, scope) /\ Within(done, whole, scope)

PagedInv == Stored /\ Behind /\ InStep

LEMMA EmptySound == Sound(Empty)
  BY ReducerAssumption DEF Empty, Sound, Reduction, Outcomes

LEMMA PagedInitInvariant == PagedInit => PagedInv
<1> SUFFICES ASSUME PagedInit
             PROVE  PagedInv
  OBVIOUS
<1>1. Stored
  BY EmptySound DEF PagedInit, Stored, Sound
<1>2. Behind
  BY DEF PagedInit, Behind
<1>3. InStep
  BY DEF PagedInit, InStep
<1> QED
  BY <1>1, <1>2, <1>3 DEF PagedInv

LEMMA OpenPageKeeps ==
  ASSUME PagedInv, NEW timers \in SUBSET Timers, OpenPage(timers)
  PROVE  PagedInv'
<1>1. /\ page = None /\ Accepted(kept, timers) /\ scope' = timers
      /\ UNCHANGED <<kept, after, done, whole, latest, head, first>>
  BY DEF OpenPage
<1>2. kept.sessions \in [Timers -> Session \cup {None}] /\ whole = done
  BY <1>1 DEF PagedInv, Stored, Reduction, InStep
<1>3. \A t \in Timers : kept.sessions[t] # None => Restore(kept.sessions[t], t) = kept.sessions[t]
  BY <1>2 DEF PagedInv, Stored, Sound, SoundSession, Restore, Session
<1> DEFINE known == [t \in Timers |-> IF t \in timers /\ kept.sessions[t] # None
                                      THEN Restore(kept.sessions[t], t) ELSE None]
<1>4. page' = [kept EXCEPT !.sessions = known]
  BY DEF OpenPage
<1>5. \A t \in Timers : known[t] = IF t \in timers THEN kept.sessions[t] ELSE None
  BY <1>3
<1>6. known \in [Timers -> Session \cup {None}]
  BY <1>2, <1>3
<1> HIDE DEF known
<1>7. /\ page' \in Reduction /\ page'.current = kept.current /\ page'.sessions = known
  BY <1>4, <1>6 DEF PagedInv, Stored, Reduction
<1>8. kept.current # None => kept.current \in timers
  BY <1>1 DEF Accepted
<1>9. Agree(page', whole', scope') /\ Within(done', whole', scope')
  BY <1>1, <1>2, <1>5, <1>7, <1>8 DEF Agree, Within, PagedInv, Stored
<1>10. Stored' /\ Behind'
  BY <1>1 DEF PagedInv, Stored, Behind
<1>11. page' # None
  BY <1>7, PagedAssumption
<1> QED
  BY <1>1, <1>9, <1>10, <1>11 DEF PagedInv, InStep

LEMMA SubmitKeeps ==
  ASSUME PagedInv, NEW p \in Payloads, Submit(p)
  PROVE  PagedInv'
<1> DEFINE c == Numbered(p, latest + 1)
<1>1. /\ page # None /\ p.timer \in scope
      /\ page' = Apply(page, c) /\ whole' = Apply(whole, c) /\ latest' = c.id
      /\ head' = IF size = 0 THEN c ELSE head
      /\ UNCHANGED <<kept, after, scope, done, first>>
  BY DEF Submit
<1>2. latest \in Nat /\ Sound(whole) /\ Agree(page, whole, scope) /\ Within(done, whole, scope)
      /\ scope \in SUBSET Timers
  BY <1>1 DEF PagedInv, Stored, Behind, InStep
<1>3. c \in Command /\ c.timer \in scope /\ c.id = latest + 1
  BY <1>1, <1>2, LogAssumption DEF Numbered, Payload, Command
<1> HIDE DEF c
<1>4. /\ Sound(whole') /\ Agree(page', whole', scope) /\ Within(whole, whole', scope)
  BY <1>1, <1>2, <1>3, ApplyAgrees
<1>5. Within(done, whole', scope)
  BY <1>2, <1>4 DEF Within
<1>6. page' # None
  BY <1>4, PagedAssumption DEF Agree
<1>7. Stored'
  BY <1>1, <1>4 DEF PagedInv, Stored
<1>8. Behind'
  BY <1>1, <1>2, <1>3 DEF PagedInv, Behind
<1>9. InStep'
  BY <1>1, <1>2, <1>4, <1>5, <1>6 DEF InStep
<1> QED
  BY <1>7, <1>8, <1>9 DEF PagedInv

LEMMA LosePageKeeps ==
  ASSUME PagedInv, LosePage
  PROVE  PagedInv'
<1>1. /\ page' = None /\ scope' = {} /\ head' = None
      /\ whole' = done /\ latest' = after
      /\ UNCHANGED <<kept, after, done, first>>
  BY DEF LosePage, NoPage
<1>2. Stored' /\ InStep'
  BY <1>1 DEF PagedInv, Stored, InStep
<1>3. Behind'
  BY <1>1 DEF PagedInv, Behind
<1> QED
  BY <1>2, <1>3 DEF PagedInv

LEMMA RepeatKeeps ==
  ASSUME PagedInv, Repeat
  PROVE  PagedInv'
<1>1. first # None /\ ~ Ordered(first.id, latest)
  BY DEF Repeat, PagedInv, Behind, Ordered
<1> QED
  BY <1>1, LosePageKeeps DEF Repeat

\* What comes back from a page, put beside the sessions that it did not know,
\* is what the replay of the whole log has.
LEMMA MergeAgrees ==
  ASSUME NEW z \in Reduction, NEW r, Sound(r), NEW S, Agree(z, r, S),
         NEW k \in Reduction, NEW d, k.sessions = d.sessions, Within(d, r, S)
  PROVE  /\ Merge(k, z) \in Reduction
         /\ Merge(k, z).sessions = r.sessions /\ Merge(k, z).current = r.current
<1> DEFINE merged == [t \in Timers |-> IF z.sessions[t] # None THEN z.sessions[t]
                                                              ELSE k.sessions[t]]
<1>1. Merge(k, z) = [z EXCEPT !.sessions = merged]
  BY DEF Merge
<1>2. \A t \in Timers : merged[t] = r.sessions[t]
  BY DEF Agree, Within
<1>3. r.sessions \in [Timers -> Session \cup {None}]
  BY DEF Sound, Reduction
<1>4. merged = r.sessions
  BY <1>2, <1>3
<1> HIDE DEF merged
<1> QED
  BY <1>1, <1>3, <1>4 DEF Agree, Reduction

LEMMA ClosePageKeeps ==
  ASSUME PagedInv, ClosePage
  PROVE  PagedInv'
<1>1. /\ page # None /\ kept' = Merge(kept, page) /\ after' = latest /\ first' = head
      /\ done' = whole /\ page' = None /\ scope' = {} /\ head' = None
      /\ UNCHANGED <<whole, latest>>
  BY DEF ClosePage, NoPage
<1>2. /\ kept' \in Reduction
      /\ kept'.sessions = whole.sessions /\ kept'.current = whole.current
  BY <1>1, MergeAgrees DEF PagedInv, Stored, InStep, Agree
<1>3. Stored' /\ InStep'
  BY <1>1, <1>2 DEF PagedInv, Stored, InStep
<1>4. Behind'
  BY <1>1 DEF PagedInv, Behind
<1> QED
  BY <1>3, <1>4 DEF PagedInv

LEMMA CloseLogKeeps ==
  ASSUME PagedInv, NEW now \in Instants, CloseLog(now)
  PROVE  PagedInv'
<1> DEFINE z == Projected(page, now)
           r == Projected(whole, now)
<1>1. /\ page # None /\ kept' = Merge(kept, z) /\ after' = latest
      /\ done' = r /\ whole' = r /\ page' = None /\ scope' = {} /\ head' = None
      /\ UNCHANGED <<latest, first>>
  BY DEF CloseLog, NoPage
<1>2. /\ now \in Int /\ Sound(whole) /\ Agree(page, whole, scope)
      /\ Within(done, whole, scope) /\ scope \in SUBSET Timers
  BY <1>1, LogAssumption DEF PagedInv, Stored, InStep
<1>3. Sound(r) /\ Agree(z, r, scope) /\ Within(whole, r, scope)
  BY <1>2, DeadlineSound, DeadlineAgrees DEF Projected
<1> HIDE DEF z, r
<1>4. Within(done, r, scope) /\ z \in Reduction
  BY <1>2, <1>3 DEF Within, Agree
<1>5. /\ kept' \in Reduction
      /\ kept'.sessions = r.sessions /\ kept'.current = r.current
  BY <1>1, <1>3, <1>4, MergeAgrees DEF PagedInv, Stored
<1>6. Stored' /\ InStep'
  BY <1>1, <1>3, <1>5 DEF Stored, InStep
<1>7. Behind'
  BY <1>1 DEF PagedInv, Behind
<1> QED
  BY <1>6, <1>7 DEF PagedInv

LEMMA PagedInvariance == PagedSpec => []PagedInv
<1>1. PagedInv /\ [PagedNext]_pagedVars => PagedInv'
  <2> SUFFICES ASSUME PagedInv, [PagedNext]_pagedVars
               PROVE  PagedInv'
    OBVIOUS
  <2>1. CASE Crash
    BY <2>1, LosePageKeeps DEF Crash
  <2>2. CASE UNCHANGED pagedVars
    BY <2>2 DEF pagedVars, PagedInv, Stored, Behind, InStep
  <2> QED
    BY <2>1, <2>2, OpenPageKeeps, SubmitKeeps, RepeatKeeps, ClosePageKeeps, CloseLogKeeps
       DEF PagedNext
<1> QED
  BY <1>1, PagedInitInvariant, PTL DEF PagedSpec

(* Wherever the pages are cut, whichever further sessions are passed, and  *)
(* however often a host loses or repeats one: what it has stored is one    *)
(* replay of the whole log (replay_page.rs), and the next page is accepted *)
(* as far as its sessions and the current timer decide.                    *)
THEOREM PagesMatchReplayHolds == PagedSpec => []PagesMatchReplay
<1>1. PagedInv => PagesMatchReplay
  BY DEF PagedInv, Stored, Sound, SoundSession, PagesMatchReplay, NextPageAccepted, Exists
<1> QED
  BY <1>1, PagedInvariance, PTL
=============================================================================
