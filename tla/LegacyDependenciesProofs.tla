---------------------- MODULE LegacyDependenciesProofs ----------------------
(***************************************************************************)
(* Theorems about the migration of timer dependencies, whatever the old    *)
(* client, the number of its commands, what the server refused, the        *)
(* durations of the breaks and the length of a day.                        *)
(***************************************************************************)
EXTENDS LegacyDependencies, TimerReducerProofs, FiniteSetTheorems,
        WellFoundedInduction

-----------------------------------------------------------------------------
(* The invariant.                                                          *)

Noted ==
  [id : Nat, timer : Timers, task : {None}, kind : Kinds, phase : Phases,
   planned : Nat, at : Nat, observed : Nat, own : BOOLEAN, src : Nat \cup {None},
   gen : BOOLEAN, day : Int \cup {None}]

Typed ==
  /\ profile \in Profiles /\ now \in Nat
  /\ made \in Seq(Noted)
  /\ queue \subseteq DOMAIN made /\ log \subseteq DOMAIN made
  /\ base.lengths \in [Breaks -> Nat]

\* A command's number is its id, and a timer has the number of its start.
Named(line) ==
  \A i \in DOMAIN line :
    /\ line[i].id = i
    /\ line[i].timer \in 1 .. i
    /\ line[line[i].timer].kind = "start"
    /\ line[i].kind = "start" => line[i].timer = i

\* A break notes the finish it followed.
SourceOfStart(line, i) ==
  /\ line[i].phase \in Breaks
  /\ line[line[i].src].kind = "finish" /\ line[line[i].src].phase = "focus"
  /\ line[i].gen = (profile = "pwa")

\* A control notes the finish that its break noted.
SourceOfControl(line, q, i) ==
  LET t == line[i].timer
  IN  /\ line[t].own /\ line[i].src < t /\ ~ line[i].gen
      /\ t \in q => line[t].src = line[i].src

Sourced(line, q) ==
  \A i \in DOMAIN line : line[i].src # None =>
    /\ line[i].own /\ line[i].src \in 1 .. i - 1 /\ line[line[i].src].own
    /\ IF line[i].kind = "start" THEN SourceOfStart(line, i)
                                 ELSE SourceOfControl(line, q, i)

\* All controls of a break whose start is retained note what the start notes.
Shared(line, q) ==
  \A i \in DOMAIN line :
    LET t == line[i].timer
    IN  line[i].own /\ t \in q /\ t # i /\ line[t].phase \in Breaks
          => line[i].src = line[t].src

\* What is retained are the last commands of this device, and what was sent
\* are the first ones of those.
Retained(line, q, sent) ==
  /\ \A i \in q : line[i].own
  /\ \A i \in q, j \in DOMAIN line : line[j].own /\ i < j => j \in q
  /\ sent # None =>
       /\ sent \subseteq DOMAIN line
       /\ \A i \in sent, j \in q : j < i => j \in sent

\* An outcome is that of a command that was sent, and one that is not a
\* rejection is of a command that the server has taken.
Answered ==
  \A f \in DOMAIN acks :
    /\ saved # None /\ DOMAIN acks = saved
    /\ acks[f] # "rejected" => f \in log

Starts(line) == {i \in DOMAIN line : line[i].kind = "start"}

PhasesOf(line) == [i \in DOMAIN line |-> line[i].phase]

\* A snapshot shows sessions of timers that were started, in their phases.
Faithful(b, S, phases) ==
  /\ PairOK(b.timer, b.rows) /\ Covered(b.timer, b.rows, S)
  /\ b.timer # None => b.timer.phase = phases[b.timer.timer]
  /\ \A row \in b.rows : row.phase = phases[row.timer]

Mine(line)   == {i \in DOMAIN line : line[i].own}
Theirs(line) == {i \in DOMAIN line : ~ line[i].own}

Counted(line) ==
  /\ Cardinality(Mine(line)) <= MaxCommands \/ Cardinality(Mine(line)) = 1
  /\ Cardinality(Theirs(line)) <= 4

Before ==
  /\ Typed
  /\ Named(made)
  /\ Sourced(made, queue)
  /\ Shared(made, queue)
  /\ Retained(made, queue, saved)
  /\ Answered
  /\ Faithful(base, Starts(made), PhasesOf(made))
  /\ Counted(made)

Edge == [child : Nat, parent : Nat, gen : BOOLEAN, day : Int \cup {None}]

-----------------------------------------------------------------------------
(* Replays of the commands.                                                *)

LEMMA ReducingUnfolds ==
  ASSUME NEW b, NEW line, NEW ids, Len(line) \in Nat
  PROVE  LineUnfolds(Reducing(b, line, ids), Seed(b.timer, b.rows), line, ids, Len(line))
<1> DEFINE f == Reducing(b, line, ids)
           seed == Seed(b.timer, b.rows)
<1>1. \E g : LineUnfolds(g, seed, line, ids, Len(line))
  BY ReducingExists
<1>2. f = CHOOSE g : LineUnfolds(g, seed, line, ids, Len(line))
  BY DEF Reducing, LineUnfolds, ReduceAt
<1> HIDE DEF f
<1> QED
  BY <1>1, <1>2 DEF f

LEMMA ReducedStays ==
  ASSUME NEW b, NEW line, NEW ids, Len(line) \in Nat, NEW G,
         Seed(b.timer, b.rows) \in G,
         \A n \in 1 .. Len(line) : line[n].id \in ids =>
           \A r \in G : Apply(r, line[n]) \in G
  PROVE  Reduced(b, line, ids) \in G
<1> DEFINE f == Reducing(b, line, ids)
<1>1. LineUnfolds(f, Seed(b.timer, b.rows), line, ids, Len(line))
  BY ReducingUnfolds
<1> HIDE DEF f
<1>2. f[Len(line)] \in G
  BY <1>1, LineStays
<1> QED
  BY <1>2 DEF Reduced, f

\* What the reducer reads of a command.
Plain(c) ==
  [id |-> c.id, timer |-> c.timer, task |-> c.task, kind |-> c.kind,
   phase |-> c.phase, planned |-> c.planned, at |-> c.at, observed |-> c.observed]

LEMMA ApplyPlain ==
  ASSUME NEW r, NEW c
  PROVE  Apply(r, c) = Apply(r, Plain(c))
<1> DEFINE p == Plain(c)
<1>1. /\ p.id = c.id /\ p.timer = c.timer /\ p.task = c.task /\ p.kind = c.kind
      /\ p.phase = c.phase /\ p.planned = c.planned /\ p.at = c.at
      /\ p.observed = c.observed
  BY DEF Plain
<1> HIDE DEF p
<1>2. \A q, s, e : /\ CommandIntent(p) = CommandIntent(c)
                  /\ StartedSession(p) = StartedSession(c)
                  /\ SupersedeActive(q, p) = SupersedeActive(q, c)
                  /\ Observed(q, p) = Observed(q, c)
  BY <1>1, Zenon DEF CommandIntent, StartedSession, SupersedeActive, Observed
<1>3. \A s, x, e : Transition(s, p, x, e) = Transition(s, c, x, e)
  BY <1>1, <1>2, Zenon DEF Transition
<1>4. ASSUME NEW q, NEW x, NEW e
      PROVE  Retake(q, p, x, e) = Retake(q, c, x, e)
  <2> DEFINE old == SupersedeActive(q, c).sessions
  <2>1. SupersedeActive(q, p).sessions = old
    BY <1>2
  <2>2. [old EXCEPT ![c.timer] = Transition(@, p, x, e)]
          = [old EXCEPT ![c.timer] = Transition(@, c, x, e)]
    BY <1>3
  <2>3. Retake(q, p, x, e) =
          IF q.sessions[c.timer] = None THEN WithOutcome(q, "ignored")
          ELSE [sessions |-> [SupersedeActive(q, p).sessions
                                EXCEPT ![c.timer] = Transition(@, p, x, e)],
                current |-> c.timer, outcome |-> "applied"]
    BY <1>1 DEF Retake
  <2>4. Retake(q, c, x, e) =
          IF q.sessions[c.timer] = None THEN WithOutcome(q, "ignored")
          ELSE [sessions |-> [SupersedeActive(q, c).sessions
                                EXCEPT ![c.timer] = Transition(@, c, x, e)],
                current |-> c.timer, outcome |-> "applied"]
    BY DEF Retake
  <2> QED
    BY <2>1, <2>2, <2>3, <2>4
<1>5. ASSUME NEW q
      PROVE  Handle(q, p) = Handle(q, c)
  <2>1. Start(q, p) = Start(q, c)
    BY <1>1, <1>2, Zenon DEF Start
  <2>2. Activate(q, p) = Activate(q, c) /\ Terminate(q, p) = Terminate(q, c)
    BY <1>1, <1>2, <1>4, Zenon DEF Activate, Terminate
  <2>3. Clear(q, p) = Clear(q, c)
    BY <1>1, <1>2, Zenon DEF Clear
  <2>4. Retarget(q, p) = Retarget(q, c)
    BY <1>1, Zenon DEF Retarget
  <2> QED
    BY <1>1, <2>1, <2>2, <2>3, <2>4, Zenon DEF Handle
<1>6. Apply(r, p) = Apply(r, c)
  BY <1>1, <1>5, Zenon DEF Apply
<1> QED
  BY <1>6 DEF p

-----------------------------------------------------------------------------
(* What the replays of the commands show.                                  *)

\* The states of replays in which the sessions have these phases.
Playing(S, phases) ==
  {r \in Good(S) : \A t \in Timers : r.sessions[t] # None =>
                     r.sessions[t].phase = phases[t]}

LEMMA PlayingDeadline ==
  ASSUME NEW S, NEW phases, NEW r \in Playing(S, phases), NEW at \in Int
  PROVE  AutoCompleteCurrent(r, at) \in Playing(S, phases)
<1> DEFINE d == AutoCompleteCurrent(r, at)
<1>1. r \in Good(S) /\ r \in Reduction
  BY DEF Playing, Good
<1>2. d \in Good(S)
  BY <1>1, GoodDeadline
<1>3. ASSUME NEW t \in Timers, d.sessions[t] # None
      PROVE  d.sessions[t].phase = phases[t]
  <2>1. /\ r.sessions[t] # None
        /\ d.sessions[t] \in {r.sessions[t], AutoComplete(r.sessions[t], at)}
    BY <1>1, <1>3, DeadlinePointwise
  <2>2. r.sessions[t] \in Session
    BY <1>1, <2>1 DEF Reduction
  <2>3. AutoComplete(r.sessions[t], at).phase = r.sessions[t].phase
    BY <2>2, CompletedFields
  <2> QED
    BY <2>1, <2>3 DEF Playing
<1> QED
  BY <1>2, <1>3 DEF Playing

LEMMA PlayingHandle ==
  ASSUME NEW S, NEW phases, NEW d \in Playing(S, phases), NEW c \in Command,
         c.kind = "start" => c.timer \in S /\ c.phase = phases[c.timer]
  PROVE  Handle(d, c) \in Playing(S, phases)
<1> DEFINE h == Handle(d, c)
<1>1. d \in Good(S) /\ d \in Reduction /\ c.timer \in Timers
  BY DEF Playing, Good, Command
<1>2. h \in Good(S)
  BY <1>1, GoodHandle
<1>3. Becomes(d, h, c) \/ h.sessions = d.sessions
  BY <1>1, HandleCases
<1> HIDE DEF h
<1>4. ASSUME NEW t \in Timers, h.sessions[t] # None
      PROVE  h.sessions[t].phase = phases[t]
  <2>1. CASE h.sessions[t] = d.sessions[t]
    BY <1>4, <2>1 DEF Playing
  <2>2. CASE Becomes(d, h, c)
    <3> DEFINE s == d.sessions[t]
               z == SessionAfter(d, t, c)
    <3>1. z = h.sessions[t]
      BY <2>2 DEF Becomes
    <3>2. s \in Session => s.phase = phases[t]
      BY ReducerAssumption DEF Playing
    <3>3. \/ z = s
          \/ t = c.timer /\ c.kind = "start" /\ z = StartedSession(c)
          \/ s \in Session /\ z.phase = s.phase
      <4>1. \/ z = s
            \/ t = c.timer /\ c.kind = "start" /\ z = StartedSession(c)
            \/ /\ t = c.timer /\ s \in Session /\ c.kind \in Lifecycle
               /\ \E status \in Active \cup Ended, elapsed \in 0 .. s.planned :
                    /\ z = Transition(s, c, status, elapsed)
                    /\ <<c.kind, status>> \in Moves
                    /\ status = "completed" => elapsed = s.planned
            \/ t = c.timer /\ s \in Session /\ c.kind = "clear" /\ z = ClearedSession(s, c)
            \/ /\ t = c.timer /\ s \in Session /\ IsActive(s) /\ d.current = t
               /\ c.kind = "retarget" /\ z = RetargetedSession(s, c)
            \/ /\ t # c.timer /\ s \in Session /\ IsActive(s) /\ d.current = t
               /\ Takes(d.sessions[c.timer], c)
               /\ z = Supersede(s, c.at, c.timer, c.id)
        BY <1>1, SessionCases
      <4> HIDE DEF s, z
      <4>2. ASSUME s \in Session, c.kind \in Lifecycle,
                   NEW status \in Active \cup Ended, NEW elapsed \in 0 .. s.planned,
                   z = Transition(s, c, status, elapsed)
            PROVE  z.phase = s.phase
        <5>1. elapsed \in Nat
          BY <4>2 DEF Session
        <5>2. Transition(s, c, status, elapsed).phase = s.phase
          BY <4>2, <5>1, TransitionFields
        <5> QED
          BY <4>2, <5>2
      <4>3. s \in Session => /\ c.kind = "clear" => ClearedSession(s, c).phase = s.phase
                             /\ RetargetedSession(s, c).phase = s.phase
                             /\ Supersede(s, c.at, c.timer, c.id).phase = s.phase
        <5>1. s \in Session /\ c.kind = "clear" => ClearedSession(s, c).phase = s.phase
          BY ClearedFields
        <5>2. s \in Session => RetargetedSession(s, c).phase = s.phase
          BY RetargetedFields
        <5>3. s \in Session => Supersede(s, c.at, c.timer, c.id).phase = s.phase
          BY SupersedeFields
        <5> QED
          BY <5>1, <5>2, <5>3
      <4> QED
        BY <4>1, <4>2, <4>3
    <3> HIDE DEF z
    <3>4. CASE z = s
      BY <1>4, <3>1, <3>4 DEF Playing
    <3>5. CASE t = c.timer /\ c.kind = "start" /\ z = StartedSession(c)
      BY <3>1, <3>5 DEF StartedSession
    <3>6. CASE s \in Session /\ z.phase = s.phase
      BY <3>1, <3>2, <3>6
    <3> QED
      BY <3>3, <3>4, <3>5, <3>6
  <2> QED
    BY <1>3, <2>1, <2>2
<1> QED
  BY <1>2, <1>4 DEF Playing, h

LEMMA PlayingSeed ==
  ASSUME NEW S, NEW phases, NEW b, Faithful(b, S, phases)
  PROVE  Seed(b.timer, b.rows) \in Playing(S, phases)
<1> DEFINE r == Seed(b.timer, b.rows)
           timer == b.timer
           rows == b.rows
<1>1. /\ timer \in Snapshot \cup {None} /\ rows \in SUBSET Row
      /\ ValidHistory(rows)
  BY DEF Faithful, PairOK, ValidPair
<1>2. r \in Good(S)
  BY SeedGood DEF Faithful
<1>3. \A t \in Timers : r.sessions[t] = SeedSession(timer, rows, t)
  BY DEF Seed
<1>4. /\ timer # None => timer.phase = phases[timer.timer]
      /\ \A row \in rows : row.phase = phases[row.timer]
  BY DEF Faithful
<1> HIDE DEF r, timer, rows
<1>5. ASSUME NEW t \in Timers, r.sessions[t] # None
      PROVE  r.sessions[t].phase = phases[t]
  <2> DEFINE own == {row \in rows : row.timer = t}
             pick == CHOOSE row \in own : TRUE
             first == SessionFromHistory(pick)
             can == SessionFromCanonical(timer)
  <2>1. own # {} => pick \in rows /\ pick.timer = t
    OBVIOUS
  <2>2. own # {} => first.phase = phases[t]
    BY <1>4, <2>1 DEF SessionFromHistory
  <2>3. timer # None => can \in Session /\ can.phase = timer.phase
    BY <1>1, FromCanonicalType DEF SessionFromCanonical
  <2>4. r.sessions[t] =
          IF timer = None \/ timer.timer # t
          THEN IF own = {} THEN None ELSE first
          ELSE IF own = {} THEN can
          ELSE [can EXCEPT !.historyId = first.historyId,
                           !.terminalCmd = first.terminalCmd, !.ended = first.ended]
    BY <1>3 DEF SeedSession
  <2> HIDE DEF own, pick, first, can
  <2>5. timer # None =>
          [can EXCEPT !.historyId = first.historyId,
                      !.terminalCmd = first.terminalCmd, !.ended = first.ended].phase
            = can.phase
    BY <2>3 DEF Session
  <2> QED
    BY <1>4, <1>5, <2>2, <2>3, <2>4, <2>5
<1> QED
  BY <1>2, <1>5 DEF Playing, r

LEMMA PlayingShown ==
  ASSUME NEW S, NEW phases, NEW r \in Playing(S, phases)
  PROVE  Faithful(Shown(r), S, phases)
<1>1. r \in Good(S) /\ r \in Reduction
  BY DEF Playing, Good
<1>2. PairOK(Canonical(r), History(r)) /\ Covered(Canonical(r), History(r), S)
  BY <1>1, ProjectionOK
<1>3. ASSUME Canonical(r) # None
      PROVE  Canonical(r).phase = phases[Canonical(r).timer]
  BY <1>1, <1>3, CanonicalFields, ReducerAssumption DEF Playing
<1>4. ASSUME NEW row \in History(r)
      PROVE  row.phase = phases[row.timer]
  BY <1>4 DEF Playing, History, HistoryRow
<1> QED
  BY <1>2, <1>3, <1>4 DEF Faithful, Shown

\* A line whose replays are faithful to S and phases.
Starting(line, S, phases) ==
  \A i \in 1 .. Len(line) :
    line[i].kind = "start" => line[i].timer \in S /\ line[i].phase = phases[line[i].timer]

LEMMA PlayingReduced ==
  ASSUME NEW S, NEW phases, NEW b, Faithful(b, S, phases),
         NEW line \in Seq(Noted), Starting(line, S, phases), NEW ids
  PROVE  Reduced(b, line, ids) \in Playing(S, phases)
<1>1. Len(line) \in Nat /\ \A n \in 1 .. Len(line) : line[n] \in Noted
  OBVIOUS
<1>2. ASSUME NEW n \in 1 .. Len(line), NEW r \in Playing(S, phases)
      PROVE  Apply(r, line[n]) \in Playing(S, phases)
  <2> DEFINE c == Plain(line[n])
  <2>1. line[n] \in Noted
    BY <1>1
  <2>2. c \in Command /\ c.at \in Int
    BY <2>1 DEF Plain, Command, Noted
  <2>3. c.kind = "start" => c.timer \in S /\ c.phase = phases[c.timer]
    BY DEF Plain, Starting
  <2> HIDE DEF c
  <2>4. Apply(r, c) \in Playing(S, phases)
    BY <2>2, <2>3, PlayingDeadline, PlayingHandle DEF Apply
  <2> QED
    BY <2>4, ApplyPlain DEF c
<1>3. Seed(b.timer, b.rows) \in Playing(S, phases)
  BY PlayingSeed
<1> QED
  BY <1>1, <1>2, <1>3, ReducedStays

-----------------------------------------------------------------------------
(* The commands that a command waits for, with those that they wait for.   *)

ParentsOf(E, i) == {e.parent : e \in {d \in E : d.child = i}}

Above(E, g, i) == ParentsOf(E, i) \cup UNION {g[j] : j \in ParentsOf(E, i)}

\* g lists what the first m commands wait for.
Climbs(E, g, m) == g = [i \in 1 .. m |-> Above(E, g, i)]

\* A command waits for earlier ones.
Forward(E, m) == \A e \in E : e.child \in 1 .. m => e.parent \in 1 .. e.child - 1

AncestorsIn(line, E) == CHOOSE g : Climbs(E, g, Len(line))

LEMMA ClimbsExists ==
  ASSUME NEW E, NEW m \in Nat, Forward(E, m)
  PROVE  \E g : Climbs(E, g, m)
<1> DEFINE T == {k \in 0 .. m : ~ \E g : Climbs(E, g, k)}
<1>1. SUFFICES ASSUME T # {}
               PROVE  FALSE
  OBVIOUS
<1>2. PICK k \in T : \A j \in T : k <= j
  <2>1. T \subseteq Nat
    OBVIOUS
  <2> HIDE DEF T
  <2> QED
    BY <1>1, <2>1, LeastPlace
<1>3. k \in 0 .. m /\ ~ \E g : Climbs(E, g, k)
  OBVIOUS
<1>4. k # 0
  <2> DEFINE g == [i \in 1 .. 0 |-> {}]
  <2>1. g = [i \in 1 .. 0 |-> Above(E, g, i)]
    OBVIOUS
  <2> HIDE DEF g
  <2>2. Climbs(E, g, 0)
    BY <2>1 DEF Climbs
  <2> QED
    BY <1>3, <2>2
<1>5. k - 1 \in 0 .. m /\ k - 1 \notin T
  BY <1>2, <1>3, <1>4
<1>6. PICK g : Climbs(E, g, k - 1)
  BY <1>5
<1> DEFINE h == [i \in 1 .. k |-> IF i = k THEN Above(E, g, k) ELSE g[i]]
<1>7. \A i \in 1 .. k - 1 : h[i] = g[i]
  BY <1>3, <1>4
<1>8. h[k] = Above(E, g, k)
  BY <1>3, <1>4
<1>9. h = [i \in 1 .. k |-> h[i]]
  OBVIOUS
<1> HIDE DEF h
<1>10. ASSUME NEW i \in 1 .. k
       PROVE  h[i] = Above(E, h, i)
  <2>1. ParentsOf(E, i) \subseteq 1 .. k - 1
    BY <1>3 DEF ParentsOf, Forward
  <2>2. \A j \in ParentsOf(E, i) : h[j] = g[j]
    BY <1>7, <2>1
  <2>3. Above(E, h, i) = Above(E, g, i)
    BY <2>2, Zenon DEF Above
  <2>4. CASE i = k
    BY <1>8, <2>3, <2>4
  <2>5. CASE i # k
    <3>1. i \in 1 .. k - 1
      BY <1>3, <2>5
    <3>2. g[i] = Above(E, g, i)
      BY <1>6, <3>1 DEF Climbs
    <3> QED
      BY <1>7, <2>3, <3>1, <3>2
  <2> QED
    BY <2>4, <2>5
<1>11. Climbs(E, h, k)
  BY <1>9, <1>10 DEF Climbs
<1> QED
  BY <1>3, <1>11

LEMMA AncestorsClimb ==
  ASSUME NEW line, Len(line) \in Nat, NEW E, Forward(E, Len(line))
  PROVE  \A i \in 1 .. Len(line) :
           AncestorsIn(line, E)[i] = Above(E, AncestorsIn(line, E), i)
<1> DEFINE g == AncestorsIn(line, E)
<1>1. Climbs(E, g, Len(line))
  BY ClimbsExists DEF AncestorsIn
<1> HIDE DEF g
<1>2. \A i \in 1 .. Len(line) : g[i] = Above(E, g, i)
  BY <1>1 DEF Climbs
<1> QED
  BY <1>2 DEF g

LEMMA AncestorsAre ==
  ASSUME DOMAIN made = 1 .. Len(made), NEW E
  PROVE  Ancestors(E) = AncestorsIn(made, E)
BY DEF Ancestors, AncestorsIn, Climbs, Above, ParentsOf

LEMMA AncestorsReach ==
  ASSUME NEW line, Len(line) \in Nat, NEW E, Forward(E, Len(line)),
         NEW e \in E, e.child \in 1 .. Len(line)
  PROVE  /\ e.parent \in AncestorsIn(line, E)[e.child]
         /\ AncestorsIn(line, E)[e.parent] \subseteq AncestorsIn(line, E)[e.child]
<1>1. e.parent \in ParentsOf(E, e.child)
  BY DEF ParentsOf
<1> DEFINE g == AncestorsIn(line, E)
<1>2. g[e.child] = Above(E, g, e.child)
  BY AncestorsClimb
<1> HIDE DEF g
<1>3. e.parent \in g[e.child] /\ g[e.parent] \subseteq g[e.child]
  BY <1>1, <1>2, Zenon DEF Above
<1> QED
  BY <1>3 DEF g

\* Longer lines and more edges take nothing away.
LEMMA AncestorsStay ==
  ASSUME NEW line, Len(line) \in Nat, NEW D, Forward(D, Len(line)),
         NEW longer, Len(longer) \in Nat, Len(line) <= Len(longer),
         NEW E, Forward(E, Len(longer)), D \subseteq E
  PROVE  \A i \in 1 .. Len(line) : AncestorsIn(line, D)[i] \subseteq AncestorsIn(longer, E)[i]
<1> DEFINE g == AncestorsIn(line, D)
           h == AncestorsIn(longer, E)
           T == {i \in 1 .. Len(line) : ~ g[i] \subseteq h[i]}
<1>1. SUFFICES ASSUME T # {}
               PROVE  FALSE
  OBVIOUS
<1>2. PICK k \in T : \A j \in T : k <= j
  <2>1. T \subseteq Nat
    OBVIOUS
  <2> HIDE DEF T
  <2> QED
    BY <1>1, <2>1, LeastPlace
<1>3. k \in 1 .. Len(line) /\ k \in 1 .. Len(longer)
  BY <1>2
<1>4. g[k] = Above(D, g, k) /\ h[k] = Above(E, h, k)
  BY <1>3, AncestorsClimb
<1>5. ParentsOf(D, k) \subseteq ParentsOf(E, k)
  BY DEF ParentsOf
<1>6. ASSUME NEW j \in ParentsOf(D, k)
      PROVE  g[j] \subseteq h[j]
  <2>1. j \in 1 .. k - 1 /\ j \in 1 .. Len(line)
    BY <1>3 DEF ParentsOf, Forward
  <2>2. j \notin T
    BY <1>2, <1>3, <2>1
  <2> QED
    BY <2>1, <2>2
<1>7. ~ g[k] \subseteq h[k]
  BY <1>2
<1> HIDE DEF g, h
<1>8. Above(D, g, k) \subseteq Above(E, h, k)
  BY <1>5, <1>6, Zenon DEF Above
<1> QED
  BY <1>4, <1>7, <1>8

-----------------------------------------------------------------------------
(* The verdicts: an edge that is neither an error nor undecided is kept,   *)
(* with the same commands at its ends, or discharged on evidence.          *)

Settled(v) == v.kind \notin {"error", "unresolved"}

SameEnds(v, e) ==
  /\ v.kind = "keep" /\ v.edge \in Edge
  /\ v.edge.child = e.child /\ v.edge.parent = e.parent

LEMMA PendingKeeps ==
  ASSUME NEW E, NEW e \in Edge, NEW rows, NEW calendar, calendar \subseteq Int,
         Settled(PendingGenerated(E, e, rows, calendar))
  PROVE  SameEnds(PendingGenerated(E, e, rows, calendar), e)
<1> DEFINE exact == CompletedBy(rows, e.parent)
           source == CHOOSE r \in exact : TRUE
           days == Bounds(e, source, calendar)
           day == CHOOSE d \in days : TRUE
           kept == [e EXCEPT !.gen = TRUE, !.day = day]
           v == PendingGenerated(E, e, rows, calendar)
<1>1. days \subseteq Int
  BY ReducerAssumption DEF Bounds, Edge
<1>2. v = IF exact = {} THEN Undecided ELSE Pending(E, e, rows, source, days)
  BY DEF PendingGenerated, PendingSource
<1>3. Error.kind = "error" /\ Undecided.kind = "unresolved"
  BY DEF Error, Undecided
<1>5. \/ Pending(E, e, rows, source, days) = Keep(kept) /\ days # {}
      \/ Pending(E, e, rows, source, days) \in {Error, Undecided}
  BY DEF Pending
<1>6. days # {} => day \in Int
  BY <1>1
<1> HIDE DEF day, days, source, exact
<1>7. days # {} => kept \in Edge /\ kept.child = e.child /\ kept.parent = e.parent
  BY <1>6 DEF Edge
<1> HIDE DEF kept, v
<1>8. v = Keep(kept) /\ days # {}
  BY <1>2, <1>3, <1>5 DEF Settled, v
<1>9. Keep(kept).kind = "keep" /\ Keep(kept).edge = kept
  BY DEF Keep
<1> QED
  BY <1>7, <1>8, <1>9 DEF SameEnds, v

LEMMA MissingDischarges ==
  ASSUME NEW e, NEW calendar, Settled(Missing(e, calendar))
  PROVE  /\ Missing(e, calendar).kind = "discharged"
         /\ Evidence(e.parent) /\ IsBreakStart(e.child)
<1> DEFINE source == CHOOSE r \in CanonicalCompletion(e.parent) : TRUE
           days == Bounds(e, source, calendar)
           d == Discharge(e, source, days)
<1>1. Missing(e, calendar) = IF ~ Evidence(e.parent) THEN Undecided ELSE d
  BY DEF Missing
<1>2. /\ Error.kind = "error" /\ Undecided.kind = "unresolved"
      /\ Discharged.kind = "discharged"
  BY DEF Error, Undecided, Discharged
<1>3. d \in {Error, Undecided, Discharged} /\ (d = Discharged => IsBreakStart(e.child))
  BY DEF Discharge, Error, Undecided, Discharged
<1> HIDE DEF d
<1> QED
  BY <1>1, <1>2, <1>3 DEF Settled

LEMMA ClassifiedIs ==
  ASSUME NEW E, NEW e \in Edge, NEW rows, NEW calendar, calendar \subseteq Int,
         Settled(Classified(E, e, rows, calendar))
  PROVE  IF e.parent \in queue THEN SameEnds(Classified(E, e, rows, calendar), e)
         ELSE /\ Classified(E, e, rows, calendar).kind = "discharged"
              /\ Evidence(e.parent) /\ IsBreakStart(e.child)
<1> DEFINE v == Classified(E, e, rows, calendar)
<1>1. CASE e.parent \notin queue
  <2>1. v = Missing(e, calendar)
    BY <1>1 DEF Classified
  <2> QED
    BY <1>1, <2>1, MissingDischarges
<1>2. CASE e.parent \in queue /\ Generated(e.child, e.parent, e.gen)
  <2>1. v = PendingGenerated(E, e, rows, calendar)
    BY <1>2 DEF Classified
  <2> QED
    BY <1>2, <2>1, PendingKeeps
<1>3. CASE e.parent \in queue /\ ~ Generated(e.child, e.parent, e.gen)
  <2>1. v = IF e.gen THEN Error ELSE Keep(e)
    BY <1>3 DEF Classified
  <2>2. Error.kind = "error" /\ Keep(e).kind = "keep" /\ Keep(e).edge = e
    BY DEF Error, Keep
  <2> HIDE DEF v
  <2>3. v = Keep(e)
    BY <2>1, <2>2 DEF Settled, v
  <2> QED
    BY <1>3, <2>2, <2>3 DEF SameEnds, v
<1> QED
  BY <1>1, <1>2, <1>3

\* A plan that is made decides every edge.
LEMMA PlanDecides ==
  ASSUME NEW rows, NEW calendar, NEW whole,
         Plan(rows, calendar, whole).kind = "planned"
  PROVE  LET verdicts == Verdicts(Edges, rows, calendar)
             kept == {v.edge : v \in {x \in verdicts : x.kind = "keep"}}
         IN  /\ Plan(rows, calendar, whole).deps = kept
             /\ Admissible(kept)
             /\ \A v \in verdicts : Settled(v)
             /\ \A f \in DOMAIN acks : acks[f] # "rejected"
<1> DEFINE verdicts == Verdicts(Edges, rows, calendar)
           kept == {v.edge : v \in {x \in verdicts : x.kind = "keep"}}
           kinds == {v.kind : v \in verdicts}
           p == Plan(rows, calendar, whole)
<1>1. Error.kind = "error"
  BY DEF Error
<1>2. p = Output(verdicts, whole)
  BY <1>1 DEF Plan
<1>3. "error" \notin kinds
  BY <1>1, <1>2 DEF Output
<1>4. "unresolved" \notin kinds /\ \A f \in DOMAIN acks : acks[f] # "rejected"
  BY <1>2, <1>3 DEF Output
<1>5. ~ (saved # None /\ ~ whole)
  BY <1>2, <1>3 DEF Output
<1>6. Output(verdicts, whole) =
        IF ~ Admissible(kept) THEN Error
        ELSE [kind |-> IF kept = deps THEN "noop" ELSE "planned", deps |-> kept]
  BY <1>3, <1>4, <1>5 DEF Output
<1>7. Admissible(kept) /\ p.deps = kept
  <2> DEFINE out == Output(verdicts, whole)
  <2>1. p.kind = "planned" /\ p = out
    BY <1>2
  <2>2. out = IF ~ Admissible(kept) THEN Error
              ELSE [kind |-> IF kept = deps THEN "noop" ELSE "planned", deps |-> kept]
    BY <1>6
  <2> HIDE DEF p, out, kept, verdicts
  <2> QED
    BY <1>1, <2>1, <2>2
<1>8. \A v \in verdicts : Settled(v)
  BY <1>3, <1>4 DEF Settled
<1> QED
  BY <1>4, <1>7, <1>8

-----------------------------------------------------------------------------
(* The edge of a command, and what becomes of it.                          *)

LEMMA GreatestPlace ==
  ASSUME NEW T, NEW m \in Nat, T \subseteq 0 .. m, T # {}
  PROVE  \E x \in T : \A y \in T : y <= x
<1> DEFINE U == {m - x : x \in T}
<1>1. U \subseteq Nat /\ U # {}
  <2>1. \A x \in T : x \in 0 .. m /\ m - x \in Nat
    OBVIOUS
  <2> QED
    BY <2>1
<1>2. PICK u \in U : \A w \in U : u <= w
  <2> HIDE DEF U
  <2> QED
    BY <1>1, LeastPlace
<1>3. PICK x \in T : u = m - x
  BY <1>2
<1>4. ASSUME NEW y \in T
      PROVE  y <= x
  <2>1. m - y \in U
    OBVIOUS
  <2>2. m - x <= m - y
    BY <1>2, <1>3, <2>1
  <2> QED
    BY <2>2
<1> QED
  BY <1>4

EdgeOf(i) ==
  [child |-> i, parent |-> made[i].src, day |-> made[i].day,
   gen |-> \/ made[i].gen
           \/ /\ profile = "android"
              /\ made[i].src \in queue \/ SavedCommand(made[i].src)
              /\ Generated(i, made[i].src, FALSE)]

LEMMA EdgesOf ==
  ASSUME Typed, NEW i \in queue, made[i].src # None
  PROVE  /\ EdgeOf(i) \in RetainedEdges /\ EdgeOf(i) \in Edge
         /\ EdgeOf(i).child = i /\ EdgeOf(i).parent = made[i].src
         /\ EdgeOf(i).gen = \/ made[i].gen
                            \/ /\ profile = "android"
                               /\ made[i].src \in queue \/ SavedCommand(made[i].src)
                               /\ Generated(i, made[i].src, FALSE)
<1>1. i \in Nat /\ made[i] \in Noted
  BY DEF Typed
<1>2. EdgeOf(i) \in Edge
  BY <1>1 DEF EdgeOf, Edge, Noted
<1> QED
  BY <1>2 DEF EdgeOf, RetainedEdges

\* All that is known of a command that notes a finish.
Noting(i) ==
  LET t == made[i].timer
      f == made[i].src
  IN  /\ i \in Nat /\ made[i] \in Noted
      /\ made[i].own /\ f \in 1 .. i - 1 /\ f \in DOMAIN made /\ made[f].own
      /\ t \in 1 .. i /\ t \in DOMAIN made /\ made[t].kind = "start" /\ made[t].timer = t
      /\ IF made[i].kind = "start" THEN t = i /\ SourceOfStart(made, i)
         ELSE t < i /\ SourceOfControl(made, queue, i)

LEMMA NotingIs ==
  ASSUME Typed, Named(made), Sourced(made, queue), NEW i \in DOMAIN made,
         made[i].src # None
  PROVE  Noting(i)
<1>1. i \in 1 .. Len(made) /\ DOMAIN made = 1 .. Len(made) /\ Len(made) \in Nat
      /\ made[i] \in Noted
  BY DEF Typed
<1>2. /\ made[i].timer \in 1 .. i /\ made[made[i].timer].kind = "start"
      /\ made[i].kind = "start" => made[i].timer = i
  BY DEF Named
<1>3. made[i].timer \in DOMAIN made
  BY <1>1, <1>2
<1>4. made[made[i].timer].timer = made[i].timer
  BY <1>2, <1>3 DEF Named
<1>5. /\ made[i].own /\ made[i].src \in 1 .. i - 1 /\ made[made[i].src].own
      /\ IF made[i].kind = "start" THEN SourceOfStart(made, i)
                                   ELSE SourceOfControl(made, queue, i)
  BY DEF Sourced
<1>6. made[i].src \in DOMAIN made
  BY <1>1, <1>5
<1>7. made[i].kind # "start" => made[i].timer # i
  BY <1>2
<1> QED
  BY <1>1, <1>2, <1>3, <1>4, <1>5, <1>6, <1>7 DEF Noting

\* A finish that is answered and not rejected is one that the server took.
LEMMA EvidenceTaken ==
  ASSUME Answered, NEW f, Evidence(f)
  PROVE  f \in log
BY DEF Answered, Evidence, Acknowledged

LEMMA StartVerdict ==
  ASSUME Before, NEW i \in queue, made[i].src # None, made[i].kind = "start",
         NEW rows, NEW calendar, calendar \subseteq Int,
         Settled(Verdict(RetainedEdges, EdgeOf(i), rows, calendar))
  PROVE  IF made[i].src \in queue
         THEN SameEnds(Verdict(RetainedEdges, EdgeOf(i), rows, calendar), EdgeOf(i))
         ELSE /\ Verdict(RetainedEdges, EdgeOf(i), rows, calendar).kind = "discharged"
              /\ made[i].src \in log
<1> DEFINE e == EdgeOf(i)
           v == Verdict(RetainedEdges, e, rows, calendar)
           c == Classified(RetainedEdges, e, rows, calendar)
<1>1. e \in Edge /\ e.child = i /\ e.parent = made[i].src
  BY EdgesOf DEF Before
<1> HIDE DEF e
<1>2. v = IF Acknowledged(e.parent, {"rejected"}) THEN Undecided ELSE c
  BY <1>1 DEF Verdict
<1>3. Undecided.kind = "unresolved"
  BY DEF Undecided
<1>4. v = c /\ Settled(c)
  BY <1>2, <1>3 DEF Settled, e
<1> HIDE DEF v
<1>5. IF e.parent \in queue THEN SameEnds(c, e)
      ELSE c.kind = "discharged" /\ Evidence(e.parent) /\ IsBreakStart(e.child)
  BY <1>1, <1>4, ClassifiedIs
<1> HIDE DEF c
<1> QED
  BY <1>1, <1>4, <1>5, EvidenceTaken DEF Before, v, e

LEMMA ControlVerdict ==
  ASSUME Before, NEW i \in queue, made[i].src # None, made[i].kind # "start",
         NEW rows, NEW calendar, calendar \subseteq Int,
         Settled(Verdict(RetainedEdges, EdgeOf(i), rows, calendar))
  PROVE  LET t == made[i].timer
             v == Verdict(RetainedEdges, EdgeOf(i), rows, calendar)
         IN  /\ t \in queue /\ made[t].src = made[i].src
             /\ v.kind = "keep" /\ v.edge \in Edge /\ v.edge.child = i
             /\ v.edge.parent \in Earlier(i, t)
             /\ \A k \in Earlier(i, t) : k <= v.edge.parent
<1> DEFINE e == EdgeOf(i)
           t == made[i].timer
           f == made[i].src
           starts == Siblings(RetainedEdges, e)
           v == Verdict(RetainedEdges, e, rows, calendar)
           c == Classified(RetainedEdges, e, rows, calendar)
           p == Upgraded(e, t)
           u == Classified(RetainedEdges, p, rows, calendar)
<1>1. e \in Edge /\ e.child = i /\ e.parent = f
  BY EdgesOf DEF Before
<1> HIDE DEF e
<1>2. i \in DOMAIN made /\ Noting(i) /\ SourceOfControl(made, queue, i)
  BY NotingIs DEF Before, Typed, Noting
<1>3. ~ IsBreakStart(i)
  BY DEF IsBreakStart
<1>4. t \notin queue => f \notin queue
  BY <1>2 DEF Before, Retained, Noting, SourceOfControl
<1>5. \A x \in RetainedEdges :
        /\ x.child \in queue /\ made[x.child].src # None
        /\ x = EdgeOf(x.child)
  <2> SUFFICES ASSUME NEW x \in RetainedEdges
               PROVE  /\ x.child \in queue /\ made[x.child].src # None
                      /\ x = EdgeOf(x.child)
    OBVIOUS
  <2>1. PICK j \in {k \in queue : made[k].src # None} : x = EdgeOf(j)
    BY Zenon DEF RetainedEdges, EdgeOf
  <2>2. EdgeOf(j).child = j
    BY DEF EdgeOf
  <2> QED
    BY <2>1, <2>2
<1>6. starts \subseteq {t} /\ (starts # {} => t \in queue)
  <2> SUFFICES ASSUME NEW s \in starts
               PROVE  s = t /\ s \in queue
    OBVIOUS
  <2>1. PICK x \in RetainedEdges : s = x.child /\ made[s].kind = "start"
                                   /\ made[s].timer = made[e.child].timer
    BY DEF Siblings
  <2>2. s \in queue /\ s \in DOMAIN made
    BY <1>5, <2>1 DEF Before, Typed
  <2> QED
    BY <1>1, <2>1, <2>2 DEF Before, Named
<1>7. t \in queue /\ f \in queue => t \in starts
  <2> SUFFICES ASSUME t \in queue, f \in queue
               PROVE  t \in starts
    OBVIOUS
  <2> DEFINE x == EdgeOf(t)
  <2>1. made[t].src = f /\ made[t].src # None /\ t \in DOMAIN made
    BY <1>2 DEF SourceOfControl, Noting
  <2>2. Noting(t) /\ made[t].kind = "start" /\ made[t].timer = t
    BY <1>2, <2>1, NotingIs DEF Before, Noting
  <2>3. SourceOfStart(made, t)
    BY <2>2 DEF Noting
  <2>4. /\ x \in RetainedEdges /\ x.child = t /\ x.parent = f
        /\ x.gen = \/ made[t].gen
                   \/ /\ profile = "android"
                      /\ made[t].src \in queue \/ SavedCommand(made[t].src)
                      /\ Generated(t, made[t].src, FALSE)
    BY <2>1, EdgesOf DEF Before
  <2>5. profile \in {"android", "pwa"}
    BY LegacyAssumption DEF Before, Typed
  <2>6. x.gen
    BY <2>1, <2>2, <2>3, <2>4, <2>5 DEF SourceOfStart, Generated, IsBreakStart
  <2> HIDE DEF x
  <2> QED
    BY <1>1, <2>2, <2>4, <2>6 DEF Siblings
<1> HIDE DEF e, starts
<1>8. Undecided.kind = "unresolved" /\ Error.kind = "error"
  BY DEF Undecided, Error
<1>9. starts # {}
  <2> SUFFICES ASSUME starts = {}
               PROVE  FALSE
    OBVIOUS
  <2>1. f \notin queue
    BY <1>4, <1>7
  <2>2. v = IF Acknowledged(e.parent, {"rejected"}) THEN Undecided ELSE c
    BY DEF Verdict, starts
  <2>3. v = c /\ Settled(c)
    BY <1>8, <2>2 DEF Settled, e
  <2> HIDE DEF v
  <2>4. IsBreakStart(e.child)
    BY <1>1, <2>1, <2>3, ClassifiedIs
  <2> QED
    BY <1>1, <1>3, <2>4
<1>10. starts = {t} /\ t \in queue /\ (CHOOSE s \in starts : TRUE) = t
  BY <1>6, <1>9
<1>11. v = IF Acknowledged(e.parent, {"rejected"}) THEN Undecided
           ELSE IF Cardinality(starts) # 1 \/ t >= e.child THEN Error
           ELSE IF e.child \notin unsent THEN Undecided
           ELSE u
  BY <1>1, <1>9, <1>10 DEF Verdict, starts
<1>12. v = u /\ Settled(u)
  BY <1>8, <1>11 DEF Settled, e
<1> HIDE DEF v
<1>13. made[t].src = f
  BY <1>2, <1>10 DEF SourceOfControl
<1> DEFINE T == Earlier(i, t)
           g == CHOOSE j \in T : \A k \in T : k <= j
<1>14. g \in T /\ \A k \in T : k <= g
  <2>1. T \subseteq 0 .. i
    BY <1>2 DEF Earlier, Before, Typed, Noting
  <2>2. t \in T
    BY <1>2, <1>10 DEF Earlier, Noting, SourceOfControl
  <2> HIDE DEF T
  <2>3. i \in Nat
    BY <1>2 DEF Noting
  <2>4. \E x \in T : \A y \in T : y <= x
    BY <2>1, <2>2, <2>3, GreatestPlace
  <2> QED
    BY <2>4
<1>15. g \in queue /\ g \in Nat
  BY <1>14 DEF Earlier, Before, Typed
<1>16. p = [e EXCEPT !.parent = g]
  BY <1>1 DEF Upgraded
<1> HIDE DEF g, T
<1>17. p \in Edge /\ p.child = i /\ p.parent = g
  BY <1>1, <1>15, <1>16 DEF Edge
<1> HIDE DEF p
<1>18. SameEnds(u, p)
  BY <1>12, <1>15, <1>17, ClassifiedIs
<1> HIDE DEF u
<1> QED
  BY <1>10, <1>12, <1>13, <1>14, <1>17, <1>18 DEF SameEnds, v, e, T

-----------------------------------------------------------------------------
(* A migration recovers the causes.                                        *)

Behind(line, q, D, i) ==
  \A j \in q : line[j].own /\ line[j].timer = line[i].timer /\ j < i
                 => j \in AncestorsIn(line, D)[i]

Caused(line, q, D, taken, i) ==
  line[i].src \in IF line[i].src \in q THEN AncestorsIn(line, D)[i] ELSE taken

Recovered(line, q, D, taken) ==
  \A i \in {j \in q : line[j].src # None} :
    Behind(line, q, D, i) /\ Caused(line, q, D, taken, i)

LEMMA RecoveredIs ==
  ASSUME DOMAIN made = 1 .. Len(made)
  PROVE  RecoversCauses <=> (deps # None => Recovered(made, queue, deps, log))
BY AncestorsAre DEF RecoversCauses, Recovered, Behind, Caused

\* Edges of retained commands to earlier ones.
Edged(D, q) ==
  /\ D \subseteq Edge
  /\ \A e \in D : e.child \in q /\ e.parent \in q /\ e.parent < e.child

LEMMA EdgedForward ==
  ASSUME NEW D, NEW q, Edged(D, q), NEW m \in Nat, q \subseteq 1 .. m
  PROVE  Forward(D, m)
<1> SUFFICES ASSUME NEW e \in D
             PROVE  e.parent \in 1 .. e.child - 1
  BY DEF Forward
<1>1. e.child \in 1 .. m /\ e.parent \in 1 .. m /\ e.parent < e.child
  BY DEF Edged
<1> QED
  BY <1>1

LEMMA MigrationRecovers ==
  ASSUME Before, deps = None, NEW rows, NEW calendar, calendar \subseteq Int,
         NEW whole, Plan(rows, calendar, whole).kind = "planned"
  PROVE  LET D == Plan(rows, calendar, whole).deps
         IN  Edged(D, queue) /\ Recovered(made, queue, D, log)
<1> DEFINE D == Plan(rows, calendar, whole).deps
           verdicts == Verdicts(Edges, rows, calendar)
           V(i) == Verdict(RetainedEdges, EdgeOf(i), rows, calendar)
           Late == {i \in queue : made[i].src # None}
           up == AncestorsIn(made, D)
<1>1. /\ D = {v.edge : v \in {x \in verdicts : x.kind = "keep"}}
      /\ Admissible(D)
      /\ \A v \in verdicts : Settled(v)
  BY PlanDecides, Zenon
<1>2. Edges = RetainedEdges
  BY DEF Edges
<1>3. verdicts = {V(i) : i \in Late}
  <2>1. RetainedEdges = {EdgeOf(i) : i \in Late}
    BY DEF RetainedEdges, EdgeOf
  <2>2. verdicts = {Verdict(RetainedEdges, e, rows, calendar) : e \in RetainedEdges}
    BY <1>2 DEF Verdicts
  <2> HIDE DEF verdicts
  <2> QED
    BY <2>1, <2>2
<1> HIDE DEF D, verdicts
<1>4. \A i \in Late : V(i) \in verdicts /\ Settled(V(i))
  BY <1>1, <1>3
<1>5. ASSUME NEW i \in Late, made[i].kind = "start"
      PROVE  IF made[i].src \in queue
             THEN SameEnds(V(i), EdgeOf(i))
             ELSE V(i).kind = "discharged" /\ made[i].src \in log
  BY <1>4, <1>5, StartVerdict
<1>6. ASSUME NEW i \in Late, made[i].kind # "start"
      PROVE  LET t == made[i].timer
             IN  /\ t \in queue /\ made[t].src = made[i].src
                 /\ V(i).kind = "keep" /\ V(i).edge \in Edge /\ V(i).edge.child = i
                 /\ V(i).edge.parent \in Earlier(i, t)
                 /\ \A k \in Earlier(i, t) : k <= V(i).edge.parent
  BY <1>4, <1>6, ControlVerdict
<1>7. \A i \in Late : /\ EdgeOf(i).child = i /\ EdgeOf(i).parent = made[i].src
  BY DEF EdgeOf
<1> HIDE DEF V
<1>8. Edged(D, queue)
  <2>1. ASSUME NEW i \in Late, V(i).kind = "keep"
        PROVE  V(i).edge \in Edge
    BY <1>5, <1>6, <2>1 DEF SameEnds
  <2>2. D \subseteq Edge
    BY <1>1, <1>3, <2>1
  <2> QED
    BY <1>1, <2>2 DEF Edged, Admissible, WellFormed
<1>9. /\ Len(made) \in Nat /\ queue \subseteq 1 .. Len(made)
  BY DEF Before, Typed
<1>10. Forward(D, Len(made))
  BY <1>8, <1>9, EdgedForward
<1>11. ASSUME NEW i \in Late, V(i).kind = "keep", V(i).edge.child = i
       PROVE  V(i).edge.parent \in up[i] /\ up[V(i).edge.parent] \subseteq up[i]
  <2>1. V(i).edge \in D /\ i \in 1 .. Len(made)
    BY <1>1, <1>4, <1>9, <1>11
  <2> QED
    BY <1>9, <1>10, <1>11, <2>1, AncestorsReach
<1> HIDE DEF up
<1> DEFINE Fine(i) == Behind(made, queue, D, i) /\ Caused(made, queue, D, log, i)
           T == {i \in Late : ~ Fine(i)}
<1>12. SUFFICES ASSUME T # {}
                PROVE  FALSE
  BY <1>8 DEF Recovered, D
<1>13. PICK i \in T : \A j \in T : i <= j
  <2> HIDE DEF Fine
  <2>1. T \subseteq Nat
    <3>1. 1 .. Len(made) \subseteq Nat
      BY <1>9
    <3> QED
      BY <1>9, <3>1
  <2> HIDE DEF T
  <2> QED
    BY <1>12, <2>1, LeastPlace
<1>14. i \in Late /\ i \in DOMAIN made /\ ~ Fine(i)
  BY <1>9, <1>13
<1>15. \A j \in Late : j < i => Fine(j)
  BY <1>9, <1>13
<1>16. Noting(i)
  BY <1>14, NotingIs DEF Before
<1>17. \A j \in queue : made[j].timer \in 1 .. j
  BY DEF Before, Typed, Named
<1> DEFINE t == made[i].timer
           f == made[i].src
<1>18. CASE made[i].kind = "start"
  <2>1. Behind(made, queue, D, i)
    BY <1>9, <1>14, <1>16, <1>17, <1>18 DEF Behind, Noting
  <2>2. CASE f \in queue
    <3>1. V(i).kind = "keep" /\ V(i).edge.child = i /\ V(i).edge.parent = f
      BY <1>5, <1>7, <1>14, <1>18, <2>2 DEF SameEnds
    <3> QED
      BY <1>11, <1>14, <2>1, <2>2, <3>1 DEF Caused, up
  <2>3. CASE f \notin queue
    BY <1>5, <1>14, <1>18, <2>1, <2>3 DEF Caused
  <2> QED
    BY <2>2, <2>3
<1>19. CASE made[i].kind # "start"
  <2> DEFINE p == V(i).edge.parent
  <2>1. /\ t \in queue /\ made[t].src = f /\ f # None
        /\ V(i).kind = "keep" /\ V(i).edge.child = i
        /\ p \in Earlier(i, t) /\ \A k \in Earlier(i, t) : k <= p
    BY <1>6, <1>14, <1>19
  <2>2. p \in up[i] /\ up[p] \subseteq up[i]
    BY <1>11, <1>14, <2>1
  <2> HIDE DEF p
  <2>3. /\ p \in queue /\ p \in DOMAIN made /\ made[p].own /\ made[p].timer = t
        /\ t <= p /\ p < i /\ i \in Nat /\ t \in Nat /\ p \in Nat
    BY <1>14, <1>16, <2>1 DEF Earlier, Noting, Before, Typed
  <2>4. t \in DOMAIN made /\ made[t].timer = t /\ made[t].kind = "start"
    BY <1>16 DEF Noting
  <2>5. t \in Late /\ Fine(t)
    BY <1>15, <2>1, <2>3
  <2>6. made[t].phase \in Breaks
    BY <2>1, <2>4, NotingIs DEF Before, Noting, SourceOfStart
  <2>7. p \in Late /\ made[p].src = f /\ Fine(p)
    <3>1. p # t => made[p].src = f
      BY <2>1, <2>3, <2>6 DEF Before, Shared
    <3> QED
      BY <1>15, <2>1, <2>3, <3>1
  <2>8. Behind(made, queue, D, i)
    <3> SUFFICES ASSUME NEW j \in queue, made[j].own, made[j].timer = t, j < i
                 PROVE  j \in up[i]
      BY DEF Behind, up
    <3>1. j \in Earlier(i, t) /\ j \in Nat
      BY <1>9, <1>17, <2>3 DEF Earlier
    <3>2. j <= p
      BY <2>1, <3>1
    <3>3. CASE j = p
      BY <2>2, <3>3
    <3>4. CASE j < p
      BY <2>2, <2>3, <2>7, <3>4 DEF Behind, up
    <3> QED
      BY <2>3, <3>1, <3>2, <3>3, <3>4
  <2>9. Caused(made, queue, D, log, i)
    BY <2>2, <2>7 DEF Caused, up
  <2> QED
    BY <1>14, <2>8, <2>9
<1> QED
  BY <1>18, <1>19

-----------------------------------------------------------------------------
(* What is retained after a migration.                                     *)

After ==
  /\ \E S : made \in Seq(S)
  /\ queue \subseteq DOMAIN made
  /\ \A i \in queue : made[i].src \in DOMAIN made \cup {None}
  /\ Edged(deps, queue)
  /\ Recovered(made, queue, deps, log)

LEMMA ContinueStep ==
  ASSUME After, NEW kind, Continue(kind)
  PROVE  After'
<1>1. PICK S : made \in Seq(S)
  BY DEF After
<1> DEFINE n == Len(made) + 1
           timer == Here.timer
           c == OwnCommand(kind, timer.timer, timer.phase, timer.planned, timer.elapsed)
<1>2. /\ deps # None /\ Retain(<<c>>)
      /\ deps' = deps \cup Inherited(timer.timer)
  BY DEF Continue
<1>3. c.id = n /\ c.src = None
  BY DEF OwnCommand
<1> HIDE DEF c, timer
<1>4. made' = made \o <<c>> /\ log' = log
  BY <1>2 DEF Retain
<1>5. queue' = queue \cup {n}
  <2>1. {<<c>>[k].id : k \in DOMAIN <<c>>} = {n}
    <3>1. DOMAIN <<c>> = {1} /\ <<c>>[1] = c
      OBVIOUS
    <3> QED
      BY <1>3, <3>1
  <2> QED
    BY <1>2, <2>1 DEF Retain
<1>6. /\ made' \in Seq(S \cup {c}) /\ Len(made') = n /\ n \in Nat
      /\ \A i \in 1 .. Len(made) : made'[i] = made[i]
      /\ made'[n] = c
  BY <1>1, <1>4
<1>7. DOMAIN made = 1 .. Len(made) /\ DOMAIN made' = 1 .. n /\ Len(made) \in Nat
  BY <1>1, <1>6
<1>8. queue \subseteq 1 .. Len(made)
  BY <1>7 DEF After
<1>9. Edged(deps', queue')
  <2>1. ASSUME NEW e \in Inherited(timer.timer)
        PROVE  e \in Edge /\ e.child = n /\ e.parent \in queue
    <3>1. PICK i \in queue : e = [child |-> n, parent |-> i, gen |-> FALSE, day |-> None]
      BY Zenon DEF Inherited
    <3>2. i \in Nat /\ n \in Nat
      BY <1>7, <1>8
    <3> QED
      BY <3>1, <3>2 DEF Edge
  <2>2. \A i \in queue : i < n
    BY <1>7, <1>8
  <2> QED
    BY <1>2, <1>5, <2>1, <2>2 DEF After, Edged
<1>10. queue' \subseteq 1 .. n
  <2> SUFFICES ASSUME NEW i \in queue'
               PROVE  i \in 1 .. n
    OBVIOUS
  <2>1. i = n \/ i \in 1 .. Len(made)
    BY <1>5, <1>8
  <2> QED
    BY <1>7, <2>1
<1>11. Forward(deps, Len(made))
  BY <1>7, <1>8, EdgedForward DEF After
<1>12. Forward(deps', Len(made'))
  BY <1>6, <1>9, <1>10, EdgedForward
<1>13. deps \subseteq deps' /\ Len(made) <= Len(made')
  BY <1>2, <1>6, <1>7
<1>14. \A i \in 1 .. Len(made) : AncestorsIn(made, deps)[i] \subseteq AncestorsIn(made', deps')[i]
  BY <1>6, <1>7, <1>11, <1>12, <1>13, AncestorsStay
<1>15. Recovered(made', queue', deps', log')
  <2> SUFFICES ASSUME NEW i \in queue', made'[i].src # None
               PROVE  /\ Behind(made', queue', deps', i)
                      /\ Caused(made', queue', deps', log', i)
    BY DEF Recovered
  <2>1. i # n
    BY <1>3, <1>6
  <2>2. i \in queue /\ i \in 1 .. Len(made) /\ made'[i] = made[i]
    BY <1>5, <1>6, <1>8, <2>1
  <2>3. Behind(made, queue, deps, i) /\ Caused(made, queue, deps, log, i)
    BY <2>2 DEF After, Recovered
  <2>4. AncestorsIn(made, deps)[i] \subseteq AncestorsIn(made', deps')[i]
    BY <1>14, <2>2
  <2>5. \A j \in queue' : j < i => j \in queue /\ made'[j] = made[j]
    BY <1>5, <1>6, <1>7, <1>8, <2>2
  <2>6. Behind(made', queue', deps', i)
    BY <2>2, <2>3, <2>4, <2>5 DEF Behind
  <2>7. made[i].src \in queue' => made[i].src \in queue
    BY <1>5, <1>7, <2>2 DEF After
  <2>8. Caused(made', queue', deps', log', i)
    BY <1>4, <1>5, <2>2, <2>3, <2>4, <2>7 DEF Caused
  <2> QED
    BY <2>6, <2>8
<1>16. \A i \in queue' : made'[i].src \in DOMAIN made' \cup {None}
  BY <1>3, <1>5, <1>6, <1>7, <1>8 DEF After
<1> QED
  BY <1>6, <1>7, <1>9, <1>10, <1>15, <1>16 DEF After

-----------------------------------------------------------------------------
(* What the old client and the server show.                                *)

LEMMA NothingFaithful ==
  ASSUME NEW S, NEW phases
  PROVE  Faithful(Nothing, S, phases)
<1>1. Nothing.timer = None /\ Nothing.rows = {}
  BY DEF Nothing
<1> QED
  BY <1>1 DEF Faithful, PairOK, Covered, ValidPair, ValidHistory, NoAlias

LEMMA LineStarts ==
  ASSUME NEW line \in Seq(Noted), Named(line)
  PROVE  Starting(line, Starts(line), PhasesOf(line))
<1>1. DOMAIN line = 1 .. Len(line)
  OBVIOUS
<1> QED
  BY <1>1 DEF Starting, Starts, PhasesOf, Named

LEMMA ReplayShows ==
  ASSUME NEW line \in Seq(Noted), Named(line), NEW b,
         Faithful(b, Starts(line), PhasesOf(line)), NEW ids, NEW at \in Int
  PROVE  /\ Reduced(b, line, ids) \in Playing(Starts(line), PhasesOf(line))
         /\ Faithful(Shown(Reduced(b, line, ids)), Starts(line), PhasesOf(line))
         /\ Faithful(Shown(Projected(Reduced(b, line, ids), at)),
                     Starts(line), PhasesOf(line))
<1> DEFINE r == Reduced(b, line, ids)
           G == Playing(Starts(line), PhasesOf(line))
<1>1. r \in G
  BY LineStarts, PlayingReduced
<1>2. Projected(r, at) \in G
  BY <1>1, PlayingDeadline DEF Projected
<1> HIDE DEF r
<1> QED
  BY <1>1, <1>2, PlayingShown DEF r

\* The timer that a client shows was started, in the phase that is shown.
Playable(timer, line) ==
  /\ timer.timer \in Timers /\ timer.timer \in Starts(line)
  /\ timer.phase = line[timer.timer].phase /\ timer.phase \in Phases
  /\ timer.planned \in Nat /\ timer.elapsed \in Nat
  /\ timer.status \in Active \cup Ended /\ timer.anchor \in Int

LEMMA FaithfulTimer ==
  ASSUME NEW line, NEW b, Faithful(b, Starts(line), PhasesOf(line)), b.timer # None
  PROVE  Playable(b.timer, line)
<1>1. b.timer \in Snapshot /\ b.timer.timer \in Starts(line)
      /\ b.timer.phase = PhasesOf(line)[b.timer.timer]
  BY DEF Faithful, PairOK, Covered
<1>2. PhasesOf(line)[b.timer.timer] = line[b.timer.timer].phase
  BY <1>1 DEF PhasesOf, Starts
<1> QED
  BY <1>1, <1>2 DEF Playable, Snapshot

LEMMA HereIs ==
  ASSUME Before, Here.timer # None
  PROVE  Playable(Here.timer, made)
<1>1. Faithful(Here, Starts(made), PhasesOf(made))
  BY ReplayShows DEF Here, Unexpired, Before, Typed
<1> QED
  BY <1>1, FaithfulTimer

LEMMA SpentType ==
  ASSUME NEW timer, timer.planned \in Nat, timer.elapsed \in Nat, timer.anchor \in Int,
         NEW at \in Int
  PROVE  ElapsedAt(timer, at) \in Nat
BY DEF ElapsedAt, Clamp

LEMMA AfterFocus ==
  ASSUME NEW rows, NEW day
  PROVE  PhaseAfter("focus", rows, day) \in Breaks
BY DEF PhaseAfter, BreakForCount, Breaks

-----------------------------------------------------------------------------
(* One more command.                                                       *)

Lined(line, q, sent, b) ==
  /\ line \in Seq(Noted) /\ q \subseteq DOMAIN line
  /\ Named(line) /\ Sourced(line, q) /\ Shared(line, q) /\ Retained(line, q, sent)
  /\ Faithful(b, Starts(line), PhasesOf(line))

\* c may follow the commands of the line.
Follows(line, q, c) ==
  /\ c \in Noted /\ c.id = Len(line) + 1
  /\ IF c.kind = "start" THEN c.timer = c.id ELSE c.timer \in Starts(line)
  /\ c.src # None =>
       /\ c.own /\ c.src \in DOMAIN line /\ line[c.src].own
       /\ IF c.kind = "start"
          THEN /\ c.phase \in Breaks /\ c.gen = (profile = "pwa")
               /\ line[c.src].kind = "finish" /\ line[c.src].phase = "focus"
          ELSE c.timer \in q /\ c.src < c.timer /\ ~ c.gen
  /\ c.own /\ c.kind # "start" /\ c.timer \in q /\ line[c.timer].phase \in Breaks
       => c.src = line[c.timer].src
  /\ c.src # None /\ c.kind # "start" => c.src = line[c.timer].src

Queued(q, c) == IF c.own THEN q \cup {c.id} ELSE q

LEMMA Appended ==
  ASSUME NEW line, NEW q, NEW sent, NEW b, Lined(line, q, sent, b),
         NEW c, Follows(line, q, c)
  PROVE  Lined(line \o <<c>>, Queued(q, c), sent, b)
<1> DEFINE n == Len(line) + 1
           longer == line \o <<c>>
           r == Queued(q, c)
<1>1. line \in Seq(Noted) /\ c \in Noted /\ c.id = n
  BY DEF Lined, Follows
<1>2. /\ Len(line) \in Nat /\ DOMAIN line = 1 .. Len(line) /\ DOMAIN longer = 1 .. n
      /\ longer \in Seq(Noted) /\ longer[n] = c
      /\ \A i \in 1 .. Len(line) : longer[i] = line[i]
  BY <1>1
<1> HIDE DEF longer
<1>3. \A i \in DOMAIN longer : i \in DOMAIN line \/ i = n
  BY <1>2
<1>4. /\ \A i \in DOMAIN line : i < n /\ i # n /\ i \in Nat /\ longer[i] = line[i]
      /\ n \notin DOMAIN line /\ n \in Nat /\ n \in DOMAIN longer
      /\ DOMAIN line \subseteq DOMAIN longer
  BY <1>2
<1>5. r \subseteq DOMAIN longer /\ (\A i \in DOMAIN line : i \in r => i \in q) /\ q \subseteq r
      /\ q \subseteq DOMAIN line /\ (n \in r <=> c.own)
  BY <1>1, <1>4 DEF Lined, Queued
<1>6. \A i \in DOMAIN line : /\ line[i].timer \in DOMAIN line
                             /\ longer[line[i].timer] = line[line[i].timer]
  <2>1. \A i \in DOMAIN line : line[i].timer \in 1 .. i
    BY DEF Lined, Named
  <2>2. \A i \in DOMAIN line : line[i].timer \in DOMAIN line
    BY <1>2, <2>1
  <2> QED
    BY <1>4, <2>2
<1>7. /\ c.kind = "start" => c.timer = n
      /\ c.kind # "start" => /\ c.timer \in DOMAIN line /\ c.timer # n
                             /\ longer[c.timer] = line[c.timer]
                             /\ line[c.timer].kind = "start" /\ line[c.timer].timer = c.timer
  BY <1>1, <1>4 DEF Follows, Starts, Lined, Named
<1>8. c.timer \in 1 .. n
  BY <1>2, <1>7
<1> HIDE DEF n
<1>9. Named(longer)
  <2> SUFFICES ASSUME NEW i \in DOMAIN longer
               PROVE  /\ longer[i].id = i /\ longer[i].timer \in 1 .. i
                      /\ longer[longer[i].timer].kind = "start"
                      /\ longer[i].kind = "start" => longer[i].timer = i
    BY DEF Named
  <2>1. CASE i \in DOMAIN line
    BY <1>4, <1>6, <2>1 DEF Lined, Named
  <2>2. CASE i = n
    BY <1>1, <1>2, <1>7, <1>8, <2>2
  <2> QED
    BY <1>3, <2>1, <2>2
<1>10. Sourced(longer, r)
  <2> SUFFICES ASSUME NEW i \in DOMAIN longer, longer[i].src # None
               PROVE  /\ longer[i].own /\ longer[i].src \in 1 .. i - 1
                      /\ longer[longer[i].src].own
                      /\ IF longer[i].kind = "start" THEN SourceOfStart(longer, i)
                                                     ELSE SourceOfControl(longer, r, i)
    BY DEF Sourced
  <2>1. CASE i \in DOMAIN line
    <3>1. /\ longer[i] = line[i]
          /\ line[i].own /\ line[i].src \in 1 .. i - 1 /\ line[line[i].src].own
          /\ IF line[i].kind = "start" THEN SourceOfStart(line, i)
                                       ELSE SourceOfControl(line, q, i)
      BY <1>4, <2>1 DEF Lined, Sourced
    <3>2. line[i].src \in DOMAIN line
      BY <1>2, <2>1, <3>1
    <3>3. longer[line[i].src] = line[line[i].src]
      BY <1>4, <3>2
    <3> QED
      BY <1>5, <1>6, <2>1, <3>1, <3>3 DEF SourceOfStart, SourceOfControl
  <2>2. CASE i = n
    <3>1. /\ longer[i] = c /\ c.src # None
          /\ c.own /\ c.src \in DOMAIN line /\ line[c.src].own
      BY <1>2, <2>2 DEF Follows
    <3>2. c.src \in 1 .. n - 1 /\ longer[c.src] = line[c.src]
      BY <1>2, <1>4, <3>1 DEF n
    <3>3. CASE c.kind = "start"
      BY <2>2, <3>1, <3>2, <3>3 DEF SourceOfStart, Follows
    <3>4. CASE c.kind # "start"
      <4>1. c.timer \in q /\ c.src < c.timer /\ ~ c.gen /\ c.src = line[c.timer].src
        BY <3>1, <3>4 DEF Follows
      <4>2. line[c.timer].own
        BY <4>1 DEF Lined, Retained
      <4> QED
        BY <1>7, <2>2, <3>1, <3>2, <3>4, <4>1, <4>2 DEF SourceOfControl
    <3> QED
      BY <3>3, <3>4
  <2> QED
    BY <1>3, <2>1, <2>2
<1>11. Shared(longer, r)
  <2> SUFFICES ASSUME NEW i \in DOMAIN longer,
                      longer[i].own, longer[i].timer \in r, longer[i].timer # i,
                      longer[longer[i].timer].phase \in Breaks
               PROVE  longer[i].src = longer[longer[i].timer].src
    BY DEF Shared
  <2>1. CASE i \in DOMAIN line
    BY <1>4, <1>5, <1>6, <2>1 DEF Lined, Shared
  <2>2. CASE i = n
    BY <1>2, <1>5, <1>7, <2>2 DEF Follows
  <2> QED
    BY <1>3, <2>1, <2>2
<1>12. Retained(longer, r, sent)
  <2>1. \A i \in r : longer[i].own
    BY <1>2, <1>3, <1>4, <1>5 DEF Lined, Retained
  <2>2. ASSUME NEW i \in r, NEW j \in DOMAIN longer, longer[j].own, i < j
        PROVE  j \in r
    <3>1. CASE j = n
      BY <1>2, <1>5, <2>2, <3>1
    <3>2. CASE j \in DOMAIN line
      <4>1. i # n
        BY <1>4, <2>2, <3>2
      <4>2. i \in q
        BY <1>3, <1>5, <4>1
      <4> QED
        BY <1>4, <1>5, <2>2, <3>2, <4>2 DEF Lined, Retained
    <3> QED
      BY <1>3, <3>1, <3>2
  <2>3. ASSUME sent # None
        PROVE  /\ sent \subseteq DOMAIN longer
               /\ \A i \in sent, j \in r : j < i => j \in sent
    <3>1. sent \subseteq DOMAIN line
      BY <2>3 DEF Lined, Retained
    <3>2. ASSUME NEW i \in sent, NEW j \in r, j < i
          PROVE  j \in sent
      <4>1. j # n
        BY <1>4, <3>1, <3>2
      <4>2. j \in q
        BY <1>3, <1>5, <4>1
      <4> QED
        BY <2>3, <3>2, <4>2 DEF Lined, Retained
    <3> QED
      BY <1>4, <3>1, <3>2
  <2> QED
    BY <2>1, <2>2, <2>3 DEF Retained
<1>13. Faithful(b, Starts(longer), PhasesOf(longer))
  <2>1. Starts(line) \subseteq Starts(longer)
    BY <1>4 DEF Starts
  <2>2. \A i \in Starts(line) : PhasesOf(longer)[i] = PhasesOf(line)[i]
    BY <1>4 DEF Starts, PhasesOf
  <2> QED
    BY <2>1, <2>2 DEF Lined, Faithful, Covered
<1> QED
  BY <1>2, <1>5, <1>9, <1>10, <1>11, <1>12, <1>13 DEF Lined, longer, r

-----------------------------------------------------------------------------
(* How many commands there are.                                            *)

LEMMA LengthIs ==
  ASSUME NEW line, Len(line) \in Nat, DOMAIN line = 1 .. Len(line)
  PROVE  /\ IsFiniteSet(Mine(line)) /\ IsFiniteSet(Theirs(line))
         /\ Cardinality(Mine(line)) \in Nat /\ Cardinality(Theirs(line)) \in Nat
         /\ Len(line) = Cardinality(Mine(line)) + Cardinality(Theirs(line))
<1>1. IsFiniteSet(1 .. Len(line)) /\ Cardinality(1 .. Len(line)) = Len(line)
  <2> DEFINE m == Len(line)
  <2>1. 1 \in Int /\ m \in Int /\ m \in Nat
    OBVIOUS
  <2> HIDE DEF m
  <2>2. IsFiniteSet(1 .. m) /\ Cardinality(1 .. m) = IF 1 > m THEN 0 ELSE m - 1 + 1
    BY <2>1, FS_Interval
  <2>3. Cardinality(1 .. m) = m
    BY <2>1, <2>2
  <2> QED
    BY <2>2, <2>3 DEF m
<1>2. /\ Mine(line) \subseteq 1 .. Len(line) /\ Theirs(line) \subseteq 1 .. Len(line)
      /\ Mine(line) \cup Theirs(line) = 1 .. Len(line)
      /\ Mine(line) \cap Theirs(line) = {}
  BY DEF Mine, Theirs
<1>3. IsFiniteSet(Mine(line)) /\ IsFiniteSet(Theirs(line))
  BY <1>1, <1>2, FS_Subset
<1>4. Cardinality(Mine(line)) \in Nat /\ Cardinality(Theirs(line)) \in Nat
  BY <1>3, FS_CardinalityType
<1>5. Cardinality(Mine(line) \cap Theirs(line)) = 0
  BY <1>2, FS_EmptySet
<1>6. Cardinality(Mine(line) \cup Theirs(line))
        = Cardinality(Mine(line)) + Cardinality(Theirs(line))
            - Cardinality(Mine(line) \cap Theirs(line))
  BY <1>3, FS_Union
<1> DEFINE a == Cardinality(Mine(line))
           b == Cardinality(Theirs(line))
           m == Len(line)
<1>7. m = a + b - 0
  BY <1>1, <1>2, <1>5, <1>6
<1>8. a \in Nat /\ b \in Nat
  BY <1>4
<1> HIDE DEF a, b, m
<1>9. m = a + b
  BY <1>7, <1>8
<1> QED
  BY <1>3, <1>4, <1>9 DEF a, b, m

LEMMA CountAppended ==
  ASSUME NEW line \in Seq(Noted), NEW c \in Noted
  PROVE  /\ c.own =>
              /\ Cardinality(Mine(line \o <<c>>)) = Cardinality(Mine(line)) + 1
              /\ Cardinality(Theirs(line \o <<c>>)) = Cardinality(Theirs(line))
         /\ ~ c.own =>
              /\ Cardinality(Mine(line \o <<c>>)) = Cardinality(Mine(line))
              /\ Cardinality(Theirs(line \o <<c>>)) = Cardinality(Theirs(line)) + 1
<1> DEFINE longer == line \o <<c>>
           n == Len(line) + 1
<1>1. /\ Len(line) \in Nat /\ DOMAIN line = 1 .. Len(line) /\ DOMAIN longer = 1 .. n
      /\ longer[n] = c /\ \A i \in 1 .. Len(line) : longer[i] = line[i]
  OBVIOUS
<1> HIDE DEF longer
<1>2. n \notin Mine(line) /\ n \notin Theirs(line)
  BY <1>1 DEF Mine, Theirs
<1>3. IsFiniteSet(Mine(line)) /\ IsFiniteSet(Theirs(line))
  BY <1>1, LengthIs
<1>4. \A i \in DOMAIN longer : i \in DOMAIN line \/ i = n
  BY <1>1
<1>5. DOMAIN line \subseteq DOMAIN longer /\ n \in DOMAIN longer
  BY <1>1
<1> HIDE DEF n
<1>6. CASE c.own
  <2>1. Mine(longer) = Mine(line) \cup {n} /\ Theirs(longer) = Theirs(line)
    BY <1>1, <1>2, <1>4, <1>5, <1>6 DEF Mine, Theirs
  <2>2. Cardinality(Mine(line) \cup {n}) = Cardinality(Mine(line)) + 1
    BY <1>2, <1>3, FS_AddElement
  <2> QED
    BY <1>6, <2>1, <2>2 DEF longer
<1>7. CASE ~ c.own
  <2>1. Theirs(longer) = Theirs(line) \cup {n} /\ Mine(longer) = Mine(line)
    BY <1>1, <1>2, <1>4, <1>5, <1>7 DEF Mine, Theirs
  <2>2. Cardinality(Theirs(line) \cup {n}) = Cardinality(Theirs(line)) + 1
    BY <1>2, <1>3, FS_AddElement
  <2> QED
    BY <1>7, <2>1, <2>2 DEF longer
<1> QED
  BY <1>6, <1>7

\* There is a timer for every command that a step may still make.
LEMMA TimersLeft ==
  ASSUME Typed, Counted(made)
  PROVE  /\ Cardinality(Mine(made)) + 2 <= MaxCommands => Len(made) + 2 \in Timers
         /\ Cardinality(Theirs(made)) <= 2 => Len(made) + 1 \in Timers
<1>1. /\ Len(made) \in Nat /\ DOMAIN made = 1 .. Len(made)
  BY DEF Typed
<1>2. /\ Cardinality(Mine(made)) \in Nat /\ Cardinality(Theirs(made)) \in Nat
      /\ Len(made) = Cardinality(Mine(made)) + Cardinality(Theirs(made))
  BY <1>1, LengthIs
<1>3. MaxCommands \in Nat /\ 1 .. MaxCommands + 4 \subseteq Timers
  BY LegacyAssumption
<1>4. Cardinality(Mine(made)) + 2 <= MaxCommands => Len(made) + 2 \in 1 .. MaxCommands + 4
  BY <1>2, <1>3 DEF Counted
<1>5. Cardinality(Theirs(made)) <= 2 => Len(made) + 1 \in 1 .. MaxCommands + 4
  BY <1>2, <1>3 DEF Counted
<1> QED
  BY <1>3, <1>4, <1>5

LEMMA BeforeIs ==
  Before <=> /\ profile \in Profiles /\ now \in Nat /\ log \subseteq DOMAIN made
             /\ base.lengths \in [Breaks -> Nat]
             /\ Lined(made, queue, saved, base) /\ Answered /\ Counted(made)
BY DEF Before, Typed, Lined

LEMMA BeforeNext ==
  ASSUME profile \in Profiles, profile' = profile, now' \in Nat,
         log' \subseteq DOMAIN made', base'.lengths \in [Breaks -> Nat],
         Lined(made', queue', saved', base'), Answered', Counted(made')
  PROVE  Before'
<1>1. Typed'
  BY DEF Typed, Lined
<1>2. Named(made)'
  BY DEF Lined, Named
<1>3. Sourced(made, queue)'
  <2>1. Sourced(made', queue')
    BY DEF Lined
  <2> QED
    BY <2>1 DEF Sourced, SourceOfStart, SourceOfControl
<1>4. Shared(made, queue)' /\ Retained(made, queue, saved)'
  BY DEF Lined, Shared, Retained
<1>5. Faithful(base, Starts(made), PhasesOf(made))'
  BY DEF Lined, Faithful
<1>6. Counted(made)'
  BY DEF Counted
<1> QED
  BY <1>1, <1>2, <1>3, <1>4, <1>5, <1>6 DEF Before

-----------------------------------------------------------------------------
(* The steps of the old client.                                            *)

LEMMA FinishFocusStep ==
  ASSUME Before, FinishFocus
  PROVE  Before'
<1> DEFINE timer == Here.timer
           finish == OwnCommand("finish", timer.timer, "focus", timer.planned, 0)
           phase == PhaseAfter("focus", History(Apply(Unexpired, finish)), Day(now))
           start == [OwnCommand("start", finish.id + 1, phase, base.lengths[phase], 0)
                       EXCEPT !.id = finish.id + 1, !.src = finish.id,
                              !.gen = (profile = "pwa")]
           n == Len(made) + 1
<1>1. /\ Room(2) /\ timer # None /\ timer.phase = "focus"
      /\ \E day \in {None} \cup IF profile = "pwa" THEN {Day(now)} ELSE {} :
           Retain(<<finish, [start EXCEPT !.day = day]>>)
  BY Zenon DEF FinishFocus
<1>2. PICK day \in {None} \cup IF profile = "pwa" THEN {Day(now)} ELSE {} :
        Retain(<<finish, [start EXCEPT !.day = day]>>)
  BY <1>1
<1> DEFINE next == [start EXCEPT !.day = day]
<1>3. Playable(timer, made)
  BY <1>1, HereIs
<1>4. phase \in Breaks
  BY AfterFocus
<1>5. Len(made) \in Nat /\ DOMAIN made = 1 .. Len(made) /\ now \in Nat /\ made \in Seq(Noted)
  BY DEF Before, Typed
<1>6. /\ Day(now) \in Int /\ base.lengths[phase] \in Nat
  BY <1>4, <1>5, CompletionAssumption DEF Day, Before, Typed
<1>7. Cardinality(Mine(made)) + 2 <= MaxCommands
  BY <1>1 DEF Room, Mine
<1>8. n + 1 \in Timers
  BY <1>5, <1>7, TimersLeft DEF Before
<1> HIDE DEF phase, timer
<1> DEFINE plain == OwnCommand("start", n + 1, phase, base.lengths[phase], 0)
<1>25. plain = [id |-> n, timer |-> n + 1, task |-> None, kind |-> "start",
                phase |-> phase, planned |-> base.lengths[phase], at |-> now,
                observed |-> 0, own |-> TRUE, src |-> None, gen |-> FALSE,
                day |-> None]
  BY DEF OwnCommand
<1>26. finish.id = n
  BY DEF OwnCommand
<1>27. next = [[plain EXCEPT !.id = n + 1, !.src = n, !.gen = (profile = "pwa")]
                  EXCEPT !.day = day]
  BY <1>26
<1> HIDE DEF plain, next
<1>9. /\ finish = [id |-> n, timer |-> timer.timer, task |-> None, kind |-> "finish",
                   phase |-> "focus", planned |-> timer.planned, at |-> now,
                   observed |-> 0, own |-> TRUE, src |-> None, gen |-> FALSE,
                   day |-> None]
      /\ next = [id |-> n + 1, timer |-> n + 1, task |-> None, kind |-> "start",
                 phase |-> phase, planned |-> base.lengths[phase], at |-> now,
                 observed |-> 0, own |-> TRUE, src |-> n, gen |-> (profile = "pwa"),
                 day |-> day]
  <2>1. finish = [id |-> n, timer |-> timer.timer, task |-> None, kind |-> "finish",
                   phase |-> "focus", planned |-> timer.planned, at |-> now,
                   observed |-> 0, own |-> TRUE, src |-> None, gen |-> FALSE,
                   day |-> None]
    BY DEF OwnCommand
  <2> QED
    BY <1>25, <1>27, <2>1
<1>10. day \in Int \cup {None}
  BY <1>6
<1> HIDE DEF finish
<1>11. finish \in Noted /\ next \in Noted
  <2>1. finish \in Noted
    BY <1>3, <1>5, <1>9 DEF Noted, Playable, Kinds, Phases
  <2>2. n + 1 \in Nat /\ n \in Nat /\ phase \in Phases /\ base.lengths[phase] \in Nat
    BY <1>4, <1>5, <1>6 DEF Phases, Breaks
  <2>3. next \in Noted
    BY <1>5, <1>8, <1>9, <1>10, <2>2 DEF Noted, Kinds
  <2> QED
    BY <2>1, <2>3
<1> DEFINE line == made \o <<finish>>
<1>12. Lined(made, queue, saved, base)
  BY BeforeIs
<1>13. Follows(made, queue, finish)
  BY <1>1, <1>3, <1>9, <1>11 DEF Follows, Playable, Breaks, timer
<1>14. Lined(line, queue \cup {n}, saved, base)
  <2>1. Queued(queue, finish) = queue \cup {n}
    BY <1>9 DEF Queued
  <2>2. Lined(made \o <<finish>>, Queued(queue, finish), saved, base)
    BY <1>12, <1>13, Appended
  <2> QED
    BY <2>1, <2>2
<1>15. Len(line) = n /\ line[n] = finish /\ line \in Seq(Noted) /\ n \in DOMAIN line
  BY <1>5, <1>11
<1> HIDE DEF line
<1>16. Follows(line, queue \cup {n}, next)
  BY <1>4, <1>5, <1>9, <1>11, <1>15, ReducerAssumption DEF Follows
<1>17. Lined(line \o <<next>>, queue \cup {n} \cup {n + 1}, saved, base)
  BY <1>9, <1>14, <1>16, Appended DEF Queued
<1>18. made' = line \o <<next>>
  <2>1. made' = made \o <<finish, next>>
    BY <1>2 DEF Retain, next
  <2> QED
    BY <1>5, <1>11, <2>1 DEF line
<1>19. queue' = queue \cup {n} \cup {n + 1}
  <2> DEFINE cs == <<finish, next>>
  <2>1. queue' = queue \cup {cs[k].id : k \in DOMAIN cs}
    BY <1>2 DEF Retain, next
  <2>2. DOMAIN cs = {1, 2} /\ cs[1] = finish /\ cs[2] = next
    OBVIOUS
  <2> HIDE DEF cs
  <2>3. {cs[k].id : k \in DOMAIN cs} = {n, n + 1}
    BY <1>9, <2>2
  <2> QED
    BY <2>1, <2>3
<1>20. Counted(made')
  <2>1. /\ Cardinality(Mine(line)) = Cardinality(Mine(made)) + 1
        /\ Cardinality(Theirs(line)) = Cardinality(Theirs(made))
    BY <1>5, <1>9, <1>11, CountAppended DEF line
  <2>2. /\ Cardinality(Mine(made')) = Cardinality(Mine(line)) + 1
        /\ Cardinality(Theirs(made')) = Cardinality(Theirs(line))
    BY <1>9, <1>11, <1>15, <1>18, CountAppended
  <2>3. Cardinality(Mine(made)) \in Nat /\ Cardinality(Theirs(made)) \in Nat
    BY <1>5, LengthIs
  <2> QED
    BY <1>7, <2>1, <2>2, <2>3, LegacyAssumption DEF Counted, Before
<1>21. /\ profile' = profile /\ now' = now /\ saved' = saved /\ base' = base /\ acks' = acks
       /\ log' = log
  BY <1>2 DEF Retain
<1>22. log' \subseteq DOMAIN made'
  <2>1. Len(made') = n + 1 /\ made' \in Seq(Noted)
    BY <1>11, <1>15, <1>18, <1>5
  <2>2. DOMAIN made \subseteq DOMAIN made'
    BY <1>5, <2>1
  <2> QED
    BY <1>21, <2>2 DEF Before, Typed
<1>23. Answered'
  BY <1>21 DEF Before, Answered
<1>24. Lined(made', queue', saved', base')
  BY <1>17, <1>18, <1>19, <1>21
<1> QED
  BY <1>20, <1>21, <1>22, <1>23, <1>24, BeforeNext DEF Before, Typed

\* A step that adds one command.
LEMMA OneMore ==
  ASSUME Before, NEW c, Follows(made, queue, c),
         made' = made \o <<c>>, queue' = Queued(queue, c),
         UNCHANGED <<profile, now, saved, acks, base>>,
         log' \in {log, log \cup {c.id}},
         IF c.own THEN Cardinality(Mine(made)) + 1 <= MaxCommands
                  ELSE Cardinality(Theirs(made)) <= 3
  PROVE  Before'
<1>1. /\ Len(made) \in Nat /\ DOMAIN made = 1 .. Len(made) /\ made \in Seq(Noted)
      /\ log \subseteq DOMAIN made
  BY DEF Before, Typed
<1>2. c \in Noted /\ c.id = Len(made) + 1
  BY DEF Follows
<1>3. Lined(made, queue, saved, base)
  BY BeforeIs
<1>4. Lined(made', queue', saved', base')
  BY <1>3, Appended
<1>5. DOMAIN made' = 1 .. Len(made) + 1
  BY <1>1, <1>2
<1>6. log' \subseteq DOMAIN made' /\ log \subseteq log'
  BY <1>1, <1>2, <1>5
<1>7. Answered'
  BY <1>6 DEF Before, Answered
<1>8. Cardinality(Mine(made)) \in Nat /\ Cardinality(Theirs(made)) \in Nat
  BY <1>1, LengthIs
<1>9. Counted(made')
  <2>1. CASE c.own
    <3>1. /\ Cardinality(Mine(made')) = Cardinality(Mine(made)) + 1
          /\ Cardinality(Theirs(made')) = Cardinality(Theirs(made))
      BY <1>1, <1>2, <2>1, CountAppended
    <3> QED
      BY <2>1, <3>1 DEF Counted, Before
  <2>2. CASE ~ c.own
    <3>1. /\ Cardinality(Mine(made')) = Cardinality(Mine(made))
          /\ Cardinality(Theirs(made')) = Cardinality(Theirs(made)) + 1
      BY <1>1, <1>2, <2>2, CountAppended
    <3>2. Cardinality(Theirs(made')) <= 4
      BY <1>8, <2>2, <3>1
    <3> QED
      BY <3>1, <3>2 DEF Counted, Before
  <2> QED
    BY <2>1, <2>2
<1> QED
  BY <1>4, <1>6, <1>7, <1>9, BeforeNext DEF Before, Typed

LEMMA ControlBreakStep ==
  ASSUME Before, NEW kind \in {"pause", "resume", "finish"}, ControlBreak(kind)
  PROVE  Before'
<1> DEFINE timer == Here.timer
           spent == IF timer.status = "running" THEN ElapsedAt(timer, now)
                                                ELSE timer.elapsed
           plain == OwnCommand(kind, timer.timer, timer.phase, timer.planned, spent)
           source == IF timer.timer \in queue THEN made[timer.timer].src ELSE None
           c == [plain EXCEPT !.src = source]
           n == Len(made) + 1
<1>1. Room(1) /\ timer # None /\ timer.phase \in Breaks /\ Retain(<<c>>)
  BY Zenon DEF ControlBreak
<1>2. Playable(timer, made)
  BY <1>1, HereIs
<1>3. Len(made) \in Nat /\ DOMAIN made = 1 .. Len(made) /\ now \in Nat /\ made \in Seq(Noted)
  BY DEF Before, Typed
<1>4. spent \in Nat
  BY <1>2, <1>3, SpentType DEF Playable
<1> HIDE DEF timer, spent
<1> DEFINE t == timer.timer
<1>5. t \in DOMAIN made /\ made[t].kind = "start"
  BY <1>2 DEF Playable, Starts
<1>6. source \in Nat \cup {None}
  <2>1. made[t] \in Noted
    BY <1>3, <1>5
  <2> QED
    BY <2>1 DEF Noted
<1>7. source # None => /\ t \in queue /\ source = made[t].src
                       /\ source \in DOMAIN made /\ made[source].own /\ source < t
  <2>1. ASSUME source # None
        PROVE  source \in 1 .. t - 1 /\ made[source].own
    BY <1>5, <2>1 DEF Before, Sourced
  <2>2. t \in 1 .. Len(made)
    BY <1>3, <1>5
  <2>3. ASSUME source # None
        PROVE  source \in DOMAIN made /\ source < t
    BY <1>3, <2>1, <2>2, <2>3
  <2> QED
    BY <2>1, <2>3
<1> HIDE DEF source
<1>8. plain = [id |-> n, timer |-> t, task |-> None, kind |-> kind,
               phase |-> timer.phase, planned |-> timer.planned, at |-> now,
               observed |-> spent, own |-> TRUE, src |-> None, gen |-> FALSE,
               day |-> None]
  BY DEF OwnCommand
<1> HIDE DEF plain
<1>9. c = [id |-> n, timer |-> t, task |-> None, kind |-> kind,
           phase |-> timer.phase, planned |-> timer.planned, at |-> now,
           observed |-> spent, own |-> TRUE, src |-> source, gen |-> FALSE,
           day |-> None]
  <2>1. c = [plain EXCEPT !.src = source]
    OBVIOUS
  <2> HIDE DEF c
  <2> QED
    BY <1>8, <2>1
<1> HIDE DEF c
<1>10. c \in Noted
  BY <1>2, <1>3, <1>4, <1>6, <1>9 DEF Noted, Playable, Kinds
<1>11. c.src # None /\ c.kind # "start" => c.src = made[c.timer].src
  BY <1>7, <1>9
<1>12. c.own /\ c.kind # "start" /\ c.timer \in queue => c.src = made[c.timer].src
  BY <1>9 DEF source
<1>13. Follows(made, queue, c)
  BY <1>2, <1>3, <1>7, <1>9, <1>10, <1>11, <1>12 DEF Follows, Playable
<1>14. /\ made' = made \o <<c>> /\ queue' = Queued(queue, c)
       /\ UNCHANGED <<profile, now, saved, acks, base, log>>
  <2> DEFINE cs == <<c>>
  <2>1. queue' = queue \cup {cs[k].id : k \in DOMAIN cs}
    BY <1>1 DEF Retain
  <2>2. DOMAIN cs = {1} /\ cs[1] = c
    OBVIOUS
  <2> HIDE DEF cs
  <2>3. queue' = queue \cup {c.id}
    BY <2>1, <2>2
  <2> QED
    BY <1>1, <1>9, <2>3 DEF Retain, Queued
<1>15. c.own /\ Cardinality(Mine(made)) + 1 <= MaxCommands
  BY <1>1, <1>9 DEF Room, Mine
<1> QED
  BY <1>13, <1>14, <1>15, OneMore

-----------------------------------------------------------------------------
(* The steps of another device.                                            *)

LEMMA MarkedOne ==
  ASSUME NEW x
  PROVE  [k \in DOMAIN <<x>> |-> [<<x>>[k] EXCEPT !.own = FALSE]]
           = <<[x EXCEPT !.own = FALSE]>>
<1> DEFINE y == [x EXCEPT !.own = FALSE]
           s == <<x>>
<1>1. DOMAIN s = 1 .. 1 /\ s[1] = x
  OBVIOUS
<1>2. DOMAIN <<y>> = 1 .. 1 /\ <<y>>[1] = y
  OBVIOUS
<1>3. <<y>> = [k \in 1 .. 1 |-> <<y>>[k]]
  OBVIOUS
<1>4. \A k \in 1 .. 1 : <<y>>[k] = [s[k] EXCEPT !.own = FALSE]
  <2>1. \A k \in 1 .. 1 : k = 1
    OBVIOUS
  <2> QED
    BY <1>1, <1>2, <2>1, Zenon
<1> HIDE DEF y, s
<1>5. [k \in DOMAIN s |-> [s[k] EXCEPT !.own = FALSE]] = <<y>>
  BY <1>1, <1>3, <1>4, Zenon
<1> QED
  BY <1>5 DEF y, s

LEMMA TwoCommands ==
  IsFiniteSet({1, 2}) /\ Cardinality({1, 2}) = 2
<1>1. IsFiniteSet({1}) /\ Cardinality({1}) = 1 /\ {1, 2} = {1} \cup {2} /\ 2 \notin {1}
  BY FS_Singleton
<1>2. IsFiniteSet({1} \cup {2})
      /\ Cardinality({1} \cup {2}) = IF 2 \in {1} THEN Cardinality({1}) ELSE Cardinality({1}) + 1
  BY <1>1, FS_AddElement
<1> QED
  BY <1>1, <1>2

LEMMA PeerFinishStep ==
  ASSUME Before, NEW t \in log, PeerFinish(t)
  PROVE  Before'
<1> DEFINE n == Len(made) + 1
           own == OwnCommand("finish", t, made[t].phase, made[t].planned, 0)
           c == [own EXCEPT !.own = FALSE]
<1>1. made[t].kind = "start" /\ FromPeer(<<own>>)
  BY DEF PeerFinish
<1>2. Len(made) \in Nat /\ DOMAIN made = 1 .. Len(made) /\ now \in Nat /\ made \in Seq(Noted)
      /\ t \in DOMAIN made
  BY DEF Before, Typed
<1>3. made[t] \in Noted
  BY <1>2
<1>4. own = [id |-> n, timer |-> t, task |-> None, kind |-> "finish",
             phase |-> made[t].phase, planned |-> made[t].planned, at |-> now,
             observed |-> 0, own |-> TRUE, src |-> None, gen |-> FALSE,
             day |-> None]
  BY DEF OwnCommand
<1> HIDE DEF own
<1>5. c = [id |-> n, timer |-> t, task |-> None, kind |-> "finish",
           phase |-> made[t].phase, planned |-> made[t].planned, at |-> now,
           observed |-> 0, own |-> FALSE, src |-> None, gen |-> FALSE,
           day |-> None]
  <2>1. c = [own EXCEPT !.own = FALSE]
    OBVIOUS
  <2> HIDE DEF c
  <2> QED
    BY <1>4, <2>1
<1>6. t \in Timers
  <2>1. made[t].timer = t
    BY <1>1, <1>2 DEF Before, Named
  <2> QED
    BY <1>3, <2>1 DEF Noted
<1> HIDE DEF c
<1>7. c \in Noted
  BY <1>2, <1>3, <1>5, <1>6 DEF Noted, Kinds
<1>8. Follows(made, queue, c)
  BY <1>1, <1>2, <1>5, <1>7 DEF Follows, Starts
<1>9. /\ made' = made \o <<c>> /\ log' = log \cup {c.id}
      /\ UNCHANGED <<profile, now, queue, saved, acks, base>>
      /\ Theirs(made) = {1, 2}
  <2> DEFINE cs == <<own>>
             ds == [k \in DOMAIN cs |-> [cs[k] EXCEPT !.own = FALSE]]
  <2>1. /\ made' = made \o ds /\ log' = log \cup {cs[k].id : k \in DOMAIN cs}
        /\ UNCHANGED <<profile, now, queue, saved, acks, base>>
        /\ Theirs(made) = {1, 2}
    BY <1>1 DEF FromPeer, Theirs
  <2>2. ds = <<c>>
    BY MarkedOne DEF c
  <2>3. DOMAIN cs = {1} /\ cs[1] = own
    OBVIOUS
  <2> HIDE DEF cs, ds
  <2>4. {cs[k].id : k \in DOMAIN cs} = {c.id}
    BY <1>4, <1>5, <2>3
  <2> QED
    BY <2>1, <2>2, <2>4
<1>10. Cardinality({1, 2}) <= 3
  BY TwoCommands
<1> QED
  BY <1>5, <1>8, <1>9, <1>10, OneMore DEF Queued

LEMMA MarkedTwo ==
  ASSUME NEW x, NEW z
  PROVE  [k \in DOMAIN <<x, z>> |-> [<<x, z>>[k] EXCEPT !.own = FALSE]]
           = <<[x EXCEPT !.own = FALSE], [z EXCEPT !.own = FALSE]>>
<1> DEFINE y == [x EXCEPT !.own = FALSE]
           w == [z EXCEPT !.own = FALSE]
           s == <<x, z>>
<1>1. DOMAIN s = 1 .. 2 /\ s[1] = x /\ s[2] = z
  OBVIOUS
<1>2. DOMAIN <<y, w>> = 1 .. 2 /\ <<y, w>>[1] = y /\ <<y, w>>[2] = w
  OBVIOUS
<1>3. <<y, w>> = [k \in 1 .. 2 |-> <<y, w>>[k]]
  OBVIOUS
<1>4. \A k \in 1 .. 2 : <<y, w>>[k] = [s[k] EXCEPT !.own = FALSE]
  <2>1. \A k \in 1 .. 2 : k = 1 \/ k = 2
    OBVIOUS
  <2> QED
    BY <1>1, <1>2, <2>1, Zenon
<1> HIDE DEF y, w, s
<1>5. [k \in DOMAIN s |-> [s[k] EXCEPT !.own = FALSE]] = <<y, w>>
  BY <1>1, <1>3, <1>4, Zenon
<1> QED
  BY <1>5 DEF y, w, s

LEMMA AppendTwo ==
  ASSUME NEW S, NEW s \in Seq(S), NEW x \in S, NEW z \in S
  PROVE  s \o <<x, z>> = (s \o <<x>>) \o <<z>>
<1> DEFINE m == Len(s)
           a == s \o <<x, z>>
           p == s \o <<x>>
           b == p \o <<z>>
<1>1. m \in Nat
  OBVIOUS
<1>2. /\ a \in Seq(S) /\ Len(a) = m + 2
      /\ \A i \in 1 .. m : a[i] = s[i]
      /\ a[m + 1] = x /\ a[m + 2] = z
  OBVIOUS
<1>3. /\ p \in Seq(S) /\ Len(p) = m + 1
      /\ \A i \in 1 .. m : p[i] = s[i]
      /\ p[m + 1] = x
  OBVIOUS
<1> HIDE DEF m, a, p
<1>4. /\ b \in Seq(S) /\ Len(b) = m + 2
      /\ \A i \in 1 .. m + 1 : b[i] = p[i]
      /\ b[m + 2] = z
  BY <1>1, <1>3
<1> HIDE DEF b
<1>5. \A i \in 1 .. m + 2 : i \in 1 .. m \/ i = m + 1 \/ i = m + 2
  BY <1>1
<1>6. 1 .. m \subseteq 1 .. m + 1 /\ m + 1 \in 1 .. m + 1
  BY <1>1
<1>7. \A i \in 1 .. m + 2 : a[i] = b[i]
  BY <1>2, <1>3, <1>4, <1>5, <1>6
<1>8. a = b
  BY <1>2, <1>4, <1>7
<1> QED
  BY <1>8 DEF a, b, p

LEMMA PeerFocusStep ==
  ASSUME Before, PeerFocus
  PROVE  Before'
<1> DEFINE n == Len(made) + 1
           own == OwnCommand("start", n, "focus", Planned, 0)
           over == [own EXCEPT !.id = @ + 1, !.kind = "finish"]
           start == [own EXCEPT !.own = FALSE]
           finish == [over EXCEPT !.own = FALSE]
<1>1. FromPeer(<<own, over>>)
  BY DEF PeerFocus
<1>2. /\ Len(made) \in Nat /\ DOMAIN made = 1 .. Len(made) /\ now \in Nat
      /\ made \in Seq(Noted) /\ log \subseteq DOMAIN made
  BY DEF Before, Typed
<1>3. own = [id |-> n, timer |-> n, task |-> None, kind |-> "start",
             phase |-> "focus", planned |-> Planned, at |-> now,
             observed |-> 0, own |-> TRUE, src |-> None, gen |-> FALSE,
             day |-> None]
  BY DEF OwnCommand
<1>4. over = [own EXCEPT !.id = @ + 1, !.kind = "finish"]
  OBVIOUS
<1>5. start = [own EXCEPT !.own = FALSE] /\ finish = [over EXCEPT !.own = FALSE]
  OBVIOUS
<1> HIDE DEF own, over, start, finish
<1>6. over = [id |-> n + 1, timer |-> n, task |-> None, kind |-> "finish",
              phase |-> "focus", planned |-> Planned, at |-> now,
              observed |-> 0, own |-> TRUE, src |-> None, gen |-> FALSE,
              day |-> None]
  BY <1>3, <1>4
<1>7. /\ start = [id |-> n, timer |-> n, task |-> None, kind |-> "start",
                  phase |-> "focus", planned |-> Planned, at |-> now,
                  observed |-> 0, own |-> FALSE, src |-> None, gen |-> FALSE,
                  day |-> None]
      /\ finish = [id |-> n + 1, timer |-> n, task |-> None, kind |-> "finish",
                   phase |-> "focus", planned |-> Planned, at |-> now,
                   observed |-> 0, own |-> FALSE, src |-> None, gen |-> FALSE,
                   day |-> None]
  BY <1>3, <1>5, <1>6
<1>8. /\ made' = made \o <<start, finish>> /\ log' = log \cup {n, n + 1}
      /\ UNCHANGED <<profile, now, queue, saved, acks, base>>
      /\ Theirs(made) = {1, 2}
  <2> DEFINE cs == <<own, over>>
             ds == [k \in DOMAIN cs |-> [cs[k] EXCEPT !.own = FALSE]]
  <2>1. /\ made' = made \o ds /\ log' = log \cup {cs[k].id : k \in DOMAIN cs}
        /\ UNCHANGED <<profile, now, queue, saved, acks, base>>
        /\ Theirs(made) = {1, 2}
    BY <1>1 DEF FromPeer, Theirs
  <2>2. ds = <<start, finish>>
    BY <1>5, MarkedTwo
  <2>3. DOMAIN cs = {1, 2} /\ cs[1] = own /\ cs[2] = over
    OBVIOUS
  <2> HIDE DEF cs, ds
  <2>4. {cs[k].id : k \in DOMAIN cs} = {n, n + 1}
    BY <1>3, <1>6, <2>3
  <2> QED
    BY <2>1, <2>2, <2>4
<1>9. Cardinality(Theirs(made)) = 2
  BY <1>8, TwoCommands
<1>10. n \in Timers
  BY <1>9, TimersLeft DEF Before
<1>11. start \in Noted /\ finish \in Noted
  <2>1. Planned \in Nat
    BY LegacyAssumption
  <2>2. n \in Nat /\ n + 1 \in Nat
    BY <1>2
  <2> QED
    BY <1>2, <1>7, <1>10, <2>1, <2>2 DEF Noted, Kinds, Phases
<1>12. Follows(made, queue, start)
  BY <1>7, <1>11 DEF Follows
<1> DEFINE line == made \o <<start>>
<1>13. Lined(line, queue, saved, base)
  <2>1. Lined(made, queue, saved, base)
    BY BeforeIs
  <2>2. Queued(queue, start) = queue
    BY <1>7 DEF Queued
  <2>3. Lined(made \o <<start>>, Queued(queue, start), saved, base)
    BY <1>12, <2>1, Appended
  <2> QED
    BY <2>2, <2>3
<1>14. Len(line) = n /\ line[n] = start /\ line \in Seq(Noted) /\ DOMAIN line = 1 .. n
  BY <1>2, <1>11
<1>15. made' = line \o <<finish>>
  BY <1>2, <1>8, <1>11, AppendTwo
<1>16. /\ Cardinality(Mine(line)) = Cardinality(Mine(made))
       /\ Cardinality(Theirs(line)) = Cardinality(Theirs(made)) + 1
  BY <1>2, <1>7, <1>11, CountAppended
<1> HIDE DEF line
<1>17. Follows(line, queue, finish)
  <2>1. n \in Starts(line)
    BY <1>2, <1>7, <1>14 DEF Starts
  <2> QED
    BY <1>7, <1>11, <1>14, <2>1 DEF Follows
<1>18. Lined(made', queue', saved', base')
  <2>1. Queued(queue, finish) = queue
    BY <1>7 DEF Queued
  <2>2. Lined(line \o <<finish>>, Queued(queue, finish), saved, base)
    BY <1>13, <1>17, Appended
  <2> QED
    BY <1>8, <1>15, <2>1, <2>2
<1>19. Counted(made')
  <2>1. /\ Cardinality(Mine(made')) = Cardinality(Mine(line))
        /\ Cardinality(Theirs(made')) = Cardinality(Theirs(line)) + 1
    BY <1>7, <1>11, <1>14, <1>15, CountAppended
  <2>2. Cardinality(Theirs(made')) <= 4
    BY <1>9, <1>16, <2>1
  <2> QED
    BY <1>16, <2>1, <2>2 DEF Before, Counted
<1>20. log' \subseteq DOMAIN made'
  <2>1. DOMAIN made' = 1 .. n + 1
    BY <1>11, <1>14, <1>15, <1>2
  <2> QED
    BY <1>2, <1>8, <2>1
<1>21. Answered'
  BY <1>8 DEF Before, Answered
<1> QED
  BY <1>8, <1>18, <1>19, <1>20, <1>21, BeforeNext DEF Before, Typed

-----------------------------------------------------------------------------
(* The steps of the request and of the server.                             *)

LEMMA TickStep ==
  ASSUME Before, Tick
  PROVE  Before'
<1>1. /\ now' = now + 1
      /\ UNCHANGED <<profile, made, queue, saved, acks, base, log>>
  BY DEF Tick
<1>2. Lined(made, queue, saved, base)
  BY BeforeIs
<1>3. Lined(made', queue', saved', base') /\ Answered' /\ Counted(made')
  BY <1>1, <1>2 DEF Before, Answered
<1> QED
  BY <1>1, <1>3, BeforeNext DEF Before, Typed

\* A saved request of other first commands.
LEMMA Resent ==
  ASSUME Before, NEW sent,
         sent # None => /\ sent \subseteq queue
                        /\ \A i \in sent, j \in queue : j < i => j \in sent
  PROVE  Lined(made, queue, sent, base)
<1>1. Retained(made, queue, sent)
  BY DEF Before, Typed, Retained
<1> QED
  BY <1>1 DEF Before, Typed, Lined

LEMMA FewerBelow ==
  ASSUME NEW q, NEW m \in Nat, q \subseteq 1 .. m, NEW i \in q, NEW j \in q, j < i
  PROVE  /\ Cardinality({k \in q : k <= j}) \in Nat
         /\ Cardinality({k \in q : k <= i}) \in Nat
         /\ Cardinality({k \in q : k <= j}) <= Cardinality({k \in q : k <= i})
<1> DEFINE low == {k \in q : k <= j}
           high == {k \in q : k <= i}
<1>1. IsFiniteSet(1 .. m)
  BY FS_Interval
<1>2. high \subseteq 1 .. m /\ low \subseteq high
  <2>1. \A k \in q : k \in Nat
    OBVIOUS
  <2>2. \A k \in q : k <= j => k <= i
    BY <2>1
  <2> QED
    BY <2>2
<1> HIDE DEF low, high
<1>3. IsFiniteSet(high)
  BY <1>1, <1>2, FS_Subset
<1>4. IsFiniteSet(low) /\ Cardinality(low) <= Cardinality(high)
  BY <1>2, <1>3, FS_Subset
<1>5. Cardinality(low) \in Nat /\ Cardinality(high) \in Nat
  BY <1>3, <1>4, FS_CardinalityType
<1> QED
  BY <1>4, <1>5 DEF low, high

LEMMA SendStep ==
  ASSUME Before, NEW n \in Nat, Send(n)
  PROVE  Before'
<1> DEFINE ids == {i \in queue : Cardinality({j \in queue : j <= i}) <= n}
<1>1. /\ saved = None /\ saved' = ids
      /\ UNCHANGED <<profile, now, made, queue, acks, base, log>>
  BY DEF Send
<1>2. Len(made) \in Nat /\ queue \subseteq 1 .. Len(made)
  BY DEF Before, Typed
<1>3. ASSUME NEW i \in ids, NEW j \in queue, j < i
      PROVE  j \in ids
  <2> DEFINE low == Cardinality({k \in queue : k <= j})
             high == Cardinality({k \in queue : k <= i})
  <2>1. low \in Nat /\ high \in Nat /\ low <= high
    BY <1>2, <1>3, FewerBelow
  <2>2. high <= n
    BY <1>3
  <2> HIDE DEF low, high
  <2>3. low <= n
    BY <2>1, <2>2
  <2> QED
    BY <2>3 DEF low
<1>4. ids \subseteq queue
  OBVIOUS
<1> HIDE DEF ids
<1>5. Lined(made, queue, ids, base)
  BY <1>3, <1>4, Resent
<1>6. Lined(made', queue', saved', base')
  BY <1>1, <1>5
<1>7. DOMAIN acks = {}
  BY <1>1 DEF Before, Answered
<1>8. Answered'
  BY <1>1, <1>7 DEF Answered
<1>9. Counted(made')
  BY <1>1 DEF Before
<1> QED
  BY <1>1, <1>6, <1>8, <1>9, BeforeNext DEF Before, Typed

LEMMA ForgetStep ==
  ASSUME Before, Forget
  PROVE  Before'
<1>1. /\ acks = <<>> /\ saved' = None
      /\ UNCHANGED <<profile, now, made, queue, acks, base, log>>
  BY DEF Forget
<1>2. Lined(made, queue, None, base)
  BY Resent
<1>3. Lined(made', queue', saved', base') /\ Counted(made')
  BY <1>1, <1>2 DEF Before
<1>4. DOMAIN acks = {}
  BY <1>1
<1>5. Answered'
  BY <1>1, <1>4 DEF Answered
<1> QED
  BY <1>1, <1>3, <1>5, BeforeNext DEF Before, Typed

LEMMA AcknowledgeStep ==
  ASSUME Before, Acknowledge
  PROVE  Before'
<1>1. /\ saved # None /\ saved \subseteq log \cup refused
      /\ acks' = [i \in saved |-> OutcomeOf(i)]
      /\ UNCHANGED <<profile, now, made, queue, saved, base, log>>
  BY DEF Acknowledge
<1>2. Lined(made, queue, saved, base)
  BY BeforeIs
<1>3. Lined(made', queue', saved', base') /\ Counted(made')
  BY <1>1, <1>2 DEF Before
<1>4. DOMAIN acks' = saved
  BY <1>1
<1>5. \A f \in saved : acks'[f] # "rejected" => f \in log
  BY <1>1 DEF OutcomeOf
<1>6. Answered'
  BY <1>1, <1>4, <1>5 DEF Answered
<1> QED
  BY <1>1, <1>3, <1>6, BeforeNext DEF Before, Typed

LEMMA ServeStep ==
  ASSUME Before, NEW deny, Serve(deny)
  PROVE  Before'
<1>1. /\ saved # None /\ log' = log \cup (saved \ refused')
      /\ UNCHANGED <<profile, now, made, queue, saved, acks, base>>
  BY DEF Serve
<1>2. Lined(made, queue, saved, base)
  BY BeforeIs
<1>3. Lined(made', queue', saved', base') /\ Counted(made')
  BY <1>1, <1>2 DEF Before
<1>4. log \subseteq log' /\ log' \subseteq DOMAIN made'
  BY <1>1 DEF Before, Typed, Retained
<1>5. Answered'
  BY <1>1, <1>4 DEF Before, Answered
<1> QED
  BY <1>1, <1>3, <1>4, <1>5, BeforeNext DEF Before, Typed

-----------------------------------------------------------------------------
(* What an installed snapshot and a settled request leave.                 *)

\* The commands with what they followed taken off some of them.
LEMMA SettleStep ==
  ASSUME Before, Settle
  PROVE  Before'
<1> DEFINE over == {f \in DOMAIN acks : acks[f] # "rejected"}
           bare(c) == [c EXCEPT !.src = None, !.gen = FALSE, !.day = None]
           line == [i \in DOMAIN made |->
                      IF made[i].src \in over THEN bare(made[i]) ELSE made[i]]
<1>1. /\ made' = line /\ saved' = None /\ acks' = <<>>
      /\ UNCHANGED <<profile, now, queue, base, log>>
  BY DEF Settle
<1>2. /\ Len(made) \in Nat /\ DOMAIN made = 1 .. Len(made) /\ made \in Seq(Noted)
  BY DEF Before, Typed
<1> HIDE DEF over
<1>3. ASSUME NEW i \in DOMAIN made
      PROVE  /\ line[i] \in Noted
             /\ line[i].id = made[i].id /\ line[i].timer = made[i].timer
             /\ line[i].kind = made[i].kind /\ line[i].phase = made[i].phase
             /\ line[i].own = made[i].own
             /\ IF made[i].src \in over THEN line[i].src = None /\ ~ line[i].gen
                ELSE line[i].src = made[i].src /\ line[i].gen = made[i].gen
  <2> DEFINE c == made[i]
  <2>1. c \in Noted
    BY <1>2, <1>3
  <2>2. line[i] = IF c.src \in over THEN bare(c) ELSE c
    OBVIOUS
  <2> HIDE DEF c, line
  <2>3. /\ bare(c) \in Noted
        /\ bare(c).id = c.id /\ bare(c).timer = c.timer /\ bare(c).kind = c.kind
        /\ bare(c).phase = c.phase /\ bare(c).own = c.own /\ bare(c).src = None
        /\ ~ bare(c).gen
    BY <2>1 DEF Noted
  <2> HIDE DEF bare
  <2> QED
    BY <2>1, <2>2, <2>3 DEF c
<1>4. DOMAIN line = DOMAIN made
  OBVIOUS
<1> HIDE DEF line, bare
<1>5. line \in Seq(Noted)
  <2>1. line = [i \in 1 .. Len(made) |-> line[i]]
    BY <1>1, <1>2 DEF line
  <2>2. \A i \in 1 .. Len(made) : line[i] \in Noted
    BY <1>2, <1>3
  <2>3. line \in [1 .. Len(made) -> Noted]
    BY <2>1, <2>2
  <2> QED
    BY <1>2, <2>3
<1>6. Named(line)
  <2> SUFFICES ASSUME NEW i \in DOMAIN made
               PROVE  /\ line[i].id = i /\ line[i].timer \in 1 .. i
                      /\ line[line[i].timer].kind = "start"
                      /\ line[i].kind = "start" => line[i].timer = i
    BY <1>4 DEF Named
  <2>1. /\ made[i].id = i /\ made[i].timer \in 1 .. i
        /\ made[made[i].timer].kind = "start"
        /\ made[i].kind = "start" => made[i].timer = i
    BY DEF Before, Named
  <2>2. made[i].timer \in DOMAIN made
    BY <1>2, <2>1
  <2> QED
    BY <1>3, <2>1, <2>2
<1>7. ASSUME NEW i \in DOMAIN made
      PROVE  made[i].timer \in DOMAIN made
  BY <1>2, <1>7 DEF Before, Named
<1>8. Sourced(line, queue)
  <2> SUFFICES ASSUME NEW i \in DOMAIN made, line[i].src # None
               PROVE  /\ line[i].own /\ line[i].src \in 1 .. i - 1
                      /\ line[line[i].src].own
                      /\ IF line[i].kind = "start" THEN SourceOfStart(line, i)
                                                   ELSE SourceOfControl(line, queue, i)
    BY <1>4 DEF Sourced
  <2> DEFINE f == made[i].src
             t == made[i].timer
  <2>1. /\ line[i].src = f /\ line[i].gen = made[i].gen /\ f # None
        /\ f \notin over
    BY <1>3
  <2>2. /\ made[i].own /\ f \in 1 .. i - 1 /\ made[f].own
        /\ IF made[i].kind = "start" THEN SourceOfStart(made, i)
                                     ELSE SourceOfControl(made, queue, i)
    BY <2>1 DEF Before, Sourced
  <2>3. f \in DOMAIN made /\ t \in DOMAIN made
    BY <1>2, <1>7, <2>2
  <2>4. /\ line[f].own = made[f].own /\ line[f].kind = made[f].kind
        /\ line[f].phase = made[f].phase
        /\ line[t].own = made[t].own
        /\ made[t].src = f => line[t].src = f
    BY <1>3, <2>1, <2>3
  <2>5. /\ line[i].own = made[i].own /\ line[i].kind = made[i].kind
        /\ line[i].phase = made[i].phase /\ line[i].timer = t
    BY <1>3
  <2> HIDE DEF f, t
  <2>6. CASE made[i].kind = "start"
    <3>1. /\ made[i].phase \in Breaks /\ made[f].kind = "finish"
          /\ made[f].phase = "focus" /\ made[i].gen = (profile = "pwa")
      BY <2>2, <2>6 DEF SourceOfStart, f
    <3>2. SourceOfStart(line, i)
      BY <2>1, <2>4, <2>5, <3>1 DEF SourceOfStart
    <3> QED
      BY <2>1, <2>2, <2>4, <2>5, <2>6, <3>2
  <2>7. CASE made[i].kind # "start"
    <3>1. /\ made[t].own /\ f < t /\ ~ made[i].gen
          /\ t \in queue => made[t].src = f
      BY <2>2, <2>7 DEF SourceOfControl, f, t
    <3>2. SourceOfControl(line, queue, i)
      BY <2>1, <2>4, <2>5, <3>1 DEF SourceOfControl
    <3> QED
      BY <2>1, <2>2, <2>4, <2>5, <2>7, <3>2
  <2> QED
    BY <2>6, <2>7
<1>9. Shared(line, queue)
  <2> SUFFICES ASSUME NEW i \in DOMAIN made,
                      line[i].own, line[i].timer \in queue, line[i].timer # i,
                      line[line[i].timer].phase \in Breaks
               PROVE  line[i].src = line[line[i].timer].src
    BY <1>4 DEF Shared
  <2> DEFINE t == made[i].timer
  <2>1. t \in DOMAIN made /\ line[i].timer = t /\ line[i].own = made[i].own
        /\ line[t].phase = made[t].phase
    BY <1>3, <1>7
  <2>2. made[i].src = made[t].src
    BY <2>1 DEF Before, Shared
  <2> HIDE DEF t
  <2> QED
    BY <1>3, <2>1, <2>2
<1>10. Retained(line, queue, None)
  BY <1>3, <1>4 DEF Before, Typed, Retained
<1>11. Starts(line) = Starts(made) /\ Mine(line) = Mine(made) /\ Theirs(line) = Theirs(made)
  BY <1>3, <1>4 DEF Starts, Mine, Theirs
<1>12. PhasesOf(line) = PhasesOf(made)
  BY <1>3, <1>4 DEF PhasesOf
<1>13. Lined(line, queue, None, base)
  BY <1>4, <1>5, <1>6, <1>8, <1>9, <1>10, <1>11, <1>12 DEF Lined, Before, Typed
<1>14. Lined(made', queue', saved', base')
  BY <1>1, <1>13
<1>15. Counted(made')
  BY <1>1, <1>11 DEF Before, Counted
<1>16. Answered'
  <2>1. DOMAIN acks' = {}
    BY <1>1
  <2> QED
    BY <2>1 DEF Answered
<1> QED
  BY <1>1, <1>4, <1>14, <1>15, <1>16, BeforeNext DEF Before, Typed

\* A timer whose row is missing stands on its own.
LEMMA StandsAlone ==
  ASSUME NEW timer \in Snapshot, NEW r \in Row, Matches(timer, r)
  PROVE  Standalone(timer)
<1> DEFINE i == timer.intent
           cmd == IF i # None /\ i.kind \in {"finish", "cancel"} THEN i.cmd ELSE None
<1>1. i \in Intent \cup {None} /\ FullElapsed(timer) /\ TerminalIntent(timer, r.cmd)
  BY DEF Snapshot, Matches
<1>2. TerminalIntent(timer, cmd)
  <2>1. CASE i = None
    BY <2>1 DEF TerminalIntent
  <2>2. CASE i # None
    <3>1. i.cmd \in Nat /\ i.cmd # None
      BY <1>1, <2>2, ReducerAssumption DEF Intent
    <3>2. \/ /\ \/ timer.status = "completed" /\ i.kind = "finish"
                \/ timer.status = "cancelled" /\ i.kind = "cancel"
             /\ r.cmd = i.cmd /\ i.at = timer.anchor
          \/ /\ timer.status = "completed" /\ i.kind \in {"start", "resume"}
             /\ r.cmd = None /\ i.at <= timer.anchor
          \/ /\ timer.status = "superseded"
             /\ i.kind \in {"start", "pause", "resume"} /\ r.cmd # i.cmd
      BY <1>1, <2>2 DEF TerminalIntent
    <3> HIDE DEF i
    <3>3. \/ /\ \/ timer.status = "completed" /\ i.kind = "finish"
                \/ timer.status = "cancelled" /\ i.kind = "cancel"
             /\ cmd = i.cmd /\ i.at = timer.anchor
          \/ /\ timer.status = "completed" /\ i.kind \in {"start", "resume"}
             /\ cmd = None /\ i.at <= timer.anchor
          \/ /\ timer.status = "superseded"
             /\ i.kind \in {"start", "pause", "resume"} /\ cmd # i.cmd
      BY <2>2, <3>1, <3>2
    <3> HIDE DEF cmd
    <3> QED
      BY <2>2, <3>3 DEF TerminalIntent, i
  <2> QED
    BY <2>1, <2>2
<1> QED
  BY <1>1, <1>2 DEF Standalone

LEMMA WithoutTheTimer ==
  ASSUME NEW timer, NEW rows, PairOK(timer, rows), timer # None
  PROVE  PairOK(timer, {r \in rows : r.timer # timer.timer})
<1> DEFINE others == {r \in rows : r.timer # timer.timer}
<1>1. /\ timer \in Snapshot /\ rows \subseteq Row /\ ValidPair(timer, rows)
  BY DEF PairOK
<1>2. others \subseteq rows /\ \A r \in others : r.timer # timer.timer
  OBVIOUS
<1>3. Standalone(timer)
  <2>1. CASE \A r \in rows : r.timer # timer.timer
    BY <1>1, <2>1 DEF ValidPair
  <2>2. CASE \E r \in rows : r.timer = timer.timer
    <3>1. PICK r \in rows : r.timer = timer.timer
      BY <2>2
    <3>2. Matches(timer, r) /\ r \in Row
      BY <1>1, <3>1 DEF ValidPair
    <3> QED
      BY <1>1, <3>2, StandsAlone
  <2> QED
    BY <2>1, <2>2
<1> HIDE DEF others
<1>4. ValidHistory(others) /\ NoAlias(timer, others)
  BY <1>1, <1>2 DEF ValidPair, ValidHistory, NoAlias
<1>5. ValidPair(timer, others)
  BY <1>1, <1>2, <1>3, <1>4 DEF ValidPair
<1>6. PairOK(timer, others)
  BY <1>2, <1>5 DEF PairOK
<1> QED
  BY <1>6 DEF others

LEMMA AdoptStep ==
  ASSUME Before, NEW full \in BOOLEAN, Adopt(full)
  PROVE  Before'
<1> DEFINE view == Shown(Projected(Replayed(log), now))
           rest == {r \in view.rows : r.timer # view.timer.timer}
           shown == [timer |-> view.timer, lengths |-> NewLengths,
                     rows |-> IF full THEN view.rows ELSE rest]
           q == queue \ DOMAIN acks
<1>1. /\ full \/ view.timer # None
      /\ base' = shown /\ queue' = q
      /\ UNCHANGED <<profile, now, made, saved, acks, log>>
  BY DEF Adopt
<1>2. /\ made \in Seq(Noted) /\ Named(made) /\ now \in Int
  BY DEF Before, Typed
<1>3. Faithful(view, Starts(made), PhasesOf(made))
  BY <1>2, NothingFaithful, ReplayShows DEF Replayed
<1> HIDE DEF view
<1>4. Faithful(shown, Starts(made), PhasesOf(made))
  <2> DEFINE rows == IF full THEN view.rows ELSE rest
  <2>1. rows \subseteq view.rows
    OBVIOUS
  <2>2. PairOK(view.timer, rows)
    BY <1>1, <1>3, WithoutTheTimer DEF Faithful
  <2>3. shown.timer = view.timer /\ shown.rows = rows
    OBVIOUS
  <2> HIDE DEF shown, rows, rest
  <2> QED
    BY <1>3, <2>1, <2>2, <2>3 DEF Faithful, Covered
<1>5. Retained(made, q, saved)
  <2>1. \A i \in q : made[i].own
    BY DEF Before, Retained
  <2>2. ASSUME NEW i \in q, NEW j \in DOMAIN made, made[j].own, i < j
        PROVE  j \in q
    <3>1. j \in queue
      BY <2>2 DEF Before, Retained
    <3>2. ASSUME j \in DOMAIN acks
          PROVE  FALSE
      <4>1. saved # None /\ DOMAIN acks = saved
        BY <3>2 DEF Before, Answered
      <4>2. i \in saved
        BY <2>2, <3>2, <4>1 DEF Before, Retained
      <4> QED
        BY <4>1, <4>2
    <3> QED
      BY <3>1, <3>2
  <2> QED
    BY <2>1, <2>2 DEF Before, Retained
<1>6. q \subseteq queue
  OBVIOUS
<1> HIDE DEF q, shown
<1>7. Sourced(made, q)
  BY <1>6 DEF Before, Sourced, SourceOfControl
<1>8. Shared(made, q)
  BY <1>6 DEF Before, Shared
<1>9. Lined(made, q, saved, shown)
  BY <1>2, <1>4, <1>5, <1>6, <1>7, <1>8 DEF Lined, Before, Typed
<1>10. Lined(made', queue', saved', base') /\ Counted(made')
  BY <1>1, <1>9 DEF Before
<1>11. Answered'
  BY <1>1 DEF Before, Answered
<1>12. base'.lengths \in [Breaks -> Nat]
  BY <1>1, LegacyAssumption DEF shown
<1> QED
  BY <1>1, <1>10, <1>11, <1>12, BeforeNext DEF Before, Typed

-----------------------------------------------------------------------------
(* The migration.                                                          *)

LEMMA DaysAreInts ==
  Days \subseteq Int
<1>1. \A t \in 0 .. MaxNow : Day(t) \in Int
  BY CompletionAssumption DEF Day
<1> QED
  BY <1>1 DEF Days

LEMMA MigrateStep ==
  ASSUME Before, Migrate
  PROVE  After' /\ deps' \in SUBSET Edge
<1> DEFINE plan == Plan(Here.rows, Days, TRUE)
<1>1. /\ deps = None /\ plan.kind = "planned" /\ deps' = plan.deps
      /\ UNCHANGED <<made, queue, log>>
  BY DEF Migrate
<1>2. Edged(plan.deps, queue) /\ Recovered(made, queue, plan.deps, log)
  BY <1>1, DaysAreInts, MigrationRecovers
<1> HIDE DEF plan
<1>3. Edged(deps', queue') /\ Recovered(made', queue', deps', log')
  BY <1>1, <1>2
<1>4. made' \in Seq(Noted) /\ queue' \subseteq DOMAIN made'
  BY <1>1 DEF Before, Typed
<1>5. \A i \in queue' : made'[i].src \in DOMAIN made' \cup {None}
  <2> SUFFICES ASSUME NEW i \in queue, made[i].src # None
               PROVE  made[i].src \in DOMAIN made
    BY <1>1
  <2>1. i \in DOMAIN made /\ DOMAIN made = 1 .. Len(made) /\ Len(made) \in Nat
    BY DEF Before, Typed
  <2>2. made[i].src \in 1 .. i - 1
    BY <2>1 DEF Before, Sourced
  <2> QED
    BY <2>1, <2>2
<1> QED
  BY <1>3, <1>4, <1>5 DEF After, Edged

\* The commands are the old client's until they are migrated.
Inv == /\ deps = None => Before
       /\ deps # None => After /\ deps \subseteq Edge

LEMMA InitBefore ==
  ASSUME Init
  PROVE  Before
<1> DEFINE start  == [id |-> 1, timer |-> 1, task |-> None, kind |-> "start",
                      phase |-> "focus", planned |-> Planned, at |-> 0,
                      observed |-> 0, own |-> FALSE, src |-> None, gen |-> FALSE,
                      day |-> None]
           finish == [start EXCEPT !.id = 2, !.kind = "finish"]
           second == [start EXCEPT !.id = 3, !.timer = 3, !.own = TRUE]
           view == Shown(Replayed({1, 2, 3}))
<1>1. /\ profile \in Profiles /\ now = 0
      /\ made = <<start, finish, second>>
      /\ queue = {} /\ saved = None /\ acks = <<>> /\ log = {1, 2, 3}
      /\ base = [timer |-> view.timer, rows |-> view.rows, lengths |-> OldLengths]
  BY DEF Init
<1>4. start = [id |-> 1, timer |-> 1, task |-> None, kind |-> "start",
               phase |-> "focus", planned |-> Planned, at |-> 0,
               observed |-> 0, own |-> FALSE, src |-> None, gen |-> FALSE,
               day |-> None]
  OBVIOUS
<1>16. /\ finish = [start EXCEPT !.id = 2, !.kind = "finish"]
       /\ second = [start EXCEPT !.id = 3, !.timer = 3, !.own = TRUE]
  OBVIOUS
<1> HIDE DEF start, finish, second
<1>2. /\ finish = [id |-> 2, timer |-> 1, task |-> None, kind |-> "finish",
                   phase |-> "focus", planned |-> Planned, at |-> 0,
                   observed |-> 0, own |-> FALSE, src |-> None, gen |-> FALSE,
                   day |-> None]
      /\ second = [id |-> 3, timer |-> 3, task |-> None, kind |-> "start",
                   phase |-> "focus", planned |-> Planned, at |-> 0,
                   observed |-> 0, own |-> TRUE, src |-> None, gen |-> FALSE,
                   day |-> None]
  BY <1>4, <1>16
<1>3. Planned \in Nat /\ 1 \in Timers /\ 3 \in Timers
  <2>1. MaxCommands \in Nat /\ Planned \in Nat /\ 1 .. MaxCommands + 4 \subseteq Timers
    BY LegacyAssumption
  <2>2. 1 \in 1 .. MaxCommands + 4 /\ 3 \in 1 .. MaxCommands + 4
    BY <2>1
  <2> QED
    BY <2>1, <2>2
<1> HIDE DEF view
<1>5. start \in Noted /\ finish \in Noted /\ second \in Noted
  BY <1>2, <1>3, <1>4 DEF Noted, Kinds, Phases
<1>6. /\ DOMAIN made = {1, 2, 3} /\ made \in Seq(Noted)
      /\ made[1] = start /\ made[2] = finish /\ made[3] = second
  BY <1>1, <1>5
<1>7. Named(made)
  BY <1>2, <1>4, <1>6 DEF Named
<1>8. Faithful(view, Starts(made), PhasesOf(made))
  BY <1>6, <1>7, NothingFaithful, ReplayShows DEF view, Replayed
<1>9. Faithful(base, Starts(made), PhasesOf(made))
  BY <1>1, <1>8 DEF Faithful
<1>10. \A i \in DOMAIN made : made[i].src = None
  BY <1>2, <1>4, <1>6
<1>11. Sourced(made, queue) /\ Shared(made, queue) /\ Retained(made, queue, saved)
  BY <1>1, <1>10 DEF Sourced, Shared, Retained
<1>12. Mine(made) = {3} /\ Theirs(made) = {1, 2}
  BY <1>2, <1>4, <1>6 DEF Mine, Theirs
<1>13. Counted(made)
  <2>1. Cardinality({3}) = 1
    BY FS_Singleton
  <2> QED
    BY <1>12, <2>1, TwoCommands DEF Counted
<1>14. Answered
  <2>1. DOMAIN acks = {}
    BY <1>1
  <2> QED
    BY <2>1 DEF Answered
<1>15. Typed
  BY <1>1, <1>6, LegacyAssumption DEF Typed
<1> QED
  BY <1>7, <1>9, <1>11, <1>13, <1>14, <1>15 DEF Before

LEMMA BeforeStays ==
  ASSUME Before, deps = None, Next, ~ Migrate
  PROVE  Before' /\ deps' = None
<1>1. CASE Tick
  BY <1>1, TickStep DEF Tick
<1>2. CASE FinishFocus
  BY <1>2, FinishFocusStep DEF FinishFocus
<1>3. ASSUME NEW kind \in {"pause", "resume", "finish"}, ControlBreak(kind)
      PROVE  Before' /\ deps' = None
  <2>1. deps' = deps
    BY <1>3, Zenon DEF ControlBreak
  <2> QED
    BY <1>3, <2>1, ControlBreakStep
<1>4. ASSUME NEW n \in 1 .. MaxCommands, Send(n)
      PROVE  Before' /\ deps' = None
  <2>1. n \in Nat
    BY <1>4
  <2> QED
    BY <1>4, <2>1, SendStep DEF Send
<1>5. ASSUME NEW deny \in SUBSET queue, Serve(deny)
      PROVE  Before' /\ deps' = None
  BY <1>5, ServeStep DEF Serve
<1>6. CASE Forget \/ Acknowledge \/ Settle
  BY <1>6, ForgetStep, AcknowledgeStep, SettleStep DEF Forget, Acknowledge, Settle
<1>7. ASSUME NEW full \in BOOLEAN, Adopt(full)
      PROVE  Before' /\ deps' = None
  BY <1>7, AdoptStep DEF Adopt
<1>8. CASE PeerFocus
  <2>1. deps' = deps
    BY <1>8 DEF PeerFocus, FromPeer
  <2> QED
    BY <1>8, <2>1, PeerFocusStep
<1>9. ASSUME NEW t \in log, PeerFinish(t)
      PROVE  Before' /\ deps' = None
  <2>1. deps' = deps
    BY <1>9 DEF PeerFinish, FromPeer
  <2> QED
    BY <1>9, <2>1, PeerFinishStep
<1>10. ASSUME NEW kind \in {"pause", "finish"}, Continue(kind)
       PROVE  FALSE
  BY <1>10 DEF Continue
<1> QED
  BY <1>1, <1>2, <1>3, <1>4, <1>5, <1>6, <1>7, <1>8, <1>9, <1>10 DEF Next

LEMMA OnlyContinue ==
  ASSUME Next, deps # None
  PROVE  \E kind \in {"pause", "finish"} : Continue(kind)
<1>1. ~ Tick /\ ~ FinishFocus /\ ~ Forget /\ ~ Acknowledge /\ ~ Settle /\ ~ Migrate
      /\ ~ PeerFocus
  BY DEF Tick, FinishFocus, Forget, Acknowledge, Settle, Migrate, PeerFocus, FromPeer
<1>2. /\ \A kind : ~ ControlBreak(kind)
      /\ \A n : ~ Send(n)
      /\ \A deny : ~ Serve(deny)
      /\ \A full : ~ Adopt(full)
      /\ \A t : ~ PeerFinish(t)
  BY DEF ControlBreak, Send, Serve, Adopt, PeerFinish, FromPeer
<1> QED
  BY <1>1, <1>2, Zenon DEF Next

LEMMA Inductive ==
  ASSUME None \notin SUBSET Edge, Inv, [Next]_vars
  PROVE  Inv'
<1>1. CASE UNCHANGED vars
  <2>1. deps = None => Before'
    BY <1>1 DEF Inv, vars, Before, Typed, Answered, Sourced, SourceOfStart, SourceOfControl
  <2>2. After => After'
    BY <1>1 DEF vars, After
  <2> QED
    BY <1>1, <2>1, <2>2 DEF Inv, vars
<1>2. CASE Next /\ deps = None /\ ~ Migrate
  BY <1>2, BeforeStays DEF Inv
<1>3. CASE Next /\ Migrate
  <2>1. After' /\ deps' \in SUBSET Edge
    BY <1>3, MigrateStep DEF Inv, Migrate
  <2>2. deps' # None
    BY <2>1
  <2> QED
    BY <2>1, <2>2 DEF Inv
<1>4. CASE Next /\ deps # None
  <2>1. PICK kind \in {"pause", "finish"} : Continue(kind)
    BY <1>4, OnlyContinue
  <2>2. After'
    BY <1>4, <2>1, ContinueStep DEF Inv
  <2>3. deps' \subseteq Edge
    BY <2>2 DEF After, Edged
  <2> QED
    BY <2>2, <2>3 DEF Inv
<1> QED
  BY <1>1, <1>2, <1>3, <1>4

(* Once the retained commands are migrated, the recorded edges order every  *)
(* command of a break behind those that went before it, down to the finish  *)
(* it followed, and a finish that is no longer retained has been taken by   *)
(* the server, whatever was sent, answered, refused or forgotten before and *)
(* whatever is paused or finished afterwards (graph.rs: upgrade, missing).  *)
(* None stands for edges that were not recorded yet: it is no set of edges. *)
THEOREM RecoversCausesHolds ==
  ASSUME None \notin SUBSET Edge
  PROVE  Spec => []RecoversCauses
<1>1. Init => Inv
  BY InitBefore DEF Inv, Init
<1>2. Inv /\ [Next]_vars => Inv'
  BY Inductive
<1>3. Inv => RecoversCauses
  <2> SUFFICES ASSUME Inv
               PROVE  RecoversCauses
    OBVIOUS
  <2>1. CASE deps = None
    BY <2>1 DEF RecoversCauses
  <2>2. CASE deps # None
    <3>1. PICK S : made \in Seq(S)
      BY <2>2 DEF Inv, After
    <3>2. DOMAIN made = 1 .. Len(made)
      BY <3>1
    <3> QED
      BY <2>2, <3>2, RecoveredIs DEF Inv, After
  <2> QED
    BY <2>1, <2>2
<1> QED
  BY <1>1, <1>2, <1>3, PTL DEF Spec
=============================================================================
