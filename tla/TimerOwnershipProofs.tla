------------------------ MODULE TimerOwnershipProofs ------------------------
(***************************************************************************)
(* Theorems about the tabs of one installation, whatever the timers, the   *)
(* tabs, the durations, and the commands that users and the other device   *)
(* issue.                                                                  *)
(***************************************************************************)
EXTENDS TimerOwnership, TimerReducerProofs, FiniteSetTheorems,
        WellFoundedInduction

-----------------------------------------------------------------------------
(* Replays.  Induction over the keys goes by a least counterexample.       *)

LEMMA LeastKey ==
  ASSUME NEW T, T \subseteq Nat, T # {}
  PROVE  \E x \in T : \A y \in T : x <= y
<1>1. PICK x \in T : \A y \in T : ~ (<<y, x>> \in OpToRel(<, Nat))
  BY NatLessThanWellFounded, WFMin
<1>2. \A y \in T : ~ (y < x)
  BY <1>1 DEF OpToRel
<1> QED
  BY <1>2

\* f lists the states up to m.
Unfolds(f, seed, cmds, m) ==
  f = [n \in 0 .. m |-> IF n = 0 THEN seed ELSE ReplayStep(cmds, f[n - 1], n)]

LEMMA ReplayExists ==
  ASSUME NEW seed, NEW cmds, NEW m \in Nat
  PROVE  \E f : Unfolds(f, seed, cmds, m)
<1> DEFINE Is(f, k) == Unfolds(f, seed, cmds, k)
           T == {k \in Nat : ~ \E f : Is(f, k)}
<1>1. SUFFICES ASSUME T # {}
               PROVE  FALSE
  OBVIOUS
<1>2. PICK k \in T : \A j \in T : k <= j
  <2>1. T \subseteq Nat
    OBVIOUS
  <2> HIDE DEF T
  <2> QED
    BY <1>1, <2>1, LeastKey
<1>3. k \in Nat /\ ~ \E f : Is(f, k)
  OBVIOUS
<1>4. k # 0
  <2>1. Is([n \in 0 .. 0 |-> seed], 0)
    BY DEF Unfolds
  <2> QED
    BY <1>3, <2>1
<1>5. k - 1 \in Nat /\ k - 1 \notin T
  BY <1>2, <1>3, <1>4
<1>6. PICK g : Is(g, k - 1)
  BY <1>5
<1> DEFINE h == [n \in 0 .. k |-> IF n = k THEN ReplayStep(cmds, g[k - 1], k) ELSE g[n]]
<1>7. \A n \in 0 .. k - 1 : h[n] = g[n]
  BY <1>3, <1>4
<1>8. \A n \in 0 .. k : h[n] = IF n = 0 THEN seed ELSE ReplayStep(cmds, h[n - 1], n)
  <2> SUFFICES ASSUME NEW n \in 0 .. k
               PROVE  h[n] = IF n = 0 THEN seed ELSE ReplayStep(cmds, h[n - 1], n)
    OBVIOUS
  <2>1. CASE n = k
    <3>1. h[n] = ReplayStep(cmds, g[k - 1], k) /\ h[k - 1] = g[k - 1]
      BY <1>3, <1>4, <1>7, <2>1
    <3> QED
      BY <1>4, <2>1, <3>1
  <2>2. CASE n # k
    <3>1. n \in 0 .. k - 1 /\ (n # 0 => n - 1 \in 0 .. k - 1)
      BY <1>3, <2>2
    <3>2. g[n] = IF n = 0 THEN seed ELSE ReplayStep(cmds, g[n - 1], n)
      BY <1>6, <3>1 DEF Unfolds
    <3>3. h[n] = g[n] /\ (n # 0 => h[n - 1] = g[n - 1])
      BY <1>7, <3>1
    <3> HIDE DEF h
    <3> QED
      BY <3>2, <3>3
  <2> QED
    BY <2>1, <2>2
<1>9. h = [n \in 0 .. k |-> h[n]]
  OBVIOUS
<1> HIDE DEF h
<1>10. Is(h, k)
  BY <1>8, <1>9 DEF Unfolds
<1> QED
  BY <1>3, <1>10

LEMMA ReplayStates ==
  ASSUME NEW seed, NEW cmds
  PROVE  /\ Replay(seed, cmds)[0] = seed
         /\ \A n \in 1 .. MaxCommands :
              Replay(seed, cmds)[n] = ReplayStep(cmds, Replay(seed, cmds)[n - 1], n)
<1> DEFINE f == Replay(seed, cmds)
<1>1. MaxCommands \in Nat
  BY OwnershipAssumption
<1>2. \E g : Unfolds(g, seed, cmds, MaxCommands)
  BY <1>1, ReplayExists
<1>3. f = CHOOSE g : Unfolds(g, seed, cmds, MaxCommands)
  BY DEF Replay, Unfolds
<1>4. Unfolds(f, seed, cmds, MaxCommands)
  <2> HIDE DEF f
  <2> QED
    BY <1>2, <1>3
<1> HIDE DEF f
<1> QED
  BY <1>1, <1>4 DEF f, Unfolds

\* What every step keeps holds at the end: G[n] are the states allowed after n.
LEMMA ReplayStays ==
  ASSUME NEW seed, NEW cmds, NEW m \in 0 .. MaxCommands, NEW G,
         Replay(seed, cmds)[m] \in G[m],
         \A n \in (m + 1) .. MaxCommands : \A r \in G[n - 1] :
           ReplayStep(cmds, r, n) \in G[n]
  PROVE  \A n \in m .. MaxCommands : Replay(seed, cmds)[n] \in G[n]
<1> DEFINE T == {n \in m .. MaxCommands : Replay(seed, cmds)[n] \notin G[n]}
<1>1. SUFFICES ASSUME T # {}
               PROVE  FALSE
  OBVIOUS
<1>2. MaxCommands \in Nat
  BY OwnershipAssumption
<1>3. PICK k \in T : \A j \in T : k <= j
  <2>1. T \subseteq Nat
    BY <1>2
  <2> HIDE DEF T
  <2> QED
    BY <1>1, <2>1, LeastKey
<1>4. k # m /\ k \in (m + 1) .. MaxCommands /\ k - 1 \in m .. MaxCommands
  BY <1>2, <1>3
<1>5. Replay(seed, cmds)[k - 1] \in G[k - 1]
  BY <1>2, <1>3, <1>4
<1>6. Replay(seed, cmds)[k] = ReplayStep(cmds, Replay(seed, cmds)[k - 1], k)
  BY <1>2, <1>4, ReplayStates
<1> QED
  BY <1>3, <1>4, <1>5, <1>6

\* Commands with a key above m do not matter up to m.
LEMMA ReplayPrefix ==
  ASSUME NEW seed, NEW cmds, NEW more, NEW m \in 0 .. MaxCommands,
         \A n \in 1 .. m : Keyed(cmds, n) = Keyed(more, n)
  PROVE  Replay(seed, cmds)[m] = Replay(seed, more)[m]
<1> DEFINE T == {n \in 0 .. m : Replay(seed, cmds)[n] # Replay(seed, more)[n]}
<1>1. SUFFICES ASSUME T # {}
               PROVE  FALSE
  OBVIOUS
<1>2. MaxCommands \in Nat
  BY OwnershipAssumption
<1>3. PICK k \in T : \A j \in T : k <= j
  <2>1. T \subseteq Nat
    BY <1>2
  <2> HIDE DEF T
  <2> QED
    BY <1>1, <2>1, LeastKey
<1>4. k # 0
  BY <1>3, ReplayStates
<1>5. k \in 1 .. MaxCommands /\ k \in 1 .. m /\ k - 1 \in 0 .. m
  BY <1>2, <1>3, <1>4
<1>6. Replay(seed, cmds)[k - 1] = Replay(seed, more)[k - 1]
  BY <1>2, <1>3, <1>5
<1> QED
  BY <1>3, <1>5, <1>6, ReplayStates DEF ReplayStep

LEMMA StepIsApply ==
  ASSUME NEW r, NEW c
  PROVE  Step(r, c) = Apply(r, c)
  BY DEF Step

\* A step through the only command with its key, and one where there is none.
LEMMA ReplayStepIs ==
  ASSUME NEW cmds, NEW r, NEW n
  PROVE  /\ Keyed(cmds, n) = {} => ReplayStep(cmds, r, n) = r
         /\ \A c : Keyed(cmds, n) = {c} => ReplayStep(cmds, r, n) = Apply(r, c)
         /\ Keyed(cmds, n) # {} =>
              \E c \in cmds : c.id = n /\ ReplayStep(cmds, r, n) = Apply(r, c)
<1>1. CASE Keyed(cmds, n) = {}
  BY <1>1 DEF ReplayStep
<1>2. CASE Keyed(cmds, n) # {}
  <2> DEFINE d == CHOOSE c \in Keyed(cmds, n) : TRUE
  <2>1. d \in Keyed(cmds, n) /\ ReplayStep(cmds, r, n) = Apply(r, d)
    BY <1>2, StepIsApply DEF ReplayStep
  <2> HIDE DEF d
  <2> QED
    BY <1>2, <2>1 DEF Keyed
<1> QED
  BY <1>1, <1>2

-----------------------------------------------------------------------------
(* Commands.                                                               *)

Commands ==
  [id : 1 .. MaxCommands, device : Devices, timer : Timers, task : {None},
   kind : Kinds, phase : Phases, planned : Nat, at : 0 .. MaxNow, observed : Int,
   parent : (1 .. MaxCommands) \cup {None}]

\* What the reducer reads of a command.
Core(c) ==
  [id |-> c.id, timer |-> c.timer, task |-> c.task, kind |-> c.kind,
   phase |-> c.phase, planned |-> c.planned, at |-> c.at, observed |-> c.observed]

LEMMA CoreFields ==
  ASSUME NEW c
  PROVE  /\ Core(c).id = c.id /\ Core(c).timer = c.timer /\ Core(c).task = c.task
         /\ Core(c).kind = c.kind /\ Core(c).phase = c.phase
         /\ Core(c).planned = c.planned /\ Core(c).at = c.at
         /\ Core(c).observed = c.observed
  BY DEF Core

LEMMA CoreType ==
  ASSUME NEW c \in Commands
  PROVE  Core(c) \in Command /\ c.at \in Int
  BY OwnershipAssumption DEF Core, Command, Commands

LEMMA ApplyCore ==
  ASSUME NEW r, NEW c
  PROVE  Apply(r, c) = Apply(r, Core(c))
<1> DEFINE k == Core(c)
<1>1. /\ k.id = c.id /\ k.timer = c.timer /\ k.task = c.task /\ k.kind = c.kind
      /\ k.phase = c.phase /\ k.planned = c.planned /\ k.at = c.at
      /\ k.observed = c.observed
  BY CoreFields
<1> HIDE DEF k
<1> DEFINE d == AutoCompleteCurrent(r, c.at)
<1>2. CommandIntent(k) = CommandIntent(c) /\ StartedSession(k) = StartedSession(c)
  BY <1>1 DEF CommandIntent, StartedSession
<1>3. SupersedeActive(d, k) = SupersedeActive(d, c)
  BY <1>1 DEF SupersedeActive
<1>4. \A s, status, elapsed : Transition(s, k, status, elapsed) = Transition(s, c, status, elapsed)
  BY <1>1, <1>2 DEF Transition
<1>5. \A status, elapsed : Retake(d, k, status, elapsed) = Retake(d, c, status, elapsed)
  BY <1>1, <1>3, <1>4 DEF Retake
<1>6. Observed(d, k) = Observed(d, c)
  BY <1>1 DEF Observed
<1>7. Start(d, k) = Start(d, c)
  BY <1>1, <1>2, <1>3 DEF Start
<1>8. Activate(d, k) = Activate(d, c) /\ Terminate(d, k) = Terminate(d, c)
  BY <1>1, <1>5, <1>6 DEF Activate, Terminate
<1>9. Clear(d, k) = Clear(d, c) /\ Retarget(d, k) = Retarget(d, c)
  BY <1>1, <1>2 DEF Clear, Retarget
<1>10. Handle(d, k) = Handle(d, c)
  BY <1>1, <1>7, <1>8, <1>9 DEF Handle
<1> QED
  BY <1>1, <1>10 DEF Apply, k

\* Applying a command: the deadline, and then either what the command makes of
\* each session, or nothing.
LEMMA ApplyCases ==
  ASSUME NEW r \in Reduction, NEW c \in Commands
  PROVE  LET d == AutoCompleteCurrent(r, c.at)
             h == Apply(r, c)
         IN  /\ d \in Reduction /\ h \in Reduction
             /\ \/ /\ Becomes(d, h, Core(c))
                   /\ c.kind = "start" => ~ HistoryIdTaken(d, c.timer)
                \/ h.sessions = d.sessions /\ h.current = d.current
<1> DEFINE d == AutoCompleteCurrent(r, c.at)
<1>1. Core(c) \in Command /\ c.at \in Int
  BY CoreType
<1>2. d \in Reduction
  BY <1>1, AutoCompleteCurrentType
<1>3. Core(c).at = c.at /\ Core(c).kind = c.kind /\ Core(c).timer = c.timer
  BY CoreFields
<1>4. Apply(r, c) = Handle(d, Core(c))
  BY <1>3, ApplyCore DEF Apply
<1> HIDE DEF d
<1>5. Handle(d, Core(c)) \in Reduction
  BY <1>1, <1>2, HandleType
<1> QED
  BY <1>1, <1>2, <1>3, <1>4, <1>5, HandleCases DEF d

-----------------------------------------------------------------------------
(* The states that a replay can be in.                                     *)

LEMMA GoodApply ==
  ASSUME NEW S, NEW r \in Good(S), NEW c \in Commands, c.kind = "start" => c.timer \in S
  PROVE  Apply(r, c) \in Good(S)
<1>1. /\ Core(c) \in Command /\ c.at \in Int /\ Core(c).at = c.at
      /\ Core(c).kind = c.kind /\ Core(c).timer = c.timer
  BY CoreType, CoreFields
<1>2. Apply(r, c) = Handle(AutoCompleteCurrent(r, c.at), Core(c))
  BY <1>1, ApplyCore DEF Apply
<1> QED
  BY <1>1, <1>2, GoodDeadline, GoodHandle

LEMMA GoodReplay ==
  ASSUME NEW S, NEW seed \in Good(S), NEW cmds, cmds \subseteq Commands,
         \A c \in cmds : c.kind = "start" => c.timer \in S
  PROVE  \A n \in 0 .. MaxCommands : Replay(seed, cmds)[n] \in Good(S)
<1> DEFINE G == [n \in 0 .. MaxCommands |-> Good(S)]
<1>1. MaxCommands \in Nat
  BY OwnershipAssumption
<1>2. Replay(seed, cmds)[0] \in G[0]
  BY <1>1, ReplayStates
<1>3. ASSUME NEW n \in (0 + 1) .. MaxCommands, NEW r \in G[n - 1]
      PROVE  ReplayStep(cmds, r, n) \in G[n]
  <2>1. r \in Good(S) /\ n \in 0 .. MaxCommands
    BY <1>1
  <2>2. ReplayStep(cmds, r, n) \in Good(S)
    BY <2>1, ReplayStepIs, GoodApply
  <2> QED
    BY <2>1, <2>2
<1>4. \A n \in 0 .. MaxCommands : G[n] = Good(S)
  OBVIOUS
<1> HIDE DEF G
<1>5. \A n \in 0 .. MaxCommands : Replay(seed, cmds)[n] \in G[n]
  BY <1>1, <1>2, <1>3, ReplayStays
<1> QED
  BY <1>4, <1>5

LEMMA GoodFresh ==
  ASSUME NEW S
  PROVE  Fresh \in Good(S)
<1>1. Fresh \in Reduction
  BY DEF Fresh, Reduction, Outcomes
<1>2. \A t \in Timers : Fresh.sessions[t] = None
  BY DEF Fresh
<1>3. Fresh.current = None
  BY DEF Fresh
<1> QED
  BY <1>1, <1>2, <1>3 DEF Good, Presentable, IdsApart, Ends, CurrentProvenance, Exists

-----------------------------------------------------------------------------
(* The first invariant: what is stored is typed, the device's base is a    *)
(* pair that the boundary accepts and its timers were started at the       *)
(* server, what is shown is the replay of what is retained over it, and    *)
(* the timer of the owner record was started.                              *)

Started(cmds) == {t \in Timers : StartOf(t, cmds) # {}}

CommandsOK ==
  \A c \in log \cup queue :
    c \in Commands /\ c.id <= issued /\ (c.parent # None => c.parent <= issued)

Typed ==
  /\ now \in 0 .. MaxNow /\ issued \in 0 .. MaxCommands
  /\ CommandsOK
  /\ claim \subseteq {c.id : c \in queue}
  /\ owner \in Owner \cup {None}
  /\ screen \in [Tabs -> Snapshot \cup {None}]
  /\ open \subseteq Tabs /\ consumed \subseteq Timers

Based ==
  /\ PairOK(base.timer, base.rows)
  /\ Covered(base.timer, base.rows, Started(log))
  /\ shown = Unexpired(base, queue)

Owned == owner # None => owner.timer \in Started(log \cup queue)

Inv == Typed /\ Based /\ Owned

LEMMA StartedGrows ==
  ASSUME NEW a, NEW b, a \subseteq b
  PROVE  Started(a) \subseteq Started(b)
  BY DEF Started, StartOf

LEMMA CoveredGrows ==
  ASSUME NEW timer, NEW rows, NEW S, Covered(timer, rows, S), NEW T, S \subseteq T
  PROVE  Covered(timer, rows, T)
  BY DEF Covered

LEMMA StartsCount ==
  ASSUME NEW cmds, cmds \subseteq Commands
  PROVE  \A c \in cmds : c.kind = "start" => c.timer \in Started(cmds)
  BY DEF Started, StartOf, Commands

\* A replay over an accepted pair.
LEMMA UnexpiredGood ==
  ASSUME NEW b, PairOK(b.timer, b.rows), NEW S, Covered(b.timer, b.rows, S),
         NEW q, q \subseteq Commands, Started(q) \subseteq S
  PROVE  \A n \in 0 .. MaxCommands : Replay(Seed(b.timer, b.rows), q)[n] \in Good(S)
<1>1. Seed(b.timer, b.rows) \in Good(S)
  BY SeedGood
<1>2. \A c \in q : c.kind = "start" => c.timer \in S
  BY StartsCount
<1> QED
  BY <1>1, <1>2, GoodReplay

LEMMA ServedGood ==
  ASSUME NEW cmds, cmds \subseteq Commands
  PROVE  Served(cmds) \in Good(Started(cmds))
<1>1. \A c \in cmds : c.kind = "start" => c.timer \in Started(cmds)
  BY StartsCount
<1>2. MaxCommands \in 0 .. MaxCommands
  BY OwnershipAssumption
<1> QED
  BY <1>1, <1>2, GoodFresh, GoodReplay DEF Served

LEMMA ShownGood ==
  ASSUME Typed, Based
  PROVE  shown \in Good(Started(log \cup queue))
<1> DEFINE S == Started(log \cup queue)
<1>1. Started(log) \subseteq S /\ Started(queue) \subseteq S
  BY StartedGrows
<1> HIDE DEF S
<1>2. queue \subseteq Commands
  BY DEF Typed, CommandsOK
<1>3. Covered(base.timer, base.rows, S) /\ PairOK(base.timer, base.rows)
  BY <1>1, CoveredGrows DEF Based
<1>4. MaxCommands \in 0 .. MaxCommands
  BY OwnershipAssumption
<1>5. Unexpired(base, queue) \in Good(S)
  BY <1>1, <1>2, <1>3, <1>4, UnexpiredGood DEF Unexpired
<1> QED
  BY <1>5 DEF S, Based

\* The deadline changes neither which timer is the current one nor whether
\* there is one.
LEMMA ProjectedCurrent ==
  ASSUME NEW r \in Reduction, NEW at \in Int
  PROVE  /\ Projected(r, at) \in Reduction
         /\ Projected(r, at).current = r.current
         /\ Canonical(Projected(r, at)) = None <=> Canonical(r) = None
         /\ Canonical(Projected(r, at)) # None =>
              Canonical(Projected(r, at)).timer = Canonical(r).timer
<1> DEFINE d == Projected(r, at)
<1>1. d \in Reduction
  BY AutoCompleteCurrentType DEF Projected
<1>2. d.current = r.current
  BY DeadlinePointwise DEF Projected
<1>3. Exists(d, d.current) <=> Exists(r, r.current)
  <2>1. CASE r.current = None
    BY <1>2, <2>1 DEF Exists
  <2>2. CASE r.current # None
    <3>1. r.current \in Timers
      BY <2>2 DEF Reduction
    <3>2. d.sessions[r.current] = IF r.sessions[r.current] # None
                                  THEN AutoComplete(r.sessions[r.current], at)
                                  ELSE r.sessions[r.current]
      BY <3>1, DeadlinePointwise DEF Projected
    <3>3. r.sessions[r.current] # None => AutoComplete(r.sessions[r.current], at) # None
      BY <3>1, AutoCompleteType, ReducerAssumption DEF Reduction
    <3> HIDE DEF d
    <3> QED
      BY <1>2, <2>2, <3>2, <3>3 DEF Exists
  <2> QED
    BY <2>1, <2>2
<1> HIDE DEF d
<1>4. \A z \in {d, r} : Canonical(z) = None <=> ~ Exists(z, z.current)
  <2> SUFFICES ASSUME NEW z \in {d, r}, Exists(z, z.current)
               PROVE  Canonical(z) # None
    BY DEF Canonical
  <2>1. z \in Reduction
    BY <1>1
  <2> DEFINE s == z.sessions[z.current]
             snap == [timer |-> z.current, task |-> s.task, phase |-> s.phase,
                      status |-> s.status, planned |-> s.planned,
                      elapsed |-> Clamp(s.elapsed, 0, s.planned), anchor |-> s.anchor,
                      intent |-> s.intent]
  <2>2. Canonical(z) = snap
    BY DEF Canonical
  <2>3. z.current \in Timers /\ s \in Session
    BY <2>1 DEF Exists, Reduction
  <2> HIDE DEF s
  <2>4. Clamp(s.elapsed, 0, s.planned) \in Nat
    BY <2>3 DEF Clamp, Session
  <2>5. snap \in Snapshot
    BY <2>3, <2>4 DEF Snapshot, Session
  <2> QED
    BY <2>2, <2>5, BoundaryAssumption
<1>5. Canonical(d) # None => Canonical(d).timer = d.current /\ Canonical(r).timer = r.current
  BY <1>1, <1>3, <1>4, CanonicalFields
<1> QED
  BY <1>1, <1>2, <1>3, <1>4, <1>5 DEF d

\* The timer that a tab sees, with or without its deadline.
LEMMA ShownTimer ==
  ASSUME Typed, Based, NEW timer \in {Current, Canonical(shown)}
  PROVE  /\ timer \in Snapshot \cup {None}
         /\ timer # None => /\ timer.timer = shown.current
                            /\ timer.timer \in Timers
                            /\ shown.sessions[timer.timer] # None
                            /\ timer.timer \in Started(log \cup queue)
<1>1. shown \in Reduction /\ now \in Int
  BY ShownGood, OwnershipAssumption DEF Good, Typed
<1>2. Projected(shown, now) \in Reduction /\ Projected(shown, now).current = shown.current
  BY <1>1, ProjectedCurrent
<1>3. SUFFICES ASSUME timer # None
               PROVE  /\ timer \in Snapshot /\ timer.timer = shown.current
                      /\ timer.timer \in Timers
                      /\ shown.sessions[timer.timer] # None
  BY ShownGood DEF Good
<1>4. Canonical(shown) # None
  BY <1>1, <1>3, ProjectedCurrent DEF Current
<1>5. shown.sessions[shown.current] # None
  BY <1>4 DEF Canonical, Exists
<1>6. timer \in Snapshot /\ timer.timer = shown.current /\ shown.current \in Timers
  BY <1>1, <1>2, <1>3, CanonicalFields DEF Current
<1> QED
  BY <1>5, <1>6

LEMMA MeasuredType ==
  ASSUME NEW timer \in Snapshot \cup Session, NEW at \in Int
  PROVE  Measured(timer, at) \in Int
<1>1. timer.elapsed \in Nat /\ timer.planned \in Nat /\ timer.anchor \in Int
  BY DEF Snapshot, Session
<1> QED
  BY <1>1 DEF Measured, ElapsedAt, Clamp

LEMMA InheritedType ==
  ASSUME Typed, NEW t
  PROVE  Inherited(t) # None =>
           \E c \in queue : /\ c.timer = t /\ c.parent # None /\ Inherited(t) = c.id
                            /\ \A d \in queue : d.timer = t => d.id <= c.id
<1> DEFINE own == {c \in queue : c.timer = t}
           top == CHOOSE c \in own : \A d \in own : d.id <= c.id
<1>1. SUFFICES ASSUME NEW e \in own, e.parent # None, \A d \in own : d.id <= e.id,
                      Inherited(t) = top.id
               PROVE  \E c \in queue : /\ c.timer = t /\ c.parent # None /\ top.id = c.id
                                       /\ \A d \in queue : d.timer = t => d.id <= c.id
  BY DEF Inherited
<1>2. top \in own /\ \A d \in own : d.id <= top.id
  BY <1>1
<1> HIDE DEF top
<1>3. e.id \in Int /\ top.id \in Int
  BY <1>2 DEF Typed, CommandsOK, Commands
<1>4. top.id <= e.id /\ e.id <= top.id
  BY <1>1, <1>2
<1>5. top.id = e.id
  BY <1>3, <1>4
<1> QED
  BY <1>1, <1>5

LEMMA CmdType ==
  ASSUME Typed, NEW k \in {1, 2}, issued + k <= MaxCommands, NEW device \in Devices,
         NEW kind \in Kinds, NEW t \in Timers, NEW observed \in Int,
         NEW parent, parent # None => parent \in 1 .. (issued + k)
  PROVE  LET c == Cmd(k, device, kind, t, now, observed, parent)
         IN  /\ c \in Commands /\ c.id = issued + k /\ c.device = device
             /\ c.kind = kind /\ c.timer = t /\ c.at = now /\ c.parent = parent
             /\ c.parent # None => c.parent <= issued + k
<1>1. issued \in Nat /\ MaxCommands \in Nat /\ now \in 0 .. MaxNow
  BY OwnershipAssumption DEF Typed
<1>2. issued + k \in 1 .. MaxCommands
  BY <1>1
<1>3. parent \in (1 .. MaxCommands) \cup {None}
  BY <1>1, <1>2
<1>4. (IF t \in Breaks THEN "short_break" ELSE "focus") \in Phases /\ Planned \in Nat
  BY OwnershipAssumption DEF Phases
<1>5. parent # None => parent <= issued + k
  BY <1>1, <1>2
<1> QED
  BY <1>1, <1>2, <1>3, <1>4, <1>5 DEF Cmd, Commands

LEMMA SetSizes ==
  /\ \A c : Cardinality({c}) = 1
  /\ \A c, d : c # d => Cardinality({c, d}) = 2
<1>1. \A c : IsFiniteSet({c}) /\ Cardinality({c}) = 1
  BY FS_Singleton
<1>2. ASSUME NEW c, NEW d, c # d
      PROVE  Cardinality({c, d}) = 2
  <2>1. {c, d} = {c} \cup {d} /\ d \notin {c}
    BY <1>2
  <2>2. Cardinality({c} \cup {d}) = Cardinality({c}) + 1
    BY <1>1, <2>1, FS_AddElement
  <2> QED
    BY <1>1, <2>1, <2>2
<1> QED
  BY <1>1, <1>2

\* Retaining new commands keeps what does not concern the owner.
LEMMA RetainKeeps ==
  ASSUME Typed, Based, NEW cmds, Retain(cmds), cmds \subseteq Commands,
         issued' \in issued .. MaxCommands,
         \A c \in cmds : c.id <= issued' /\ (c.parent # None => c.parent <= issued'),
         now' = now, log' = log, claim' = claim, base' = base
  PROVE  /\ issued' \in 0 .. MaxCommands /\ CommandsOK' /\ Based'
         /\ claim' \subseteq {c.id : c \in queue'}
         /\ Started(log \cup queue) \cup Started(cmds) \subseteq Started(log' \cup queue')
<1>1. queue' = queue \cup cmds /\ shown' = Unexpired(base, queue')
  BY DEF Retain
<1>2. issued' \in 0 .. MaxCommands /\ issued <= issued' /\ issued \in Int
  BY OwnershipAssumption DEF Typed
<1>3. CommandsOK'
  <2> SUFFICES ASSUME NEW c \in log \cup queue \cup cmds
               PROVE  c \in Commands /\ c.id <= issued' /\ (c.parent # None => c.parent <= issued')
    BY <1>1 DEF CommandsOK
  <2>1. CASE c \in log \cup queue
    <3>1. c \in Commands /\ c.id <= issued /\ (c.parent # None => c.parent <= issued)
      BY <2>1 DEF Typed, CommandsOK
    <3>2. c.id \in Int /\ (c.parent # None => c.parent \in Int)
      BY <3>1 DEF Commands
    <3> QED
      BY <1>2, <3>1, <3>2
  <2> QED
    BY <2>1
<1>4. Based'
  BY <1>1 DEF Based
<1>5. claim' \subseteq {c.id : c \in queue'}
  BY <1>1 DEF Typed
<1>6. Started(log \cup queue) \cup Started(cmds) \subseteq Started(log' \cup queue')
  BY <1>1, StartedGrows
<1> QED
  BY <1>2, <1>3, <1>4, <1>5, <1>6

LEMMA IssueOne ==
  ASSUME Typed, NEW c, Issue({c})
  PROVE  Retain({c}) /\ issued + Cardinality({c}) <= MaxCommands /\ issued + 1 <= MaxCommands
<1>1. MaxCommands \in Nat /\ Reserve \in Nat /\ issued \in Nat
  BY OwnershipAssumption DEF Typed
<1> QED
  BY <1>1, SetSizes DEF Issue

LEMMA IssueTwo ==
  ASSUME Typed, NEW c, NEW d, c # d, Issue({c, d})
  PROVE  /\ Retain({c, d}) /\ issued + Cardinality({c, d}) <= MaxCommands
         /\ issued + 2 <= MaxCommands
<1>1. MaxCommands \in Nat /\ Reserve \in Nat /\ issued \in Nat
  BY OwnershipAssumption DEF Typed
<1>2. Cardinality({c, d}) = 2
  BY SetSizes
<1>3. issued + Cardinality({c, d}) <= MaxCommands - Reserve /\ Retain({c, d})
  BY DEF Issue
<1> QED
  BY <1>1, <1>2, <1>3

LEMMA RetainOne ==
  ASSUME Typed, Based, NEW c \in Commands, c.id = issued + 1,
         c.parent # None => c.parent <= issued + 1,
         Retain({c}), issued + Cardinality({c}) <= MaxCommands,
         now' = now, log' = log, claim' = claim, base' = base
  PROVE  /\ issued' = issued + 1 /\ issued' \in 0 .. MaxCommands
         /\ CommandsOK' /\ Based'
         /\ claim' \subseteq {d.id : d \in queue'}
         /\ Started(log \cup queue) \cup Started({c}) \subseteq Started(log' \cup queue')
<1>1. issued' = issued + 1 /\ issued + 1 <= MaxCommands
  BY SetSizes DEF Retain
<1>2. issued' \in issued .. MaxCommands
  BY <1>1, OwnershipAssumption DEF Typed
<1>3. \A d \in {c} : d.id <= issued' /\ (d.parent # None => d.parent <= issued')
  BY <1>1, <1>2
<1> QED
  BY <1>1, <1>2, <1>3, RetainKeeps

LEMMA RetainTwo ==
  ASSUME Typed, Based, NEW c \in Commands, NEW d \in Commands,
         c.id = issued + 1, d.id = issued + 2,
         c.parent # None => c.parent <= issued + 1, d.parent # None => d.parent <= issued + 2,
         Retain({c, d}), issued + Cardinality({c, d}) <= MaxCommands,
         now' = now, log' = log, claim' = claim, base' = base
  PROVE  /\ issued' = issued + 2 /\ issued' \in 0 .. MaxCommands
         /\ CommandsOK' /\ Based'
         /\ claim' \subseteq {e.id : e \in queue'}
         /\ Started(log \cup queue) \cup Started({c, d}) \subseteq Started(log' \cup queue')
<1>1. issued \in Nat
  BY DEF Typed
<1>2. c # d
  BY <1>1
<1>3. issued' = issued + 2 /\ issued + 2 <= MaxCommands
  BY <1>2, SetSizes DEF Retain
<1>4. issued' \in issued .. MaxCommands
  BY <1>1, <1>3, OwnershipAssumption
<1>5. \A e \in {c, d} : e.id <= issued' /\ (e.parent # None => e.parent <= issued')
  <2> SUFFICES ASSUME NEW e \in {c, d}
               PROVE  e.id <= issued' /\ (e.parent # None => e.parent <= issued')
    OBVIOUS
  <2>1. e.id <= issued + 2 /\ (e.parent # None => e.parent \in Int)
    BY <1>1 DEF Commands
  <2> QED
    BY <1>1, <1>3, <2>1
<1> QED
  BY <1>3, <1>4, <1>5, RetainKeeps

\* What a new timer is: it was not started, and it becomes started.
LEMMA StartsNew ==
  ASSUME NEW cmds, NEW c \in cmds, c \in Commands, c.kind = "start"
  PROVE  c.timer \in Started(cmds)
  BY DEF Started, StartOf, Commands

\* The command with which a user starts a timer.
LEMMA StartTimerIs ==
  ASSUME Inv, NEW tab \in Tabs, StartTimer(tab)
  PROVE  \E t \in Timers, c \in Commands :
           /\ t \notin Started(log \cup queue)
           /\ c = Cmd(1, "local", "start", t, now, 0, None)
           /\ c.id = issued + 1 /\ c.device = "local" /\ c.kind = "start" /\ c.timer = t
           /\ c.parent = None /\ c.at = now
           /\ Retain({c}) /\ issued + Cardinality({c}) <= MaxCommands
           /\ owner' \in {Leased(t, tab), [timer |-> t, tab |-> None, left |-> 0]}
<1>1. PICK t \in Timers \ Breaks :
        /\ ~ Used(t)
        /\ Issue({Cmd(1, "local", "start", t, now, 0, None)})
        /\ owner' \in {Leased(t, tab), [timer |-> t, tab |-> None, left |-> 0]}
  BY DEF StartTimer
<1> DEFINE c == Cmd(1, "local", "start", t, now, 0, None)
<1>2. Issue({c})
  BY <1>1
<1>3. Retain({c}) /\ issued + Cardinality({c}) <= MaxCommands /\ issued + 1 <= MaxCommands
  BY <1>2, IssueOne DEF Inv
<1>4. "start" \in Kinds /\ "local" \in Devices
  BY DEF Kinds, Devices
<1>5. /\ c \in Commands /\ c.id = issued + 1 /\ c.device = "local" /\ c.kind = "start"
      /\ c.timer = t /\ c.parent = None /\ c.at = now
  BY <1>1, <1>3, <1>4, CmdType DEF Inv
<1>6. t \notin Started(log \cup queue)
  BY <1>1 DEF Used, Started
<1> HIDE DEF c
<1> QED
  BY <1>1, <1>3, <1>5, <1>6 DEF c

LEMMA StartTimerKeeps ==
  ASSUME Inv, NEW tab \in Tabs, StartTimer(tab)
  PROVE  Inv'
<1>1. UNCHANGED <<now, log, claim, base, screen, open, consumed>>
  BY DEF StartTimer
<1>2. PICK t \in Timers, c \in Commands :
        /\ c.id = issued + 1 /\ c.kind = "start" /\ c.timer = t
        /\ c.parent = None /\ Retain({c}) /\ issued + Cardinality({c}) <= MaxCommands
        /\ owner' \in {Leased(t, tab), [timer |-> t, tab |-> None, left |-> 0]}
  BY StartTimerIs
<1>3. /\ issued' \in 0 .. MaxCommands /\ CommandsOK' /\ Based'
      /\ claim' \subseteq {d.id : d \in queue'}
      /\ Started({c}) \subseteq Started(log' \cup queue')
  BY <1>1, <1>2, RetainOne DEF Inv
<1>4. t \in Started({c})
  BY <1>2, StartsNew
<1>5. owner' \in Owner /\ owner'.timer = t
  BY <1>2, OwnershipAssumption DEF Leased, Owner
<1>6. Typed'
  BY <1>1, <1>3, <1>5 DEF Inv, Typed
<1>7. Owned'
  BY <1>3, <1>4, <1>5 DEF Owned
<1> QED
  BY <1>3, <1>6, <1>7 DEF Inv

LEMMA InheritedBounds ==
  ASSUME Typed, NEW t
  PROVE  Inherited(t) # None => Inherited(t) \in 1 .. issued
<1>1. issued \in Nat
  BY DEF Typed
<1> QED
  BY <1>1, InheritedType DEF Typed, CommandsOK, Commands

\* A command for the timer that is shown, which waits where an earlier one does.
Follows(c, t) ==
  /\ c \in Commands /\ c.id = issued + 1 /\ c.device = "local" /\ c.timer = t
  /\ c.at = now /\ c.parent = Inherited(t)
  /\ t \in Timers /\ t = shown.current /\ shown.sessions[t] # None
  /\ t \in Started(log \cup queue)

LEMMA FollowsCmd ==
  ASSUME Inv, NEW timer \in {Current, Canonical(shown)}, timer # None,
         NEW kind \in Kinds, NEW observed \in Int, issued + 1 <= MaxCommands,
         NEW c, c = Cmd(1, "local", kind, timer.timer, now, observed, Inherited(timer.timer))
  PROVE  Follows(c, timer.timer) /\ c.kind = kind
<1>1. /\ timer.timer \in Timers /\ timer.timer = shown.current
      /\ shown.sessions[timer.timer] # None
      /\ timer.timer \in Started(log \cup queue)
  BY ShownTimer DEF Inv
<1> DEFINE t == timer.timer
           p == Inherited(t)
<1>2. issued \in Nat
  BY DEF Inv, Typed
<1>3. p # None => p \in 1 .. (issued + 1)
  BY <1>2, InheritedBounds DEF Inv
<1>4. "local" \in Devices
  BY DEF Devices
<1> HIDE DEF t, p
<1>5. /\ c \in Commands /\ c.id = issued + 1 /\ c.device = "local" /\ c.kind = kind
      /\ c.timer = t /\ c.at = now /\ c.parent = p
  BY <1>1, <1>3, <1>4, CmdType DEF Inv, t, p
<1> QED
  BY <1>1, <1>5 DEF Follows, t, p

LEMMA FollowsParent ==
  ASSUME Inv, NEW c, NEW t, Follows(c, t)
  PROVE  c.parent # None => c.parent <= issued /\ c.parent <= issued + 1
<1>1. issued \in Nat
  BY DEF Inv, Typed
<1>2. c.parent # None => c.parent \in 1 .. issued
  BY InheritedBounds DEF Inv, Follows
<1> QED
  BY <1>1, <1>2

LEMMA PauseOrResumeIs ==
  ASSUME Inv, NEW tab \in Tabs, PauseOrResume(tab)
  PROVE  \E t, c : /\ Follows(c, t) /\ c.kind \in {"pause", "resume"}
                   /\ Retain({c}) /\ issued + Cardinality({c}) <= MaxCommands
<1> DEFINE kind == IF Current.status = "running" THEN "pause" ELSE "resume"
           t == Current.timer
           c == Cmd(1, "local", kind, t, now, Measured(Current, now), Inherited(t))
<1>1. Current # None /\ Issue({c})
  BY DEF PauseOrResume, Running
<1>2. Current \in Snapshot /\ now \in Int
  BY <1>1, ShownTimer, OwnershipAssumption DEF Inv, Typed
<1>3. Measured(Current, now) \in Int
  BY <1>2, MeasuredType
<1>4. kind \in Kinds /\ kind \in {"pause", "resume"}
  BY DEF Kinds
<1>5. Retain({c}) /\ issued + Cardinality({c}) <= MaxCommands /\ issued + 1 <= MaxCommands
  BY <1>1, IssueOne DEF Inv
<1> HIDE DEF kind
<1>6. Follows(c, t) /\ c.kind = kind
  BY <1>1, <1>3, <1>4, <1>5, FollowsCmd
<1> QED
  BY <1>4, <1>5, <1>6

LEMMA PauseOrResumeKeeps ==
  ASSUME Inv, NEW tab \in Tabs, PauseOrResume(tab)
  PROVE  Inv'
<1>1. UNCHANGED <<now, log, claim, base, owner, screen, open, consumed>>
  BY DEF PauseOrResume
<1>2. PICK t, c : /\ Follows(c, t)
                  /\ Retain({c}) /\ issued + Cardinality({c}) <= MaxCommands
  BY PauseOrResumeIs
<1>3. c \in Commands /\ c.id = issued + 1 /\ (c.parent # None => c.parent <= issued + 1)
  BY <1>2, FollowsParent DEF Follows
<1>4. /\ issued' \in 0 .. MaxCommands /\ CommandsOK' /\ Based'
      /\ claim' \subseteq {d.id : d \in queue'}
      /\ Started(log \cup queue) \subseteq Started(log' \cup queue')
  BY <1>1, <1>2, <1>3, RetainOne DEF Inv
<1>5. Typed'
  BY <1>1, <1>4 DEF Inv, Typed
<1>6. Owned'
  BY <1>1, <1>4 DEF Inv, Owned
<1> QED
  BY <1>4, <1>5, <1>6 DEF Inv

\* A command right behind the first new one.
Next2(c, d) ==
  /\ d \in Commands /\ d.id = issued + 2 /\ d.device = "local" /\ d.at = now
  /\ d.parent # None => d.parent = c.id

\* A timer is cancelled, if it is active, and cleared.
CancelAndClears(c, d, t) ==
  /\ Follows(c, t) /\ c.kind = "cancel"
  /\ Next2(c, d) /\ d.kind = "clear" /\ d.timer = t
  /\ (d.parent = None <=> c.parent = None)
  /\ Retain({c, d}) /\ issued + Cardinality({c, d}) <= MaxCommands

LEMMA CancelAndClearIs ==
  ASSUME Inv, NEW tab \in Tabs, CancelAndClear(tab)
  PROVE  \E t, c : \/ \E d : CancelAndClears(c, d, t)
                   \/ /\ Follows(c, t) /\ c.kind = "clear"
                      /\ Retain({c}) /\ issued + Cardinality({c}) <= MaxCommands
<1> DEFINE t == Current.timer
           p == Inherited(t)
           cancel == Cmd(1, "local", "cancel", t, now, Measured(Current, now), p)
           clear1 == Cmd(1, "local", "clear", t, now, 0, p)
           q == IF p = None THEN None ELSE cancel.id
           clear2 == Cmd(2, "local", "clear", t, now, 0, q)
<1>1. /\ Current # None
      /\ Issue(IF Running(Current) THEN {cancel, clear2} ELSE {clear1})
  BY DEF CancelAndClear
<1>2. Current \in Snapshot /\ now \in Int /\ issued \in Nat
  BY <1>1, ShownTimer, OwnershipAssumption DEF Inv, Typed
<1>3. Measured(Current, now) \in Int
  BY <1>2, MeasuredType
<1>4. "cancel" \in Kinds /\ "clear" \in Kinds /\ "local" \in Devices
  BY DEF Kinds, Devices
<1>5. CASE Running(Current)
  <2>1. cancel.id = issued + 1 /\ clear2.id = issued + 2
    BY DEF Cmd
  <2>2. cancel # clear2 /\ Issue({cancel, clear2})
    BY <1>1, <1>2, <1>5, <2>1
  <2>3. /\ Retain({cancel, clear2}) /\ issued + Cardinality({cancel, clear2}) <= MaxCommands
        /\ issued + 2 <= MaxCommands
    BY <2>2, IssueTwo DEF Inv
  <2>4. issued + 1 <= MaxCommands
    BY <1>2, <2>3, OwnershipAssumption
  <2>5. Follows(cancel, t) /\ cancel.kind = "cancel"
    BY <1>1, <1>3, <1>4, <2>4, FollowsCmd
  <2>6. cancel.parent = p /\ t \in Timers
    BY <2>5 DEF Follows
  <2>7. q # None => q = issued + 1 /\ q \in 1 .. (issued + 2)
    BY <1>2, <2>1
  <2>8. q = None <=> p = None
    <3>1. issued + 1 # None
      BY <1>2, ReducerAssumption
    <3> QED
      BY <2>1, <3>1
  <2> HIDE DEF q, p, t, cancel
  <2>9. /\ clear2 \in Commands /\ clear2.id = issued + 2 /\ clear2.device = "local"
        /\ clear2.kind = "clear" /\ clear2.timer = t /\ clear2.at = now
        /\ clear2.parent = q
    BY <1>4, <2>3, <2>6, <2>7, CmdType DEF Inv
  <2> HIDE DEF clear2
  <2>10. CancelAndClears(cancel, clear2, t)
    BY <2>1, <2>3, <2>5, <2>6, <2>7, <2>8, <2>9 DEF CancelAndClears, Next2
  <2> QED
    BY <2>10
<1>6. CASE ~ Running(Current)
  <2>1. Issue({clear1})
    BY <1>1, <1>6
  <2>2. /\ Retain({clear1}) /\ issued + Cardinality({clear1}) <= MaxCommands
        /\ issued + 1 <= MaxCommands
    BY <2>1, IssueOne DEF Inv
  <2>3. Follows(clear1, t) /\ clear1.kind = "clear"
    BY <1>1, <1>4, <2>2, FollowsCmd
  <2> QED
    BY <2>2, <2>3
<1> QED
  BY <1>5, <1>6

LEMMA CancelAndClearKeeps ==
  ASSUME Inv, NEW tab \in Tabs, CancelAndClear(tab)
  PROVE  Inv'
<1>1. UNCHANGED <<now, log, claim, base, screen, open, consumed>> /\ owner' = None
  BY DEF CancelAndClear
<1>2. /\ issued' \in 0 .. MaxCommands /\ CommandsOK' /\ Based'
      /\ claim' \subseteq {e.id : e \in queue'}
  <2>1. ASSUME NEW t, NEW c, NEW d, CancelAndClears(c, d, t)
        PROVE  /\ issued' \in 0 .. MaxCommands /\ CommandsOK' /\ Based'
               /\ claim' \subseteq {e.id : e \in queue'}
    <3>1. /\ c \in Commands /\ c.id = issued + 1 /\ (c.parent # None => c.parent <= issued + 1)
          /\ d \in Commands /\ d.id = issued + 2 /\ (d.parent # None => d.parent = c.id)
          /\ Retain({c, d}) /\ issued + Cardinality({c, d}) <= MaxCommands
      BY <2>1, FollowsParent DEF CancelAndClears, Follows, Next2
    <3>2. d.parent # None => d.parent <= issued + 2
      BY <3>1 DEF Inv, Typed
    <3> QED
      BY <1>1, <3>1, <3>2, RetainTwo DEF Inv
  <2>2. ASSUME NEW t, NEW c, Follows(c, t), Retain({c}),
               issued + Cardinality({c}) <= MaxCommands
        PROVE  /\ issued' \in 0 .. MaxCommands /\ CommandsOK' /\ Based'
               /\ claim' \subseteq {e.id : e \in queue'}
    <3>1. c \in Commands /\ c.id = issued + 1 /\ (c.parent # None => c.parent <= issued + 1)
      BY <2>2, FollowsParent DEF Follows
    <3> QED
      BY <1>1, <2>2, <3>1, RetainOne DEF Inv
  <2> QED
    BY <2>1, <2>2, CancelAndClearIs
<1>3. Typed'
  BY <1>1, <1>2 DEF Inv, Typed
<1>4. Owned'
  BY <1>1 DEF Owned
<1> QED
  BY <1>2, <1>3, <1>4 DEF Inv

\* A timer that a finish is admitted for: active, or ended by its deadline.
Unfinished(timer) == Running(timer) \/ NaturalEnd(timer)

\* A finish without a break, and one with the break d.
FinishesOnly(c, timer) ==
  /\ timer \in {Current, Canonical(shown)} /\ timer # None /\ Unfinished(timer)
  /\ Follows(c, timer.timer) /\ c.kind = "finish"
  /\ Retain({c}) /\ issued + Cardinality({c}) <= MaxCommands
  /\ owner' = None

FinishesWith(c, d, timer, tab) ==
  /\ timer \in {Current, Canonical(shown)} /\ timer # None /\ Unfinished(timer)
  /\ Follows(c, timer.timer) /\ c.kind = "finish"
  /\ Next2(c, d) /\ d.kind = "start" /\ d.parent = c.id /\ d.parent # None
  /\ d.timer \notin Started(log \cup queue)
  /\ Retain({c, d}) /\ issued + Cardinality({c, d}) <= MaxCommands
  /\ owner' = Leased(d.timer, tab)

LEMMA AddRetains ==
  ASSUME Typed, NEW cmds, NEW automatic \in BOOLEAN, Add(cmds, automatic),
         Cardinality(cmds) \in Nat
  PROVE  Retain(cmds) /\ issued + Cardinality(cmds) <= MaxCommands
<1>1. MaxCommands \in Nat /\ Reserve \in Nat /\ issued \in Nat
  BY OwnershipAssumption DEF Typed
<1>2. issued + Cardinality(cmds) <= MaxCommands - Reserve =>
        issued + Cardinality(cmds) <= MaxCommands
  BY <1>1
<1> QED
  BY <1>2 DEF Add, Issue

LEMMA CommitFinishIs ==
  ASSUME Inv, NEW tab \in Tabs, NEW automatic \in BOOLEAN,
         NEW timer \in {Current, Canonical(shown)}, timer # None, Unfinished(timer),
         CommitFinish(tab, timer, automatic)
  PROVE  \E c : FinishesOnly(c, timer) \/ \E d : FinishesWith(c, d, timer, tab)
<1> DEFINE c == FinishOf(timer)
<1>1. issued \in Nat /\ MaxCommands \in Nat
  BY OwnershipAssumption DEF Inv, Typed
<1>2. c = Cmd(1, "local", "finish", timer.timer, now, 0, Inherited(timer.timer))
  BY DEF FinishOf
<1>3. "finish" \in Kinds /\ "start" \in Kinds /\ "local" \in Devices
  BY DEF Kinds, Devices
<1>4. issued + 1 <= MaxCommands => Follows(c, timer.timer) /\ c.kind = "finish"
  BY <1>2, <1>3, FollowsCmd
<1>5. c.id = issued + 1
  BY <1>2 DEF Cmd
<1>6. CASE Add({c}, automatic) /\ owner' = None
  <2>1. Cardinality({c}) = 1
    BY SetSizes
  <2>2. Retain({c}) /\ issued + Cardinality({c}) <= MaxCommands
    BY <1>6, <2>1, AddRetains DEF Inv
  <2>3. issued + 1 <= MaxCommands
    BY <2>1, <2>2
  <2> HIDE DEF c
  <2> QED
    BY <1>4, <1>6, <2>2, <2>3 DEF FinishesOnly
<1>7. ASSUME NEW t \in Breaks, ~ Used(t), Add({c, BreakOf(c, t)}, automatic),
             owner' = Leased(t, tab)
      PROVE  \E d : FinishesWith(c, d, timer, tab)
  <2> DEFINE d == BreakOf(c, t)
  <2>1. d = Cmd(2, "local", "start", t, now, 0, c.id)
    BY DEF BreakOf
  <2>2. d.id = issued + 2
    BY <2>1 DEF Cmd
  <2>3. c # d
    BY <1>1, <1>5, <2>2
  <2>4. t \in Timers /\ t \notin Started(log \cup queue)
    BY <1>7, OwnershipAssumption DEF Used, Started
  <2>5. c.id \in 1 .. (issued + 2) /\ c.id # None
    BY <1>1, <1>5, ReducerAssumption
  <2> HIDE DEF c, d
  <2>6. Cardinality({c, d}) = 2
    BY <2>3, SetSizes
  <2>7. Retain({c, d}) /\ issued + Cardinality({c, d}) <= MaxCommands
    BY <1>7, <2>6, AddRetains DEF Inv, d
  <2>8. issued + 2 <= MaxCommands /\ issued + 1 <= MaxCommands
    BY <1>1, <2>6, <2>7
  <2>9. /\ d \in Commands /\ d.id = issued + 2 /\ d.device = "local" /\ d.kind = "start"
        /\ d.timer = t /\ d.at = now /\ d.parent = c.id
    BY <1>3, <2>1, <2>4, <2>5, <2>8, CmdType DEF Inv
  <2> QED
    BY <1>4, <1>7, <2>4, <2>5, <2>7, <2>8, <2>9 DEF FinishesWith, Next2
<1> QED
  BY <1>6, <1>7 DEF CommitFinish

LEMMA FinishIs ==
  ASSUME Inv, NEW tab \in Tabs, NEW automatic \in BOOLEAN, Finish(tab, automatic)
  PROVE  \E timer, c :
           /\ consumed' \in {consumed, consumed \cup {timer.timer}}
           /\ FinishesOnly(c, timer) \/ \E d : FinishesWith(c, d, timer, tab)
<1> DEFINE timer == Before(tab)
<1>1. /\ timer # None
      /\ \/ ActiveAdmitted(tab, timer, automatic) /\ consumed' = consumed
         \/ NaturalAdmitted(tab, timer) /\ Remember(timer)
      /\ CommitFinish(tab, timer, automatic)
  BY DEF Finish
<1>2. timer \in {Current, Canonical(shown)}
  BY DEF Before
<1> HIDE DEF timer
<1>3. Unfinished(timer) /\ consumed' \in {consumed, consumed \cup {timer.timer}}
  BY <1>1 DEF ActiveAdmitted, NaturalAdmitted, Remember, Unfinished
<1> QED
  BY <1>1, <1>2, <1>3, CommitFinishIs

LEMMA FinishKeeps ==
  ASSUME Inv, NEW tab \in Tabs, NEW automatic \in BOOLEAN, Finish(tab, automatic)
  PROVE  Inv'
<1>1. UNCHANGED <<now, log, claim, base, screen, open>>
  BY DEF Finish
<1>2. PICK timer, c :
        /\ consumed' \in {consumed, consumed \cup {timer.timer}}
        /\ FinishesOnly(c, timer) \/ \E d : FinishesWith(c, d, timer, tab)
  BY FinishIs
<1>3. Follows(c, timer.timer)
  BY <1>2 DEF FinishesOnly, FinishesWith
<1>4. c \in Commands /\ c.id = issued + 1 /\ (c.parent # None => c.parent <= issued + 1)
      /\ timer.timer \in Timers
  BY <1>3, FollowsParent DEF Follows
<1>5. /\ issued' \in 0 .. MaxCommands /\ CommandsOK' /\ Based'
      /\ claim' \subseteq {e.id : e \in queue'}
      /\ owner' \in Owner \cup {None} /\ Owned'
  <2>1. CASE FinishesOnly(c, timer)
    <3>1. /\ Retain({c}) /\ issued + Cardinality({c}) <= MaxCommands /\ owner' = None
      BY <2>1 DEF FinishesOnly
    <3> QED
      BY <1>1, <1>4, <3>1, RetainOne DEF Inv, Owned
  <2>2. ASSUME NEW d, FinishesWith(c, d, timer, tab)
        PROVE  /\ issued' \in 0 .. MaxCommands /\ CommandsOK' /\ Based'
               /\ claim' \subseteq {e.id : e \in queue'}
               /\ owner' \in Owner \cup {None} /\ Owned'
    <3>1. /\ Retain({c, d}) /\ issued + Cardinality({c, d}) <= MaxCommands
          /\ d \in Commands /\ d.id = issued + 2 /\ d.parent = c.id /\ d.kind = "start"
          /\ owner' = Leased(d.timer, tab)
      BY <2>2 DEF FinishesWith, Next2
    <3>2. d.parent <= issued + 2
      BY <1>4, <3>1 DEF Inv, Typed
    <3>3. /\ issued' \in 0 .. MaxCommands /\ CommandsOK' /\ Based'
          /\ claim' \subseteq {e.id : e \in queue'}
          /\ Started({c, d}) \subseteq Started(log' \cup queue')
      BY <1>1, <1>4, <3>1, <3>2, RetainTwo DEF Inv
    <3>4. d.timer \in Started({c, d})
      BY <3>1, StartsNew
    <3>5. owner' \in Owner /\ owner'.timer = d.timer
      BY <3>1, OwnershipAssumption DEF Leased, Owner, Commands
    <3> QED
      BY <3>3, <3>4, <3>5 DEF Owned
  <2> QED
    BY <1>2, <2>1, <2>2
<1>6. Typed'
  BY <1>1, <1>2, <1>4, <1>5 DEF Inv, Typed
<1> QED
  BY <1>5, <1>6 DEF Inv

-----------------------------------------------------------------------------
(* The owner record.                                                       *)

LEMMA PlannedOwnerIs ==
  ASSUME NEW b, NEW q, NEW replay \in Reduction, NEW o \in Owner \cup {None},
         NEW tab \in Tabs, NEW presented, now \in Int
  PROVE  LET p == PlannedOwner(b, q, replay, o, tab, presented)
         IN  /\ p \in Owner \cup {None}
             /\ p # None => Exists(replay, replay.current) /\ p.timer = replay.current
             /\ /\ o # None /\ o.left > 0 /\ Running(Canonical(replay))
                /\ Canonical(replay).timer = o.timer
                => p # None /\ p.timer = o.timer /\ p.tab = o.tab
<1> DEFINE p == PlannedOwner(b, q, replay, o, tab, presented)
           timer == Canonical(Projected(replay, now))
           unexpired == Canonical(replay)
<1>1. /\ unexpired # None => /\ Exists(replay, replay.current) /\ replay.current \in Timers
                             /\ unexpired.timer = replay.current
      /\ timer # None => unexpired # None /\ timer.timer = unexpired.timer
  BY CanonicalFields, ProjectedCurrent DEF Canonical
<1>2. CASE o = None
  <2>1. p = IF Running(timer) /\ CanClaimMissing(b, q, timer.timer)
            THEN Leased(timer.timer, tab) ELSE None
    BY <1>2 DEF PlannedOwner
  <2>2. Running(timer) => timer # None
    BY DEF Running
  <2> HIDE DEF p, timer, unexpired
  <2>3. p # None => p = Leased(timer.timer, tab) /\ timer # None
    BY <2>1, <2>2
  <2>4. p # None => p \in Owner /\ p.timer = timer.timer
    BY <1>1, <2>3, OwnershipAssumption DEF Leased, Owner
  <2> QED
    BY <1>1, <1>2, <2>3, <2>4 DEF p
<1>3. CASE o # None
  <2> DEFINE renewed == Renewed(o, o.timer, tab, presented)
  <2>1. p = IF ~ Running(unexpired) \/ o.timer # unexpired.timer THEN None ELSE renewed
    BY <1>3 DEF PlannedOwner
  <2>2. Running(unexpired) => unexpired # None
    BY DEF Running
  <2>3. o \in Owner /\ o.timer \in Timers
    BY <1>3 DEF Owner
  <2>4. renewed \in Owner /\ renewed.timer = o.timer /\ (o.left > 0 => renewed.tab = o.tab)
    <3>1. CASE OwnsLease(o, o.timer, tab)
      <4>1. Leased(o.timer, tab) \in Owner /\ Leased(o.timer, tab).timer = o.timer
            /\ Leased(o.timer, tab).tab = tab
        BY <2>3, OwnershipAssumption DEF Leased, Owner
      <4>2. o.left > 0 => o.tab = tab
        BY <2>3, <3>1, OwnershipAssumption DEF OwnsLease, Owner
      <4> QED
        BY <2>3, <4>1, <4>2 DEF Renewed
    <3>2. CASE ~ OwnsLease(o, o.timer, tab)
      BY <2>3, <3>2 DEF Renewed
    <3> QED
      BY <3>1, <3>2
  <2>5. renewed # None
    BY <2>4, OwnershipAssumption
  <2> HIDE DEF p, timer, unexpired, renewed
  <2>6. p # None => p = renewed /\ unexpired # None /\ o.timer = unexpired.timer
    BY <2>1, <2>2
  <2>7. /\ o # None /\ o.left > 0 /\ Running(unexpired) /\ unexpired.timer = o.timer
        => p # None /\ p.timer = o.timer /\ p.tab = o.tab
    BY <2>1, <2>4, <2>5
  <2> QED
    BY <1>1, <2>4, <2>6, <2>7 DEF p, unexpired
<1> QED
  BY <1>2, <1>3

LEMMA HeartbeatKeeps ==
  ASSUME Inv, NEW tab \in Tabs, Heartbeat(tab)
  PROVE  Inv'
<1>1. /\ UNCHANGED <<now, issued, log, queue, claim, base, shown, screen, open, consumed>>
      /\ owner' = PlannedOwner(base, queue, shown, owner, tab, screen[tab].timer)
  BY DEF Heartbeat
<1>2. shown \in Good(Started(log \cup queue)) /\ owner \in Owner \cup {None} /\ now \in Int
  BY ShownGood, OwnershipAssumption DEF Inv, Typed
<1>3. shown \in Reduction
  BY <1>2 DEF Good
<1>4. /\ owner' \in Owner \cup {None}
      /\ owner' # None => Exists(shown, shown.current) /\ owner'.timer = shown.current
  BY <1>1, <1>2, <1>3, PlannedOwnerIs
<1>5. Typed' /\ Based'
  BY <1>1, <1>4 DEF Inv, Typed, CommandsOK, Based
<1>6. Owned'
  <2> SUFFICES ASSUME owner' # None
               PROVE  owner'.timer \in Started(log \cup queue)
    BY <1>1 DEF Owned
  <2>1. shown.current \in Timers /\ shown.sessions[shown.current] # None
    BY <1>3, <1>4 DEF Exists, Reduction
  <2> QED
    BY <1>2, <1>4, <2>1 DEF Good
<1> QED
  BY <1>5, <1>6 DEF Inv

LEMMA CloseKeeps ==
  ASSUME Inv, NEW tab \in Tabs, Close(tab)
  PROVE  Inv'
<1>1. /\ UNCHANGED <<now, issued, log, queue, claim, base, shown, consumed>>
      /\ open' = open \ {tab} /\ screen' = [screen EXCEPT ![tab] = None]
      /\ \/ owner' = owner
         \/ owner # None /\ owner' = [owner EXCEPT !.left = 0]
  BY DEF Close
<1>2. owner \in Owner \cup {None} /\ 0 \in 0 .. Lease
  BY OwnershipAssumption DEF Inv, Typed
<1>3. \/ owner' = owner
      \/ owner # None /\ owner' \in Owner /\ owner'.timer = owner.timer
  BY <1>1, <1>2 DEF Owner
<1>4. screen' \in [Tabs -> Snapshot \cup {None}] /\ open' \subseteq Tabs
  BY <1>1 DEF Inv, Typed
<1>5. Typed' /\ Based'
  BY <1>1, <1>3, <1>4 DEF Inv, Typed, CommandsOK, Based
<1>6. Owned'
  BY <1>1, <1>3 DEF Inv, Owned
<1> QED
  BY <1>5, <1>6 DEF Inv

LEMMA SeeKeeps ==
  ASSUME Inv, NEW tab \in Tabs, See(tab)
  PROVE  Inv'
<1>1. /\ UNCHANGED <<now, issued, log, queue, claim, base, shown, owner, open, consumed>>
      /\ screen' = [screen EXCEPT ![tab] = Current]
  BY DEF See
<1>2. Current \in Snapshot \cup {None}
  BY ShownTimer DEF Inv
<1>3. screen' \in [Tabs -> Snapshot \cup {None}]
  BY <1>1, <1>2 DEF Inv, Typed
<1>4. Typed' /\ Based' /\ Owned'
  BY <1>1, <1>3 DEF Inv, Typed, CommandsOK, Based, Owned
<1> QED
  BY <1>4 DEF Inv

LEMMA TickKeeps ==
  ASSUME Inv, Tick
  PROVE  Inv'
<1>1. /\ UNCHANGED <<issued, log, queue, claim, base, shown, screen, open, consumed>>
      /\ now' = IF now < MaxNow THEN now + 1 ELSE now
      /\ owner' = IF owner = None \/ owner.left = 0 THEN owner
                  ELSE [owner EXCEPT !.left = @ - 1]
  BY DEF Tick
<1>2. now' \in 0 .. MaxNow
  BY <1>1, OwnershipAssumption DEF Inv, Typed
<1>3. owner' \in Owner \cup {None} /\ (owner' # None => owner # None /\ owner'.timer = owner.timer)
  <2>1. CASE owner = None \/ owner.left = 0
    BY <1>1, <2>1 DEF Inv, Typed
  <2>2. CASE owner # None /\ owner.left # 0
    <3>1. owner \in Owner /\ owner.left - 1 \in 0 .. Lease
      BY <2>2, OwnershipAssumption DEF Inv, Typed, Owner
    <3>2. owner' = [owner EXCEPT !.left = owner.left - 1]
      BY <1>1, <2>2
    <3> QED
      BY <2>2, <3>1, <3>2 DEF Owner
  <2> QED
    BY <2>1, <2>2
<1>4. Typed' /\ Based' /\ Owned'
  BY <1>1, <1>2, <1>3 DEF Inv, Typed, CommandsOK, Based, Owned
<1> QED
  BY <1>4 DEF Inv

LEMMA DeliverKeeps ==
  ASSUME Inv, Deliver
  PROVE  Inv'
<1>1. PICK batch \in SUBSET queue :
        /\ claim' = {c.id : c \in batch} /\ log' = log \cup batch
        /\ UNCHANGED <<now, issued, queue, base, shown, owner, screen, open, consumed>>
  BY DEF Deliver
<1>2. log' \cup queue' = log \cup queue
  BY <1>1
<1>3. CommandsOK' /\ claim' \subseteq {c.id : c \in queue'}
  BY <1>1, <1>2 DEF Inv, Typed, CommandsOK
<1>4. Started(log) \subseteq Started(log')
  BY <1>1, StartedGrows
<1>5. Based'
  BY <1>1, <1>4, CoveredGrows DEF Inv, Based
<1>6. Typed' /\ Owned'
  BY <1>1, <1>2, <1>3 DEF Inv, Typed, Owned
<1> QED
  BY <1>5, <1>6 DEF Inv

-----------------------------------------------------------------------------
(* The server, the other device, and what the device installs.             *)

LEMMA PeerCommandIs ==
  ASSUME Inv, NEW kind \in PeerKinds, NEW t \in Timers, PeerCommand(kind, t)
  PROVE  \E c \in Commands :
           /\ c.id = issued + 1 /\ c.device = "peer" /\ c.timer = t /\ c.kind = kind
           /\ c.parent = None
           /\ IF kind = "start" THEN t \notin Started(log \cup queue) ELSE t \in Started(log)
           /\ issued' = issued + 1 /\ issued + 1 <= MaxCommands
           /\ log' = log \cup {c}
           /\ UNCHANGED <<now, queue, claim, base, shown, owner, screen, open, consumed>>
<1> DEFINE st == Projected(Served(log), now)
           s == st.sessions[t]
           observed == IF kind = "start" THEN 0 ELSE Measured(s, now)
           c == Cmd(1, "peer", kind, t, now, observed, None)
<1>1. /\ issued < MaxCommands - Reserve
      /\ IF kind = "start" THEN ~ Used(t) ELSE s # None
      /\ issued' = issued + 1 /\ log' = log \cup {c}
      /\ UNCHANGED <<now, queue, claim, base, shown, owner, screen, open, consumed>>
  BY DEF PeerCommand
<1>2. now \in Int /\ issued \in Nat /\ issued + 1 <= MaxCommands
  BY <1>1, OwnershipAssumption DEF Inv, Typed
<1>3. st \in Good(Started(log))
  <2>1. log \subseteq Commands
    BY DEF Inv, Typed, CommandsOK
  <2> QED
    BY <1>2, <2>1, ServedGood, GoodDeadline DEF Projected
<1> HIDE DEF st
<1>4. s # None => s \in Session /\ t \in Started(log)
  BY <1>3 DEF Good, Reduction
<1> HIDE DEF s
<1>5. observed \in Int
  BY <1>1, <1>2, <1>4, MeasuredType
<1>6. kind \in Kinds /\ "peer" \in Devices
  BY OwnershipAssumption DEF Kinds, Devices
<1> HIDE DEF observed
<1>7. /\ c \in Commands /\ c.id = issued + 1 /\ c.device = "peer" /\ c.timer = t
      /\ c.kind = kind /\ c.parent = None
  BY <1>2, <1>5, <1>6, CmdType DEF Inv
<1>8. IF kind = "start" THEN t \notin Started(log \cup queue) ELSE t \in Started(log)
  BY <1>1, <1>4 DEF Used, Started
<1> QED
  BY <1>1, <1>2, <1>7, <1>8

LEMMA PeerCommandKeeps ==
  ASSUME Inv, NEW kind \in PeerKinds, NEW t \in Timers, PeerCommand(kind, t)
  PROVE  Inv'
<1>1. PICK c \in Commands :
        /\ c.id = issued + 1 /\ c.parent = None
        /\ issued' = issued + 1 /\ issued + 1 <= MaxCommands /\ log' = log \cup {c}
        /\ UNCHANGED <<now, queue, claim, base, shown, owner, screen, open, consumed>>
  BY PeerCommandIs
<1>2. issued' \in 0 .. MaxCommands /\ issued \in Nat
  BY <1>1, OwnershipAssumption DEF Inv, Typed
<1>3. CommandsOK'
  <2> SUFFICES ASSUME NEW d \in log \cup queue \cup {c}
               PROVE  d \in Commands /\ d.id <= issued' /\ (d.parent # None => d.parent <= issued')
    BY <1>1 DEF CommandsOK
  <2>1. CASE d \in log \cup queue
    <3>1. d \in Commands /\ d.id <= issued /\ (d.parent # None => d.parent <= issued)
      BY <2>1 DEF Inv, Typed, CommandsOK
    <3>2. d.id \in Int /\ (d.parent # None => d.parent \in Int)
      BY <3>1 DEF Commands
    <3> QED
      BY <1>1, <1>2, <3>1, <3>2
  <2>2. CASE d = c
    BY <1>1, <1>2, <2>2
  <2> QED
    BY <2>1, <2>2
<1>4. Started(log) \subseteq Started(log') /\ Started(log \cup queue) \subseteq Started(log' \cup queue')
  <2>1. log \subseteq log' /\ log \cup queue \subseteq log' \cup queue'
    BY <1>1
  <2> QED
    BY <2>1, StartedGrows
<1>5. Based'
  BY <1>1, <1>4, CoveredGrows DEF Inv, Based
<1>6. Typed' /\ Owned'
  BY <1>1, <1>2, <1>3, <1>4 DEF Inv, Typed, Owned
<1> QED
  BY <1>5, <1>6 DEF Inv

\* A retained command that stays keeps everything but a parent that is opened.
Stays(c, d) ==
  /\ d.id = c.id /\ d.device = c.device /\ d.timer = c.timer /\ d.kind = c.kind
  /\ d.parent \in {c.parent, None}

LEMMA InstallIs ==
  ASSUME Inv, NEW tab \in Tabs, Install(tab)
  PROVE  LET st == Projected(Served(log), now) IN
         /\ UNCHANGED <<now, issued, log, screen, open, consumed>>
         /\ claim' = {}
         /\ base'.timer = Canonical(st) /\ base'.rows = History(st)
         /\ st \in Good(Started(log))
         /\ shown' = Unexpired(base', queue')
         /\ owner' = PlannedOwner(base', queue', shown', owner, tab, None)
         /\ \A d \in queue' : d \in Commands /\ \E c \in queue : c.id \notin claim /\ Stays(c, d)
<1> DEFINE st == Projected(Served(log), now)
           opened == Opened(st)
           kept == {c \in queue : c.id \notin claim} \ DroppedBy(claim \ opened)
           After(c) == [c EXCEPT !.parent = IF @ \in opened THEN None ELSE @]
<1>1. /\ UNCHANGED <<now, issued, log, screen, open, consumed>>
      /\ claim' = {} /\ queue' = {After(c) : c \in kept}
      /\ base'.timer = Canonical(st) /\ base'.rows = History(st)
      /\ shown' = Unexpired(base', queue')
      /\ owner' = PlannedOwner(base', queue', shown', owner, tab, None)
  BY DEF Install
<1>2. st \in Good(Started(log))
  <2>1. log \subseteq Commands /\ now \in Int
    BY OwnershipAssumption DEF Inv, Typed, CommandsOK
  <2> QED
    BY <2>1, ServedGood, GoodDeadline DEF Projected
<1>3. kept \subseteq queue /\ \A c \in kept : c.id \notin claim
  OBVIOUS
<1> HIDE DEF st, opened, kept
<1>4. ASSUME NEW d \in queue'
      PROVE  d \in Commands /\ \E c \in queue : c.id \notin claim /\ Stays(c, d)
  <2>1. PICK c \in kept : d = After(c)
    BY <1>1
  <2>2. c \in Commands
    BY <1>3 DEF Inv, Typed, CommandsOK
  <2>3. d = [c EXCEPT !.parent = IF c.parent \in opened THEN None ELSE c.parent]
    BY <2>1
  <2>4. d \in Commands /\ Stays(c, d)
    BY <2>2, <2>3 DEF Commands, Stays
  <2> QED
    BY <1>3, <2>4
<1> QED
  BY <1>1, <1>2, <1>4 DEF st

LEMMA InstallKeeps ==
  ASSUME Inv, NEW tab \in Tabs, Install(tab)
  PROVE  Inv'
<1> DEFINE st == Projected(Served(log), now)
<1>1. /\ UNCHANGED <<now, issued, log, screen, open, consumed>>
      /\ claim' = {}
      /\ base'.timer = Canonical(st) /\ base'.rows = History(st)
      /\ st \in Good(Started(log))
      /\ shown' = Unexpired(base', queue')
      /\ owner' = PlannedOwner(base', queue', shown', owner, tab, None)
      /\ \A d \in queue' : d \in Commands /\ \E c \in queue : Stays(c, d)
  BY InstallIs
<1> HIDE DEF st
<1>2. CommandsOK'
  <2> SUFFICES ASSUME NEW d \in log \cup queue'
               PROVE  d \in Commands /\ d.id <= issued /\ (d.parent # None => d.parent <= issued)
    BY <1>1 DEF CommandsOK
  <2>1. CASE d \in log
    BY <2>1 DEF Inv, Typed, CommandsOK
  <2>2. CASE d \in queue'
    <3>1. PICK c \in queue : Stays(c, d)
      BY <1>1, <2>2
    <3>2. c.id <= issued /\ (c.parent # None => c.parent <= issued)
      BY DEF Inv, Typed, CommandsOK
    <3> QED
      BY <1>1, <2>2, <3>1, <3>2 DEF Stays
  <2> QED
    BY <2>1, <2>2
<1>3. Based'
  <2>1. /\ PairOK(base'.timer, base'.rows)
        /\ Covered(base'.timer, base'.rows, Started(log))
    BY <1>1, ProjectionOK
  <2> QED
    BY <1>1, <2>1 DEF Based
<1>4. shown' \in Good(Started(log \cup queue'))
  <2> DEFINE S == Started(log \cup queue')
  <2>1. Started(log) \subseteq S /\ Started(queue') \subseteq S
    BY StartedGrows
  <2> HIDE DEF S
  <2>2. queue' \subseteq Commands
    BY <1>1
  <2>3. Covered(base'.timer, base'.rows, S) /\ PairOK(base'.timer, base'.rows)
    BY <1>1, <1>3, <2>1, CoveredGrows DEF Based
  <2>4. MaxCommands \in 0 .. MaxCommands
    BY OwnershipAssumption
  <2>5. Unexpired(base', queue') \in Good(S)
    BY <2>1, <2>2, <2>3, <2>4, UnexpiredGood DEF Unexpired
  <2> QED
    BY <1>1, <2>5 DEF S
<1>5. shown' \in Reduction /\ owner \in Owner \cup {None} /\ now \in Int
  BY <1>4, OwnershipAssumption DEF Good, Inv, Typed
<1>6. /\ owner' \in Owner \cup {None}
      /\ owner' # None => Exists(shown', shown'.current) /\ owner'.timer = shown'.current
  BY <1>1, <1>5, PlannedOwnerIs
<1>7. Typed'
  BY <1>1, <1>2, <1>6 DEF Inv, Typed
<1>8. Owned'
  <2> SUFFICES ASSUME owner' # None
               PROVE  owner'.timer \in Started(log \cup queue')
    BY <1>1 DEF Owned
  <2>1. shown'.current \in Timers /\ shown'.sessions[shown'.current] # None
    BY <1>5, <1>6 DEF Exists, Reduction
  <2> QED
    BY <1>4, <1>6, <2>1 DEF Good
<1> QED
  BY <1>3, <1>7, <1>8 DEF Inv

-----------------------------------------------------------------------------
LEMMA NoCommands ==
  ASSUME NEW seed
  PROVE  Replay(seed, {})[MaxCommands] = seed
<1> DEFINE G == [n \in 0 .. MaxCommands |-> {seed}]
<1>1. MaxCommands \in Nat
  BY OwnershipAssumption
<1>2. \A n \in 0 .. MaxCommands : G[n] = {seed}
  OBVIOUS
<1> HIDE DEF G
<1>3. Replay(seed, {})[0] \in G[0]
  BY <1>1, <1>2, ReplayStates
<1>4. ASSUME NEW n \in (0 + 1) .. MaxCommands, NEW r \in G[n - 1]
      PROVE  ReplayStep({}, r, n) \in G[n]
  <2>1. Keyed({}, n) = {}
    BY DEF Keyed
  <2>2. n \in 0 .. MaxCommands /\ n - 1 \in 0 .. MaxCommands
    BY <1>1
  <2> QED
    BY <1>2, <2>1, <2>2, ReplayStepIs
<1>5. \A n \in 0 .. MaxCommands : Replay(seed, {})[n] \in G[n]
  BY <1>1, <1>3, <1>4, ReplayStays
<1> QED
  BY <1>1, <1>2, <1>5

LEMMA InitInv ==
  Init => Inv
<1> SUFFICES ASSUME Init
             PROVE  Inv
  OBVIOUS
<1>1. Typed
  BY OwnershipAssumption DEF Init, Typed, CommandsOK
<1>2. base.timer = None /\ base.rows = {}
  BY DEF Init
<1>3. PairOK(None, {}) /\ Covered(None, {}, Started(log))
  BY DEF PairOK, Covered, ValidPair, ValidHistory, NoAlias
<1>4. Seed(None, {}) = Fresh
  <2>1. \A t \in Timers : SeedSession(None, {}, t) = None
    BY DEF SeedSession
  <2> QED
    BY <2>1 DEF Seed, Fresh
<1>5. Unexpired(base, queue) = Fresh
  BY <1>2, <1>4, NoCommands DEF Init, Unexpired
<1>6. Based /\ Owned
  BY <1>2, <1>3, <1>5 DEF Based, Owned, Init
<1> QED
  BY <1>1, <1>6 DEF Inv

LEMMA NextInv ==
  Inv /\ [Next]_vars => Inv'
<1> SUFFICES ASSUME Inv, [Next]_vars
             PROVE  Inv'
  OBVIOUS
<1>1. CASE UNCHANGED vars
  BY <1>1 DEF vars, Inv, Typed, CommandsOK, Based, Owned
<1>2. ASSUME NEW tab \in Tabs, Heartbeat(tab) \/ Close(tab) \/ See(tab)
      PROVE  Inv'
  BY <1>2, HeartbeatKeeps, CloseKeeps, SeeKeeps
<1>3. ASSUME NEW tab \in Tabs, StartTimer(tab) \/ PauseOrResume(tab) \/ CancelAndClear(tab)
      PROVE  Inv'
  BY <1>3, StartTimerKeeps, PauseOrResumeKeeps, CancelAndClearKeeps
<1>4. ASSUME NEW tab \in Tabs, NEW automatic \in BOOLEAN, Finish(tab, automatic)
      PROVE  Inv'
  BY <1>4, FinishKeeps
<1>5. ASSUME NEW tab \in Tabs, Install(tab)
      PROVE  Inv'
  BY <1>5, InstallKeeps
<1>6. ASSUME NEW kind \in PeerKinds, NEW t \in Timers, PeerCommand(kind, t)
      PROVE  Inv'
  BY <1>6, PeerCommandKeeps
<1>7. CASE Deliver \/ Tick
  BY <1>7, DeliverKeeps, TickKeeps
<1> QED
  BY <1>1, <1>2, <1>3, <1>4, <1>5, <1>6, <1>7 DEF Next

LEMMA Invariance ==
  Spec => []Inv
  BY InitInv, NextInv, PTL DEF Spec

LEMMA InvConsistent ==
  Inv => Consistent
<1> SUFFICES ASSUME Inv
             PROVE  Consistent
  OBVIOUS
<1>1. shown \in Good(Started(log \cup queue)) /\ now \in Int
  BY ShownGood, OwnershipAssumption DEF Inv, Typed
<1>2. TypeOK
  <2>1. ASSUME NEW c \in log \cup queue
        PROVE  CommandOK(c)
    <3>1. c \in Commands /\ c.id <= issued /\ (c.parent # None => c.parent <= issued)
      BY DEF Inv, Typed, CommandsOK
    <3>2. issued \in Nat /\ MaxCommands \in Nat
      BY OwnershipAssumption DEF Inv, Typed
    <3> QED
      BY <3>1, <3>2 DEF Commands, CommandOK
  <2> QED
    BY <1>1, <2>1 DEF TypeOK, Inv, Typed, Based, PairOK, Good
<1>3. ASSUME NEW st \in {shown, Projected(shown, now)}
      PROVE  ValidPair(Canonical(st), History(st))
  <2>1. st \in Good(Started(log \cup queue))
    BY <1>1, GoodDeadline DEF Projected
  <2> QED
    BY <2>1, ReadableValid DEF Good
<1> QED
  BY <1>2, <1>3 DEF Consistent, Readable

(* Whatever users, the other device and the server do, the stored data is  *)
(* well-typed, and the retained commands replayed over the installed       *)
(* snapshot, with and without the deadline, give a timer and a history     *)
(* that the boundary of timer/workspace.rs reads again.                    *)
THEOREM ConsistentHolds ==
  Spec => []Consistent
  BY Invariance, InvConsistent, PTL

-----------------------------------------------------------------------------
(* What new commands make of the state that is shown.                      *)

LEMMA ReplayEnd ==
  ASSUME NEW seed, NEW cmds, NEW m \in 0 .. MaxCommands,
         \A n \in (m + 1) .. MaxCommands : Keyed(cmds, n) = {}
  PROVE  Replay(seed, cmds)[MaxCommands] = Replay(seed, cmds)[m]
<1> DEFINE last == Replay(seed, cmds)[m]
           G == [n \in 0 .. MaxCommands |-> {last}]
<1>1. MaxCommands \in Nat
  BY OwnershipAssumption
<1>2. \A n \in 0 .. MaxCommands : G[n] = {last}
  OBVIOUS
<1> HIDE DEF G
<1>3. Replay(seed, cmds)[m] \in G[m]
  BY <1>2
<1>4. ASSUME NEW n \in (m + 1) .. MaxCommands, NEW r \in G[n - 1]
      PROVE  ReplayStep(cmds, r, n) \in G[n]
  <2>1. n \in 0 .. MaxCommands /\ n - 1 \in 0 .. MaxCommands
    BY <1>1
  <2>2. ReplayStep(cmds, r, n) = r
    BY ReplayStepIs
  <2> QED
    BY <1>2, <2>1, <2>2
<1>5. \A n \in m .. MaxCommands : Replay(seed, cmds)[n] \in G[n]
  BY <1>3, <1>4, ReplayStays
<1>6. MaxCommands \in m .. MaxCommands
  BY <1>1
<1> QED
  BY <1>1, <1>2, <1>5, <1>6

LEMMA ReplayAppend ==
  ASSUME NEW b, NEW q, NEW m \in 0 .. MaxCommands, \A d \in q : d.id \in 1 .. m,
         NEW c, c.id = m + 1, m + 1 <= MaxCommands
  PROVE  Unexpired(b, q \cup {c}) = Apply(Unexpired(b, q), c)
<1> DEFINE seed == Seed(b.timer, b.rows)
           p == q \cup {c}
<1>1. MaxCommands \in Nat /\ m \in Nat
  BY OwnershipAssumption
<1>2. \A n \in 1 .. m : Keyed(q, n) = Keyed(p, n)
  BY <1>1 DEF Keyed
<1>3. Keyed(p, m + 1) = {c}
  BY <1>1 DEF Keyed
<1>4. \A n \in (m + 1) .. MaxCommands : Keyed(q, n) = {}
  BY <1>1 DEF Keyed
<1>5. \A n \in (m + 2) .. MaxCommands : Keyed(p, n) = {}
  BY <1>1 DEF Keyed
<1> HIDE DEF p, seed
<1>6. Replay(seed, q)[m] = Replay(seed, p)[m]
  BY <1>2, ReplayPrefix
<1>7. Replay(seed, q)[MaxCommands] = Replay(seed, q)[m]
  BY <1>4, ReplayEnd
<1>8. m + 1 \in 0 .. MaxCommands /\ m + 1 \in 1 .. MaxCommands /\ (m + 1) + 1 = m + 2
      /\ (m + 1) - 1 = m
  BY <1>1
<1>9. Replay(seed, p)[MaxCommands] = Replay(seed, p)[m + 1]
  BY <1>5, <1>8, ReplayEnd
<1>10. Replay(seed, p)[m + 1] = ReplayStep(p, Replay(seed, p)[m], m + 1)
  BY <1>8, ReplayStates
<1>11. ReplayStep(p, Replay(seed, p)[m], m + 1) = Apply(Replay(seed, p)[m], c)
  BY <1>3, ReplayStepIs
<1> QED
  BY <1>6, <1>7, <1>9, <1>10, <1>11 DEF Unexpired, p, seed

\* In a good state every command is applied.
LEMMA GoodBecomes ==
  ASSUME NEW S, NEW r \in Good(S), NEW c \in Commands
  PROVE  LET d == AutoCompleteCurrent(r, c.at)
             h == Apply(r, c)
         IN  /\ d \in Good(S) /\ d \in Reduction /\ h \in Good(S \cup {c.timer})
             /\ Core(c) \in Command /\ Becomes(d, h, Core(c))
             /\ d.current = r.current
             /\ \A t \in Timers : r.sessions[t] # None => d.sessions[t] # None
<1> DEFINE d == AutoCompleteCurrent(r, c.at)
           h == Apply(r, c)
<1>1. Core(c) \in Command /\ c.at \in Int
  BY CoreType
<1>2. d \in Good(S) /\ d \in Reduction
  BY <1>1, GoodDeadline DEF Good
<1>3. h = Handle(d, Core(c)) /\ Core(c).timer = c.timer /\ c.timer \in Timers
  BY CoreFields, ApplyCore DEF Apply, Commands
<1>4. r \in Good(S \cup {c.timer})
  BY DEF Good
<1>5. h \in Good(S \cup {c.timer})
  BY <1>4, GoodApply
<1>6. /\ d.current = r.current
      /\ \A t \in Timers : d.sessions[t] = IF r.current = t /\ r.sessions[t] # None
                                           THEN AutoComplete(r.sessions[t], c.at)
                                           ELSE r.sessions[t]
  BY <1>1, DeadlinePointwise DEF Good
<1> HIDE DEF d, h
<1>7. Becomes(d, h, Core(c))
  BY <1>1, <1>2, <1>3, GoodIdFree, HandlePointwise
<1>8. ASSUME NEW t \in Timers, r.sessions[t] # None
      PROVE  d.sessions[t] # None
  <2>1. r.sessions[t] \in Session
    BY <1>8 DEF Good, Reduction
  <2>2. AutoComplete(r.sessions[t], c.at) # None
    BY <1>1, <2>1, CompletedFields, ReducerAssumption
  <2> QED
    BY <1>6, <1>8, <2>2
<1> QED
  BY <1>1, <1>2, <1>5, <1>6, <1>7, <1>8 DEF d, h

\* A command that takes the timer makes it the current one; clearing the
\* current timer leaves none.
LEMMA CurrentIs ==
  ASSUME NEW S, NEW r \in Good(S), NEW c \in Commands
  PROVE  LET h == Apply(r, c) IN
         /\ c.kind = "start" => h.current = c.timer
         /\ r.sessions[c.timer] # None =>
              /\ c.kind \in {"finish", "cancel"} => h.current = c.timer
              /\ c.kind = "clear" /\ r.current = c.timer => h.current = None
              /\ h.sessions[c.timer] # None
              /\ c.kind = "finish" => h.sessions[c.timer].status = "completed"
              /\ c.kind = "finish" => h.sessions[c.timer].intent = CommandIntent(Core(c))
<1> DEFINE d == AutoCompleteCurrent(r, c.at)
           h == Apply(r, c)
           k == Core(c)
<1>1. /\ d \in Reduction /\ Core(c) \in Command /\ Becomes(d, h, k) /\ d.current = r.current
      /\ c.timer \in Timers
      /\ r.sessions[c.timer] # None => d.sessions[c.timer] # None
  BY GoodBecomes DEF Commands
<1>2. k.kind = c.kind /\ k.timer = c.timer
  BY CoreFields
<1> HIDE DEF d, h, k
<1>3. /\ h.current = CurrentAfter(d.sessions[c.timer], r.current, k)
      /\ h.sessions[c.timer] = SessionAfter(d, c.timer, k)
  BY <1>1, <1>2 DEF Becomes
<1>4. r.sessions[c.timer] # None => h.sessions[c.timer] # None
  BY <1>1, <1>3, SessionStays, ReducerAssumption DEF k
<1>5. ASSUME r.sessions[c.timer] # None, c.kind = "finish"
      PROVE  /\ h.sessions[c.timer].status = "completed"
             /\ h.sessions[c.timer].intent = CommandIntent(k)
  <2>1. d.sessions[c.timer] \in Session
    BY <1>1, <1>5 DEF Reduction
  <2> DEFINE s == d.sessions[c.timer]
             z == Transition(s, k, "completed", s.planned)
  <2>2. h.sessions[c.timer] = z
    BY <1>1, <1>2, <1>3, <1>5 DEF SessionAfter, TargetAfter
  <2>3. s.planned \in Nat /\ "completed" \in Active \cup Ended /\ k.kind \in Lifecycle
    BY <1>2, <1>5, <2>1 DEF Session, Ended, Lifecycle
  <2>4. z.status = "completed" /\ z.intent = CommandIntent(k)
    BY <1>1, <2>1, <2>3, TransitionFields DEF k
  <2> QED
    BY <2>2, <2>4
<1> QED
  BY <1>1, <1>2, <1>3, <1>4, <1>5 DEF h, k, CurrentAfter, Takes

LEMMA RetainedKeys ==
  ASSUME Inv
  PROVE  issued \in 0 .. MaxCommands /\ \A d \in queue : d.id \in 1 .. issued
<1>1. issued \in 0 .. MaxCommands /\ MaxCommands \in Nat
  BY OwnershipAssumption DEF Inv, Typed
<1> QED
  BY <1>1 DEF Inv, Typed, CommandsOK, Commands

LEMMA OneShown ==
  ASSUME Inv, NEW c \in Commands, c.id = issued + 1, Retain({c})
  PROVE  shown' = Apply(shown, c)
<1>1. issued + 1 <= MaxCommands
  BY OwnershipAssumption DEF Commands
<1> QED
  BY <1>1, RetainedKeys, ReplayAppend DEF Retain, Inv, Based

LEMMA TwoShown ==
  ASSUME Inv, NEW c \in Commands, c.id = issued + 1,
         NEW d \in Commands, d.id = issued + 2, Retain({c, d})
  PROVE  shown' = Apply(Apply(shown, c), d)
<1>1. issued \in Nat /\ issued + 1 \in 0 .. MaxCommands /\ issued + 2 <= MaxCommands
      /\ (issued + 1) + 1 = issued + 2
  BY RetainedKeys, OwnershipAssumption DEF Commands
<1>2. Unexpired(base, queue \cup {c}) = Apply(shown, c)
  BY <1>1, RetainedKeys, ReplayAppend DEF Inv, Based
<1>3. \A e \in queue \cup {c} : e.id \in 1 .. (issued + 1)
  BY <1>1, RetainedKeys
<1>4. Unexpired(base, (queue \cup {c}) \cup {d}) = Apply(Unexpired(base, queue \cup {c}), d)
  BY <1>1, <1>3, ReplayAppend
<1>5. (queue \cup {c}) \cup {d} = queue \cup {c, d}
  OBVIOUS
<1> QED
  BY <1>2, <1>4, <1>5 DEF Retain

-----------------------------------------------------------------------------
(* The lease.                                                              *)

\* The owner before the step, and what it may lose the timer to.
Held(o) == owner = o /\ o # None /\ o.left > 0

Honoured(o) == Keeps(o) \/ ~ StillActive(o.timer)

LEMMA NotCurrent ==
  ASSUME NEW st \in Reduction, NEW t, st.current # t
  PROVE  ~ (Running(Canonical(st)) /\ Canonical(st).timer = t)
  BY CanonicalFields DEF Running

\* The state that a step leads to shows the timer as over.
LEMMA OverHonours ==
  ASSUME NEW o, ~ (Running(Canonical(shown')) /\ Canonical(shown').timer = o.timer)
  PROVE  Honoured(o)'
<1>1. ~ StillActive(o.timer)'
  BY DEF StillActive, Running
<1> QED
  BY <1>1 DEF Honoured

LEMMA PlanHonours ==
  ASSUME NEW o, Held(o), owner \in Owner, now \in Int, shown' \in Reduction,
         NEW tab \in Tabs, NEW presented, NEW b, NEW q, now' = now,
         owner' = PlannedOwner(b, q, shown', owner, tab, presented)
  PROVE  Honoured(o)'
<1>1. Running(Canonical(shown')) /\ Canonical(shown').timer = o.timer
        => owner' # None /\ owner'.timer = o.timer /\ owner'.tab = o.tab
  BY PlannedOwnerIs DEF Held
<1>2. StillActive(o.timer)' => Running(Canonical(shown')) /\ Canonical(shown').timer = o.timer
  BY DEF StillActive, Running
<1> QED
  BY <1>1, <1>2 DEF Honoured, Keeps

LEMMA StartHonours ==
  ASSUME Inv, NEW o, Held(o), NEW tab \in Tabs, StartTimer(tab)
  PROVE  Honoured(o)'
<1>1. PICK t \in Timers, c \in Commands :
        /\ t \notin Started(log \cup queue)
        /\ c.id = issued + 1 /\ c.kind = "start" /\ c.timer = t /\ Retain({c})
  BY StartTimerIs
<1>2. o.timer # t
  BY <1>1 DEF Inv, Owned, Held
<1>3. shown' = Apply(shown, c) /\ shown \in Good(Started(log \cup queue))
  BY <1>1, OneShown, ShownGood DEF Inv
<1>4. shown' \in Good(Started(log \cup queue) \cup {t})
  BY <1>1, <1>3, GoodBecomes
<1>5. shown' \in Reduction /\ shown'.current = t
  BY <1>1, <1>3, <1>4, CurrentIs DEF Good
<1> QED
  BY <1>2, <1>5, NotCurrent, OverHonours

LEMMA CancelHonours ==
  ASSUME Inv, NEW o, Held(o), NEW tab \in Tabs, CancelAndClear(tab)
  PROVE  Honoured(o)'
<1> DEFINE S == Started(log \cup queue)
<1>1. shown \in Good(S)
  BY ShownGood DEF Inv
<1> HIDE DEF S
<1>2. ASSUME NEW t, NEW c, NEW d, CancelAndClears(c, d, t)
      PROVE  shown' \in Reduction /\ shown'.current = None
  <2>1. /\ c \in Commands /\ c.id = issued + 1 /\ c.timer = t /\ c.kind = "cancel"
        /\ d \in Commands /\ d.id = issued + 2 /\ d.timer = t /\ d.kind = "clear"
        /\ Retain({c, d}) /\ shown.sessions[t] # None
    BY <1>2 DEF CancelAndClears, Follows, Next2
  <2> DEFINE m == Apply(shown, c)
  <2>2. m \in Good(S \cup {t}) /\ m.current = t /\ m.sessions[t] # None
    BY <1>1, <2>1, GoodBecomes, CurrentIs
  <2>3. shown' = Apply(m, d)
    BY <2>1, TwoShown
  <2> HIDE DEF m
  <2>4. shown' \in Good((S \cup {t}) \cup {t}) /\ shown'.current = None
    BY <2>1, <2>2, <2>3, GoodBecomes, CurrentIs
  <2> QED
    BY <2>4 DEF Good
<1>3. ASSUME NEW t, NEW c, Follows(c, t), c.kind = "clear", Retain({c})
      PROVE  shown' \in Reduction /\ shown'.current = None
  <2>1. /\ c \in Commands /\ c.id = issued + 1 /\ c.timer = t
        /\ shown.sessions[t] # None /\ shown.current = t
    BY <1>3 DEF Follows
  <2>2. shown' = Apply(shown, c)
    BY <1>3, <2>1, OneShown
  <2>3. shown' \in Good(S \cup {t}) /\ shown'.current = None
    BY <1>1, <1>3, <2>1, <2>2, GoodBecomes, CurrentIs
  <2> QED
    BY <2>3 DEF Good
<1>4. shown' \in Reduction /\ shown'.current = None
  BY <1>2, <1>3, CancelAndClearIs
<1>5. o.timer \in Timers /\ o.timer # None
  BY ReducerAssumption DEF Held, Inv, Typed, Owner
<1> QED
  BY <1>4, <1>5, NotCurrent, OverHonours

LEMMA FinishHonours ==
  ASSUME Inv, NEW o, Held(o), NEW tab \in Tabs, NEW automatic \in BOOLEAN,
         Finish(tab, automatic)
  PROVE  Honoured(o)'
<1> DEFINE S == Started(log \cup queue)
<1>1. shown \in Good(S) /\ o.timer \in S
  BY ShownGood DEF Inv, Owned, Held
<1> HIDE DEF S
<1>2. PICK timer, c : FinishesOnly(c, timer) \/ \E d : FinishesWith(c, d, timer, tab)
  BY FinishIs
<1> DEFINE t == timer.timer
<1>3. Follows(c, t) /\ c.kind = "finish"
  BY <1>2 DEF FinishesOnly, FinishesWith
<1>4. /\ c \in Commands /\ c.id = issued + 1 /\ c.timer = t
      /\ shown.sessions[t] # None /\ t \in Timers
  BY <1>3 DEF Follows
<1> HIDE DEF t
<1> DEFINE m == Apply(shown, c)
<1>5. /\ m \in Good(S \cup {t}) /\ m.current = t /\ m.sessions[t] # None
      /\ m.sessions[t].status = "completed"
  BY <1>1, <1>3, <1>4, GoodBecomes, CurrentIs
<1>6. CASE FinishesOnly(c, timer)
  <2>1. shown' = m
    BY <1>4, <1>6, OneShown DEF FinishesOnly
  <2> HIDE DEF m
  <2>2. shown' \in Reduction
    BY <1>5, <2>1 DEF Good
  <2>3. Canonical(shown') # None => Canonical(shown').status = "completed"
    BY <1>5, <2>1, <2>2, CanonicalFields
  <2>4. ~ Running(Canonical(shown'))
    BY <2>3 DEF Running, Active
  <2> QED
    BY <2>4, OverHonours
<1>7. ASSUME NEW d, FinishesWith(c, d, timer, tab)
      PROVE  Honoured(o)'
  <2>1. /\ d \in Commands /\ d.id = issued + 2 /\ d.kind = "start"
        /\ d.timer \notin S /\ Retain({c, d})
    BY <1>7 DEF FinishesWith, Next2, S
  <2>2. shown' = Apply(m, d)
    BY <1>4, <2>1, TwoShown
  <2> HIDE DEF m
  <2>3. shown' \in Good((S \cup {t}) \cup {d.timer}) /\ shown'.current = d.timer
    BY <1>5, <2>1, <2>2, GoodBecomes, CurrentIs
  <2>4. shown' \in Reduction /\ o.timer # d.timer
    BY <1>1, <2>1, <2>3 DEF Good
  <2> QED
    BY <2>3, <2>4, NotCurrent, OverHonours
<1> QED
  BY <1>2, <1>6, <1>7

Reduced == shown \in Reduction

LEMMA InvReduced ==
  Inv => Reduced
  BY ShownGood DEF Inv, Good, Reduced

LEMMA StepHonours ==
  ASSUME Inv, Reduced', NEW o, Held(o), [Next]_vars
  PROVE  Honoured(o)'
<1>1. /\ owner = o /\ o # None /\ o \in Owner /\ o.left > 0
      /\ now \in Int
  BY OwnershipAssumption DEF Held, Inv, Typed
<1>2. shown' \in Reduction
  BY DEF Reduced
<1>3. CASE owner' = owner
  BY <1>1, <1>3 DEF Honoured, Keeps
<1>4. ASSUME NEW tab \in Tabs, Heartbeat(tab)
      PROVE  Honoured(o)'
  <2>1. /\ now' = now /\ shown' = shown
        /\ owner' = PlannedOwner(base, queue, shown', owner, tab, screen[tab].timer)
    BY <1>4 DEF Heartbeat
  <2> QED
    BY <1>1, <1>2, <2>1, PlanHonours
<1>5. ASSUME NEW tab \in Tabs, Install(tab)
      PROVE  Honoured(o)'
  <2>1. now' = now /\ owner' = PlannedOwner(base', queue', shown', owner, tab, None)
    BY <1>5, InstallIs
  <2> QED
    BY <1>1, <1>2, <2>1, PlanHonours
<1>6. ASSUME NEW tab \in Tabs, Close(tab)
      PROVE  Honoured(o)'
  <2>1. owner' = owner \/ owner' = [owner EXCEPT !.left = 0]
    BY <1>6 DEF Close
  <2>2. [owner EXCEPT !.left = 0] \in Owner
    BY <1>1, OwnershipAssumption DEF Owner
  <2>3. owner' = [owner EXCEPT !.left = 0] =>
          owner' # None /\ owner'.timer = o.timer /\ owner'.tab = o.tab
    BY <1>1, <2>2, OwnershipAssumption DEF Owner
  <2> QED
    BY <1>3, <2>1, <2>3 DEF Honoured, Keeps
<1>7. CASE Tick
  <2>1. owner' = [owner EXCEPT !.left = owner.left - 1] \/ owner' = owner
    BY <1>1, <1>7 DEF Tick
  <2>2. [owner EXCEPT !.left = owner.left - 1] \in Owner
    BY <1>1, OwnershipAssumption DEF Owner
  <2>3. owner' = [owner EXCEPT !.left = owner.left - 1] =>
          owner' # None /\ owner'.timer = o.timer /\ owner'.tab = o.tab
    BY <1>1, <2>2, OwnershipAssumption DEF Owner
  <2> QED
    BY <1>3, <2>1, <2>3 DEF Honoured, Keeps
<1>8. ASSUME NEW tab \in Tabs,
             \/ StartTimer(tab) \/ CancelAndClear(tab)
             \/ \E automatic \in BOOLEAN : Finish(tab, automatic)
      PROVE  Honoured(o)'
  BY <1>8, StartHonours, CancelHonours, FinishHonours
<1>9. ASSUME \/ \E tab \in Tabs : See(tab) \/ PauseOrResume(tab)
             \/ \E kind \in PeerKinds, t \in Timers : PeerCommand(kind, t)
             \/ Deliver \/ UNCHANGED vars
      PROVE  Honoured(o)'
  <2>1. owner' = owner
    BY <1>9 DEF See, PauseOrResume, PeerCommand, Deliver, vars
  <2> QED
    BY <1>3, <2>1
<1> QED
  BY <1>4, <1>5, <1>6, <1>7, <1>8, <1>9 DEF Next

(* A live lease is honoured: only that its timer is over, or that another  *)
(* one runs, makes a step give it to another tab or to nobody              *)
(* (ownership_plan.rs).                                                    *)
THEOREM LeaseKeptHolds ==
  Spec => LeaseKept
<1>1. Inv /\ Reduced' /\ [Next]_vars =>
        [\A o \in {owner} : o # None /\ o.left > 0 =>
           Keeps(o)' \/ ~ StillActive(o.timer)']_vars
  <2> SUFFICES ASSUME Inv, Reduced', [Next]_vars
               PROVE  \A o \in {owner} : o # None /\ o.left > 0 =>
                        Keeps(o)' \/ ~ StillActive(o.timer)'
    OBVIOUS
  <2> SUFFICES ASSUME NEW o \in {owner}, o # None, o.left > 0
               PROVE  Keeps(o)' \/ ~ StillActive(o.timer)'
    OBVIOUS
  <2>1. Held(o)
    BY DEF Held
  <2>2. Honoured(o)'
    BY <2>1, StepHonours
  <2> QED
    BY <2>2 DEF Honoured
<1> QED
  BY <1>1, Invariance, InvReduced, PTL DEF Spec, LeaseKept

-----------------------------------------------------------------------------
(* How the commands are arranged: lg are those at the server, q those that *)
(* are retained, cl the claimed keys.                                      *)

KeysApart(cmds) == \A c, d \in cmds : c.id = d.id => c = d

Retained(lg, q) ==
  \A c \in q : c.device = "local" /\ c.timer \in Started(lg \cup q)

\* What this device has sent comes before what it has still to send, and what
\* was acknowledged before all that is retained.
SentFirst(lg, q) ==
  \A d \in lg : d.device = "local" =>
    /\ \A c \in q \ lg : d.id < c.id
    /\ d \notin q => \A c \in q : d.id < c.id

StartsFirst(q) ==
  \A s, c \in q : s.kind = "start" /\ s.timer = c.timer => s.id <= c.id

\* Behind a command that waits every later one of its timer waits for one
\* between them.
Chained(q) ==
  \A c, d \in q : c.timer = d.timer /\ c.id < d.id /\ c.parent # None =>
    \E p \in q : p.timer = d.timer /\ d.parent = p.id /\ c.id <= p.id /\ p.id < d.id

Arranged(lg, q, cl) ==
  /\ KeysApart(lg \cup q) /\ Retained(lg, q)
  /\ cl = {c.id : c \in q \cap lg}
  /\ SentFirst(lg, q) /\ StartsFirst(q) /\ Chained(q)

\* A new command of this device that may join what is retained.
Fits(c, lg, q) ==
  /\ c.device = "local" /\ c.timer \in Started(lg \cup (q \cup {c}))
  /\ c.kind = "start" => \A e \in q : e.timer # c.timer
  /\ \A e \in q : e.timer = c.timer /\ e.parent # None =>
       \E p \in q : p.timer = c.timer /\ c.parent = p.id /\ e.id <= p.id

LEMMA AddArranged ==
  ASSUME NEW lg, NEW q, NEW cl, Arranged(lg, q, cl), NEW m \in Nat,
         \A d \in lg \cup q : d.id \in 1 .. m, NEW c, c.id = m + 1, Fits(c, lg, q)
  PROVE  Arranged(lg, q \cup {c}, cl)
<1> DEFINE q2 == q \cup {c}
<1>1. c \notin lg \cup q /\ \A d \in lg \cup q : d.id < c.id /\ d.id \in Int /\ c.id \in Int
  OBVIOUS
<1>2. KeysApart(lg \cup q2)
  BY <1>1 DEF Arranged, KeysApart
<1>3. Retained(lg, q2)
  <2>1. Started(lg \cup q) \subseteq Started(lg \cup q2)
    <3>1. lg \cup q \subseteq lg \cup q2
      OBVIOUS
    <3> QED
      BY <3>1, StartedGrows
  <2> QED
    BY <2>1 DEF Arranged, Retained, Fits
<1>4. cl = {d.id : d \in q2 \cap lg}
  <2>1. q2 \cap lg = q \cap lg
    BY <1>1
  <2> QED
    BY <2>1 DEF Arranged
<1>5. SentFirst(lg, q2)
  BY <1>1 DEF Arranged, SentFirst
<1>6. StartsFirst(q2)
  <2> SUFFICES ASSUME NEW s \in q2, NEW d \in q2, s.kind = "start", s.timer = d.timer
               PROVE  s.id <= d.id
    BY DEF StartsFirst
  <2>1. CASE s \in q /\ d \in q
    BY <2>1 DEF Arranged, StartsFirst
  <2>2. CASE d = c
    BY <1>1, <2>2
  <2>3. CASE s = c /\ d \in q
    BY <2>3 DEF Fits
  <2> QED
    BY <2>1, <2>2, <2>3
<1>7. Chained(q2)
  <2> SUFFICES ASSUME NEW e \in q2, NEW d \in q2, e.timer = d.timer, e.id < d.id,
                      e.parent # None
               PROVE  \E p \in q2 : /\ p.timer = d.timer /\ d.parent = p.id
                                    /\ e.id <= p.id /\ p.id < d.id
    BY DEF Chained
  <2>1. e \in q
    BY <1>1
  <2>2. CASE d \in q
    BY <2>1, <2>2 DEF Arranged, Chained
  <2>3. CASE d = c
    BY <1>1, <2>1, <2>3 DEF Fits
  <2> QED
    BY <2>2, <2>3
<1> QED
  BY <1>2, <1>3, <1>4, <1>5, <1>6, <1>7 DEF Arranged

LEMMA PeerArranged ==
  ASSUME NEW lg, NEW q, NEW cl, Arranged(lg, q, cl), NEW m \in Nat,
         \A d \in lg \cup q : d.id \in 1 .. m, NEW c, c.id = m + 1, c.device = "peer"
  PROVE  Arranged(lg \cup {c}, q, cl)
<1> DEFINE lg2 == lg \cup {c}
<1>1. c \notin q /\ c \notin lg /\ \A d \in lg \cup q : d.id # c.id
  OBVIOUS
<1>2. KeysApart(lg2 \cup q)
  BY <1>1 DEF Arranged, KeysApart
<1>3. Retained(lg2, q)
  <2>1. lg \cup q \subseteq lg2 \cup q
    OBVIOUS
  <2>2. Started(lg \cup q) \subseteq Started(lg2 \cup q)
    BY <2>1, StartedGrows
  <2> QED
    BY <2>2 DEF Arranged, Retained
<1>4. cl = {d.id : d \in q \cap lg2}
  <2>1. q \cap lg2 = q \cap lg
    BY <1>1
  <2> QED
    BY <2>1 DEF Arranged
<1>5. SentFirst(lg2, q)
  BY <1>1 DEF Arranged, SentFirst
<1> QED
  BY <1>2, <1>3, <1>4, <1>5 DEF Arranged

\* The batch is what comes before the first retained command that waits.
LEMMA DeliverArranged ==
  ASSUME NEW lg, NEW q, Arranged(lg, q, {}), \A d \in q : d.id \in Int,
         NEW batch, batch = {c \in q : \A d \in q : d.parent # None => c.id < d.id}
  PROVE  Arranged(lg \cup batch, q, {c.id : c \in batch})
<1> DEFINE lg2 == lg \cup batch
<1>1. lg2 \cup q = lg \cup q /\ batch \subseteq q
  OBVIOUS
<1>2. KeysApart(lg2 \cup q) /\ Retained(lg2, q)
  BY <1>1 DEF Arranged, Retained
<1>3. q \cap lg = {}
  BY DEF Arranged
<1>4. q \cap lg2 = batch
  BY <1>3
<1>5. SentFirst(lg2, q)
  <2> SUFFICES ASSUME NEW d \in lg2, d.device = "local"
               PROVE  /\ \A c \in q \ lg2 : d.id < c.id
                      /\ d \notin q => \A c \in q : d.id < c.id
    BY DEF SentFirst
  <2>1. ASSUME NEW c \in q \ lg2
        PROVE  d.id < c.id
    <3>1. CASE d \in lg
      BY <3>1 DEF Arranged, SentFirst
    <3>2. CASE d \in batch
      <4>1. PICK e \in q : e.parent # None /\ ~ (c.id < e.id)
        BY <2>1
      <4>2. d.id < e.id /\ d.id \in Int /\ e.id \in Int /\ c.id \in Int
        BY <3>2, <4>1
      <4> QED
        BY <4>1, <4>2
    <3> QED
      BY <3>1, <3>2
  <2>2. ASSUME d \notin q, NEW c \in q
        PROVE  d.id < c.id
    BY <2>2 DEF Arranged, SentFirst
  <2> QED
    BY <2>1, <2>2
<1> QED
  BY <1>2, <1>4, <1>5 DEF Arranged

\* What is dropped with refused commands: those that wait for what is dropped.
Drops(D, q) ==
  /\ D \subseteq q
  /\ \A x \in q : x.parent \in {y.id : y \in D} => x \in D
  /\ \A x \in D : x.parent # None

LEMMA DroppedByDrops ==
  ASSUME NEW refused, None \notin refused, \A c \in queue : c.id # None
  PROVE  Drops(DroppedBy(refused), queue)
<1> DEFINE Closed(S) == \A x \in queue : x.parent \in refused \cup {y.id : y \in S} => x \in S
           D == DroppedBy(refused)
<1>1. D = {c \in queue : \A S \in SUBSET queue : Closed(S) => c \in S}
  BY DEF DroppedBy
<1>2. ASSUME NEW x \in queue, NEW y \in D, x.parent = y.id
      PROVE  x \in D
  <2> SUFFICES ASSUME NEW S \in SUBSET queue, Closed(S)
               PROVE  x \in S
    BY <1>1
  <2>1. y \in S
    BY <1>1
  <2> QED
    BY <1>2, <2>1
<1>3. ASSUME NEW x \in D
      PROVE  x.parent # None
  <2> DEFINE S == {c \in queue : c.parent # None}
  <2>1. Closed(S)
    OBVIOUS
  <2>2. S \in SUBSET queue
    OBVIOUS
  <2>3. x \in S
    BY <1>1, <2>1, <2>2
  <2> QED
    BY <2>3
<1>4. D \subseteq queue
  BY <1>1
<1> HIDE DEF D
<1> QED
  BY <1>2, <1>3, <1>4 DEF Drops, D

\* With a command every later one of its timer is dropped.
LEMMA DropSuffix ==
  ASSUME NEW q, KeysApart(q), Chained(q), \A d \in q : d.id \in Nat, NEW D, Drops(D, q),
         NEW c \in D, NEW g \in q, c.timer = g.timer, c.id < g.id
  PROVE  g \in D
<1> DEFINE Later == {d \in q \ D : d.timer = c.timer /\ c.id < d.id}
           T == {d.id : d \in Later}
<1>1. SUFFICES ASSUME T # {}
               PROVE  FALSE
  OBVIOUS
<1>2. PICK k \in T : \A j \in T : k <= j
  <2>1. T \subseteq Nat
    OBVIOUS
  <2> HIDE DEF T
  <2> QED
    BY <1>1, <2>1, LeastKey
<1>3. PICK d \in Later : d.id = k
  OBVIOUS
<1>4. c \in q /\ d \in q /\ d \notin D /\ c.parent # None /\ d.timer = c.timer /\ c.id < d.id
  BY <1>3 DEF Drops
<1>5. PICK p \in q : p.timer = d.timer /\ d.parent = p.id /\ c.id <= p.id /\ p.id < d.id
  BY <1>4 DEF Chained
<1>6. p \in D
  <2>1. CASE p.id = c.id
    BY <1>4, <1>5, <2>1 DEF KeysApart
  <2>2. CASE p.id # c.id
    <3>1. c.id < p.id /\ p.id \in Nat /\ d.id \in Nat
      BY <1>4, <1>5, <2>2
    <3>2. p \notin D => p.id \in T
      BY <1>4, <1>5, <3>1
    <3>3. p.id \in T => k <= p.id
      BY <1>2
    <3> QED
      BY <1>3, <1>5, <3>1, <3>2, <3>3
  <2> QED
    BY <2>1, <2>2
<1> QED
  BY <1>4, <1>5, <1>6 DEF Drops

\* A retained command whose parent is opened waits no longer.
Opening(c, opened) == [c EXCEPT !.parent = IF @ \in opened THEN None ELSE @]

LEMMA OpeningFields ==
  ASSUME NEW c \in Commands, NEW opened
  PROVE  LET d == Opening(c, opened) IN
         /\ d \in Commands /\ Stays(c, d)
         /\ d.parent = IF c.parent \in opened THEN None ELSE c.parent
<1>1. Opening(c, opened) = [c EXCEPT !.parent = IF c.parent \in opened THEN None ELSE c.parent]
  BY DEF Opening
<1> QED
  BY <1>1 DEF Commands, Stays

LEMMA InstallArranged ==
  ASSUME NEW lg, NEW q, NEW cl, Arranged(lg, q, cl), q \subseteq Commands,
         NEW D, Drops(D, q), NEW opened, opened \subseteq cl,
         NEW kept, kept = {c \in q : c.id \notin cl} \ D
  PROVE  Arranged(lg, {Opening(c, opened) : c \in kept}, {})
<1> DEFINE q2 == {Opening(c, opened) : c \in kept}
<1>1. \A c \in q : c.id \notin cl <=> c \notin lg
  BY DEF Arranged, KeysApart
<1>2. \A c \in q : c.id \in Nat
  BY DEF Commands
<1>3. kept \subseteq q /\ \A c \in kept : c \notin lg /\ c \notin D
  BY <1>1
<1>4. \A c \in q : c \notin lg /\ c \notin D => c \in kept
  BY <1>1
<1>5. \A x \in q2 : \E c \in kept : x = Opening(c, opened) /\ Stays(c, x)
                                   /\ x.parent = IF c.parent \in opened THEN None ELSE c.parent
  BY <1>3, OpeningFields
<1>6. \A c \in kept : Opening(c, opened) \in q2 /\ Stays(c, Opening(c, opened))
  BY <1>3, OpeningFields
<1> HIDE DEF q2
<1>7. KeysApart(q) /\ Chained(q)
  BY DEF Arranged, KeysApart
<1>8. ASSUME NEW c \in D, NEW g \in kept, c.timer = g.timer, c.id <= g.id
      PROVE  FALSE
  <2>1. c \in q /\ g \in q /\ g \notin D /\ c.id \in Nat /\ g.id \in Nat
    BY <1>2, <1>3 DEF Drops
  <2>2. c.id # g.id
    BY <1>7, <2>1 DEF KeysApart
  <2>3. c.id < g.id
    BY <1>8, <2>1, <2>2
  <2>4. g \in D
    BY <1>2, <1>7, <1>8, <2>1, <2>3, DropSuffix
  <2> QED
    BY <2>1, <2>4
<1>9. KeysApart(lg \cup q2) /\ \A x \in q2 : x \notin lg
  <2>1. ASSUME NEW x \in q2, NEW y \in lg
        PROVE  x.id # y.id
    BY <1>3, <1>5 DEF Stays, Arranged, KeysApart
  <2>2. ASSUME NEW x \in q2, NEW y \in q2, x.id = y.id
        PROVE  x = y
    <3>1. PICK c \in kept : x = Opening(c, opened) /\ Stays(c, x)
      BY <1>5
    <3>2. PICK d \in kept : y = Opening(d, opened) /\ Stays(d, y)
      BY <1>5
    <3>3. c = d
      BY <1>3, <1>7, <2>2, <3>1, <3>2 DEF Stays, KeysApart
    <3> QED
      BY <3>1, <3>2, <3>3
  <2> QED
    BY <2>1, <2>2 DEF Arranged, KeysApart
<1>10. Retained(lg, q2)
  <2> SUFFICES ASSUME NEW x \in q2
               PROVE  x.device = "local" /\ x.timer \in Started(lg \cup q2)
    BY DEF Retained
  <2>1. PICK c \in kept : Stays(c, x)
    BY <1>5
  <2>2. c.device = "local" /\ c.timer \in Started(lg \cup q)
    BY <1>3 DEF Arranged, Retained
  <2>3. PICK s \in lg \cup q : s.kind = "start" /\ s.timer = c.timer
    BY <2>2 DEF Started, StartOf
  <2>4. CASE s \in lg
    BY <2>1, <2>2, <2>3, <2>4 DEF Stays, Started, StartOf
  <2>5. CASE s \notin lg
    <3>1. s \in q /\ s.id <= c.id
      BY <1>3, <2>3, <2>5 DEF Arranged, StartsFirst
    <3>2. s \in kept
      BY <1>4, <1>8, <2>3, <2>5, <3>1
    <3>3. Opening(s, opened) \in q2 /\ Stays(s, Opening(s, opened))
      BY <1>6, <3>2
    <3> QED
      BY <2>1, <2>2, <2>3, <3>3 DEF Stays, Started, StartOf
  <2> QED
    BY <2>4, <2>5
<1>11. {} = {x.id : x \in q2 \cap lg}
  BY <1>9
<1>12. SentFirst(lg, q2)
  BY <1>3, <1>5 DEF Stays, Arranged, SentFirst
<1>13. StartsFirst(q2)
  BY <1>3, <1>5 DEF Stays, Arranged, StartsFirst
<1>14. Chained(q2)
  <2> SUFFICES ASSUME NEW x \in q2, NEW y \in q2, x.timer = y.timer, x.id < y.id,
                      x.parent # None
               PROVE  \E z \in q2 : /\ z.timer = y.timer /\ y.parent = z.id
                                    /\ x.id <= z.id /\ z.id < y.id
    BY DEF Chained
  <2>1. PICK c \in kept : Stays(c, x)
    BY <1>5
  <2>2. PICK d \in kept : Stays(d, y) /\ y.parent = IF d.parent \in opened THEN None ELSE d.parent
    BY <1>5
  <2>3. c \in q /\ d \in q /\ c.timer = d.timer /\ c.id < d.id /\ c.parent # None
    BY <1>3, <2>1, <2>2 DEF Stays
  <2>4. PICK p \in q : p.timer = d.timer /\ d.parent = p.id /\ c.id <= p.id /\ p.id < d.id
    BY <1>7, <2>3 DEF Chained
  <2>5. p \notin lg
    <3>1. p.device = "local"
      BY DEF Arranged, Retained
    <3>2. p \in lg => p.id < c.id
      BY <1>3, <3>1 DEF Arranged, SentFirst
    <3> QED
      BY <1>2, <2>3, <2>4, <3>2
  <2>6. p \notin D
    BY <1>3, <2>3, <2>4 DEF Drops
  <2>7. p \in kept /\ p.id \notin opened
    BY <1>1, <1>4, <2>5, <2>6
  <2>8. Opening(p, opened) \in q2 /\ Stays(p, Opening(p, opened))
    BY <1>6, <2>7
  <2> QED
    BY <2>1, <2>2, <2>4, <2>7, <2>8 DEF Stays
<1> QED
  BY <1>9, <1>10, <1>11, <1>12, <1>13, <1>14 DEF Arranged, q2

-----------------------------------------------------------------------------
(* What is over stays over until the timer is taken up again.              *)

Over(s) ==
  s # None => /\ s.status \in Ended
              /\ s.intent # None => s.intent.kind \notin {"start", "resume"}

Reopens(c, t) == c.timer = t /\ c.kind \in {"start", "pause", "resume"}

LEMMA OverDeadline ==
  ASSUME NEW r \in Reduction, NEW t \in Timers, Over(r.sessions[t]), NEW at
  PROVE  AutoCompleteCurrent(r, at).sessions[t] = r.sessions[t]
<1>1. r.sessions[t] # None => r.sessions[t].status # "running"
  BY DEF Over, Ended
<1> QED
  BY <1>1, DeadlinePointwise DEF AutoComplete

LEMMA OverApply ==
  ASSUME NEW S, NEW r \in Good(S), NEW c \in Commands, NEW t \in Timers,
         Over(r.sessions[t]), ~ Reopens(c, t)
  PROVE  Over(Apply(r, c).sessions[t])
<1> DEFINE d == AutoCompleteCurrent(r, c.at)
           h == Apply(r, c)
           k == Core(c)
           s == d.sessions[t]
<1>1. d \in Reduction /\ k \in Command /\ Becomes(d, h, k)
  BY GoodBecomes
<1>2. k.kind = c.kind /\ k.timer = c.timer /\ c.timer \in Timers
  BY CoreFields DEF Commands
<1>3. s = r.sessions[t]
  BY OverDeadline DEF Good
<1> HIDE DEF d, h, k
<1>4. h.sessions[t] = SessionAfter(d, t, k)
  BY <1>1 DEF Becomes
<1>5. Over(s) /\ (s # None => s \in Session /\ ~ IsActive(s))
  BY <1>1, <1>3 DEF Over, IsActive, Active, Ended, Reduction
<1>6. CASE t # c.timer \/ s = None
  <2>1. h.sessions[t] = s
    BY <1>2, <1>4, <1>5, <1>6 DEF SessionAfter, OtherAfter, TargetAfter, Reopens
  <2> QED
    BY <1>5, <2>1 DEF h
<1>7. CASE t = c.timer /\ s # None
  <2>1. k.kind \notin {"start", "pause", "resume"}
    BY <1>2, <1>7 DEF Reopens
  <2>2. h.sessions[t] = TargetAfter(s, d.current, k)
    BY <1>2, <1>4, <1>7 DEF SessionAfter
  <2>3. s.planned \in Nat /\ Clamp(k.observed, 0, s.planned) \in Nat
    BY <1>1, <1>5, <1>7 DEF Session, Command, Clamp
  <2> HIDE DEF s
  <2>4. CASE k.kind \in {"finish", "cancel"}
    <3> DEFINE status == IF k.kind = "finish" THEN "completed" ELSE "cancelled"
               elapsed == IF k.kind = "finish" THEN s.planned
                          ELSE Clamp(k.observed, 0, s.planned)
               z == Transition(s, k, status, elapsed)
    <3>1. h.sessions[t] = z
      BY <1>7, <2>2, <2>4 DEF TargetAfter
    <3>2. status \in Ended /\ status \in Active \cup Ended /\ elapsed \in Nat
          /\ k.kind \in Lifecycle
      BY <2>3, <2>4 DEF Ended, Lifecycle
    <3> HIDE DEF status, elapsed
    <3>3. z.status = status /\ z.intent = CommandIntent(k)
      BY <1>1, <1>5, <1>7, <3>2, TransitionFields
    <3>4. CommandIntent(k).kind = k.kind
      BY DEF CommandIntent
    <3> QED
      BY <2>4, <3>1, <3>2, <3>3, <3>4 DEF Over, h
  <2>5. CASE k.kind = "clear"
    <3>1. h.sessions[t] = ClearedSession(s, k)
      BY <1>7, <2>2, <2>5 DEF TargetAfter
    <3>2. h.sessions[t].status = s.status /\ h.sessions[t].intent = CommandIntent(k)
      BY <1>1, <1>5, <1>7, <2>5, <3>1, ClearedFields
    <3>3. CommandIntent(k).kind = k.kind
      BY DEF CommandIntent
    <3> QED
      BY <1>5, <1>7, <2>5, <3>2, <3>3 DEF Over, h
  <2>6. CASE k.kind \notin {"finish", "cancel", "clear"}
    <3>1. h.sessions[t] = s
      BY <1>5, <1>7, <2>1, <2>2, <2>6 DEF TargetAfter
    <3> QED
      BY <1>5, <3>1 DEF h
  <2> QED
    BY <2>4, <2>5, <2>6
<1> QED
  BY <1>6, <1>7

LEMMA FinishApply ==
  ASSUME NEW S, NEW r \in Good(S), NEW c \in Commands, c.kind = "finish"
  PROVE  Over(Apply(r, c).sessions[c.timer])
<1>1. CASE r.sessions[c.timer] = None
  <2>1. Over(r.sessions[c.timer]) /\ ~ Reopens(c, c.timer) /\ c.timer \in Timers
    BY <1>1 DEF Over, Reopens, Commands
  <2> QED
    BY <2>1, OverApply
<1>2. CASE r.sessions[c.timer] # None
  <2>1. /\ Apply(r, c).sessions[c.timer].status = "completed"
        /\ Apply(r, c).sessions[c.timer].intent = CommandIntent(Core(c))
    BY <1>2, CurrentIs
  <2>2. CommandIntent(Core(c)).kind = "finish"
    BY CoreFields DEF CommandIntent
  <2> QED
    BY <2>1, <2>2 DEF Over, Ended
<1> QED
  BY <1>1, <1>2

LEMMA OverReplay ==
  ASSUME NEW S, NEW seed \in Good(S), NEW cmds, cmds \subseteq Commands,
         \A c \in cmds : c.kind = "start" => c.timer \in S,
         NEW t \in Timers, NEW m \in 0 .. MaxCommands,
         Over(Replay(seed, cmds)[m].sessions[t]),
         \A c \in cmds : m < c.id => ~ Reopens(c, t)
  PROVE  Over(Replay(seed, cmds)[MaxCommands].sessions[t])
<1> DEFINE R == {r \in Good(S) : Over(r.sessions[t])}
           G == [n \in 0 .. MaxCommands |-> R]
<1>1. MaxCommands \in Nat /\ MaxCommands \in m .. MaxCommands
  BY OwnershipAssumption
<1>2. \A n \in 0 .. MaxCommands : G[n] = R
  OBVIOUS
<1>3. Replay(seed, cmds)[m] \in R
  BY GoodReplay
<1>4. ASSUME NEW n \in (m + 1) .. MaxCommands, NEW r \in R
      PROVE  ReplayStep(cmds, r, n) \in R
  <2>1. CASE Keyed(cmds, n) = {}
    BY <2>1, ReplayStepIs
  <2>2. CASE Keyed(cmds, n) # {}
    <3>1. PICK c \in cmds : c.id = n /\ ReplayStep(cmds, r, n) = Apply(r, c)
      BY <2>2, ReplayStepIs
    <3>2. c \in Commands /\ ~ Reopens(c, t) /\ (c.kind = "start" => c.timer \in S)
      BY <1>1, <3>1
    <3>3. Over(Apply(r, c).sessions[t])
      BY <3>2, OverApply
    <3>4. Apply(r, c) \in Good(S)
      BY <3>2, GoodApply
    <3> QED
      BY <3>1, <3>3, <3>4
  <2> QED
    BY <2>1, <2>2
<1> HIDE DEF G
<1>5. \A n \in (m + 1) .. MaxCommands : n \in 0 .. MaxCommands /\ n - 1 \in 0 .. MaxCommands
  BY <1>1
<1>6. \A n \in m .. MaxCommands : Replay(seed, cmds)[n] \in G[n]
  BY <1>2, <1>3, <1>4, <1>5, ReplayStays
<1> QED
  BY <1>1, <1>2, <1>6

LEMMA FinishReplay ==
  ASSUME NEW S, NEW seed \in Good(S), NEW cmds, cmds \subseteq Commands, KeysApart(cmds),
         \A c \in cmds : c.kind = "start" => c.timer \in S,
         NEW f \in cmds, f.kind = "finish",
         \A c \in cmds : f.id < c.id => ~ Reopens(c, f.timer)
  PROVE  Over(Replay(seed, cmds)[MaxCommands].sessions[f.timer])
<1>1. f \in Commands /\ f.id \in 1 .. MaxCommands /\ f.timer \in Timers
      /\ MaxCommands \in Nat
  BY OwnershipAssumption DEF Commands
<1>2. Keyed(cmds, f.id) = {f}
  BY DEF Keyed, KeysApart
<1> DEFINE r == Replay(seed, cmds)[f.id - 1]
<1>3. r \in Good(S)
  BY <1>1, GoodReplay
<1>4. Replay(seed, cmds)[f.id] = Apply(r, f)
  BY <1>1, <1>2, ReplayStates, ReplayStepIs
<1> HIDE DEF r
<1>5. Over(Replay(seed, cmds)[f.id].sessions[f.timer])
  BY <1>1, <1>3, <1>4, FinishApply
<1>6. f.id \in 0 .. MaxCommands
  BY <1>1
<1> QED
  BY <1>1, <1>5, <1>6, OverReplay

LEMMA SeedOver ==
  ASSUME NEW r \in Reduction, NEW t \in Timers, Over(r.sessions[t])
  PROVE  Over(Seed(Canonical(r), History(r)).sessions[t])
<1> DEFINE timer == Canonical(r)
           rows == History(r)
           own == {row \in rows : row.timer = t}
           s == SeedSession(timer, rows, t)
           first == SessionFromHistory(CHOOSE row \in own : TRUE)
<1>1. Seed(timer, rows).sessions[t] = s
  BY DEF Seed
<1>2. own # {} => first.status \in Ended /\ first.intent = None
  <2>1. own # {} => (CHOOSE row \in own : TRUE) \in rows
    OBVIOUS
  <2>2. \A row \in rows : row.status \in Ended
    BY HistoryFields DEF Row
  <2> QED
    BY <2>1, <2>2 DEF SessionFromHistory
<1>3. timer # None /\ timer.timer = t =>
        /\ timer.status = r.sessions[t].status /\ timer.intent = r.sessions[t].intent
        /\ r.sessions[t] # None
  BY CanonicalFields DEF Canonical, Exists
<1>4. /\ SessionFromCanonical(timer).status = timer.status
      /\ SessionFromCanonical(timer).intent = timer.intent
  BY DEF SessionFromCanonical
<1>5. CASE timer = None \/ timer.timer # t
  <2>1. s = IF own = {} THEN None ELSE first
    BY <1>5 DEF SeedSession
  <2> HIDE DEF s, first, own
  <2>2. Over(s)
    BY <1>2, <2>1 DEF Over
  <2> QED
    BY <1>1, <2>2
<1>6. CASE timer # None /\ timer.timer = t
  <2> DEFINE base0 == SessionFromCanonical(timer)
  <2>1. \/ s = base0
        \/ s = [base0 EXCEPT !.historyId = first.historyId, !.terminalCmd = first.terminalCmd,
                             !.ended = first.ended]
    BY <1>6 DEF SeedSession
  <2>2. s.status = base0.status /\ s.intent = base0.intent
    <3> HIDE DEF s, first
    <3> QED
      BY <2>1 DEF SessionFromCanonical
  <2> HIDE DEF s, first, own, timer, rows
  <2>3. Over(s)
    BY <1>3, <1>4, <1>6, <2>2 DEF Over
  <2> QED
    BY <1>1, <2>3 DEF timer, rows
<1> QED
  BY <1>5, <1>6

-----------------------------------------------------------------------------
(* One finish.  The base knows of every finish that was acknowledged.      *)

OwnFinish(c) == c.device = "local" /\ c.kind = "finish"

BaseOver(lg, q, b) ==
  \A f \in lg \ q :
    OwnFinish(f) /\ (\A c \in lg : f.id < c.id => ~ Reopens(c, f.timer)) =>
      Over(Seed(b.timer, b.rows).sessions[f.timer])

\* Every own finish of the timer was followed by something that took it up.
Reopened(t, cmds) ==
  \A f \in cmds : OwnFinish(f) /\ f.timer = t => \E c \in cmds : Reopens(c, t) /\ f.id < c.id

OnceIn(cmds) ==
  \A f, g \in cmds :
    OwnFinish(f) /\ OwnFinish(g) /\ f.timer = g.timer /\ f.id < g.id =>
      \E c \in cmds : Reopens(c, g.timer) /\ f.id < c.id /\ c.id < g.id

Once(lg, q, cl, b) == Arranged(lg, q, cl) /\ BaseOver(lg, q, b) /\ OnceIn(lg \cup q)

OnceInv == Inv /\ Once(log, queue, claim, base)

LEMMA OnceIsOneFinish ==
  OnceInv => OneFinish
<1> SUFFICES ASSUME OnceInv, NEW t \in Timers, NEW f \in OwnFinishes(t),
                    NEW g \in OwnFinishes(t), f.id < g.id
             PROVE  \E c \in log \cup queue :
                      /\ c.timer = t /\ c.kind \in {"start", "pause", "resume"}
                      /\ f.id < c.id /\ c.id < g.id
  BY DEF OneFinish
<1>1. /\ f \in log \cup queue /\ OwnFinish(f) /\ f.timer = t
      /\ g \in log \cup queue /\ OwnFinish(g) /\ g.timer = t
  BY DEF OwnFinishes, OwnFinish
<1> QED
  BY <1>1 DEF OnceInv, Once, OnceIn, Reopens

LEMMA AddOnce ==
  ASSUME NEW lg, NEW q, NEW cl, NEW b, Once(lg, q, cl, b), NEW m \in Nat,
         \A d \in lg \cup q : d.id \in 1 .. m, NEW c, c.id = m + 1, Fits(c, lg, q),
         c.kind = "finish" => Reopened(c.timer, lg \cup q)
  PROVE  Once(lg, q \cup {c}, cl, b)
<1>1. Arranged(lg, q \cup {c}, cl)
  BY AddArranged DEF Once
<1>2. BaseOver(lg, q \cup {c}, b)
  BY DEF Once, BaseOver
<1>3. OnceIn(lg \cup (q \cup {c}))
  <2> SUFFICES ASSUME NEW f \in lg \cup (q \cup {c}), NEW g \in lg \cup (q \cup {c}),
                      OwnFinish(f), OwnFinish(g), f.timer = g.timer, f.id < g.id
               PROVE  \E e \in lg \cup (q \cup {c}) :
                        Reopens(e, g.timer) /\ f.id < e.id /\ e.id < g.id
    BY DEF OnceIn
  <2>1. f \in lg \cup q
    OBVIOUS
  <2>2. CASE g \in lg \cup q
    <3>1. \E e \in lg \cup q : Reopens(e, g.timer) /\ f.id < e.id /\ e.id < g.id
      BY <2>1, <2>2 DEF Once, OnceIn
    <3> QED
      BY <3>1
  <2>3. CASE g = c
    <3>1. PICK e \in lg \cup q : Reopens(e, g.timer) /\ f.id < e.id
      BY <2>1, <2>3 DEF Reopened, OwnFinish
    <3>2. e.id < g.id
      BY <2>3
    <3> QED
      BY <3>1, <3>2
  <2> QED
    BY <2>2, <2>3
<1> QED
  BY <1>1, <1>2, <1>3 DEF Once

\* Where nothing took the timer of a finish up again, it shows as over.
LEMMA ShownOver ==
  ASSUME OnceInv, NEW f \in log \cup queue, OwnFinish(f),
         \A c \in log \cup queue : f.id < c.id => ~ Reopens(c, f.timer)
  PROVE  Over(shown.sessions[f.timer])
<1> DEFINE S == Started(log \cup queue)
           seed == Seed(base.timer, base.rows)
<1>1. Started(log) \subseteq S /\ Started(queue) \subseteq S
  BY StartedGrows
<1>2. queue \subseteq Commands /\ f \in Commands /\ f.timer \in Timers
  BY DEF OnceInv, Inv, Typed, CommandsOK, Commands
<1>3. \A c \in queue : c.kind = "start" => c.timer \in S
  BY <1>1, <1>2, StartsCount
<1> HIDE DEF S
<1>4. seed \in Good(S)
  BY <1>1, CoveredGrows, SeedGood DEF OnceInv, Inv, Based
<1>5. shown = Replay(seed, queue)[MaxCommands]
  BY DEF OnceInv, Inv, Based, Unexpired
<1>6. KeysApart(queue)
  BY DEF OnceInv, Once, Arranged, KeysApart
<1> HIDE DEF seed
<1>7. CASE f \in queue
  BY <1>2, <1>3, <1>4, <1>5, <1>6, <1>7, FinishReplay DEF OwnFinish
<1>8. CASE f \notin queue
  <2>1. f \in log \ queue
    BY <1>8
  <2>2. Over(seed.sessions[f.timer])
    BY <2>1 DEF OnceInv, Once, BaseOver, seed
  <2>3. \A c \in queue : f.id < c.id
    BY <2>1 DEF OnceInv, Once, Arranged, SentFirst, OwnFinish
  <2>4. Over(Replay(seed, queue)[0].sessions[f.timer]) /\ 0 \in 0 .. MaxCommands
    BY <2>2, ReplayStates, OwnershipAssumption
  <2>5. \A c \in queue : 0 < c.id => ~ Reopens(c, f.timer)
    BY <2>3
  <2> QED
    BY <1>2, <1>3, <1>4, <1>5, <2>4, <2>5, OverReplay
<1> QED
  BY <1>7, <1>8

\* A finish is admitted for a timer that is not over.
LEMMA UnfinishedGoesOn ==
  ASSUME Inv, NEW timer \in {Current, Canonical(shown)}, timer # None, Unfinished(timer)
  PROVE  ~ Over(shown.sessions[timer.timer])
<1> DEFINE t == timer.timer
           s == shown.sessions[t]
<1>1. shown \in Reduction /\ t \in Timers /\ t = shown.current /\ s # None
  BY ShownTimer, ShownGood DEF Inv, Good
<1>2. SUFFICES ASSUME Over(s)
               PROVE  FALSE
  OBVIOUS
<1>3. Projected(shown, now).sessions[t] = s /\ Projected(shown, now).current = shown.current
  BY <1>1, <1>2, OverDeadline, DeadlinePointwise DEF Projected
<1>4. Projected(shown, now) \in Reduction
  BY <1>1, ProjectedCurrent, OwnershipAssumption DEF Inv, Typed
<1>5. timer.status = s.status /\ timer.intent = s.intent
  <2>1. CASE timer = Canonical(shown)
    BY <1>1, <2>1, CanonicalFields
  <2>2. CASE timer = Current
    BY <1>1, <1>3, <1>4, <2>2, CanonicalFields DEF Current
  <2> QED
    BY <2>1, <2>2
<1> HIDE DEF s, t
<1>6. timer.status \in Ended /\ (timer.intent # None => timer.intent.kind \notin {"start", "resume"})
  BY <1>1, <1>2, <1>5 DEF Over
<1> QED
  BY <1>6 DEF Unfinished, Running, NaturalEnd, Ended, Active

LEMMA FinishReopened ==
  ASSUME OnceInv, NEW timer \in {Current, Canonical(shown)}, timer # None, Unfinished(timer)
  PROVE  Reopened(timer.timer, log \cup queue)
<1> SUFFICES ASSUME NEW f \in log \cup queue, OwnFinish(f), f.timer = timer.timer,
                    \A c \in log \cup queue : f.id < c.id => ~ Reopens(c, timer.timer)
             PROVE  FALSE
  BY DEF Reopened
<1>1. Over(shown.sessions[f.timer])
  BY ShownOver
<1> QED
  BY <1>1, UnfinishedGoesOn DEF OnceInv

LEMMA GreatestKey ==
  ASSUME NEW m \in Nat, NEW T, T \subseteq 0 .. m, T # {}
  PROVE  \E x \in T : \A y \in T : y <= x
<1> DEFINE U == {m - x : x \in T}
<1>1. U \subseteq Nat /\ U # {}
  <2>1. \A x \in T : m - x \in Nat
    OBVIOUS
  <2>2. U \subseteq Nat
    BY <2>1
  <2> QED
    BY <2>2
<1>2. \A x \in T : m - x \in U /\ x \in Int
  OBVIOUS
<1>3. \A u \in U : \E x \in T : u = m - x
  OBVIOUS
<1> HIDE DEF U
<1>4. PICK u \in U : \A v \in U : u <= v
  BY <1>1, LeastKey
<1>5. PICK x \in T : u = m - x
  BY <1>3
<1>6. \A y \in T : m - x <= m - y
  BY <1>2, <1>4, <1>5
<1> QED
  BY <1>2, <1>6

\* A new command waits if one of its timer does.
LEMMA InheritedChain ==
  ASSUME Inv, Chained(queue), KeysApart(queue), NEW t,
         NEW e \in queue, e.timer = t, e.parent # None
  PROVE  \E p \in queue : p.timer = t /\ Inherited(t) = p.id /\ e.id <= p.id
<1> DEFINE own == {c \in queue : c.timer = t}
           T == {c.id : c \in own}
<1>1. issued \in Nat /\ \A d \in queue : d.id \in 1 .. issued
  BY RetainedKeys
<1>2. \E x \in T : \A y \in T : y <= x
  <2>1. T \subseteq 0 .. issued /\ T # {}
    BY <1>1
  <2> HIDE DEF T
  <2> QED
    BY <1>1, <2>1, GreatestKey
<1>3. PICK top \in own : \A d \in own : d.id <= top.id
  BY <1>2
<1>4. top.parent # None
  <2>1. CASE top.id = e.id
    BY <1>3, <2>1 DEF KeysApart
  <2>2. CASE top.id # e.id
    <3>1. top \in queue /\ top.timer = t /\ e.id < top.id
      BY <1>1, <1>3, <2>2
    <3>2. PICK p \in queue : top.parent = p.id
      BY <3>1 DEF Chained
    <3>3. p.id \in Int
      BY <1>1
    <3> QED
      BY <3>2, <3>3, ReducerAssumption
  <2> QED
    BY <2>1, <2>2
<1>5. Inherited(t) = (CHOOSE c \in own : \A d \in own : d.id <= c.id).id
  BY <1>3, <1>4 DEF Inherited
<1> DEFINE last == CHOOSE c \in own : \A d \in own : d.id <= c.id
<1>6. last \in own /\ \A d \in own : d.id <= last.id
  BY <1>3
<1> QED
  BY <1>5, <1>6

LEMMA FollowsFits ==
  ASSUME OnceInv, NEW c, NEW t, Follows(c, t), c.kind # "start"
  PROVE  Fits(c, log, queue)
<1>1. /\ c.device = "local" /\ c.timer = t /\ c.parent = Inherited(t)
      /\ t \in Started(log \cup queue)
  BY DEF Follows
<1>2. c.timer \in Started(log \cup (queue \cup {c}))
  <2>1. log \cup queue \subseteq log \cup (queue \cup {c})
    OBVIOUS
  <2> QED
    BY <1>1, <2>1, StartedGrows
<1>3. Inv /\ Chained(queue) /\ KeysApart(queue)
  BY DEF OnceInv, Once, Arranged, KeysApart
<1> QED
  BY <1>1, <1>2, <1>3, InheritedChain DEF Fits

\* A start of a timer that nothing is about fits anywhere.
LEMMA StartFits ==
  ASSUME NEW lg, NEW q, NEW c \in Commands, c.device = "local", c.kind = "start",
         \A e \in q : e.timer # c.timer
  PROVE  Fits(c, lg, q)
<1>1. c.timer \in Started(lg \cup (q \cup {c}))
  BY StartsNew
<1> QED
  BY <1>1 DEF Fits

\* Clearing fits behind the cancellation.
LEMMA ClearFits ==
  ASSUME OnceInv, NEW t, NEW c, NEW d, CancelAndClears(c, d, t)
  PROVE  Fits(d, log, queue \cup {c})
<1>1. /\ c.timer = t /\ d.timer = t /\ d.device = "local" /\ d.kind = "clear"
      /\ c.id = issued + 1 /\ c \in Commands
      /\ (d.parent = None <=> c.parent = None) /\ (d.parent # None => d.parent = c.id)
      /\ t \in Started(log \cup queue)
  BY DEF CancelAndClears, Follows, Next2
<1>2. Fits(c, log, queue)
  BY FollowsFits DEF CancelAndClears
<1>3. t \in Started(log \cup ((queue \cup {c}) \cup {d}))
  <2>1. log \cup queue \subseteq log \cup ((queue \cup {c}) \cup {d})
    OBVIOUS
  <2> QED
    BY <1>1, <2>1, StartedGrows
<1>4. \A e \in queue : e.id \in 1 .. issued /\ issued \in Nat
  BY RetainedKeys DEF OnceInv
<1>5. ASSUME NEW e \in queue \cup {c}, e.timer = t, e.parent # None
      PROVE  d.parent = c.id /\ e.id <= c.id
  <2>1. CASE e = c
    BY <1>1, <1>5, <2>1 DEF Commands
  <2>2. CASE e \in queue
    <3>1. PICK p \in queue : c.parent = p.id
      BY <1>1, <1>2, <1>5, <2>2 DEF Fits
    <3>2. c.parent # None
      BY <1>4, <3>1, ReducerAssumption
    <3> QED
      BY <1>1, <1>4, <2>2, <3>2
  <2> QED
    BY <2>1, <2>2
<1> QED
  BY <1>1, <1>3, <1>5 DEF Fits

LEMMA AllKeys ==
  ASSUME Inv
  PROVE  issued \in Nat /\ \A d \in log \cup queue : d.id \in 1 .. issued
<1>1. issued \in Nat /\ MaxCommands \in Nat
  BY OwnershipAssumption DEF Inv, Typed
<1> QED
  BY <1>1 DEF Inv, Typed, CommandsOK, Commands

LEMMA OneAdded ==
  ASSUME OnceInv, NEW c \in Commands, c.id = issued + 1, Fits(c, log, queue),
         c.kind = "finish" => Reopened(c.timer, log \cup queue), Retain({c}),
         log' = log, claim' = claim, base' = base
  PROVE  Once(log, queue, claim, base)'
<1>1. queue' = queue \cup {c}
  BY DEF Retain
<1>2. Once(log, queue \cup {c}, claim, base)
  BY AllKeys, AddOnce DEF OnceInv
<1> QED
  BY <1>1, <1>2

LEMMA TwoAdded ==
  ASSUME OnceInv, NEW c \in Commands, c.id = issued + 1, Fits(c, log, queue),
         c.kind = "finish" => Reopened(c.timer, log \cup queue),
         NEW d \in Commands, d.id = issued + 2, Fits(d, log, queue \cup {c}),
         d.kind # "finish", Retain({c, d}),
         log' = log, claim' = claim, base' = base
  PROVE  Once(log, queue, claim, base)'
<1>1. queue' = (queue \cup {c}) \cup {d}
  BY DEF Retain
<1>2. Once(log, queue \cup {c}, claim, base)
  BY AllKeys, AddOnce DEF OnceInv
<1>3. /\ issued + 1 \in Nat /\ d.id = (issued + 1) + 1
      /\ \A e \in log \cup (queue \cup {c}) : e.id \in 1 .. (issued + 1)
  BY AllKeys DEF OnceInv
<1>4. Once(log, (queue \cup {c}) \cup {d}, claim, base)
  BY <1>2, <1>3, AddOnce
<1> QED
  BY <1>1, <1>4

LEMMA TabOnce ==
  ASSUME OnceInv, NEW tab \in Tabs,
         StartTimer(tab) \/ PauseOrResume(tab) \/ CancelAndClear(tab)
  PROVE  Once(log, queue, claim, base)'
<1>1. log' = log /\ claim' = claim /\ base' = base /\ Inv
  BY DEF StartTimer, PauseOrResume, CancelAndClear, OnceInv
<1>2. CASE StartTimer(tab)
  <2>1. PICK t \in Timers, c \in Commands :
          /\ t \notin Started(log \cup queue)
          /\ c.id = issued + 1 /\ c.device = "local" /\ c.kind = "start" /\ c.timer = t
          /\ Retain({c})
    BY <1>1, <1>2, StartTimerIs
  <2>2. \A e \in queue : e.timer # t
    BY <2>1 DEF OnceInv, Once, Arranged, Retained
  <2>3. Fits(c, log, queue)
    BY <2>1, <2>2, StartFits
  <2> QED
    BY <1>1, <2>1, <2>3, OneAdded
<1>3. CASE PauseOrResume(tab)
  <2>1. PICK t, c : Follows(c, t) /\ c.kind \in {"pause", "resume"} /\ Retain({c})
    BY <1>1, <1>3, PauseOrResumeIs
  <2>2. c \in Commands /\ c.id = issued + 1 /\ Fits(c, log, queue)
    BY <2>1, FollowsFits DEF Follows
  <2> QED
    BY <1>1, <2>1, <2>2, OneAdded
<1>4. CASE CancelAndClear(tab)
  <2>1. ASSUME NEW t, NEW c, Follows(c, t), c.kind = "clear", Retain({c})
        PROVE  Once(log, queue, claim, base)'
    <3>1. c \in Commands /\ c.id = issued + 1 /\ Fits(c, log, queue)
      BY <2>1, FollowsFits DEF Follows
    <3> QED
      BY <1>1, <2>1, <3>1, OneAdded
  <2>2. ASSUME NEW t, NEW c, NEW d, CancelAndClears(c, d, t)
        PROVE  Once(log, queue, claim, base)'
    <3>1. /\ Follows(c, t) /\ c.kind = "cancel" /\ c \in Commands /\ c.id = issued + 1
          /\ d \in Commands /\ d.id = issued + 2 /\ d.kind = "clear" /\ Retain({c, d})
      BY <2>2 DEF CancelAndClears, Follows, Next2
    <3>2. Fits(c, log, queue) /\ Fits(d, log, queue \cup {c})
      BY <2>2, <3>1, FollowsFits, ClearFits
    <3> QED
      BY <1>1, <3>1, <3>2, TwoAdded
  <2> QED
    BY <1>1, <1>4, <2>1, <2>2, CancelAndClearIs
<1> QED
  BY <1>2, <1>3, <1>4

LEMMA FinishOnce ==
  ASSUME OnceInv, NEW tab \in Tabs, NEW automatic \in BOOLEAN, Finish(tab, automatic)
  PROVE  Once(log, queue, claim, base)'
<1>1. log' = log /\ claim' = claim /\ base' = base /\ Inv
  BY DEF Finish, OnceInv
<1>2. PICK timer, c : FinishesOnly(c, timer) \/ \E d : FinishesWith(c, d, timer, tab)
  BY <1>1, FinishIs
<1> DEFINE t == timer.timer
<1>3. /\ Follows(c, t) /\ c.kind = "finish"
      /\ timer \in {Current, Canonical(shown)} /\ timer # None /\ Unfinished(timer)
  BY <1>2 DEF FinishesOnly, FinishesWith
<1>4. c \in Commands /\ c.id = issued + 1 /\ c.timer = t /\ Fits(c, log, queue)
      /\ t \in Started(log \cup queue)
  BY <1>3, FollowsFits DEF Follows
<1>5. Reopened(c.timer, log \cup queue)
  BY <1>3, <1>4, FinishReopened
<1>6. CASE FinishesOnly(c, timer)
  BY <1>1, <1>4, <1>5, <1>6, OneAdded DEF FinishesOnly
<1>7. ASSUME NEW d, FinishesWith(c, d, timer, tab)
      PROVE  Once(log, queue, claim, base)'
  <2>1. /\ d \in Commands /\ d.id = issued + 2 /\ d.kind = "start" /\ d.device = "local"
        /\ d.timer \notin Started(log \cup queue) /\ Retain({c, d})
    BY <1>7 DEF FinishesWith, Next2
  <2>2. \A e \in queue \cup {c} : e.timer # d.timer
    BY <1>4, <2>1 DEF OnceInv, Once, Arranged, Retained
  <2>3. Fits(d, log, queue \cup {c})
    BY <2>1, <2>2, StartFits
  <2> QED
    BY <1>1, <1>4, <1>5, <2>1, <2>3, TwoAdded
<1> QED
  BY <1>2, <1>6, <1>7

LEMMA PeerOnce ==
  ASSUME OnceInv, NEW kind \in PeerKinds, NEW t \in Timers, PeerCommand(kind, t)
  PROVE  Once(log, queue, claim, base)'
<1>1. PICK c \in Commands :
        /\ c.id = issued + 1 /\ c.device = "peer" /\ log' = log \cup {c}
        /\ queue' = queue /\ claim' = claim /\ base' = base
  BY PeerCommandIs DEF OnceInv
<1>2. Arranged(log \cup {c}, queue, claim)
  BY <1>1, AllKeys, PeerArranged DEF OnceInv, Once
<1>3. ~ OwnFinish(c)
  BY <1>1 DEF OwnFinish
<1>4. BaseOver(log \cup {c}, queue, base)
  BY <1>3 DEF OnceInv, Once, BaseOver
<1>5. OnceIn((log \cup {c}) \cup queue)
  <2> SUFFICES ASSUME NEW f \in (log \cup {c}) \cup queue, NEW g \in (log \cup {c}) \cup queue,
                      OwnFinish(f), OwnFinish(g), f.timer = g.timer, f.id < g.id
               PROVE  \E e \in (log \cup {c}) \cup queue :
                        Reopens(e, g.timer) /\ f.id < e.id /\ e.id < g.id
    BY DEF OnceIn
  <2>1. f \in log \cup queue /\ g \in log \cup queue
    BY <1>3
  <2>2. \E e \in log \cup queue : Reopens(e, g.timer) /\ f.id < e.id /\ e.id < g.id
    BY <2>1 DEF OnceInv, Once, OnceIn
  <2> QED
    BY <2>2
<1> QED
  BY <1>1, <1>2, <1>4, <1>5 DEF Once

LEMMA DeliverOnce ==
  ASSUME OnceInv, Deliver
  PROVE  Once(log, queue, claim, base)'
<1> DEFINE batch == {c \in queue : \A d \in queue : d.parent # None => c.id < d.id}
<1>1. /\ claim = {} /\ claim' = {c.id : c \in batch} /\ log' = log \cup batch
      /\ queue' = queue /\ base' = base
  BY DEF Deliver
<1>2. \A d \in queue : d.id \in Int
  BY AllKeys DEF OnceInv
<1>3. batch \subseteq queue
  OBVIOUS
<1>4. Arranged(log, queue, {})
  BY <1>1 DEF OnceInv, Once
<1>5. Arranged(log \cup batch, queue, {c.id : c \in batch})
  BY <1>2, <1>4, DeliverArranged
<1> HIDE DEF batch
<1>6. BaseOver(log \cup batch, queue, base)
  BY <1>3 DEF OnceInv, Once, BaseOver
<1>7. (log \cup batch) \cup queue = log \cup queue
  BY <1>3
<1> QED
  BY <1>1, <1>5, <1>6, <1>7 DEF OnceInv, Once

\* The installed snapshot knows of every finish that is at the server.
LEMMA InstallOver ==
  ASSUME OnceInv, NEW tab \in Tabs, Install(tab), NEW f \in log, OwnFinish(f),
         \A c \in log : f.id < c.id => ~ Reopens(c, f.timer)
  PROVE  Over(Seed(base'.timer, base'.rows).sessions[f.timer])
<1> DEFINE r == Served(log)
           st == Projected(r, now)
           t == f.timer
<1>1. base'.timer = Canonical(st) /\ base'.rows = History(st) /\ st \in Good(Started(log))
  BY InstallIs DEF OnceInv
<1>2. log \subseteq Commands /\ f \in Commands /\ t \in Timers
  BY DEF OnceInv, Inv, Typed, CommandsOK, Commands
<1>3. \A c \in log : c.kind = "start" => c.timer \in Started(log)
  BY <1>2, StartsCount
<1>4. KeysApart(log)
  BY DEF OnceInv, Once, Arranged, KeysApart
<1>5. Over(r.sessions[t])
  BY <1>2, <1>3, <1>4, GoodFresh, FinishReplay DEF Served, OwnFinish
<1>6. r \in Reduction
  BY <1>2, ServedGood DEF Good
<1>7. Over(st.sessions[t]) /\ st \in Reduction
  BY <1>1, <1>2, <1>5, <1>6, OverDeadline DEF Projected, Good
<1> HIDE DEF st, t
<1> QED
  BY <1>1, <1>2, <1>7, SeedOver DEF t

LEMMA InstallOnce ==
  ASSUME OnceInv, NEW tab \in Tabs, Install(tab)
  PROVE  Once(log, queue, claim, base)'
<1> DEFINE st == Projected(Served(log), now)
           opened == Opened(st)
           D == DroppedBy(claim \ opened)
           kept == {c \in queue : c.id \notin claim} \ D
<1>1. /\ log' = log /\ claim' = {}
      /\ queue' = {[c EXCEPT !.parent = IF @ \in opened THEN None ELSE @] : c \in kept}
  BY DEF Install
<1>2. queue' = {Opening(c, opened) : c \in kept}
  BY <1>1 DEF Opening
<1>3. queue \subseteq Commands /\ \A c \in queue : c.id \in Nat /\ c.id # None
  <2>1. \A c \in queue : c.id \in Nat
    BY AllKeys DEF OnceInv
  <2> QED
    BY <2>1, ReducerAssumption DEF OnceInv, Inv, Typed, CommandsOK
<1>4. opened \subseteq claim
  BY DEF Opened
<1>5. Arranged(log, queue, claim) /\ claim = {c.id : c \in queue \cap log}
  BY DEF OnceInv, Once, Arranged
<1>6. Drops(D, queue)
  <2>1. None \notin claim \ opened
    BY <1>3, <1>5
  <2> QED
    BY <1>3, <2>1, DroppedByDrops
<1> HIDE DEF opened, D, st
<1>7. Arranged(log, {Opening(c, opened) : c \in kept}, {})
  <2>1. kept = {c \in queue : c.id \notin claim} \ D
    OBVIOUS
  <2> HIDE DEF kept
  <2> QED
    BY <1>3, <1>4, <1>5, <1>6, <2>1, InstallArranged
<1>8. \A x \in queue' : \E c \in kept : Stays(c, x)
  BY <1>2, <1>3, OpeningFields
<1>9. \A c \in kept : \E x \in queue' : Stays(c, x)
  BY <1>2, <1>3, OpeningFields
<1>10. BaseOver(log, queue', base')
  BY <1>1, InstallOver DEF BaseOver
<1>11. OnceIn(log \cup queue')
  <2> SUFFICES ASSUME NEW f \in log \cup queue', NEW g \in log \cup queue',
                      OwnFinish(f), OwnFinish(g), f.timer = g.timer, f.id < g.id
               PROVE  \E e \in log \cup queue' :
                        Reopens(e, g.timer) /\ f.id < e.id /\ e.id < g.id
    BY DEF OnceIn
  <2>1. PICK f0 \in log \cup kept : Stays(f0, f) \/ f0 = f
    BY <1>8
  <2>2. PICK g0 \in log \cup kept : (Stays(g0, g) /\ g0 \in kept) \/ (g0 = g /\ g \in log)
    BY <1>8
  <2>3. kept \subseteq queue
    OBVIOUS
  <2>4. /\ f0 \in log \cup queue /\ f0.id = f.id /\ OwnFinish(f0) /\ f0.timer = f.timer
        /\ g0 \in log \cup queue /\ g0.id = g.id /\ OwnFinish(g0) /\ g0.timer = g.timer
    BY <2>1, <2>2, <2>3 DEF Stays, OwnFinish
  <2>5. PICK e \in log \cup queue : Reopens(e, g.timer) /\ f.id < e.id /\ e.id < g.id
    BY <2>4 DEF OnceInv, Once, OnceIn
  <2>6. CASE e \in log
    BY <2>5, <2>6
  <2>7. CASE e \in kept
    <3>1. PICK x \in queue' : Stays(e, x)
      BY <1>9, <2>7
    <3>2. Reopens(x, g.timer) /\ f.id < x.id /\ x.id < g.id
      BY <2>5, <3>1 DEF Stays, Reopens
    <3> QED
      BY <3>2
  <2>8. CASE e \notin log /\ e \notin kept
    <3>1. e \in queue /\ e.id \notin claim
      BY <1>5, <2>8 DEF Arranged, KeysApart
    <3>2. e \in D
      BY <2>8, <3>1
    <3>3. e.timer = g0.timer /\ e.id < g0.id
      BY <2>4, <2>5 DEF Reopens
    <3>4. g0 \in queue
      <4>1. g0 \in log => g0.id < e.id
        BY <1>5, <2>4, <2>8, <3>1 DEF Arranged, SentFirst, OwnFinish
      <4>2. g0.id \in Nat /\ e.id \in Nat
        BY <2>4, <3>1, AllKeys DEF OnceInv
      <4> QED
        BY <2>4, <3>3, <4>1, <4>2
    <3>5. KeysApart(queue) /\ Chained(queue)
      BY <1>5 DEF Arranged, KeysApart
    <3>6. g0 \in D
      BY <1>3, <1>6, <3>2, <3>3, <3>4, <3>5, DropSuffix
    <3>7. g0 \in log
      BY <2>2, <3>6
    <3>8. g0.id < e.id
      BY <1>5, <2>4, <2>8, <3>1, <3>7 DEF Arranged, SentFirst, OwnFinish
    <3>9. g0.id \in Nat /\ e.id \in Nat
      BY <2>4, <3>1, AllKeys DEF OnceInv
    <3> QED
      BY <3>3, <3>8, <3>9
  <2> QED
    BY <2>6, <2>7, <2>8
<1> QED
  BY <1>1, <1>2, <1>7, <1>10, <1>11 DEF Once

LEMMA OnceInvariance ==
  Spec => []OnceInv
<1>1. Init => Once(log, queue, claim, base)
  BY DEF Init, Once, Arranged, KeysApart, Retained, SentFirst, StartsFirst, Chained,
         BaseOver, OnceIn
<1>2. ASSUME OnceInv, [Next]_vars
      PROVE  Once(log, queue, claim, base)'
  <2>1. ASSUME NEW tab \in Tabs, StartTimer(tab) \/ PauseOrResume(tab) \/ CancelAndClear(tab)
        PROVE  Once(log, queue, claim, base)'
    BY <1>2, <2>1, TabOnce
  <2>2. ASSUME NEW tab \in Tabs, NEW automatic \in BOOLEAN, Finish(tab, automatic)
        PROVE  Once(log, queue, claim, base)'
    BY <1>2, <2>2, FinishOnce
  <2>3. ASSUME NEW tab \in Tabs, Install(tab)
        PROVE  Once(log, queue, claim, base)'
    BY <1>2, <2>3, InstallOnce
  <2>4. ASSUME NEW kind \in PeerKinds, NEW t \in Timers, PeerCommand(kind, t)
        PROVE  Once(log, queue, claim, base)'
    BY <1>2, <2>4, PeerOnce
  <2>5. CASE Deliver
    BY <1>2, <2>5, DeliverOnce
  <2>6. ASSUME \/ \E tab \in Tabs : Heartbeat(tab) \/ Close(tab) \/ See(tab)
               \/ Tick \/ UNCHANGED vars
        PROVE  Once(log, queue, claim, base)'
    <3>1. UNCHANGED <<log, queue, claim, base>>
      BY <2>6 DEF Heartbeat, Close, See, Tick, vars
    <3> QED
      BY <1>2, <3>1 DEF OnceInv
  <2> QED
    BY <1>2, <2>1, <2>2, <2>3, <2>4, <2>5, <2>6 DEF Next
<1>3. Init => OnceInv
  BY <1>1, InitInv DEF OnceInv
<1>4. OnceInv /\ [Next]_vars => OnceInv'
  BY <1>2, NextInv DEF OnceInv
<1> QED
  BY <1>3, <1>4, PTL DEF Spec

(* This device finishes a timer once: between two finishes of its own      *)
(* something took the timer up again, whichever tabs sent them, whatever   *)
(* the server applied, refused or was told by the other device in between  *)
(* (PWA_NATURAL_COMPLETION.md: "does not create another session").         *)
THEOREM OneFinishHolds ==
  Spec => []OneFinish
  BY OnceInvariance, OnceIsOneFinish, PTL
=============================================================================
