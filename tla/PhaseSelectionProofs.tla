------------------------ MODULE PhaseSelectionProofs ------------------------
(***************************************************************************)
(* Theorems about the selected phase on Apple, Android, the desktop and in *)
(* a PWA that has opted in to the lifecycle, for any numbers of commands,  *)
(* choices and refusals, any durations and any days: first that a choice   *)
(* stands, then that a break follows its focus.                            *)
(***************************************************************************)
EXTENDS PhaseSelection, TimerReducerProofs, FiniteSetTheorems,
        WellFoundedInduction

-----------------------------------------------------------------------------
(* The commands of an installation, one after the other.  Induction over   *)
(* them goes by a least counterexample.                                    *)

Place(p, in, n) == IF p \in {"apple", "pwa"} THEN in.last + 1 - n ELSE n

\* f lists the selections up to m.
Unfolds(f, p, in, m) ==
  f = [n \in 0 .. m |-> IF n = 0 THEN in.selection
                        ELSE ResolveAt(p, f[n - 1], Place(p, in, n), in)]

LEMMA ResolvingExists ==
  ASSUME NEW p, NEW in, NEW m \in Nat
  PROVE  \E f : Unfolds(f, p, in, m)
<1> DEFINE Is(f, k) == Unfolds(f, p, in, k)
           T == {k \in Nat : ~ \E f : Is(f, k)}
           Next1(s, n) == ResolveAt(p, s, Place(p, in, n), in)
<1>1. SUFFICES ASSUME T # {}
               PROVE  FALSE
  OBVIOUS
<1>2. PICK k \in T : \A j \in T : k <= j
  <2>1. T \subseteq Nat
    OBVIOUS
  <2> HIDE DEF T
  <2> QED
    BY <1>1, <2>1, LeastPlace
<1>3. k \in Nat /\ ~ \E f : Is(f, k)
  OBVIOUS
<1>4. k # 0
  <2>1. Is([n \in 0 .. 0 |-> in.selection], 0)
    BY DEF Unfolds
  <2> QED
    BY <1>3, <2>1
<1>5. k - 1 \in Nat /\ k - 1 \notin T
  BY <1>2, <1>3, <1>4
<1>6. PICK g : Is(g, k - 1)
  BY <1>5
<1> DEFINE h == [n \in 0 .. k |-> IF n = k THEN Next1(g[k - 1], k) ELSE g[n]]
<1>7. \A n \in 0 .. k - 1 : h[n] = g[n]
  BY <1>3, <1>4
<1>8. \A n \in 0 .. k : h[n] = IF n = 0 THEN in.selection ELSE Next1(h[n - 1], n)
  <2> SUFFICES ASSUME NEW n \in 0 .. k
               PROVE  h[n] = IF n = 0 THEN in.selection ELSE Next1(h[n - 1], n)
    OBVIOUS
  <2>1. CASE n = k
    <3>1. h[n] = Next1(g[k - 1], k) /\ h[k - 1] = g[k - 1]
      BY <1>3, <1>4, <1>7, <2>1
    <3> QED
      BY <1>4, <2>1, <3>1
  <2>2. CASE n # k
    <3>1. n \in 0 .. k - 1 /\ (n # 0 => n - 1 \in 0 .. k - 1)
      BY <1>3, <2>2
    <3>2. g[n] = IF n = 0 THEN in.selection ELSE Next1(g[n - 1], n)
      BY <1>6, <3>1 DEF Unfolds
    <3>3. h[n] = g[n] /\ (n # 0 => h[n - 1] = g[n - 1])
      BY <1>7, <3>1
    <3> HIDE DEF h
    <3> QED
      BY <3>2, <3>3
  <2> QED
    BY <2>1, <2>2
<1>9. h = [n \in 0 .. k |-> h[n]]
  OBVIOUS
<1> HIDE DEF h
<1>10. Is(h, k)
  BY <1>8, <1>9 DEF Unfolds
<1> QED
  BY <1>3, <1>10

LEMMA ResolvingStates ==
  ASSUME NEW p, NEW in, in.last \in Nat
  PROVE  /\ Resolving(p, in)[0] = in.selection
         /\ \A n \in 1 .. in.last :
              Resolving(p, in)[n]
                = ResolveAt(p, Resolving(p, in)[n - 1], Place(p, in, n), in)
<1> DEFINE f == Resolving(p, in)
<1>1. \E g : Unfolds(g, p, in, in.last)
  BY ResolvingExists
<1>2. f = CHOOSE g : Unfolds(g, p, in, in.last)
  BY DEF Resolving, Unfolds, Place
<1>3. Unfolds(f, p, in, in.last)
  <2> HIDE DEF f
  <2> QED
    BY <1>1, <1>2
<1> HIDE DEF f
<1> QED
  BY <1>3 DEF f, Unfolds

-----------------------------------------------------------------------------
(* Generations wrap: the height of one is how many there were since the    *)
(* first of the behaviour.                                                 *)

Gens == 0 .. Generations - 1

Height(p, g) ==
  IF p # "apple" THEN g
  ELSE IF g = Generations - 1 THEN 0 ELSE g + 1

LEMMA Heights ==
  ASSUME NEW p, NEW g \in Gens
  PROVE  /\ Height(p, g) \in Gens
         /\ NextGeneration(g) \in Gens /\ PreviousGeneration(g) \in Gens
         /\ Height(p, g) + 1 < Generations =>
              Height(p, NextGeneration(g)) = Height(p, g) + 1
         /\ Height(p, g) > 0 => Height(p, PreviousGeneration(g)) = Height(p, g) - 1
         /\ \A h \in Gens : Height(p, h) = Height(p, g) => h = g
  BY CompletionAssumption DEF Gens, Height, NextGeneration, PreviousGeneration

-----------------------------------------------------------------------------
(* The timeline.                                                           *)

LEMMA Inserted ==
  ASSUME NEW S, NEW line \in Seq(S), NEW c \in S
  PROVE  /\ Insert(line, c) \in Seq(S) /\ Len(Insert(line, c)) = Len(line) + 1
         /\ \E k \in 1 .. Len(line) + 1 :
              /\ Insert(line, c)[k] = c
              /\ \A j \in 1 .. Len(line) + 1 :
                   /\ j < k => Insert(line, c)[j] = line[j]
                   /\ j > k => Insert(line, c)[j] = line[j - 1]
<1> DEFINE before == {j \in DOMAIN line : line[j].at <= c.at}
           k == Cardinality(before) + 1
           m == Len(line)
<1>1. m \in Nat /\ DOMAIN line = 1 .. m
  OBVIOUS
<1>2. IsFiniteSet(1 .. m) /\ Cardinality(1 .. m) = m
  BY <1>1, FS_Interval
<1>3. before \subseteq 1 .. m
  BY <1>1
<1>4. Cardinality(before) \in 0 .. m
  <2> HIDE DEF before, m
  <2>1. IsFiniteSet(before) /\ Cardinality(before) <= Cardinality(1 .. m)
    BY <1>2, <1>3, FS_Subset
  <2>2. Cardinality(before) \in Nat
    BY <2>1, FS_CardinalityType
  <2> QED
    BY <1>1, <1>2, <2>1, <2>2
<1>5. k \in 1 .. m + 1
  BY <1>1, <1>4
<1>6. Insert(line, c) = SubSeq(line, 1, k - 1) \o <<c>> \o SubSeq(line, k, m)
  BY DEF Insert, InsertAt
<1> HIDE DEF k, m
<1> DEFINE a == SubSeq(line, 1, k - 1)
           b == SubSeq(line, k, m)
<1>7. /\ a \in Seq(S) /\ Len(a) = k - 1 /\ \A j \in 1 .. k - 1 : a[j] = line[j]
  BY <1>1, <1>5 DEF m
<1>8. /\ b \in Seq(S) /\ Len(b) = m + 1 - k
      /\ \A j \in 1 .. m + 1 - k : b[j] = line[k + j - 1]
  BY <1>1, <1>5 DEF m
<1> HIDE DEF a, b
<1>9. /\ a \o <<c>> \in Seq(S) /\ Len(a \o <<c>>) = k
      /\ (a \o <<c>>)[k] = c
      /\ \A j \in 1 .. k - 1 : (a \o <<c>>)[j] = line[j]
  BY <1>5, <1>7
<1> DEFINE d == a \o <<c>>
<1> HIDE DEF d
<1>10. /\ d \in Seq(S) /\ Len(d) = k /\ d[k] = c
       /\ \A j \in 1 .. k - 1 : d[j] = line[j]
  BY <1>9 DEF d
<1>11. Insert(line, c) = d \o b
  BY <1>6 DEF a, b, d
<1>12. /\ d \o b \in Seq(S) /\ Len(d \o b) = m + 1
       /\ \A j \in 1 .. k : (d \o b)[j] = d[j]
       /\ \A j \in k + 1 .. m + 1 : (d \o b)[j] = b[j - k]
  BY <1>1, <1>5, <1>8, <1>10
<1>13. \A j \in 1 .. m + 1 :
         /\ j < k => (d \o b)[j] = line[j]
         /\ j > k => (d \o b)[j] = line[j - 1]
  <2> SUFFICES ASSUME NEW j \in 1 .. m + 1
               PROVE  /\ j < k => (d \o b)[j] = line[j]
                      /\ j > k => (d \o b)[j] = line[j - 1]
    OBVIOUS
  <2>1. CASE j < k
    BY <1>1, <1>5, <1>10, <1>12, <2>1
  <2>2. CASE j > k
    <3>1. j \in k + 1 .. m + 1 /\ j - k \in 1 .. m + 1 - k /\ k + (j - k) - 1 = j - 1
      BY <1>1, <1>5, <2>2
    <3>2. (d \o b)[j] = b[j - k]
      BY <1>12, <3>1
    <3>3. b[j - k] = line[k + (j - k) - 1]
      BY <1>8, <3>1
    <3> QED
      BY <2>2, <3>1, <3>2, <3>3, <1>5
  <2> QED
    BY <1>1, <1>5, <2>1, <2>2
<1>14. (d \o b)[k] = c
  BY <1>5, <1>10, <1>12
<1> QED
  BY <1>1, <1>5, <1>11, <1>12, <1>13, <1>14 DEF m

-----------------------------------------------------------------------------
(* What an installation makes of the selection.                            *)

Clients == {"apple", "android", "desktop", "pwa"}

\* s has the fields of a selection.
Shaped(s) ==
  /\ s = [phase |-> s.phase, generation |-> s.generation, explicit |-> s.explicit]
  /\ s.generation \in Gens

\* r is s but for its phase and, on Apple, its generation.
Moved(p, s, r) ==
  /\ Shaped(r) /\ r.explicit = s.explicit
  /\ p # "apple" => r.generation = s.generation

LEMMA OtherPhase ==
  ASSUME NEW p, NEW s, Shaped(s), NEW x
  PROVE  Moved(p, s, [s EXCEPT !.phase = x]) /\ [s EXCEPT !.phase = x].phase = x
         /\ [s EXCEPT !.phase = s.phase] = s
<1> DEFINE r == [s EXCEPT !.phase = x]
<1>1. r = [phase |-> x, generation |-> s.generation, explicit |-> s.explicit]
  BY DEF Shaped
<1>2. [s EXCEPT !.phase = s.phase] = s
  BY DEF Shaped
<1> HIDE DEF r
<1>3. r.phase = x /\ r.generation = s.generation /\ r.explicit = s.explicit
  BY <1>1
<1>4. Shaped(r)
  BY <1>1, <1>3 DEF Shaped
<1> QED
  BY <1>2, <1>3, <1>4 DEF Moved, r

LEMMA RestoreMoves ==
  ASSUME NEW p, NEW s, Shaped(s), NEW a
  PROVE  /\ Moved(p, s, Restore(p, s, a))
         /\ \/ Restore(p, s, a) = s
            \/ /\ s.generation = a.generation
               /\ p = "apple" => Restore(p, s, a).generation
                                   = PreviousGeneration(s.generation)
<1> DEFINE r == Restore(p, s, a)
<1>1. CASE s.generation # a.generation \/ s.phase # a.advanced
  <2>1. r = s
    BY <1>1 DEF Restore
  <2> QED
    BY <2>1 DEF Moved
<1>2. CASE ~ (s.generation # a.generation \/ s.phase # a.advanced)
  <2> DEFINE g == IF p = "apple" THEN PreviousGeneration(s.generation)
                  ELSE s.generation
  <2>1. r = [s EXCEPT !.phase = a.previous, !.generation = g]
    BY <1>2 DEF Restore, Shaped
  <2>2. r = [phase |-> a.previous, generation |-> g, explicit |-> s.explicit]
    BY <2>1 DEF Shaped
  <2>3. g \in Gens
    BY Heights DEF Shaped
  <2>4. r.phase = a.previous /\ r.generation = g /\ r.explicit = s.explicit
    BY <2>2
  <2> HIDE DEF r, g
  <2>5. Shaped(r)
    BY <2>2, <2>3, <2>4 DEF Shaped
  <2> QED
    BY <1>2, <2>4, <2>5 DEF Moved, r, g
<1> QED
  BY <1>1, <1>2

LEMMA ResolveMoves ==
  ASSUME NEW p, NEW s, Shaped(s), NEW k, NEW in
  PROVE  Moved(p, s, ResolveAt(p, s, k, in))
<1>1. Moved(p, s, s)
  BY DEF Moved
<1>2. CASE p = "android"
  <2>1. ResolveAt(p, s, k, in) = AndroidAt(s, k, in)
    BY <1>2 DEF ResolveAt
  <2> QED
    BY <1>1, <2>1, OtherPhase DEF AndroidAt
<1>3. CASE p = "pwa"
  <2>1. ResolveAt(p, s, k, in) = PwaAt(s, k, in)
    BY <1>3 DEF ResolveAt
  <2> QED
    BY <1>1, <2>1, OtherPhase DEF PwaAt
<1>4. CASE p \notin {"android", "pwa"}
  <2>1. ResolveAt(p, s, k, in) = RestoreAt(p, s, k, in)
    BY <1>4 DEF ResolveAt
  <2> QED
    BY <1>1, <2>1, RestoreMoves DEF RestoreAt
<1> QED
  BY <1>2, <1>3, <1>4

LEMMA ResolvingMoves ==
  ASSUME NEW p, NEW in, in.last \in Nat, Shaped(in.selection)
  PROVE  \A n \in 0 .. in.last : Moved(p, in.selection, Resolving(p, in)[n])
<1> DEFINE T == {n \in 0 .. in.last : ~ Moved(p, in.selection, Resolving(p, in)[n])}
<1>1. SUFFICES ASSUME T # {}
               PROVE  FALSE
  OBVIOUS
<1>2. PICK k \in T : \A j \in T : k <= j
  <2>1. T \subseteq Nat
    OBVIOUS
  <2> HIDE DEF T
  <2> QED
    BY <1>1, <2>1, LeastPlace
<1>3. k # 0
  BY <1>2, ResolvingStates DEF Moved
<1>4. k \in 1 .. in.last /\ k - 1 \in 0 .. in.last /\ k - 1 \notin T
  BY <1>2, <1>3
<1>5. Moved(p, in.selection, Resolving(p, in)[k - 1])
  BY <1>4
<1>6. Moved(p, Resolving(p, in)[k - 1], Resolving(p, in)[k])
  BY <1>4, <1>5, ResolvingStates, ResolveMoves DEF Moved
<1>7. Moved(p, in.selection, Resolving(p, in)[k])
  BY <1>5, <1>6 DEF Moved
<1> QED
  BY <1>2, <1>7

LEMMA InstalledMoves ==
  ASSUME NEW p \in Clients, NEW in, in.last \in Nat, Shaped(in.selection)
  PROVE  /\ Moved(p, in.selection, Installed(p, in).selection)
         /\ Installed(p, in).selection.generation
              = Resolving(p, in)[in.last].generation
         /\ Installed(p, in).advances =
              IF p \in {"android", "pwa"} THEN {} ELSE Unresolved(p, in)
<1> DEFINE sel == Resolving(p, in)[in.last]
<1>1. Moved(p, in.selection, sel)
  BY ResolvingMoves
<1>2. Shaped(sel)
  BY <1>1 DEF Moved
<1> HIDE DEF sel
<1>3. \A r : r = sel \/ (\E x : r = [sel EXCEPT !.phase = x]) =>
        /\ Moved(p, in.selection, r) /\ r.generation = sel.generation
  <2> SUFFICES ASSUME NEW r, r = sel \/ \E x : r = [sel EXCEPT !.phase = x]
               PROVE  Moved(p, in.selection, r) /\ r.generation = sel.generation
    OBVIOUS
  <2>1. r = sel \/ Moved("desktop", sel, r)
    BY <1>2, OtherPhase
  <2>2. Shaped(r) /\ r.explicit = sel.explicit /\ r.generation = sel.generation
    BY <1>2, <2>1 DEF Moved
  <2> QED
    BY <1>1, <2>2 DEF Moved
<1>4. CASE p = "android"
  <2>1. Installed(p, in) = [selection |-> sel, advances |-> {}]
    BY <1>4 DEF Installed, sel
  <2> QED
    BY <1>3, <1>4, <2>1 DEF sel
<1>5. CASE p = "pwa"
  <2>1. Installed(p, in) = [selection |-> PwaInstall(sel, in), advances |-> {}]
    BY <1>5 DEF Installed, sel
  <2>2. PwaInstall(sel, in) = sel
          \/ \E x : PwaInstall(sel, in) = [sel EXCEPT !.phase = x]
    BY DEF PwaInstall
  <2> DEFINE r == PwaInstall(sel, in)
  <2>3. r = sel \/ \E x : r = [sel EXCEPT !.phase = x]
    BY <2>2
  <2> HIDE DEF r
  <2>4. Moved(p, in.selection, r) /\ r.generation = sel.generation
    BY <1>3, <2>3
  <2>5. /\ Installed(p, in).selection = r
        /\ Installed(p, in).advances =
             IF p \in {"android", "pwa"} THEN {} ELSE Unresolved(p, in)
    BY <1>5, <2>1 DEF r
  <2> QED
    BY <2>4, <2>5 DEF sel
<1>6. CASE p \in {"apple", "desktop"}
  <2>1. Installed(p, in) = [selection |-> LatestInstall(p, sel, in),
                            advances |-> Unresolved(p, in)]
    BY <1>6 DEF Installed, sel
  <2>2. LatestInstall(p, sel, in) = sel
          \/ \E x : LatestInstall(p, sel, in) = [sel EXCEPT !.phase = x]
    BY DEF LatestInstall
  <2> DEFINE r == LatestInstall(p, sel, in)
  <2>3. r = sel \/ \E x : r = [sel EXCEPT !.phase = x]
    BY <2>2
  <2> HIDE DEF r
  <2>4. Moved(p, in.selection, r) /\ r.generation = sel.generation
    BY <1>3, <2>3
  <2>5. /\ Installed(p, in).selection = r
        /\ Installed(p, in).advances =
             IF p \in {"android", "pwa"} THEN {} ELSE Unresolved(p, in)
    BY <1>6, <2>1 DEF r
  <2> QED
    BY <2>4, <2>5 DEF sel
<1> QED
  BY <1>4, <1>5, <1>6 DEF Clients

-----------------------------------------------------------------------------
(* Advances under the generation of the selection.                         *)

\* No advance is newer than the selection.
Below(p, advs, g) ==
  \A a \in advs : a.generation \in Gens /\ Height(p, a.generation) <= Height(p, g)

\* On Apple every advance has a generation of its own.
Ranked(advs) ==
  /\ \A a \in advs : a.cmd \in Nat /\ Height("apple", a.generation) > 0
  /\ \A a, b \in advs :
       /\ a.cmd = b.cmd => a = b
       /\ a.cmd < b.cmd =>
            Height("apple", a.generation) < Height("apple", b.generation)

\* An undone advance gives its generation back, and those left stay below.
LEMMA AppleRollback ==
  ASSUME NEW in, in.last \in Nat, Shaped(in.selection), Ranked(in.advances),
         Below("apple", in.advances, in.selection.generation)
  PROVE  LET g == Resolving("apple", in)[in.last].generation IN
         /\ g \in Gens
         /\ Height("apple", g) <= Height("apple", in.selection.generation)
         /\ Below("apple", Unresolved("apple", in), g)
<1> DEFINE gen(n) == Resolving("apple", in)[n].generation
           undone == Undone("apple", in)
           Ok(n) == /\ gen(n) \in Gens
                    /\ Height("apple", gen(n))
                         <= Height("apple", in.selection.generation)
                    /\ \A b \in in.advances :
                         b.cmd <= in.last - n \/ b \notin undone =>
                           Height("apple", b.generation) <= Height("apple", gen(n))
           T == {n \in 0 .. in.last : ~ Ok(n)}
<1>1. \A n \in 0 .. in.last : Shaped(Resolving("apple", in)[n]) /\ gen(n) \in Gens
  BY ResolvingMoves DEF Moved, Shaped
<1>2. \A a \in undone : \A b \in in.advances : a.cmd <= b.cmd => b \in undone
  <2> SUFFICES ASSUME NEW a \in undone, NEW b \in in.advances, a.cmd <= b.cmd
               PROVE  b \in undone
    OBVIOUS
  <2>1. a \in in.advances
    BY DEF Undone
  <2>2. PICK c \in in.advances : c.cmd <= a.cmd /\ Invalid("apple", c, in)
    BY DEF Undone
  <2>3. c.cmd <= b.cmd
    BY <2>1, <2>2 DEF Ranked
  <2> QED
    BY <2>2, <2>3 DEF Undone
<1>3. undone \subseteq in.advances
  BY DEF Undone
<1> HIDE DEF undone
<1>4. T = {}
  <2> SUFFICES ASSUME T # {}
               PROVE  FALSE
    OBVIOUS
  <2>1. PICK n \in T : \A j \in T : n <= j
    <3>1. T \subseteq Nat
      OBVIOUS
    <3> HIDE DEF T
    <3> QED
      BY <3>1, LeastPlace
  <2>2. n \in 0 .. in.last /\ ~ Ok(n)
    BY <2>1
  <2>3. n # 0
    <3>1. gen(0) = in.selection.generation
      BY ResolvingStates
    <3>2. Ok(0)
      BY <3>1, Heights DEF Below, Shaped, Gens
    <3> QED
      BY <2>2, <3>2
  <2>4. n \in 1 .. in.last /\ n - 1 \in 0 .. in.last /\ Ok(n - 1)
    BY <2>1, <2>2, <2>3
  <2> DEFINE s == Resolving("apple", in)[n - 1]
             k == in.last + 1 - n
             due == {a \in undone : a.cmd = k}
  <2>5. Shaped(s) /\ k \in Int
    BY <1>1, <2>4
  <2>6. Resolving("apple", in)[n] = RestoreAt("apple", s, k, in)
    BY <2>4, ResolvingStates DEF ResolveAt, Place
  <2>7. CASE due = {}
    <3>1. gen(n) = gen(n - 1)
      BY <2>6, <2>7 DEF RestoreAt, undone
    <3>2. \A b \in in.advances :
            b.cmd <= in.last - n => b.cmd <= in.last - (n - 1)
      BY <2>4 DEF Ranked
    <3> QED
      BY <2>2, <2>4, <3>1, <3>2
  <2>8. CASE due # {}
    <3> DEFINE a == CHOOSE x \in due : TRUE
    <3>1. a \in undone /\ a.cmd = k /\ a \in in.advances
      BY <1>3, <2>8
    <3>2. Resolving("apple", in)[n] = Restore("apple", s, a)
      BY <2>6, <2>8 DEF RestoreAt, undone
    <3> HIDE DEF a, due
    <3>3. \A b \in in.advances : b.cmd <= in.last - n \/ b \notin undone =>
            /\ b.cmd < a.cmd
            /\ b.cmd <= in.last - (n - 1) \/ b \notin undone
      <4> SUFFICES ASSUME NEW b \in in.advances,
                          b.cmd <= in.last - n \/ b \notin undone
                   PROVE  /\ b.cmd < a.cmd
                          /\ b.cmd <= in.last - (n - 1) \/ b \notin undone
        OBVIOUS
      <4>1. b.cmd \in Nat /\ a.cmd \in Nat
        BY <3>1 DEF Ranked
      <4>2. CASE b.cmd <= in.last - n
        BY <2>4, <3>1, <4>1, <4>2
      <4>3. CASE b \notin undone
        <5>1. ~ (a.cmd <= b.cmd)
          BY <1>2, <3>1, <4>3
        <5> QED
          BY <4>1, <4>3, <5>1
      <4> QED
        BY <4>2, <4>3
    <3>4. CASE Restore("apple", s, a) = s
      <4>1. gen(n) = gen(n - 1)
        BY <3>2, <3>4
      <4> QED
        BY <2>2, <2>4, <3>3, <4>1
    <3>5. CASE /\ s.generation = a.generation
               /\ Restore("apple", s, a).generation = PreviousGeneration(s.generation)
      <4>1. gen(n) = PreviousGeneration(gen(n - 1)) /\ gen(n - 1) = a.generation
        BY <3>2, <3>5
      <4>2. gen(n - 1) \in Gens /\ gen(n) \in Gens
        BY <1>1, <2>2, <2>4
      <4>3. Height("apple", gen(n)) = Height("apple", gen(n - 1)) - 1
        BY <3>1, <4>1, <4>2, Heights DEF Ranked
      <4>4. \A b \in in.advances : b.cmd <= in.last - n \/ b \notin undone =>
              Height("apple", b.generation) <= Height("apple", gen(n))
        <5> SUFFICES ASSUME NEW b \in in.advances,
                            b.cmd <= in.last - n \/ b \notin undone
                     PROVE  Height("apple", b.generation) <= Height("apple", gen(n))
          OBVIOUS
        <5>1. Height("apple", b.generation) < Height("apple", a.generation)
          BY <3>1, <3>3 DEF Ranked
        <5>2. Height("apple", b.generation) \in Gens /\ Height("apple", gen(n - 1)) \in Gens
          BY <4>2, Heights DEF Below
        <5> QED
          BY <4>1, <4>3, <5>1, <5>2, CompletionAssumption DEF Gens
      <4>5. Height("apple", gen(n)) <= Height("apple", in.selection.generation)
        BY <2>4, <4>2, <4>3, Heights, CompletionAssumption DEF Gens, Shaped
      <4> QED
        BY <2>2, <4>2, <4>4, <4>5
    <3> QED
      BY <2>5, <3>4, <3>5, RestoreMoves
  <2> QED
    BY <2>7, <2>8
<1>5. Ok(in.last)
  BY <1>4
<1>6. \A b \in Unresolved("apple", in) : b \in in.advances /\ b \notin undone
  BY DEF Unresolved, undone
<1> QED
  BY <1>5, <1>6 DEF Below

-----------------------------------------------------------------------------
(* A choice is fenced: by the generation, by explicit, or because Android  *)
(* has nothing to answer for.                                              *)

Fenced(p, in) ==
  /\ p \in {"apple", "desktop"} =>
       \A a \in in.advances : a.generation # in.selection.generation
  /\ p \in {"apple", "pwa"} => in.selection.explicit = TRUE
  /\ p = "pwa" => in.lifecycle # "absent"
  /\ p = "android" =>
       ChosenSinceSend(in) \/ \A c \in in.sent : c.kind # "finish"

LEMMA FencedResolve ==
  ASSUME NEW p \in Clients, NEW in, Shaped(in.selection), Fenced(p, in), NEW k
  PROVE  ResolveAt(p, in.selection, k, in) = in.selection
<1> DEFINE s == in.selection
<1>1. CASE p = "android"
  <2>1. ResolveAt(p, s, k, in) = AndroidAt(s, k, in)
    BY <1>1 DEF ResolveAt
  <2>2. ChosenSinceSend(in) \/ Finishes(in.sent, k, in) = {}
    BY <1>1 DEF Fenced, Finishes
  <2> QED
    BY <2>1, <2>2 DEF AndroidAt
<1>2. CASE p = "pwa"
  <2>1. ResolveAt(p, s, k, in) = PwaAt(s, k, in)
    BY <1>2 DEF ResolveAt
  <2>2. \A c : Protected(c.timer, c.phase, in)
    BY <1>2 DEF Protected, Fenced
  <2>3. \A c : PwaPhase(c, s.phase, in) = s.phase
    BY <2>2 DEF PwaPhase
  <2>4. [s EXCEPT !.phase = s.phase] = s
    BY OtherPhase
  <2>5. CASE Finishes(in.queued, k, in) = {}
    BY <2>1, <2>5 DEF PwaAt
  <2>6. CASE Finishes(in.queued, k, in) # {}
    <3> DEFINE c == CHOOSE c \in Finishes(in.queued, k, in) : TRUE
    <3>1. PwaAt(s, k, in) = [s EXCEPT !.phase = PwaPhase(c, s.phase, in)]
      BY <2>6 DEF PwaAt, Shaped
    <3> HIDE DEF c
    <3>2. PwaPhase(c, s.phase, in) = s.phase
      BY <2>3
    <3> QED
      BY <2>1, <2>4, <3>1, <3>2
  <2> QED
    BY <2>5, <2>6
<1>3. CASE p \in {"apple", "desktop"}
  <2>1. ResolveAt(p, s, k, in) = RestoreAt(p, s, k, in)
    BY <1>3 DEF ResolveAt
  <2>2. \A a \in Undone(p, in) : Restore(p, s, a) = s
    BY <1>3 DEF Undone, Restore, Fenced
  <2> QED
    BY <2>1, <2>2 DEF RestoreAt
<1> QED
  BY <1>1, <1>2, <1>3 DEF Clients

LEMMA FencedResolving ==
  ASSUME NEW p \in Clients, NEW in, in.last \in Nat, Shaped(in.selection),
         Fenced(p, in)
  PROVE  Resolving(p, in)[in.last] = in.selection
<1> DEFINE T == {n \in 0 .. in.last : Resolving(p, in)[n] # in.selection}
<1>1. T = {}
  <2> SUFFICES ASSUME T # {}
               PROVE  FALSE
    OBVIOUS
  <2>1. PICK k \in T : \A j \in T : k <= j
    <3>1. T \subseteq Nat
      OBVIOUS
    <3> HIDE DEF T
    <3> QED
      BY <3>1, LeastPlace
  <2>2. k # 0
    BY <2>1, ResolvingStates
  <2>3. k \in 1 .. in.last /\ k - 1 \in 0 .. in.last /\ k - 1 \notin T
    BY <2>1, <2>2
  <2>4. Resolving(p, in)[k] = ResolveAt(p, in.selection, Place(p, in, k), in)
    BY <2>3, ResolvingStates
  <2> QED
    BY <2>1, <2>4, FencedResolve
<1> QED
  BY <1>1

\* Only the desktop moves on, to follow a completion of the selected phase
\* that it has not installed before.
LEMMA FencedInstall ==
  ASSUME NEW p \in Clients, NEW in, in.last \in Nat, Shaped(in.selection),
         Fenced(p, in), \A r \in in.after : r.timer \in Nat
  PROVE  \/ Installed(p, in).selection = in.selection
         \/ /\ p = "desktop"
            /\ \E r \in CompletedRows(in.after) \ in.before :
                 r.phase = in.selection.phase
<1> DEFINE s == in.selection
<1>1. Resolving(p, in)[in.last] = s
  BY FencedResolving
<1>2. CASE p = "android"
  BY <1>1, <1>2 DEF Installed
<1>3. CASE p = "pwa"
  BY <1>1, <1>3 DEF Installed, PwaInstall, Fenced
<1>4. CASE p = "apple"
  <2>1. Blocked(p, in)
    BY <1>4 DEF Blocked, Fenced
  <2>2. LatestInstall(p, s, in) = s
    BY <2>1 DEF LatestInstall
  <2> QED
    BY <1>1, <1>4, <2>2 DEF Installed
<1>5. CASE p = "desktop"
  <2> DEFINE open == {r \in Newest(in) : ~ \E b \in in.before : SameCompletion(b, r)}
  <2>1. Installed(p, in).selection = LatestInstall(p, s, in)
    BY <1>1, <1>5 DEF Installed
  <2>2. CASE LatestInstall(p, s, in) = s
    BY <2>1, <2>2
  <2>3. CASE LatestInstall(p, s, in) # s
    <3>1. Latest(p, in) # None /\ Selects(p, Latest(p, in), s, in)
      BY <2>3 DEF LatestInstall
    <3>2. s.phase = Latest(p, in).phase
      BY <1>5, <3>1 DEF Selects
    <3>3. /\ open # {}
          /\ Latest(p, in) = CHOOSE r \in open : \A q \in open : r.timer <= q.timer
      BY <1>5, <3>1 DEF Latest
    <3>4. open \subseteq CompletedRows(in.after) /\ open \subseteq in.after
      BY DEF Newest, CompletedRows
    <3>5. \E r \in open : \A q \in open : r.timer <= q.timer
      <4> DEFINE T == {r.timer : r \in open}
      <4>1. T \subseteq Nat /\ T # {}
        BY <3>3, <3>4
      <4>2. PICK t \in T : \A u \in T : t <= u
        <5> HIDE DEF T
        <5> QED
          BY <4>1, LeastPlace
      <4> QED
        BY <4>2
    <3>6. Latest(p, in) \in open
      <4> HIDE DEF open
      <4> QED
        BY <3>3, <3>5
    <3>7. Latest(p, in) \notin in.before
      BY <3>4, <3>6 DEF SameCompletion, CompletedRows
    <3> QED
      BY <1>5, <3>2, <3>4, <3>6, <3>7
  <2> QED
    BY <2>2, <2>3
<1> QED
  BY <1>2, <1>3, <1>4, <1>5 DEF Clients

-----------------------------------------------------------------------------
(* What is invariant.                                                      *)

\* Some command of the line has this number.
Known(line, i) == \E j \in 1 .. Len(line) : line[j].id = i

\* The commands of a timeline are numbered without gaps.
Numbered(line) ==
  /\ \E S : line \in Seq(S)
  /\ \A j \in 1 .. Len(line) : line[j].id \in 1 .. Len(line)
  /\ \A j, k \in 1 .. Len(line) : line[j].id = line[k].id => j = k

Lines ==
  /\ Numbered(timeline)
  /\ \A i \in mine : Known(timeline, i)
  /\ made \subseteq mine /\ queue \subseteq mine
  /\ sent # None => sent.ids \subseteq mine

\* Every generation was made by a command or by a choice, so none comes twice.
Climbs ==
  /\ profile \in Profiles /\ Shaped(selection)
  /\ chosenAt \in 0 .. MaxChoices
  /\ Height(profile, selection.generation)
       <= chosenAt + Cardinality(mine \ made)
  /\ Height(profile, selection.generation) <= chosenAt + MaxCommands[profile]

\* No advance and no captured selection is newer than the selected phase.
Owed ==
  /\ profile \in {"android", "pwa"} => advances = {}
  /\ Below(profile, advances, selection.generation)
  /\ profile = "apple" =>
       /\ Ranked(advances)
       /\ \A a \in advances : a.cmd <= Len(timeline)
  /\ profile = "android" /\ sent # None =>
       /\ sent.captured.generation \in Gens
       /\ sent.captured.generation <= selection.generation

\* Why nothing that was made before the choice can reach it.
Guarded ==
  chosen # None =>
    /\ selection.phase = chosen
    /\ profile \in {"apple", "pwa"} => selection.explicit = TRUE
    /\ profile \in {"apple", "desktop"} =>
         \A a \in advances : a.generation # selection.generation
    /\ profile = "android" /\ sent # None =>
         \/ sent.captured.generation # selection.generation
         \/ \A i \in sent.ids : Cmd(i).kind # "finish"

Inv == Lines /\ Climbs /\ Owed /\ Guarded

-----------------------------------------------------------------------------
(* The timeline grows.                                                     *)

\* The command of this number.
Made(line, i) == line[CHOOSE k \in DOMAIN line : line[k].id = i]

LEMMA MadeIs ==
  ASSUME NEW line, Numbered(line), NEW k \in 1 .. Len(line)
  PROVE  Made(line, line[k].id) = line[k]
<1>1. DOMAIN line = 1 .. Len(line)
  BY DEF Numbered
<1>2. \A j \in DOMAIN line : line[j].id = line[k].id => j = k
  BY <1>1 DEF Numbered
<1> QED
  BY <1>1, <1>2 DEF Made

\* An insertion gives the next number and leaves the other commands alone.
LEMMA Grows ==
  ASSUME NEW line, Numbered(line), NEW c, c.id = Len(line) + 1
  PROVE  /\ Numbered(Insert(line, c)) /\ Len(Insert(line, c)) = Len(line) + 1
         /\ Known(Insert(line, c), c.id)
         /\ \A i : Known(line, i) =>
              /\ Known(Insert(line, c), i)
              /\ Made(Insert(line, c), i) = Made(line, i)
<1> DEFINE new == Insert(line, c)
           m == Len(line)
<1>1. PICK S : line \in Seq(S)
  BY DEF Numbered
<1>2. line \in Seq(S \cup {c})
  <2>1. line \in [1 .. Len(line) -> S] /\ Len(line) \in Nat
    BY <1>1
  <2>2. line \in [1 .. Len(line) -> S \cup {c}]
    BY <2>1
  <2> QED
    BY <2>1, <2>2
<1>3. m \in Nat
  BY <1>1
<1> DEFINE R == S \cup {c}
<1>4. c \in R /\ line \in Seq(R)
  BY <1>2
<1> HIDE DEF R
<1>5. /\ new \in Seq(R) /\ Len(new) = m + 1
      /\ \E k \in 1 .. m + 1 :
           /\ new[k] = c
           /\ \A j \in 1 .. m + 1 : /\ j < k => new[j] = line[j]
                                    /\ j > k => new[j] = line[j - 1]
  BY <1>4, Inserted
<1>6. PICK k \in 1 .. m + 1 :
        /\ new[k] = c
        /\ \A j \in 1 .. m + 1 : /\ j < k => new[j] = line[j]
                                 /\ j > k => new[j] = line[j - 1]
  BY <1>5
<1> HIDE DEF new, m
<1> DEFINE old(j) == IF j < k THEN j ELSE j - 1
<1>7. \A j \in 1 .. m + 1 : j # k => old(j) \in 1 .. m /\ new[j] = line[old(j)]
  BY <1>3, <1>6
<1>8. \A i, j \in 1 .. m + 1 : i # k /\ j # k /\ old(i) = old(j) => i = j
  BY <1>3, <1>6
<1> HIDE DEF old
<1>9. \A j \in 1 .. m : line[j].id \in 1 .. m
  BY DEF Numbered, m
<1>10. c.id = m + 1
  BY DEF m
<1>11. \A j \in 1 .. m + 1 : new[j].id \in 1 .. m + 1 /\ (new[j].id = m + 1 <=> j = k)
  <2> SUFFICES ASSUME NEW j \in 1 .. m + 1
               PROVE  new[j].id \in 1 .. m + 1 /\ (new[j].id = m + 1 <=> j = k)
    OBVIOUS
  <2>1. CASE j = k
    BY <1>3, <1>6, <1>10, <2>1
  <2>2. CASE j # k
    <3>1. new[j].id \in 1 .. m
      BY <1>7, <1>9, <2>2
    <3> QED
      BY <1>3, <2>2, <3>1
  <2> QED
    BY <2>1, <2>2
<1>12. \A i, j \in 1 .. m + 1 : new[i].id = new[j].id => i = j
  <2> SUFFICES ASSUME NEW i \in 1 .. m + 1, NEW j \in 1 .. m + 1, new[i].id = new[j].id
               PROVE  i = j
    OBVIOUS
  <2>1. CASE i = k \/ j = k
    BY <1>6, <1>11, <2>1
  <2>2. CASE i # k /\ j # k
    <3>1. line[old(i)].id = line[old(j)].id /\ old(i) \in 1 .. m /\ old(j) \in 1 .. m
      BY <1>7, <2>2
    <3>2. old(i) = old(j)
      BY <3>1 DEF Numbered, m
    <3> QED
      BY <1>8, <2>2, <3>2
  <2> QED
    BY <2>1, <2>2
<1>13. Numbered(new)
  <2>1. \E K : new \in Seq(K)
    BY <1>5
  <2>2. \A j \in 1 .. Len(new) : new[j].id \in 1 .. Len(new)
    BY <1>5, <1>11
  <2> QED
    BY <1>5, <1>12, <2>1, <2>2 DEF Numbered
<1>14. Known(new, c.id)
  BY <1>5, <1>6 DEF Known
<1>15. ASSUME NEW i, Known(line, i)
       PROVE  Known(new, i) /\ Made(new, i) = Made(line, i)
  <2>1. PICK j \in 1 .. m : line[j].id = i
    BY <1>15 DEF Known, m
  <2> DEFINE q == IF j < k THEN j ELSE j + 1
  <2>2. q \in 1 .. m + 1 /\ q # k /\ old(q) = j
    BY <1>3, <1>6, <2>1 DEF old
  <2>3. new[q] = line[j]
    BY <1>7, <2>2
  <2>4. Made(line, i) = line[j]
    BY <2>1, MadeIs DEF m
  <2>5. q \in 1 .. Len(new) /\ new[q].id = i
    BY <1>5, <2>1, <2>2, <2>3
  <2> HIDE DEF q
  <2>6. Made(new, i) = new[q]
    BY <1>13, <2>5, MadeIs
  <2> QED
    BY <2>3, <2>4, <2>5, <2>6 DEF Known
<1> QED
  BY <1>5, <1>13, <1>14, <1>15 DEF new, m

LEMMA Places ==
  ASSUME Numbered(timeline)
  PROVE  /\ Len(timeline) \in Nat /\ DOMAIN timeline = 1 .. Len(timeline)
         /\ NewId \in Nat /\ ~ Known(timeline, NewId)
         /\ \A i : Known(timeline, i) => i \in 1 .. Len(timeline)
<1>1. Len(timeline) \in Nat /\ DOMAIN timeline = 1 .. Len(timeline)
  BY DEF Numbered
<1>2. \A i : Known(timeline, i) => i \in 1 .. Len(timeline)
  BY DEF Numbered, Known
<1> QED
  BY <1>1, <1>2 DEF NewId

LEMMA LinesCount ==
  ASSUME Lines
  PROVE  IsFiniteSet(mine \ made) /\ Cardinality(mine \ made) \in Nat
<1>1. Len(timeline) \in Nat /\ mine \subseteq 1 .. Len(timeline)
  BY Places DEF Lines
<1>2. IsFiniteSet(1 .. Len(timeline))
  BY <1>1, FS_Interval
<1>3. IsFiniteSet(mine \ made)
  <2> DEFINE user == mine \ made
  <2>1. user \in SUBSET (1 .. Len(timeline))
    BY <1>1
  <2> HIDE DEF user
  <2>2. IsFiniteSet(user)
    BY <1>2, <2>1, FS_Subset
  <2> QED
    BY <2>2 DEF user
<1> QED
  BY <1>3, FS_CardinalityType

\* How a step may change the timeline and the commands of this client.
Extended ==
  \/ UNCHANGED <<timeline, mine, made>>
  \/ \E c : /\ c.id = NewId /\ timeline' = Insert(timeline, c)
            /\ \/ UNCHANGED <<mine, made>>
               \/ mine' = mine \cup {c.id} /\ made' \in {made, made \cup {c.id}}

LEMMA LinesStep ==
  ASSUME Lines, Extended, queue' \subseteq queue \cup mine',
         sent' # None => sent' = sent \/ sent'.ids \subseteq queue
  PROVE  /\ Lines'
         /\ Len(timeline) <= Len(timeline')
         /\ \A i \in mine : Cmd(i)' = Cmd(i)
         /\ Cardinality(mine \ made) \in Nat /\ Cardinality(mine' \ made') \in Nat
         /\ Cardinality(mine \ made) <= Cardinality(mine' \ made')
         /\ mine' = mine \cup {NewId} /\ made' = made =>
              Cardinality(mine' \ made') = Cardinality(mine \ made) + 1
<1> DEFINE n == NewId
           user == mine \ made
<1>1. /\ Len(timeline) \in Nat /\ n \in Nat /\ n \notin mine /\ n \notin made
      /\ mine \subseteq 1 .. Len(timeline)
  BY Places DEF Lines
<1>3. IsFiniteSet(user)
  BY LinesCount
<1>4. Cardinality(user) \in Nat
  BY LinesCount
<1>5. Cardinality(user \cup {n}) = Cardinality(user) + 1
  <2>1. n \notin user
    BY <1>1
  <2> HIDE DEF user, n
  <2> QED
    BY <1>3, <2>1, FS_AddElement
<1>6. mine' = mine \cup {n} /\ made' = made => mine' \ made' = user \cup {n}
  BY <1>1
<1>7. mine' \ made' \in {user, user \cup {n}}
  <2>1. mine' = mine \cup {n} /\ made' = made \cup {n} => mine' \ made' = user
    BY <1>1
  <2> QED
    BY <1>6, <2>1 DEF Extended
<1> DEFINE later == mine' \ made'
<1> HIDE DEF n, user, later
<1>8. /\ Cardinality(user) <= Cardinality(later) /\ Cardinality(later) \in Nat
      /\ mine' = mine \cup {n} /\ made' = made =>
           Cardinality(later) = Cardinality(user) + 1
  <2>1. CASE later = user
    <3>1. ~ (mine' = mine \cup {n} /\ made' = made)
      <4>1. n \notin user
        BY <1>1 DEF user
      <4> QED
        BY <1>6, <2>1, <4>1 DEF later
    <3> QED
      BY <1>4, <2>1, <3>1
  <2>2. CASE later = user \cup {n}
    BY <1>4, <1>5, <2>2
  <2> QED
    BY <1>7, <2>1, <2>2 DEF later
<1>9. /\ Numbered(timeline') /\ Len(timeline) <= Len(timeline')
      /\ \A i : Known(timeline, i) =>
           Known(timeline', i) /\ Made(timeline', i) = Made(timeline, i)
      /\ \A i \in mine' : Known(timeline', i)
      /\ made' \subseteq mine' /\ mine \subseteq mine'
  <2>1. CASE UNCHANGED <<timeline, mine, made>>
    BY <1>1, <2>1 DEF Lines
  <2>2. CASE \E c : /\ c.id = NewId /\ timeline' = Insert(timeline, c)
                    /\ \/ UNCHANGED <<mine, made>>
                       \/ mine' = mine \cup {c.id} /\ made' \in {made, made \cup {c.id}}
    <3>1. PICK c : /\ c.id = Len(timeline) + 1 /\ timeline' = Insert(timeline, c)
                   /\ \/ UNCHANGED <<mine, made>>
                      \/ mine' = mine \cup {c.id} /\ made' \in {made, made \cup {c.id}}
      BY <2>2 DEF NewId
    <3>2. /\ Numbered(timeline') /\ Len(timeline') = Len(timeline) + 1
          /\ Known(timeline', c.id)
          /\ \A i : Known(timeline, i) =>
               Known(timeline', i) /\ Made(timeline', i) = Made(timeline, i)
      BY <3>1, Grows DEF Lines
    <3>3. made' \subseteq mine' /\ mine \subseteq mine' /\ mine' \subseteq mine \cup {c.id}
      BY <3>1 DEF Lines
    <3>4. \A i \in mine' : Known(timeline', i)
      BY <3>2, <3>3 DEF Lines
    <3> QED
      BY <1>1, <3>2, <3>3, <3>4
  <2> QED
    BY <2>1, <2>2 DEF Extended
<1>10. \A i \in mine : Cmd(i)' = Cmd(i)
  <2>1. \A i : Cmd(i) = Made(timeline, i) /\ Cmd(i)' = Made(timeline', i)
    BY DEF Cmd, Made
  <2> QED
    BY <1>9, <2>1 DEF Lines
<1>11. Lines'
  <2>1. queue' \subseteq mine'
    BY <1>9 DEF Lines
  <2>2. sent' # None => sent'.ids \subseteq mine'
    BY <1>9 DEF Lines
  <2> QED
    BY <1>9, <2>1, <2>2 DEF Lines
<1> QED
  BY <1>4, <1>8, <1>9, <1>10, <1>11 DEF n, user, later

-----------------------------------------------------------------------------
(* Steps that make no generation.                                          *)

LEMMA Profile ==
  ASSUME Climbs
  PROVE  /\ profile \in Clients /\ MaxCommands[profile] \in Nat
         /\ MaxChoices \in Nat /\ chosenAt \in Nat
         /\ MaxCommands[profile] + MaxChoices < Generations
         /\ Generations \in Nat /\ selection.generation \in Gens
         /\ Height(profile, selection.generation) \in Gens
<1>1. profile \in Profiles /\ selection.generation \in Gens
  BY DEF Climbs, Shaped
<1>2. Height(profile, selection.generation) \in Gens
  BY <1>1, Heights
<1> QED
  BY <1>1, <1>2, SelectionAssumption, GenerationAssumption, CompletionAssumption
     DEF Climbs, Clients

\* The generation stays or, after a rollback, goes back.
LEMMA ClimbsKept ==
  ASSUME Climbs, profile' = profile, chosenAt' = chosenAt, Shaped(selection'),
         Height(profile, selection'.generation)
           <= Height(profile, selection.generation),
         Cardinality(mine \ made) \in Nat, Cardinality(mine' \ made') \in Nat,
         Cardinality(mine \ made) <= Cardinality(mine' \ made')
  PROVE  Climbs'
<1>1. Height(profile, selection'.generation) \in Gens
  BY Heights DEF Shaped
<1>2. /\ Height(profile, selection'.generation) <= chosenAt + Cardinality(mine' \ made')
      /\ Height(profile, selection'.generation) <= chosenAt + MaxCommands[profile]
  BY <1>1, Profile DEF Climbs, Gens
<1> QED
  BY <1>2 DEF Climbs

LEMMA Kept ==
  ASSUME Inv, Extended, queue' \subseteq queue \cup mine',
         UNCHANGED <<profile, advances, sent, chosenAt>>,
         Shaped(selection'), selection'.generation = selection.generation,
         (selection' = selection /\ chosen' = chosen) \/ chosen' = None
  PROVE  Inv'
<1>1. /\ Lines' /\ Len(timeline) <= Len(timeline')
      /\ \A i \in mine : Cmd(i)' = Cmd(i)
      /\ Cardinality(mine \ made) \in Nat
      /\ Cardinality(mine \ made) <= Cardinality(mine' \ made')
      /\ Cardinality(mine' \ made') \in Nat
  BY LinesStep DEF Inv
<1>2. Climbs'
  <2>1. Height(profile, selection.generation) <= Height(profile, selection.generation)
    BY Profile DEF Inv, Gens
  <2> QED
    BY <1>1, <2>1, ClimbsKept DEF Inv
<1>3. Owed'
  <2>1. profile = "apple" => \A a \in advances : a.cmd <= Len(timeline')
    BY <1>1, Places DEF Inv, Owed, Ranked, Lines
  <2> QED
    BY <2>1 DEF Inv, Owed
<1>4. Guarded'
  <2>1. CASE chosen' = None
    BY <2>1 DEF Guarded
  <2>2. CASE selection' = selection /\ chosen' = chosen
    <3>1. sent # None => \A i \in sent.ids : Cmd(i)' = Cmd(i)
      BY <1>1 DEF Inv, Lines
    <3> QED
      BY <2>2, <3>1 DEF Inv, Guarded
  <2> QED
    BY <2>1, <2>2
<1> QED
  BY <1>1, <1>2, <1>3, <1>4 DEF Inv

LEMMA Queues ==
  ASSUME NEW c, c.id = NewId, Queue(c)
  PROVE  /\ Extended /\ queue' \subseteq queue \cup mine'
         /\ mine' = mine \cup {NewId} /\ made' = made
  BY DEF Queue, Extended

LEMMA Changed ==
  ASSUME NEW s, Shaped(s), NEW phase, NEW g \in Gens, NEW explicit
  PROVE  /\ Shaped([phase |-> phase, generation |-> g, explicit |-> explicit])
         /\ [s EXCEPT !.explicit = explicit]
              = [phase |-> s.phase, generation |-> s.generation, explicit |-> explicit]
         /\ [s EXCEPT !.phase = phase, !.generation = g]
              = [phase |-> phase, generation |-> g, explicit |-> s.explicit]
<1> DEFINE t == [phase |-> phase, generation |-> g, explicit |-> explicit]
<1>1. t.phase = phase /\ t.generation = g /\ t.explicit = explicit
      /\ t = [phase |-> phase, generation |-> g, explicit |-> explicit]
  OBVIOUS
<1> HIDE DEF t
<1>2. Shaped(t)
  BY <1>1 DEF Shaped
<1>3. [s EXCEPT !.explicit = explicit]
        = [phase |-> s.phase, generation |-> s.generation, explicit |-> explicit]
  BY DEF Shaped
<1>4. [s EXCEPT !.phase = phase, !.generation = g]
        = [phase |-> phase, generation |-> g, explicit |-> s.explicit]
  <2> DEFINE r == [s EXCEPT !.phase = phase, !.generation = g]
  <2>1. s = [phase |-> s.phase, generation |-> s.generation, explicit |-> s.explicit]
    BY DEF Shaped
  <2>2. r = [x \in {"phase", "generation", "explicit"} |->
               CASE x = "phase" -> phase [] x = "generation" -> g
                 [] OTHER -> s.explicit]
    BY <2>1
  <2> QED
    BY <2>2
<1> QED
  BY <1>2, <1>3, <1>4 DEF t

LEMMA InitInv == Init => Inv
<1> SUFFICES ASSUME Init
             PROVE  Inv
  OBVIOUS
<1>1. profile \in Profiles /\ timeline = <<>> /\ mine = {} /\ made = {} /\ queue = {}
      /\ sent = None /\ advances = {} /\ chosen = None /\ chosenAt = 0
  BY DEF Init
<1>2. Lines
  <2>1. timeline \in Seq({}) /\ Len(timeline) = 0
    BY <1>1
  <2> QED
    BY <1>1, <2>1 DEF Lines, Numbered
<1>3. Climbs
  <2> DEFINE g == IF profile = "apple" THEN Generations - 1 ELSE 0
  <2>1. g \in Gens /\ Height(profile, g) = 0
    BY CompletionAssumption DEF Gens, Height
  <2>2. selection = [phase |-> "focus", generation |-> g, explicit |-> FALSE]
    BY DEF Init
  <2> HIDE DEF g
  <2>3. Shaped(selection) /\ selection.generation = g
    BY <2>1, <2>2 DEF Shaped
  <2>4. Cardinality(mine \ made) = 0
    BY <1>1, FS_EmptySet
  <2>5. MaxCommands[profile] \in Nat /\ MaxChoices \in Nat
    BY <1>1, SelectionAssumption
  <2> QED
    BY <1>1, <2>1, <2>3, <2>4, <2>5 DEF Climbs
<1>4. Owed /\ Guarded
  BY <1>1 DEF Owed, Guarded, Below, Ranked
<1> QED
  BY <1>2, <1>3, <1>4 DEF Inv

LEMMA QuietStep ==
  ASSUME Inv,
         \/ Tick \/ StartTimer \/ Control \/ PeerStarts \/ PeerFinishes
         \/ EditPreference \/ SignInOrOut \/ Serve \/ UNCHANGED vars
  PROVE  Inv'
<1>1. Shaped(selection)
  BY DEF Inv, Climbs
<1>2. \A kind, timer, phase, at : NewCommand(kind, timer, phase, at).id = NewId
  BY DEF NewCommand
<1>3. CASE Tick \/ EditPreference \/ SignInOrOut \/ Serve \/ UNCHANGED vars
  <2>1. UNCHANGED <<profile, selection, timeline, mine, made, queue, advances, sent,
                    chosen, chosenAt>>
    BY <1>3 DEF Tick, EditPreference, SignInOrOut, Serve, Obligations, Ghosts, vars
  <2> QED
    BY <1>1, <2>1, Kept DEF Extended
<1>4. CASE StartTimer
  <2> DEFINE c == NewCommand("start", NewId, selection.phase, now)
             e == IF profile \in {"apple", "pwa"} THEN FALSE ELSE selection.explicit
  <2>1. /\ Queue(c) /\ selection' = [selection EXCEPT !.explicit = e]
        /\ chosen' = None
        /\ UNCHANGED <<profile, advances, sent, chosenAt>>
    BY <1>1, <1>4 DEF StartTimer, Obligations, Shaped
  <2> HIDE DEF e
  <2>2. Extended /\ queue' \subseteq queue \cup mine'
    BY <1>2, <2>1, Queues
  <2>3. Shaped(selection') /\ selection'.generation = selection.generation
    BY <1>1, <2>1, Changed DEF Shaped
  <2> QED
    BY <2>1, <2>2, <2>3, Kept
<1>5. CASE Control
  <2>1. PICK kind : Queue(NewCommand(kind, Here.timer.timer, Here.timer.phase, now))
    BY <1>5 DEF Control
  <2>2. UNCHANGED <<profile, selection, advances, sent, chosen, chosenAt>>
    BY <1>5 DEF Control, Obligations, Ghosts
  <2>3. Extended /\ queue' \subseteq queue \cup mine'
    BY <1>2, <2>1, Queues
  <2> QED
    BY <1>1, <2>2, <2>3, Kept
<1>6. CASE PeerStarts \/ PeerFinishes
  <2>1. PICK c : c.id = NewId /\ Peer(c)
    BY <1>2, <1>6 DEF PeerStarts, PeerFinishes
  <2>2. /\ timeline' = Insert(timeline, c)
        /\ UNCHANGED <<profile, selection, mine, made, queue, advances, sent, chosen,
                       chosenAt>>
    BY <2>1 DEF Peer, Obligations, Ghosts
  <2>3. Extended
    BY <2>1, <2>2 DEF Extended
  <2> QED
    BY <1>1, <2>2, <2>3, Kept
<1> QED
  BY <1>3, <1>4, <1>5, <1>6

\* A request captures the selection; a choice that is older than the finishes
\* of an Android request does not stand.
LEMMA SendStep ==
  ASSUME Inv, Send
  PROVE  Inv'
<1>1. /\ UNCHANGED <<profile, selection, timeline, mine, made, queue, advances, chosenAt>>
      /\ sent'.ids = Sendable(queue, waits) /\ sent'.captured = selection
      /\ chosen' = IF profile = "android" /\ \E i \in sent'.ids : Cmd(i).kind = "finish"
                   THEN None ELSE chosen
  BY DEF Send, Obligations
<1>2. sent'.ids \subseteq queue
  BY <1>1 DEF Sendable
<1>3. /\ Lines' /\ \A i \in mine : Cmd(i)' = Cmd(i)
      /\ Cardinality(mine \ made) \in Nat
      /\ Cardinality(mine' \ made') \in Nat
      /\ Cardinality(mine \ made) <= Cardinality(mine' \ made')
  BY <1>1, <1>2, LinesStep DEF Inv, Extended
<1>4. Climbs'
  BY <1>1 DEF Inv, Climbs
<1>5. Owed'
  <2>1. selection.generation \in Gens /\ selection.generation <= selection.generation
    BY Profile DEF Inv, Gens
  <2> QED
    BY <1>1, <2>1 DEF Inv, Owed
<1>6. Guarded'
  <2>1. \A i \in sent'.ids : Cmd(i)' = Cmd(i)
    BY <1>2, <1>3 DEF Inv, Lines
  <2> SUFFICES ASSUME chosen' # None
               PROVE  Guarded'
    BY DEF Guarded
  <2>2. chosen' = chosen /\ (profile = "android" => \A i \in sent'.ids : Cmd(i).kind # "finish")
    BY <1>1
  <2> QED
    BY <1>1, <2>1, <2>2 DEF Inv, Guarded
<1> QED
  BY <1>3, <1>4, <1>5, <1>6 DEF Inv

\* Starting a break.
LEMMA Breaks ==
  ASSUME NEW start, NEW left, NEW sel, Shaped(sel), left \subseteq queue,
         StartBreak(start, left, sel)
  PROVE  /\ Extended /\ queue' \subseteq queue \cup mine'
         /\ Shaped(selection') /\ selection'.generation = sel.generation
         /\ selection'.explicit = sel.explicit
         /\ start = None => selection' = sel
<1>1. CASE start = None
  BY <1>1 DEF StartBreak, Extended
<1>2. CASE start # None
  <2> DEFINE c == NewCommand("start", NewId, start.phase, now)
  <2>1. /\ selection' = [sel EXCEPT !.phase = start.phase]
        /\ timeline' = Insert(timeline, c)
        /\ mine' = mine \cup {c.id} /\ made' = made \cup {c.id}
        /\ queue' = left \cup {c.id}
    BY <1>2 DEF StartBreak
  <2>2. c.id = NewId
    BY DEF NewCommand
  <2> HIDE DEF c
  <2>3. Extended
    BY <2>1, <2>2 DEF Extended
  <2>4. Moved("desktop", sel, selection')
    BY <2>1, OtherPhase
  <2> QED
    BY <1>2, <2>1, <2>3, <2>4 DEF Moved
<1> QED
  BY <1>1, <1>2

LEMMA OpportunityStep ==
  ASSUME Inv, Opportunity
  PROVE  Inv'
<1> DEFINE start == Deferred(base, queue, other, NoNews).start
<1>1. /\ StartBreak(start, queue, selection) /\ chosen' = Taken(start, chosen)
      /\ UNCHANGED <<profile, advances, sent, chosenAt>>
  BY DEF Opportunity
<1> HIDE DEF start
<1>2. /\ Extended /\ queue' \subseteq queue \cup mine'
      /\ Shaped(selection') /\ selection'.generation = selection.generation
      /\ start = None => selection' = selection
  BY <1>1, Breaks DEF Inv, Climbs
<1>3. (selection' = selection /\ chosen' = chosen) \/ chosen' = None
  BY <1>1, <1>2 DEF Taken
<1> QED
  BY <1>1, <1>2, <1>3, Kept

-----------------------------------------------------------------------------
(* Steps that make a generation.                                           *)

\* The next generation is one that nothing has seen.
LEMMA Climbing ==
  ASSUME Climbs, Owed,
         Height(profile, selection.generation) < MaxCommands[profile] + MaxChoices
  PROVE  LET g == NextGeneration(selection.generation) IN
         /\ g \in Gens
         /\ Height(profile, g) = Height(profile, selection.generation) + 1
         /\ Below(profile, advances, g)
         /\ \A a \in advances : Height(profile, a.generation) < Height(profile, g)
         /\ \A a \in advances : a.generation # g
<1> DEFINE g == NextGeneration(selection.generation)
           h == Height(profile, selection.generation)
<1>1. h \in Gens /\ selection.generation \in Gens
  BY Profile
<1>2. h + 1 < Generations /\ h \in Nat
  BY <1>1, Profile DEF Gens
<1>3. g \in Gens /\ Height(profile, g) = h + 1
  BY <1>1, <1>2, Heights
<1> HIDE DEF g, h
<1>4. \A a \in advances : /\ a.generation \in Gens
                          /\ Height(profile, a.generation) <= h
                          /\ Height(profile, a.generation) \in Gens
  BY Heights DEF Owed, Below, h
<1>5. \A a \in advances : Height(profile, a.generation) < Height(profile, g)
  BY <1>2, <1>3, <1>4 DEF Gens
<1>6. \A a \in advances : a.generation # g
  BY <1>2, <1>3, <1>4, <1>5 DEF Gens
<1>7. Below(profile, advances, g)
  BY <1>2, <1>3, <1>4 DEF Below, Gens
<1> QED
  BY <1>3, <1>5, <1>6, <1>7 DEF g, h

\* Captured selections are no newer either.
LEMMA Captured ==
  ASSUME Climbs, Owed, profile = "android", sent # None, NEW g \in Gens,
         Height(profile, g) = Height(profile, selection.generation) + 1
  PROVE  sent.captured.generation \in Gens /\ sent.captured.generation < g
<1>1. sent.captured.generation \in Gens /\ sent.captured.generation <= selection.generation
  BY DEF Owed
<1>2. g = selection.generation + 1
  BY DEF Height
<1> QED
  BY <1>1, <1>2, Profile DEF Gens

LEMMA ChooseStep ==
  ASSUME Inv, NEW phase, NEW here, chosenAt < MaxChoices, Choose(phase, here)
  PROVE  Inv'
<1> DEFINE g == NextGeneration(selection.generation)
           e == profile \in {"apple", "pwa"} \/ selection.explicit
<1>1. /\ selection' = [phase |-> phase, generation |-> g, explicit |-> e]
      /\ chosen' = phase /\ chosenAt' = chosenAt + 1
      /\ UNCHANGED <<profile, advances, sent>>
  BY DEF Choose
<1>2. Extended /\ queue' \subseteq queue \cup mine'
  <2>1. CASE UNCHANGED <<timeline, mine, made, queue, waits>>
    BY <2>1 DEF Extended
  <2>2. CASE Queue(NewCommand("clear", here.timer.timer, here.timer.phase, now))
    <3>1. NewCommand("clear", here.timer.timer, here.timer.phase, now).id = NewId
      BY DEF NewCommand
    <3> QED
      BY <2>2, <3>1, Queues
  <2> QED
    BY <2>1, <2>2 DEF Choose
<1>3. /\ Lines' /\ Len(timeline) <= Len(timeline')
      /\ Cardinality(mine \ made) \in Nat
      /\ Cardinality(mine' \ made') \in Nat
      /\ Cardinality(mine \ made) <= Cardinality(mine' \ made')
  BY <1>1, <1>2, LinesStep DEF Inv
<1>4. Height(profile, selection.generation) < MaxCommands[profile] + MaxChoices
  BY Profile DEF Inv, Climbs, Gens
<1>5. /\ g \in Gens
      /\ Height(profile, g) = Height(profile, selection.generation) + 1
      /\ Below(profile, advances, g)
      /\ \A a \in advances : a.generation # g
  BY <1>4, Climbing DEF Inv
<1> HIDE DEF g, e
<1>6. /\ Shaped(selection') /\ selection'.generation = g /\ selection'.phase = phase
      /\ selection'.explicit = e
  <2>1. Shaped([phase |-> phase, generation |-> g, explicit |-> e])
    BY <1>5, Changed DEF Inv, Climbs
  <2> QED
    BY <1>1, <2>1
<1>7. Climbs'
  <2>1. /\ Height(profile, selection.generation) <= chosenAt + Cardinality(mine \ made)
        /\ Height(profile, selection.generation) <= chosenAt + MaxCommands[profile]
        /\ Height(profile, selection.generation) \in Nat
        /\ chosenAt \in Nat /\ MaxChoices \in Nat /\ MaxCommands[profile] \in Nat
    BY Profile DEF Inv, Climbs, Gens
  <2>2. /\ Height(profile, g) <= chosenAt' + Cardinality(mine' \ made')
        /\ Height(profile, g) <= chosenAt' + MaxCommands[profile]
        /\ chosenAt' \in 0 .. MaxChoices
    BY <1>1, <1>3, <1>5, <2>1
  <2> QED
    BY <1>1, <1>6, <2>2 DEF Inv, Climbs
<1>8. Owed'
  <2>1. profile = "apple" => \A a \in advances : a.cmd <= Len(timeline')
    BY <1>3, Places DEF Inv, Owed, Ranked, Lines
  <2>2. profile = "android" /\ sent # None =>
          sent.captured.generation \in Gens /\ sent.captured.generation <= g
    BY <1>5, Captured DEF Inv, Gens
  <2> QED
    BY <1>1, <1>5, <1>6, <2>1, <2>2 DEF Inv, Owed
<1>9. Guarded'
  <2>1. profile = "android" /\ sent # None => sent.captured.generation # g
    BY <1>5, Captured DEF Inv, Gens
  <2> QED
    BY <1>1, <1>5, <1>6, <2>1 DEF e, Guarded
<1> QED
  BY <1>3, <1>7, <1>8, <1>9 DEF Inv

LEMMA Room ==
  ASSUME Lines, Climbs, CanCommand(1)
  PROVE  Cardinality(mine \ made) + 1 <= MaxCommands[profile]
<1>1. Cardinality(mine \ made) \in Nat
  BY LinesCount
<1>2. Cardinality(Theirs) \in Nat
  <2>1. Theirs \in SUBSET (1 .. Len(timeline)) /\ Len(timeline) \in Nat
    BY Places DEF Theirs, Lines
  <2>2. IsFiniteSet(1 .. Len(timeline))
    BY <2>1, FS_Interval
  <2>3. IsFiniteSet(Theirs)
    BY <2>1, <2>2, FS_Subset
  <2> QED
    BY <2>3, FS_CardinalityType
<1> QED
  BY <1>1, <1>2, Profile DEF CanCommand

LEMMA FinishStep ==
  ASSUME Inv, NEW breakWanted, FinishTimer(breakWanted)
  PROVE  Inv'
<1> DEFINE timer == FinishTarget
           c     == NewCommand("finish", timer.timer, timer.phase, now)
           next  == PhaseAfter(timer.phase,
                      History(Apply(Reduced(base, timeline, queue), c)), Day(now))
           phase == IF Follows(timer) THEN next ELSE selection.phase
           gen   == GenerationAfter(next)
           owes  == profile = "desktop" \/ (profile = "apple" /\ ~ selection.explicit)
           a     == [cmd |-> c.id, timer |-> timer.timer,
                     previous |-> IF profile = "apple" THEN selection.phase
                                                       ELSE timer.phase,
                     advanced |-> next, generation |-> gen]
           n     == NextGeneration(selection.generation)
<1>1. /\ CanCommand(1) /\ Queue(c)
      /\ selection' = [selection EXCEPT !.phase = phase, !.generation = gen]
      /\ advances' = IF owes THEN advances \cup {a} ELSE advances
      /\ chosen' = IF profile \in {"desktop", "android"}
                      \/ (profile = "pwa" /\ ~ IntentIsNatural(timer))
                   THEN None ELSE chosen
      /\ UNCHANGED <<profile, sent, chosenAt>>
  BY DEF FinishTimer
<1>2. /\ gen = IF profile = "apple" /\ ~ selection.explicit THEN n
               ELSE IF profile = "android" /\ selection.phase # next THEN n
               ELSE selection.generation
  BY DEF GenerationAfter
<1>3. /\ profile = "apple" /\ selection.explicit => phase = selection.phase
      /\ profile = "pwa" /\ IntentIsNatural(timer) /\ selection.explicit =>
           phase = selection.phase
  BY DEF Follows
<1>4. c.id = NewId /\ a.cmd = NewId /\ a.generation = gen
  BY DEF NewCommand
<1> HIDE DEF timer, c, next, phase, gen, a, n
<1>5. /\ Extended /\ queue' \subseteq queue \cup mine'
      /\ mine' = mine \cup {NewId} /\ made' = made
  BY <1>1, <1>4, Queues
<1>6. /\ Lines' /\ Len(timeline) <= Len(timeline')
      /\ \A i \in mine : Cmd(i)' = Cmd(i)
      /\ Cardinality(mine \ made) \in Nat
      /\ Cardinality(mine' \ made') = Cardinality(mine \ made) + 1
  BY <1>1, <1>5, LinesStep DEF Inv
<1>7. Cardinality(mine \ made) + 1 <= MaxCommands[profile]
  BY <1>1, Room DEF Inv
<1>8. /\ Height(profile, selection.generation) <= chosenAt + Cardinality(mine \ made)
      /\ Height(profile, selection.generation) <= chosenAt + MaxCommands[profile]
      /\ Height(profile, selection.generation) \in Nat
      /\ chosenAt \in Nat /\ MaxChoices \in Nat /\ MaxCommands[profile] \in Nat
      /\ chosenAt <= MaxChoices /\ selection.generation \in Gens
  BY Profile DEF Inv, Climbs, Gens
<1>9. Height(profile, selection.generation) < MaxCommands[profile] + MaxChoices
  BY <1>6, <1>7, <1>8
<1>10. /\ n \in Gens
       /\ Height(profile, n) = Height(profile, selection.generation) + 1
       /\ Below(profile, advances, n)
       /\ \A b \in advances : Height(profile, b.generation) < Height(profile, n)
  BY <1>9, Climbing DEF Inv, n
<1>11. gen \in Gens /\ Below(profile, advances, gen)
       /\ gen \in {n, selection.generation}
  BY <1>2, <1>8, <1>10 DEF Inv, Owed
<1>12. /\ Shaped(selection') /\ selection'.generation = gen
       /\ selection'.phase = phase /\ selection'.explicit = selection.explicit
  <2>1. selection' = [phase |-> phase, generation |-> gen, explicit |-> selection.explicit]
        /\ Shaped([phase |-> phase, generation |-> gen, explicit |-> selection.explicit])
    BY <1>1, <1>11, Changed DEF Inv, Climbs
  <2> QED
    BY <2>1
<1>13. Climbs'
  <2>1. /\ Height(profile, gen) <= chosenAt + Cardinality(mine' \ made')
        /\ Height(profile, gen) <= chosenAt + MaxCommands[profile]
    BY <1>6, <1>7, <1>8, <1>10, <1>11
  <2> QED
    BY <1>1, <1>8, <1>12, <2>1 DEF Inv, Climbs
<1>14. Owed'
  <2>1. profile \in {"android", "pwa"} => advances' = {}
    BY <1>1 DEF Inv, Owed
  <2>2. Below(profile, advances', gen)
    <3>1. Height(profile, gen) <= Height(profile, gen)
      BY <1>8, <1>10, <1>11
    <3> QED
      BY <1>1, <1>4, <1>11, <3>1 DEF Below
  <2>3. ASSUME profile = "apple"
        PROVE  Ranked(advances') /\ \A b \in advances' : b.cmd <= Len(timeline')
    <3>1. /\ Ranked(advances) /\ NewId \in Nat /\ NewId <= Len(timeline')
          /\ \A b \in advances : b.cmd \in Nat /\ b.cmd < NewId /\ b.cmd <= Len(timeline')
      <4>1. Ranked(advances) /\ \A b \in advances : b.cmd <= Len(timeline) /\ b.cmd \in Nat
        BY <2>3 DEF Inv, Owed, Ranked
      <4>2. Len(timeline) \in Nat /\ Len(timeline') \in Nat /\ NewId <= Len(timeline')
        <5>1. Known(timeline', NewId) /\ Numbered(timeline')
          BY <1>5, <1>6 DEF Lines
        <5>2. Len(timeline') \in Nat
          BY <5>1 DEF Numbered
        <5> QED
          BY <5>1, <5>2, Places DEF Inv, Lines, Known, Numbered
      <4> QED
        BY <4>1, <4>2 DEF NewId
    <3>2. CASE ~ owes
      BY <1>1, <3>1, <3>2
    <3>3. CASE owes
      <4>1. gen = n /\ advances' = advances \cup {a}
        BY <1>1, <1>2, <2>3, <3>3
      <4>2. \A b \in advances : Height("apple", b.generation) < Height("apple", a.generation)
        BY <1>4, <1>10, <2>3, <4>1
      <4>3. Height("apple", a.generation) > 0
        BY <1>4, <1>8, <1>10, <2>3, <4>1
      <4>4. Ranked(advances')
        BY <1>4, <3>1, <4>1, <4>2, <4>3 DEF Ranked
      <4> QED
        BY <1>4, <3>1, <4>1, <4>4
    <3> QED
      BY <3>2, <3>3
  <2>4. profile = "android" /\ sent # None =>
          sent.captured.generation \in Gens /\ sent.captured.generation <= gen
    <3>1. CASE gen = n
      BY <1>10, <3>1, Captured DEF Inv, Gens
    <3>2. CASE gen = selection.generation
      BY <3>2 DEF Inv, Owed
    <3> QED
      BY <1>11, <3>1, <3>2
  <2> QED
    BY <1>1, <1>12, <2>1, <2>2, <2>3, <2>4 DEF Inv, Owed
<1>15. Guarded'
  <2> SUFFICES ASSUME chosen' # None
               PROVE  Guarded'
    BY DEF Guarded
  <2>1. /\ chosen' = chosen /\ profile \notin {"desktop", "android"}
        /\ profile = "pwa" => IntentIsNatural(timer)
    BY <1>1
  <2>2. profile \in {"apple", "pwa"} /\ selection.explicit = TRUE /\ selection.phase = chosen
    BY <2>1, Profile DEF Inv, Guarded, Clients
  <2>3. phase = selection.phase /\ gen = selection.generation /\ ~ owes
    BY <1>2, <1>3, <2>1, <2>2
  <2> QED
    BY <1>1, <1>12, <2>1, <2>2, <2>3 DEF Inv, Guarded
<1> QED
  BY <1>6, <1>13, <1>14, <1>15 DEF Inv

-----------------------------------------------------------------------------
(* Installation.                                                           *)

LEMMA InstallStep ==
  ASSUME Inv, NEW at, Install(at)
  PROVE  Inv'
<1> DEFINE answer    == Answer(at)
           discarded == Discarded(answer)
           left      == queue \ (sent.ids \cup discarded)
           o         == other /\ ~ sent.other
           in        == Installation(answer, left, o, discarded)
           out       == Installed(profile, in)
           later     == Deferred(answer.shown, left, o,
                                 [acks |-> answer.acks, discarded |-> discarded])
           seen      == \E r \in CompletedRows(answer.shown.rows) \ base.rows :
                          r.phase = selection.phase
           start     == later.start
<1>1. /\ sent # None /\ sent' = None
      /\ advances' = out.advances
      /\ StartBreak(start, left, out.selection)
      /\ chosen' = IF \/ start # None
                      \/ profile = "desktop" /\ out.selection # selection /\ seen
                   THEN None ELSE chosen
      /\ UNCHANGED <<profile, chosenAt>>
  BY DEF Install
<1>2. /\ in.selection = selection /\ in.advances = advances
      /\ in.last = Len(timeline) /\ in.captured = sent.captured
      /\ in.sent = {Cmd(i) : i \in sent.ids} /\ in.lifecycle = "evidence"
      /\ in.after = answer.shown.rows /\ in.before = base.rows
  BY DEF Installation
<1>3. left \subseteq queue
  OBVIOUS
<1>4. \A r \in answer.shown.rows : r.timer \in Nat
  BY CompletionAssumption DEF Answer, Shown, History, HistoryRow
<1> HIDE DEF answer, discarded, left, o, later, start, in, out
<1>5. /\ profile \in Clients /\ Shaped(selection) /\ selection.generation \in Gens
      /\ Height(profile, selection.generation) \in Gens
      /\ in.last \in Nat
  BY <1>2, Profile, Places DEF Inv, Lines, Climbs
<1>6. /\ Moved(profile, selection, out.selection)
      /\ out.selection.generation = Resolving(profile, in)[in.last].generation
      /\ out.advances = IF profile \in {"android", "pwa"} THEN {}
                        ELSE Unresolved(profile, in)
  BY <1>2, <1>5, InstalledMoves DEF out
<1>7. out.advances \subseteq advances
  BY <1>2, <1>6 DEF Unresolved
<1>8. /\ Height(profile, out.selection.generation)
           <= Height(profile, selection.generation)
      /\ Below(profile, out.advances, out.selection.generation)
  <2>1. CASE profile = "apple"
    BY <1>2, <1>5, <1>6, <2>1, AppleRollback DEF Inv, Owed
  <2>2. CASE profile # "apple"
    <3>1. out.selection.generation = selection.generation
      BY <1>6, <2>2 DEF Moved
    <3> QED
      BY <1>5, <1>7, <3>1 DEF Inv, Owed, Below, Gens
  <2> QED
    BY <2>1, <2>2
<1>9. /\ Extended /\ queue' \subseteq queue \cup mine'
      /\ Shaped(selection') /\ selection'.generation = out.selection.generation
      /\ start = None => selection' = out.selection
  BY <1>1, <1>3, <1>6, Breaks DEF Moved
<1>10. /\ Lines' /\ Len(timeline) <= Len(timeline')
       /\ Cardinality(mine \ made) \in Nat /\ Cardinality(mine' \ made') \in Nat
       /\ Cardinality(mine \ made) <= Cardinality(mine' \ made')
  BY <1>1, <1>9, LinesStep DEF Inv
<1>11. Climbs'
  BY <1>1, <1>8, <1>9, <1>10, ClimbsKept DEF Inv
<1>12. Owed'
  <2>1. profile = "apple" =>
          Ranked(advances') /\ \A a \in advances' : a.cmd <= Len(timeline')
    BY <1>1, <1>7, <1>10, Places DEF Inv, Owed, Ranked, Lines
  <2>2. profile \in {"android", "pwa"} => advances' = {}
    BY <1>1, <1>6
  <2> QED
    BY <1>1, <1>8, <1>9, <2>1, <2>2 DEF Inv, Owed
<1>13. Guarded'
  <2> SUFFICES ASSUME chosen' # None
               PROVE  Guarded'
    BY DEF Guarded
  <2>1. /\ chosen' = chosen /\ selection' = out.selection
        /\ profile = "desktop" /\ seen => out.selection = selection
    BY <1>1, <1>9
  <2>2. Fenced(profile, in)
    BY <1>1, <1>2, <2>1 DEF Inv, Guarded, Fenced, ChosenSinceSend
  <2>3. \/ out.selection = selection
        \/ profile = "desktop" /\ seen
    BY <1>2, <1>4, <1>5, <2>2, FencedInstall DEF out
  <2>4. selection' = selection
    BY <2>1, <2>3
  <2> QED
    BY <1>1, <1>7, <2>1, <2>4 DEF Inv, Guarded
<1> QED
  BY <1>10, <1>11, <1>12, <1>13 DEF Inv

-----------------------------------------------------------------------------
LEMMA Inductive == Inv /\ [Next]_vars => Inv'
<1> SUFFICES ASSUME Inv, [Next]_vars
             PROVE  Inv'
  OBVIOUS
<1>1. CASE \/ Tick \/ StartTimer \/ Control \/ PeerStarts \/ PeerFinishes
           \/ EditPreference \/ SignInOrOut \/ Serve \/ UNCHANGED vars
  BY <1>1, QuietStep
<1>2. CASE \E breakWanted \in BOOLEAN : FinishTimer(breakWanted)
  BY <1>2, FinishStep
<1>3. CASE SelectPhase
  BY <1>3, ChooseStep DEF SelectPhase
<1>4. CASE Skip
  BY <1>4, ChooseStep DEF Skip
<1>5. CASE Send
  BY <1>5, SendStep
<1>6. CASE \E at \in 0 .. now : Install(at)
  BY <1>6, InstallStep
<1>7. CASE Opportunity
  BY <1>7, OpportunityStep
<1> QED
  BY <1>1, <1>2, <1>3, <1>4, <1>5, <1>6, <1>7 DEF Next

\* Whatever is refused, installed late or completed elsewhere, a phase that
\* the user has chosen on Apple, Android, the desktop or a PWA that has opted
\* in to the lifecycle stays selected until the next start of a timer, or until
\* the client moves on from it where ChoiceStands says so, as long as no
\* generation comes again.
THEOREM ChoiceStandsHolds == Spec => []ChoiceStands
<1>1. Inv => ChoiceStands
  BY DEF Inv, Guarded, ChoiceStands
<1> QED
  BY <1>1, InitInv, Inductive, PTL DEF Spec

-----------------------------------------------------------------------------
(* Replays of a line.                                                      *)

LEMMA ReducingUnfolds ==
  ASSUME NEW b, NEW line, NEW ids, Len(line) \in Nat
  PROVE  LineUnfolds(Reducing(b, line, ids), Seed(b.timer, b.rows), line, ids, Len(line))
<1> DEFINE f == Reducing(b, line, ids)
           seed == Seed(b.timer, b.rows)
<1>1. \E g : LineUnfolds(g, seed, line, ids, Len(line))
  BY ReducingExists
<1>2. f = CHOOSE g : LineUnfolds(g, seed, line, ids, Len(line))
  BY DEF Reducing, LineUnfolds, ReduceAt
<1> HIDE DEF f
<1> QED
  BY <1>1, <1>2 DEF f

\* What the seed is and what every command keeps, the end of the line is.
LEMMA ReducedStays ==
  ASSUME NEW b, NEW line, NEW ids, Len(line) \in Nat, NEW G,
         Seed(b.timer, b.rows) \in G,
         \A n \in 1 .. Len(line) : line[n].id \in ids =>
           \A r \in G : Apply(r, line[n]) \in G
  PROVE  Reduced(b, line, ids) \in G
<1> DEFINE f == Reducing(b, line, ids)
<1>1. LineUnfolds(f, Seed(b.timer, b.rows), line, ids, Len(line))
  BY ReducingUnfolds
<1> HIDE DEF f
<1>2. f[Len(line)] \in G
  BY <1>1, LineStays
<1> QED
  BY <1>2 DEF Reduced, f

-----------------------------------------------------------------------------
(* Where what a replay shows comes from.                                   *)

\* The states of replays whose intents and terminal commands are in S.
From(S) ==
  {r \in Good(Timers) :
     \A t \in Timers : r.sessions[t] # None =>
       /\ r.sessions[t].terminalCmd \in S \cup {None}
       /\ r.sessions[t].intent # None => r.sessions[t].intent.cmd \in S}

\* A base of such a state, which the boundary accepts.
BaseFrom(b, S) ==
  /\ PairOK(b.timer, b.rows)
  /\ b.timer # None /\ b.timer.intent # None => b.timer.intent.cmd \in S
  /\ \A row \in b.rows : row.cmd \in S \cup {None}

LEMMA FromDeadline ==
  ASSUME NEW S, NEW r \in From(S), NEW at \in Int
  PROVE  AutoCompleteCurrent(r, at) \in From(S)
<1> DEFINE d == AutoCompleteCurrent(r, at)
<1>1. r \in Good(Timers) /\ r \in Reduction
  BY DEF From, Good
<1>2. d \in Good(Timers)
  BY <1>1, GoodDeadline
<1>3. ASSUME NEW t \in Timers, d.sessions[t] # None
      PROVE  /\ d.sessions[t].terminalCmd \in S \cup {None}
             /\ d.sessions[t].intent # None => d.sessions[t].intent.cmd \in S
  <2>1. /\ r.sessions[t] # None
        /\ d.sessions[t] \in {r.sessions[t], AutoComplete(r.sessions[t], at)}
    BY <1>1, <1>3, DeadlinePointwise
  <2>2. r.sessions[t] \in Session
    BY <1>1, <2>1 DEF Reduction
  <2>3. /\ AutoComplete(r.sessions[t], at).terminalCmd = r.sessions[t].terminalCmd
        /\ AutoComplete(r.sessions[t], at).intent = r.sessions[t].intent
    BY <2>2, CompletedFields
  <2> QED
    BY <2>1, <2>3 DEF From
<1> QED
  BY <1>2, <1>3 DEF From

LEMMA FromHandle ==
  ASSUME NEW S, NEW d \in From(S), NEW c \in Command, c.id \in S
  PROVE  Handle(d, c) \in From(S)
<1> DEFINE h == Handle(d, c)
<1>1. d \in Good(Timers) /\ d \in Reduction /\ c.timer \in Timers
  BY DEF From, Good, Command
<1>2. h \in Good(Timers)
  BY <1>1, GoodHandle
<1>3. Becomes(d, h, c) \/ h.sessions = d.sessions
  BY <1>1, HandleCases
<1> HIDE DEF h
<1>4. ASSUME NEW t \in Timers, h.sessions[t] # None
      PROVE  /\ h.sessions[t].terminalCmd \in S \cup {None}
             /\ h.sessions[t].intent # None => h.sessions[t].intent.cmd \in S
  <2>1. CASE h.sessions[t] = d.sessions[t]
    BY <1>4, <2>1 DEF From
  <2>2. CASE Becomes(d, h, c)
    <3> DEFINE s == d.sessions[t]
               z == h.sessions[t]
    <3>1. z = SessionAfter(d, t, c)
      BY <2>2 DEF Becomes
    <3>2. CommandIntent(c).cmd = c.id
      BY DEF CommandIntent
    <3>3. s # None => /\ s.terminalCmd \in S \cup {None}
                      /\ s.intent # None => s.intent.cmd \in S
      BY DEF From
    <3>4. s \in Session => s # None
      BY ReducerAssumption
    <3>5. \/ z = s
          \/ c.kind = "start" /\ z = StartedSession(c)
          \/ /\ s \in Session /\ c.kind \in Lifecycle
             /\ \E status \in Active \cup Ended, elapsed \in Nat :
                  z = Transition(s, c, status, elapsed)
          \/ s \in Session /\ c.kind = "clear" /\ z = ClearedSession(s, c)
          \/ s \in Session /\ z = RetargetedSession(s, c)
          \/ s \in Session /\ z = Supersede(s, c.at, c.timer, c.id)
      <4> DEFINE y == SessionAfter(d, t, c)
      <4>1. \/ y = s
            \/ t = c.timer /\ c.kind = "start" /\ y = StartedSession(c)
            \/ /\ t = c.timer /\ s \in Session /\ c.kind \in Lifecycle
               /\ \E status \in Active \cup Ended, elapsed \in 0 .. s.planned :
                    /\ y = Transition(s, c, status, elapsed)
                    /\ <<c.kind, status>> \in Moves
                    /\ status = "completed" => elapsed = s.planned
            \/ t = c.timer /\ s \in Session /\ c.kind = "clear" /\ y = ClearedSession(s, c)
            \/ /\ t = c.timer /\ s \in Session /\ IsActive(s) /\ d.current = t
               /\ c.kind = "retarget" /\ y = RetargetedSession(s, c)
            \/ /\ t # c.timer /\ s \in Session /\ IsActive(s) /\ d.current = t
               /\ Takes(d.sessions[c.timer], c)
               /\ y = Supersede(s, c.at, c.timer, c.id)
        BY <1>1, SessionCases
      <4> HIDE DEF y
      <4>3. y = z
        BY <3>1 DEF y
      <4> HIDE DEF s, z
      <4>2. s \in Session => \A e \in 0 .. s.planned : e \in Nat
        BY DEF Session
      <4> QED
        BY <4>1, <4>2, <4>3
    <3> HIDE DEF s, z
    <3>6. CASE z = s
      BY <1>4, <3>3, <3>6 DEF z
    <3>7. CASE c.kind = "start" /\ z = StartedSession(c)
      BY <3>2, <3>7, StartedFields DEF z
    <3>8. ASSUME s \in Session, c.kind \in Lifecycle,
                 NEW status \in Active \cup Ended, NEW elapsed \in Nat,
                 z = Transition(s, c, status, elapsed)
          PROVE  z.terminalCmd \in S \cup {None} /\ z.intent.cmd \in S
      BY <3>2, <3>8, TransitionFields
    <3>9. CASE s \in Session /\ c.kind = "clear" /\ z = ClearedSession(s, c)
      BY <3>2, <3>3, <3>4, <3>9, ClearedFields DEF z
    <3>10. CASE s \in Session /\ z = RetargetedSession(s, c)
      BY <3>3, <3>4, <3>10, RetargetedFields DEF z
    <3>11. CASE s \in Session /\ z = Supersede(s, c.at, c.timer, c.id)
      BY <3>3, <3>4, <3>11, SupersedeFields DEF z
    <3> QED
      BY <3>5, <3>6, <3>7, <3>8, <3>9, <3>10, <3>11 DEF z
  <2> QED
    BY <1>3, <2>1, <2>2
<1> QED
  BY <1>2, <1>4 DEF From, h

LEMMA FromApply ==
  ASSUME NEW S, NEW r \in From(S), NEW c \in Command, c.id \in S
  PROVE  Apply(r, c) \in From(S)
<1>1. c.at \in Int
  BY DEF Command
<1> QED
  BY <1>1, FromDeadline, FromHandle DEF Apply

LEMMA SeedFrom ==
  ASSUME NEW S, NEW b, BaseFrom(b, S)
  PROVE  Seed(b.timer, b.rows) \in From(S)
<1> DEFINE r == Seed(b.timer, b.rows)
           timer == b.timer
           rows == b.rows
<1>1. /\ timer \in Snapshot \cup {None} /\ rows \in SUBSET Row
      /\ ValidHistory(rows)
  BY DEF BaseFrom, PairOK, ValidPair
<1>2. Covered(timer, rows, Timers)
  BY <1>1 DEF Covered, Snapshot, Row
<1>3. r \in Good(Timers)
  BY <1>2, SeedGood DEF BaseFrom
<1>4. \A t \in Timers : r.sessions[t] = SeedSession(timer, rows, t)
  BY DEF Seed
<1>5. /\ timer # None /\ timer.intent # None => timer.intent.cmd \in S
      /\ \A row \in rows : row.cmd \in S \cup {None}
  BY DEF BaseFrom
<1> HIDE DEF r, timer, rows
<1>6. ASSUME NEW t \in Timers, r.sessions[t] # None
      PROVE  /\ r.sessions[t].terminalCmd \in S \cup {None}
             /\ r.sessions[t].intent # None => r.sessions[t].intent.cmd \in S
  <2> DEFINE own == {row \in rows : row.timer = t}
             pick == CHOOSE row \in own : TRUE
             first == SessionFromHistory(pick)
             can == SessionFromCanonical(timer)
  <2>1. own # {} => pick \in rows /\ pick \in Row
    BY <1>1
  <2>2. own # {} => first.terminalCmd \in S \cup {None} /\ first.intent = None
    BY <1>5, <2>1 DEF SessionFromHistory
  <2>3. timer # None => /\ can.terminalCmd \in S \cup {None} /\ can.intent = timer.intent
                        /\ can \in Session
    BY <1>1, <1>5, FromCanonicalType DEF SessionFromCanonical
  <2>4. r.sessions[t] =
          IF timer = None \/ timer.timer # t
          THEN IF own = {} THEN None ELSE first
          ELSE IF own = {} THEN can
          ELSE [can EXCEPT !.historyId = first.historyId,
                           !.terminalCmd = first.terminalCmd, !.ended = first.ended]
    BY <1>4 DEF SeedSession
  <2> HIDE DEF own, pick, first, can
  <2>5. timer # None =>
          LET z == [can EXCEPT !.historyId = first.historyId,
                               !.terminalCmd = first.terminalCmd, !.ended = first.ended]
          IN  z.terminalCmd = first.terminalCmd /\ z.intent = can.intent
    BY <2>3 DEF Session
  <2> QED
    BY <1>5, <1>6, <2>2, <2>3, <2>4, <2>5
<1> QED
  BY <1>3, <1>6 DEF From, r

LEMMA ShownFrom ==
  ASSUME NEW S, NEW r \in From(S)
  PROVE  BaseFrom(Shown(r), S)
<1>1. r \in Good(Timers) /\ r \in Reduction
  BY DEF From, Good
<1>2. PairOK(Canonical(r), History(r))
  BY <1>1, ProjectionOK
<1>3. ASSUME Canonical(r) # None, Canonical(r).intent # None
      PROVE  Canonical(r).intent.cmd \in S
  BY <1>1, <1>3, CanonicalFields, ReducerAssumption DEF From
<1>4. ASSUME NEW row \in History(r)
      PROVE  row.cmd \in S \cup {None}
  BY <1>4 DEF From, History, HistoryRow
<1> QED
  BY <1>2, <1>3, <1>4 DEF BaseFrom, Shown

\* Of commands in S, over a base from S.
LEMMA ReducedFrom ==
  ASSUME NEW S, NEW b, BaseFrom(b, S), NEW line \in Seq(Command), NEW ids, ids \subseteq S
  PROVE  Reduced(b, line, ids) \in From(S)
<1>1. Len(line) \in Nat /\ \A n \in 1 .. Len(line) : line[n] \in Command
  OBVIOUS
<1>2. Seed(b.timer, b.rows) \in From(S)
  BY SeedFrom
<1>3. \A n \in 1 .. Len(line) : line[n].id \in ids =>
        \A r \in From(S) : Apply(r, line[n]) \in From(S)
  BY <1>1, FromApply
<1> QED
  BY <1>1, <1>2, <1>3, ReducedStays

LEMMA NothingFrom ==
  ASSUME NEW S
  PROVE  BaseFrom(Nothing, S)
<1>1. Nothing.timer = None /\ Nothing.rows = {}
  BY DEF Nothing
<1> QED
  BY <1>1 DEF BaseFrom, PairOK, ValidPair, ValidHistory, NoAlias

-----------------------------------------------------------------------------
(* More finishes of a completed timer leave it as it is shown.             *)

Over(t) ==
  {r \in Reduction : /\ r.current = t /\ r.sessions[t] # None
                     /\ r.sessions[t].status = "completed"}

LEMMA OverDeadline ==
  ASSUME NEW t \in Timers, NEW r \in Over(t), NEW at
  PROVE  AutoCompleteCurrent(r, at) = r
<1>1. r.sessions[t].status # "running"
  BY DEF Over
<1>2. AutoComplete(r.sessions[t], at) = r.sessions[t]
  BY <1>1 DEF AutoComplete
<1>3. AutoCompleteCurrent(r, at) = [r EXCEPT !.sessions[t] = r.sessions[t]]
  BY <1>2, ReducerAssumption DEF AutoCompleteCurrent, Exists, Over
<1> QED
  BY <1>3 DEF Over, Reduction

LEMMA OverApply ==
  ASSUME NEW t \in Timers, NEW r \in Over(t), NEW c \in Command,
         c.kind = "finish", c.timer = t
  PROVE  Apply(r, c) \in Over(t)
<1> DEFINE s == r.sessions[t]
<1>1. r \in Reduction /\ r.current = t /\ s \in Session /\ s # None
  BY DEF Over, Reduction
<1>2. Apply(r, c) = Handle(r, c)
  BY OverDeadline DEF Apply
<1>3. Handle(r, c) = Terminate(r, c) /\ Terminate(r, c) = Retake(r, c, "completed", s.planned)
  BY DEF Handle, Terminate
<1>4. SupersedeActive(r, c) = r
  BY <1>1 DEF SupersedeActive
<1>5. Retake(r, c, "completed", s.planned) =
        [sessions |-> [r.sessions EXCEPT ![t] = Transition(s, c, "completed", s.planned)],
         current |-> t, outcome |-> "applied"]
  BY <1>1, <1>4 DEF Retake
<1>6. /\ Transition(s, c, "completed", s.planned) \in Session
      /\ Transition(s, c, "completed", s.planned).status = "completed"
  <2>1. s.planned \in Nat /\ "completed" \in Active \cup Ended /\ c.kind \in Lifecycle
    BY <1>1 DEF Session, Ended, Lifecycle
  <2> QED
    BY <1>1, <2>1, TransitionFields
<1> HIDE DEF s
<1>7. Apply(r, c) \in Reduction
  BY <1>1, ApplyType
<1>8. Transition(s, c, "completed", s.planned) # None
  BY <1>6, ReducerAssumption
<1> QED
  BY <1>1, <1>2, <1>3, <1>5, <1>6, <1>7, <1>8 DEF Over, Reduction, s

LEMMA OverShown ==
  ASSUME NEW t \in Timers, NEW r \in Over(t), NEW at
  PROVE  LET z == Shown(Projected(r, at)).timer
         IN  z # None /\ z.timer = t /\ z.status = "completed"
<1>1. Projected(r, at) = r
  BY OverDeadline DEF Projected
<1>2. Exists(r, r.current) /\ r.current = t
  BY ReducerAssumption DEF Exists, Over
<1>3. Canonical(r) # None
  <2>1. r \in Reduction /\ r.sessions[t] \in Session
    BY DEF Over, Reduction
  <2> DEFINE s == r.sessions[t]
             snap == [timer |-> r.current, task |-> s.task, phase |-> s.phase,
                      status |-> s.status, planned |-> s.planned,
                      elapsed |-> Clamp(s.elapsed, 0, s.planned), anchor |-> s.anchor,
                      intent |-> s.intent]
  <2>2. Canonical(r) = snap
    BY <1>2 DEF Canonical
  <2>3. snap \in Snapshot
    <3>1. s \in Session
      BY <2>1
    <3> HIDE DEF s
    <3>2. Clamp(s.elapsed, 0, s.planned) \in Nat
      BY <3>1 DEF Clamp, Session
    <3> QED
      BY <1>2, <3>1, <3>2 DEF Snapshot, Session
  <2> QED
    BY <2>2, <2>3, BoundaryAssumption
<1>4. Shown(Projected(r, at)).timer = Canonical(r)
  BY <1>1 DEF Shown
<1> QED
  BY <1>2, <1>3, <1>4, CanonicalFields DEF Over

LEMMA ReducedOver ==
  ASSUME NEW b, PairOK(b.timer, b.rows), b.timer # None, b.timer.status = "completed",
         NEW line \in Seq(Command), NEW ids,
         \A n \in 1 .. Len(line) : line[n].id \in ids =>
           line[n].kind = "finish" /\ line[n].timer = b.timer.timer
  PROVE  Reduced(b, line, ids) \in Over(b.timer.timer)
<1> DEFINE t == b.timer.timer
           r == Seed(b.timer, b.rows)
<1>1. Len(line) \in Nat /\ \A n \in 1 .. Len(line) : line[n] \in Command
  OBVIOUS
<1>2. b.timer \in Snapshot /\ b.rows \in SUBSET Row /\ ValidHistory(b.rows) /\ t \in Timers
  BY DEF PairOK, ValidPair, Snapshot
<1>3. r \in Reduction
  BY <1>2, SeedType
<1>4. r.current = t /\ r.sessions[t] = SeedSession(b.timer, b.rows, t)
  BY <1>2 DEF Seed
<1>5. r.sessions[t] # None /\ r.sessions[t].status = "completed"
  <2> DEFINE own == {row \in b.rows : row.timer = t}
             first == SessionFromHistory(CHOOSE row \in own : TRUE)
             can == SessionFromCanonical(b.timer)
  <2>1. can \in Session /\ can.status = "completed"
    BY <1>2, FromCanonicalType DEF SessionFromCanonical
  <2>2. r.sessions[t] =
          IF own = {} THEN can
          ELSE [can EXCEPT !.historyId = first.historyId,
                           !.terminalCmd = first.terminalCmd, !.ended = first.ended]
    BY <1>4 DEF SeedSession
  <2>3. own # {} => first \in Session
    <3> DEFINE pick == CHOOSE row \in own : TRUE
    <3>1. own # {} => /\ pick \in Row
                      /\ IF pick.status = "completed" THEN pick.completed # None
                                                      ELSE pick.ended # None
      BY <1>2 DEF ValidHistory
    <3> HIDE DEF pick
    <3>2. own # {} => SessionFromHistory(pick) \in Session
      BY <3>1, FromHistoryType
    <3> QED
      BY <3>2 DEF pick
  <2> HIDE DEF own, first, can
  <2> DEFINE z == [can EXCEPT !.historyId = first.historyId,
                              !.terminalCmd = first.terminalCmd, !.ended = first.ended]
  <2>4. own # {} => z.status = "completed" /\ z \in Session
    BY <2>1, <2>3 DEF Session
  <2> QED
    BY <2>1, <2>2, <2>4, ReducerAssumption
<1>6. r \in Over(t)
  BY <1>3, <1>4, <1>5 DEF Over
<1>7. \A n \in 1 .. Len(line) : line[n].id \in ids =>
        \A q \in Over(t) : Apply(q, line[n]) \in Over(t)
  BY <1>1, <1>2, OverApply
<1> QED
  BY <1>1, <1>6, <1>7, ReducedStays

-----------------------------------------------------------------------------
(* An installation selects a phase.                                        *)

LEMMA PhaseAfterType ==
  ASSUME NEW phase, NEW rows, NEW day
  PROVE  /\ PhaseAfter(phase, rows, day) \in Phases
         /\ PhaseSkipped(phase, rows, day) \in Phases
  BY DEF PhaseAfter, PhaseSkipped, BreakForCount, Phases

\* in names no phase but the three.
Phased(in) ==
  /\ in.selection.phase \in Phases
  /\ in.timer # None => in.timer.phase \in Phases
  /\ in.next # None => in.next.phase \in Phases
  /\ \A c \in in.sent \cup in.queued : c.phase \in Phases
  /\ \A a \in in.advances : a.previous \in Phases

LEMMA RestorePhase ==
  ASSUME NEW p, NEW s, Shaped(s), NEW a
  PROVE  Restore(p, s, a).phase \in {s.phase, a.previous}
<1>1. CASE s.generation # a.generation \/ s.phase # a.advanced
  BY <1>1 DEF Restore
<1>2. CASE ~ (s.generation # a.generation \/ s.phase # a.advanced)
  <2> DEFINE g == IF p = "apple" THEN PreviousGeneration(s.generation)
                  ELSE s.generation
  <2>1. Restore(p, s, a) = [s EXCEPT !.phase = a.previous, !.generation = g]
    BY <1>2 DEF Restore, Shaped
  <2>2. Restore(p, s, a)
          = [phase |-> a.previous, generation |-> g, explicit |-> s.explicit]
    BY <2>1 DEF Shaped
  <2> QED
    BY <2>2
<1> QED
  BY <1>1, <1>2

LEMMA ResolvePhase ==
  ASSUME NEW p, NEW s, Shaped(s), s.phase \in Phases, NEW k, NEW in, Phased(in)
  PROVE  ResolveAt(p, s, k, in).phase \in Phases
<1>1. \A x \in Phases : [s EXCEPT !.phase = x].phase \in Phases
  BY OtherPhase
<1>2. CASE p = "android"
  <2> DEFINE due == Finishes(in.sent, k, in)
             c == CHOOSE d \in due : TRUE
             x == AndroidPhase(c, s.phase, in)
  <2>1. ResolveAt(p, s, k, in)
          = IF due = {} \/ ChosenSinceSend(in) THEN s ELSE [s EXCEPT !.phase = x]
    BY <1>2 DEF ResolveAt, AndroidAt
  <2>2. due # {} => c.phase \in Phases
    BY DEF Finishes, Phased
  <2> HIDE DEF due, c
  <2>3. due # {} => x \in Phases
    BY <2>2, PhaseAfterType DEF AndroidPhase, Phased
  <2> QED
    BY <1>1, <2>1, <2>3
<1>3. CASE p = "pwa"
  <2> DEFINE due == Finishes(in.queued, k, in)
             c == CHOOSE d \in due : TRUE
             x == PwaPhase(c, s.phase, in)
  <2>1. ResolveAt(p, s, k, in) = IF due = {} THEN s ELSE [s EXCEPT !.phase = x]
    BY <1>3 DEF ResolveAt, PwaAt
  <2>2. due # {} => c.phase \in Phases
    BY DEF Finishes, Phased
  <2> HIDE DEF due, c
  <2>3. due # {} => x \in {in.selection.phase, AfterRow(RowNow(in), in), c.phase, s.phase}
    BY DEF PwaPhase, RejectedPhase
  <2>4. AfterRow(RowNow(in), in) \in Phases
    BY PhaseAfterType DEF AfterRow, Phased
  <2>5. due # {} => x \in Phases
    BY <2>2, <2>3, <2>4 DEF Phased
  <2> QED
    BY <1>1, <2>1, <2>5
<1>4. CASE p \notin {"android", "pwa"}
  <2> DEFINE due == {a \in Undone(p, in) : a.cmd = k}
             a == CHOOSE b \in due : TRUE
  <2>1. ResolveAt(p, s, k, in) = IF due = {} THEN s ELSE Restore(p, s, a)
    BY <1>4 DEF ResolveAt, RestoreAt
  <2>2. due # {} => a \in in.advances
    BY DEF Undone
  <2> HIDE DEF due, a
  <2> QED
    BY <2>1, <2>2, RestorePhase DEF Phased
<1> QED
  BY <1>2, <1>3, <1>4

LEMMA InstalledPhase ==
  ASSUME NEW p \in Clients, NEW in, in.last \in Nat, Shaped(in.selection), Phased(in)
  PROVE  Installed(p, in).selection.phase \in Phases
<1> DEFINE f == Resolving(p, in)
           T == {n \in 0 .. in.last : f[n].phase \notin Phases}
<1>1. \A n \in 0 .. in.last : Shaped(f[n])
  BY ResolvingMoves DEF Moved
<1>2. f[in.last].phase \in Phases
  <2>1. SUFFICES ASSUME T # {}
                 PROVE  FALSE
    OBVIOUS
  <2>2. PICK k \in T : \A j \in T : k <= j
    <3>1. T \subseteq Nat
      OBVIOUS
    <3> HIDE DEF T
    <3> QED
      BY <2>1, <3>1, LeastPlace
  <2>3. k # 0
    BY <2>2, ResolvingStates DEF Phased
  <2>4. k \in 1 .. in.last /\ k - 1 \in 0 .. in.last /\ k - 1 \notin T
    BY <2>2, <2>3
  <2>5. f[k] = ResolveAt(p, f[k - 1], Place(p, in, k), in) /\ f[k - 1].phase \in Phases
    BY <2>4, ResolvingStates
  <2>6. f[k].phase \in Phases
    BY <1>1, <2>4, <2>5, ResolvePhase
  <2> QED
    BY <2>2, <2>6
<1>3. Shaped(f[in.last])
  BY <1>1
<1> DEFINE s == f[in.last]
<1> HIDE DEF f, T, s
<1>4. \A x \in Phases : [s EXCEPT !.phase = x].phase \in Phases
  BY <1>3, OtherPhase DEF s
<1>5. PwaInstall(s, in).phase \in Phases /\ LatestInstall(p, s, in).phase \in Phases
  BY <1>2, <1>4, PhaseAfterType DEF PwaInstall, LatestInstall, s
<1> QED
  BY <1>2, <1>5 DEF Installed, s, f

-----------------------------------------------------------------------------
(* How many commands there are: a new one always has a number that a timer *)
(* can have.                                                               *)

LEMMA Parts ==
  ASSUME NEW n \in Nat, NEW A, A \subseteq 1 .. n, NEW B, B \subseteq A
  PROVE  /\ Cardinality(A \ B) \in Nat /\ Cardinality(B) \in Nat
         /\ Cardinality((1 .. n) \ A) \in Nat /\ IsFiniteSet(B)
         /\ n = Cardinality(A \ B) + Cardinality(B) + Cardinality((1 .. n) \ A)
<1> DEFINE I == 1 .. n
<1>1. IsFiniteSet(I) /\ Cardinality(I) = n
  BY FS_Interval
<1>2. A \in SUBSET I /\ B \in SUBSET A
  OBVIOUS
<1> HIDE DEF I
<1>3. IsFiniteSet(A)
  BY <1>1, <1>2, FS_Subset
<1>4. IsFiniteSet(B)
  BY <1>2, <1>3, FS_Subset
<1>5. I \cap A = A /\ A \cap B = B
  BY <1>2
<1>6. IsFiniteSet(I \ A) /\ Cardinality(I \ A) = Cardinality(I) - Cardinality(A)
  BY <1>1, <1>5, FS_Difference
<1>7. IsFiniteSet(A \ B) /\ Cardinality(A \ B) = Cardinality(A) - Cardinality(B)
  BY <1>3, <1>5, FS_Difference
<1>8. /\ Cardinality(A) \in Nat /\ Cardinality(B) \in Nat
      /\ Cardinality(I \ A) \in Nat /\ Cardinality(A \ B) \in Nat
  BY <1>3, <1>4, <1>6, <1>7, FS_CardinalityType
<1> QED
  BY <1>1, <1>4, <1>6, <1>7, <1>8 DEF I

Users == Cardinality(mine \ made)
BreaksMade == Cardinality(made)
Others == Cardinality(Theirs)

LEMMA LineParts ==
  ASSUME Lines
  PROVE  /\ Users \in Nat /\ BreaksMade \in Nat /\ Others \in Nat
         /\ Len(timeline) \in Nat /\ Len(timeline) = Users + BreaksMade + Others
<1>1. Len(timeline) \in Nat /\ mine \subseteq 1 .. Len(timeline) /\ made \subseteq mine
  BY Places DEF Lines
<1> QED
  BY <1>1, Parts DEF Users, BreaksMade, Others, Theirs

LEMMA CountStep ==
  ASSUME Lines, Lines'
  PROVE  /\ UNCHANGED <<timeline, mine, made>> =>
              UNCHANGED <<Users, BreaksMade, Others>>
         /\ \A c : c.id = NewId /\ timeline' = Insert(timeline, c) =>
              /\ UNCHANGED <<mine, made>> =>
                   Users' = Users /\ BreaksMade' = BreaksMade /\ Others' = Others + 1
              /\ mine' = mine \cup {c.id} /\ made' = made =>
                   Users' = Users + 1 /\ BreaksMade' = BreaksMade /\ Others' = Others
              /\ mine' = mine \cup {c.id} /\ made' = made \cup {c.id} =>
                   Users' = Users /\ BreaksMade' = BreaksMade + 1 /\ Others' = Others
<1>1. UNCHANGED <<timeline, mine, made>> => UNCHANGED <<Users, BreaksMade, Others>>
  BY DEF Users, BreaksMade, Others, Theirs
<1>2. ASSUME NEW c, c.id = NewId, timeline' = Insert(timeline, c)
      PROVE  /\ UNCHANGED <<mine, made>> =>
                  Users' = Users /\ BreaksMade' = BreaksMade /\ Others' = Others + 1
             /\ mine' = mine \cup {c.id} /\ made' = made =>
                  Users' = Users + 1 /\ BreaksMade' = BreaksMade /\ Others' = Others
             /\ mine' = mine \cup {c.id} /\ made' = made \cup {c.id} =>
                  Users' = Users /\ BreaksMade' = BreaksMade + 1 /\ Others' = Others
  <2> DEFINE n == NewId
  <2>1. /\ Users \in Nat /\ BreaksMade \in Nat /\ Others \in Nat
        /\ Len(timeline) \in Nat /\ Len(timeline) = Users + BreaksMade + Others
    BY LineParts
  <2>2. /\ Users' \in Nat /\ BreaksMade' \in Nat /\ Others' \in Nat
        /\ Len(timeline') = Users' + BreaksMade' + Others'
    <3>1. Len(timeline') \in Nat /\ mine' \subseteq 1 .. Len(timeline') /\ made' \subseteq mine'
      <4>1. /\ Len(timeline') \in Nat
            /\ \A j \in 1 .. Len(timeline') : timeline'[j].id \in 1 .. Len(timeline')
        BY DEF Lines, Numbered
      <4> QED
        BY <4>1 DEF Lines, Known
    <3> QED
      BY <3>1, Parts DEF Users, BreaksMade, Others, Theirs
  <2>3. Len(timeline') = Len(timeline) + 1
    BY <1>2, Grows DEF Lines, NewId
  <2>4. n \notin mine /\ n \notin made
    BY Places DEF Lines
  <2>5. IsFiniteSet(mine \ made) /\ IsFiniteSet(made)
    <3>1. Len(timeline) \in Nat /\ mine \subseteq 1 .. Len(timeline) /\ made \subseteq mine
      BY Places DEF Lines
    <3> QED
      BY <3>1, LinesCount, Parts
  <2> DEFINE user == mine \ made
  <2>6. n \notin user
    BY <2>4
  <2>7. /\ mine' = mine \cup {n} /\ made' = made => mine' \ made' = user \cup {n}
        /\ mine' = mine \cup {n} /\ made' = made \cup {n} => mine' \ made' = user
    BY <2>4
  <2> HIDE DEF n, user
  <2>8. Cardinality(user \cup {n}) = Cardinality(user) + 1
    BY <2>5, <2>6, FS_AddElement DEF user
  <2>9. Cardinality(made \cup {n}) = Cardinality(made) + 1
    BY <2>4, <2>5, FS_AddElement
  <2>10. Users = Cardinality(user) /\ BreaksMade = Cardinality(made)
         /\ Users' = Cardinality(mine' \ made') /\ BreaksMade' = Cardinality(made')
    BY DEF Users, BreaksMade, user
  <2>11. ASSUME UNCHANGED <<mine, made>>
         PROVE  Users' = Users /\ BreaksMade' = BreaksMade /\ Others' = Others + 1
    <3>1. Users' = Users /\ BreaksMade' = BreaksMade
      BY <2>11 DEF Users, BreaksMade
    <3> QED
      BY <2>1, <2>2, <2>3, <3>1
  <2>12. ASSUME mine' = mine \cup {n}, made' = made
         PROVE  Users' = Users + 1 /\ BreaksMade' = BreaksMade /\ Others' = Others
    <3>1. Users' = Users + 1 /\ BreaksMade' = BreaksMade
      BY <2>7, <2>8, <2>10, <2>12
    <3> QED
      BY <2>1, <2>2, <2>3, <3>1
  <2>13. ASSUME mine' = mine \cup {n}, made' = made \cup {n}
         PROVE  Users' = Users /\ BreaksMade' = BreaksMade + 1 /\ Others' = Others
    <3>1. Users' = Users /\ BreaksMade' = BreaksMade + 1
      BY <2>7, <2>9, <2>10, <2>13
    <3> QED
      BY <2>1, <2>2, <2>3, <3>1
  <2> QED
    BY <1>2, <2>11, <2>12, <2>13 DEF n
<1> QED
  BY <1>1, <1>2

Slack == IF profile = "desktop" THEN 0 ELSE chosenAt

Counted ==
  /\ Users + 2 * Others <= MaxCommands[profile] + Slack
  /\ BreaksMade + Len(triggers) <= Users
  /\ profile # "desktop" => made = {} /\ triggers = <<>>

Wanted ==
  /\ triggers \in Seq([finish : Nat, timer : Timers])
  /\ \A k \in 1 .. Len(triggers) : triggers[k].finish \in mine

LEMMA Numbers ==
  ASSUME Lines, Climbs, Counted, Wanted,
         \/ CanCommand(1)
         \/ profile # "desktop" /\ chosenAt < MaxChoices
         \/ triggers # <<>>
  PROVE  NewId \in Timers
<1>1. /\ Users \in Nat /\ BreaksMade \in Nat /\ Others \in Nat
      /\ NewId = Users + BreaksMade + Others + 1
  BY LineParts DEF NewId
<1>2. /\ profile \in Profiles /\ MaxCommands[profile] \in Nat /\ MaxChoices \in Nat
      /\ chosenAt \in 0 .. MaxChoices
  BY SelectionAssumption DEF Climbs
<1>3. Len(triggers) \in Nat /\ (triggers # <<>> => Len(triggers) > 0)
  BY DEF Wanted
<1>4. CanCommand(1) => Users + 2 * Others + 1 <= MaxCommands[profile]
  BY DEF CanCommand, Users, Others
<1>5. NewId \in 1 .. MostCommands(profile)
  <2>1. CASE profile = "desktop"
    <3>1. MostCommands(profile) = MaxCommands[profile] + MaxCommands[profile]
      BY <2>1 DEF MostCommands
    <3>2. Users + 2 * Others <= MaxCommands[profile] /\ BreaksMade + Len(triggers) <= Users
      BY <1>2, <2>1 DEF Counted, Slack
    <3> QED
      BY <1>1, <1>2, <1>3, <1>4, <2>1, <3>1, <3>2
  <2>2. CASE profile # "desktop"
    <3>1. MostCommands(profile) = MaxCommands[profile] + MaxChoices
      BY <2>2 DEF MostCommands
    <3>2. Users + 2 * Others <= MaxCommands[profile] + chosenAt /\ triggers = <<>>
      BY <2>2 DEF Counted, Slack
    <3>3. BreaksMade = 0
      BY <2>2, FS_EmptySet DEF Counted, BreaksMade
    <3> QED
      BY <1>1, <1>2, <1>3, <1>4, <3>1, <3>2, <3>3
  <2> QED
    BY <2>1, <2>2
<1> QED
  BY <1>2, <1>5, SelectionAssumption

-----------------------------------------------------------------------------
(* The second invariant: what is stored is typed, nothing that is shown    *)
(* was made by a command that the server did not take, and the commands    *)
(* that the server has taken come before those that wait for it.           *)

Typed ==
  /\ timeline \in Seq(Command) /\ now \in Nat
  /\ selection.phase \in Phases
  /\ \A a \in advances : a.previous \in Phases
  /\ BaseFrom(base, log)

Ordered ==
  /\ log \subseteq 1 .. Len(timeline) /\ refused \subseteq mine /\ log \cap refused = {}
  /\ sent # None =>
       /\ sent.ids \subseteq queue
       /\ \A i \in sent.ids, j \in queue \ sent.ids : i < j
  /\ \A i \in log \cap mine, j \in queue : i < j \/ (sent # None /\ j \in sent.ids)
  /\ \A i \in (log \cap mine) \ queue, j \in queue : i < j

BreakInv == Inv /\ Typed /\ Counted /\ Wanted /\ Ordered

LEMMA BaseGrows ==
  ASSUME NEW b, NEW S, BaseFrom(b, S), NEW T, S \subseteq T
  PROVE  BaseFrom(b, T)
  BY DEF BaseFrom

\* What a replay over an accepted base shows is typed, and comes from the base
\* and from the commands.
LEMMA ViewFrom ==
  ASSUME timeline \in Seq(Command), now \in Nat, NEW S, NEW b, BaseFrom(b, S), NEW q
  PROVE  BaseFrom(View(b, timeline, q), S \cup q)
<1>1. BaseFrom(b, S \cup q)
  BY BaseGrows
<1>2. Reduced(b, timeline, q) \in From(S \cup q)
  BY <1>1, ReducedFrom
<1>3. Projected(Reduced(b, timeline, q), now) \in From(S \cup q)
  BY <1>2, FromDeadline DEF Projected
<1> QED
  BY <1>3, ShownFrom DEF View

LEMMA ReducedShown ==
  ASSUME timeline \in Seq(Command), NEW S, NEW b, BaseFrom(b, S), NEW q
  PROVE  BaseFrom(Shown(Reduced(b, timeline, q)), S \cup q)
<1>1. BaseFrom(b, S \cup q)
  BY BaseGrows
<1> QED
  BY <1>1, ReducedFrom, ShownFrom

LEMMA TimerOfBase ==
  ASSUME NEW b, NEW S, BaseFrom(b, S), b.timer # None
  PROVE  b.timer.timer \in Timers /\ b.timer.phase \in Phases
  BY DEF BaseFrom, PairOK, Snapshot

LEMMA NewCommandType ==
  ASSUME Lines, NEW kind \in Kinds, NEW timer \in Timers, NEW phase \in Phases,
         NEW at \in Nat
  PROVE  /\ NewCommand(kind, timer, phase, at) \in Command
         /\ NewCommand(kind, timer, phase, at).id = NewId
<1>1. NewId \in Nat /\ Planned \in Nat
  BY Places, SelectionAssumption DEF Lines
<1> QED
  BY <1>1 DEF NewCommand, Command

\* The timeline of a step.
LEMMA TimelineType ==
  ASSUME timeline \in Seq(Command), NEW c \in Command, timeline' = Insert(timeline, c)
  PROVE  timeline' \in Seq(Command)
  BY Inserted

LEMMA OrderedKept ==
  ASSUME Inv, Ordered, Len(timeline) <= Len(timeline'), Len(timeline') \in Nat,
         mine' \in {mine, mine \cup {NewId}}, queue' \in {queue, queue \cup {NewId}},
         UNCHANGED <<sent, log, refused>>
  PROVE  Ordered'
<1>1. /\ Len(timeline) \in Nat /\ NewId = Len(timeline) + 1
      /\ mine \subseteq 1 .. Len(timeline) /\ queue \subseteq mine
  BY Places DEF Inv, Lines, NewId
<1> DEFINE m == Len(timeline)
<1>3. \A i \in 1 .. m : i < NewId /\ i # NewId
  <2> HIDE DEF m
  <2> QED
    BY <1>1 DEF m
<1>2. log \cap mine' = log \cap mine /\ NewId \notin queue /\ NewId \notin log
  BY <1>1, <1>3 DEF Ordered
<1>4. log' \subseteq 1 .. Len(timeline') /\ refused' \subseteq mine' /\ log' \cap refused' = {}
  BY <1>1 DEF Ordered
<1>5. ASSUME sent' # None
      PROVE  /\ sent'.ids \subseteq queue'
             /\ \A i \in sent'.ids, j \in queue' \ sent'.ids : i < j
  <2>1. sent = sent' /\ sent.ids \subseteq queue /\ queue \subseteq queue'
    BY <1>5 DEF Ordered
  <2>2. \A i \in sent.ids : i < NewId
    BY <1>1, <1>3, <2>1
  <2> QED
    BY <1>5, <2>1, <2>2 DEF Ordered
<1>6. \A i \in log' \cap mine', j \in queue' :
        i < j \/ (sent' # None /\ j \in sent'.ids)
  BY <1>1, <1>2, <1>3 DEF Ordered
<1>7. \A i \in (log' \cap mine') \ queue', j \in queue' : i < j
  BY <1>1, <1>2, <1>3 DEF Ordered
<1> QED
  BY <1>4, <1>5, <1>6, <1>7 DEF Ordered

-----------------------------------------------------------------------------
(* The deferred break.                                                     *)

\* What is left of a sequence from its k-th element on.
LEMMA Rest ==
  ASSUME NEW S, NEW line \in Seq(S), NEW k \in 1 .. Len(line) + 1
  PROVE  /\ SubSeq(line, k, Len(line)) \in Seq(S)
         /\ Len(SubSeq(line, k, Len(line))) = Len(line) + 1 - k
         /\ \A j \in 1 .. Len(SubSeq(line, k, Len(line))) :
              \E i \in 1 .. Len(line) : SubSeq(line, k, Len(line))[j] = line[i]
<1> DEFINE m == Len(line)
           rest == SubSeq(line, k, m)
<1>1. m \in Nat
  OBVIOUS
<1> HIDE DEF m
<1>2. /\ rest \in Seq(S) /\ Len(rest) = m + 1 - k
      /\ \A j \in 1 .. m + 1 - k : rest[j] = line[k + j - 1]
  BY <1>1 DEF m
<1>3. \A j \in 1 .. m + 1 - k : k + j - 1 \in 1 .. m
  BY <1>1 DEF m
<1>4. \A j \in 1 .. Len(rest) : \E i \in 1 .. m : rest[j] = line[i]
  <2> HIDE DEF rest
  <2> QED
    BY <1>2, <1>3
<1> QED
  BY <1>2, <1>4 DEF m

\* The break of the k-th trigger is what Deferred starts.
Starts(d, k, b, q, o) ==
  LET t        == triggers[k]
      accepted == t.finish \notin q /\ ExactSource(b, t)
      seen     == IF signedIn \/ accepted THEN b ELSE View(b, timeline, q)
  IN  /\ Len(d.left) = Len(triggers) - k
      /\ d.start.phase \in Phases
      /\ ~ LaterCommand(t, timeline, q)
      /\ ~ (signedIn /\ (t.finish \in q \/ o))
      /\ ExactSource(seen, t)

LEMMA DeferredCases ==
  ASSUME Wanted, NEW b, NEW q, NEW o, NEW news
  PROVE  LET d == Deferred(b, q, o, news)
         IN  /\ d.left \in Seq([finish : Nat, timer : Timers])
             /\ \A k \in 1 .. Len(d.left) : d.left[k].finish \in mine
             /\ Len(d.left) <= Len(triggers)
             /\ d.start # None =>
                  \E k \in 1 .. Len(triggers) : Starts(d, k, b, q, o)
<1> DEFINE open == {i \in DOMAIN triggers : ~ Denied(triggers[i], b, news)
                                           /\ ~ LaterCommand(triggers[i], timeline, q)}
           k == CHOOSE i \in open : \A j \in open : i <= j
           t == triggers[k]
           accepted == t.finish \notin q /\ ExactSource(b, t)
           seen == IF signedIn \/ accepted THEN b ELSE View(b, timeline, q)
           d == Deferred(b, q, o, news)
           S == [finish : Nat, timer : Timers]
           phase == PhaseAfter("focus", seen.rows,
                      Day((CHOOSE r \in seen.rows : r.cmd = t.finish).ended))
           go == [finish |-> t.finish, waits |-> ~ accepted, phase |-> phase]
           holds == \/ signedIn /\ (t.finish \in q \/ o)
                    \/ ~ ExactSource(seen, t)
<1>1. /\ Len(triggers) \in Nat /\ DOMAIN triggers = 1 .. Len(triggers)
      /\ triggers \in Seq(S)
  BY DEF Wanted
<1>2. CASE open = {}
  <2>1. d = [left |-> <<>>, start |-> None]
    BY <1>2 DEF Deferred
  <2> QED
    BY <1>1, <2>1
<1>3. CASE open # {}
  <2>1. k \in open
    <3>1. open \subseteq Nat
      BY <1>1
    <3> HIDE DEF open
    <3>2. \E i \in open : \A j \in open : i <= j
      BY <1>3, <3>1, LeastPlace
    <3> QED
      BY <3>2
  <2>2. k \in 1 .. Len(triggers) /\ ~ LaterCommand(t, timeline, q)
    BY <1>1, <2>1
  <2>3. d = IF holds THEN [left |-> SubSeq(triggers, k, Len(triggers)), start |-> None]
            ELSE [left |-> SubSeq(triggers, k + 1, Len(triggers)), start |-> go]
    BY <1>3 DEF Deferred
  <2>4. go.phase \in Phases
    BY PhaseAfterType
  <2>5. k \in 1 .. Len(triggers) + 1 /\ k + 1 \in 1 .. Len(triggers) + 1
    <3> HIDE DEF k
    <3> QED
      BY <1>1, <2>2
  <2> HIDE DEF open, k, t, accepted, seen, holds, d, go, S, phase
  <2>6. /\ d.left \in Seq(S)
        /\ Len(d.left) = IF holds THEN Len(triggers) + 1 - k ELSE Len(triggers) - k
        /\ \A j \in 1 .. Len(d.left) :
             \E i \in 1 .. Len(triggers) : d.left[j] = triggers[i]
    <3>1. CASE holds
      <4>1. d.left = SubSeq(triggers, k, Len(triggers))
        BY <2>3, <3>1
      <4>2. /\ SubSeq(triggers, k, Len(triggers)) \in Seq(S)
            /\ Len(SubSeq(triggers, k, Len(triggers))) = Len(triggers) + 1 - k
            /\ \A j \in 1 .. Len(SubSeq(triggers, k, Len(triggers))) :
                 \E i \in 1 .. Len(triggers) :
                   SubSeq(triggers, k, Len(triggers))[j] = triggers[i]
        BY <1>1, <2>5, Rest
      <4> QED
        BY <3>1, <4>1, <4>2
    <3>2. CASE ~ holds
      <4>1. d.left = SubSeq(triggers, k + 1, Len(triggers))
        BY <2>3, <3>2
      <4>2. /\ SubSeq(triggers, k + 1, Len(triggers)) \in Seq(S)
            /\ Len(SubSeq(triggers, k + 1, Len(triggers))) = Len(triggers) + 1 - (k + 1)
            /\ \A j \in 1 .. Len(SubSeq(triggers, k + 1, Len(triggers))) :
                 \E i \in 1 .. Len(triggers) :
                   SubSeq(triggers, k + 1, Len(triggers))[j] = triggers[i]
        BY <1>1, <2>5, Rest
      <4>3. k \in Nat
        BY <1>1, <2>2
      <4>4. \A n, i \in Nat : n + 1 - (i + 1) = n - i
        OBVIOUS
      <4>5. Len(triggers) + 1 - (k + 1) = Len(triggers) - k
        BY <1>1, <4>3, <4>4
      <4> QED
        BY <3>2, <4>1, <4>2, <4>5
    <3> QED
      BY <3>1, <3>2
  <2>7. \A j \in 1 .. Len(d.left) : d.left[j].finish \in mine
    BY <2>6 DEF Wanted
  <2>8. Len(d.left) <= Len(triggers)
    BY <1>1, <2>2, <2>6
  <2>9. ASSUME d.start # None
        PROVE  Starts(d, k, b, q, o)
    <3>1. ~ holds /\ d.start = go
      BY <2>3, <2>9
    <3>2. ~ (signedIn /\ (t.finish \in q \/ o)) /\ ExactSource(seen, t)
      BY <3>1 DEF holds
    <3>3. d.start.phase \in Phases /\ Len(d.left) = Len(triggers) - k
      BY <2>4, <2>6, <3>1
    <3> QED
      BY <2>2, <3>2, <3>3 DEF Starts, t, accepted, seen
  <2>10. d.start # None => \E i \in 1 .. Len(triggers) : Starts(d, i, b, q, o)
    BY <2>2, <2>9
  <2> QED
    BY <2>6, <2>7, <2>8, <2>10 DEF S, d
<1> QED
  BY <1>2, <1>3

-----------------------------------------------------------------------------
(* Steps of the second invariant.                                          *)

LEMMA StillInv ==
  ASSUME BreakInv, Inv',
         UNCHANGED <<profile, timeline, mine, made, queue, base, triggers, sent, log,
                     refused, advances>>,
         now' \in Nat, selection'.phase \in Phases, chosenAt <= chosenAt'
  PROVE  BreakInv'
<1>1. Lines /\ Lines' /\ Climbs /\ Climbs'
  BY DEF BreakInv, Inv
<1>2. UNCHANGED <<Users, BreaksMade, Others>>
  BY <1>1, CountStep
<1>3. /\ Users \in Nat /\ Others \in Nat /\ MaxCommands[profile] \in Nat
      /\ chosenAt \in Nat /\ chosenAt' \in Nat
  BY <1>1, LineParts, Profile DEF Climbs
<1>4. Slack \in Nat /\ Slack' \in Nat /\ Slack <= Slack'
  BY <1>3 DEF Slack
<1>5. Counted'
  BY <1>2, <1>3, <1>4 DEF BreakInv, Counted
<1>6. Typed' /\ Wanted' /\ Ordered'
  BY DEF BreakInv, Typed, Wanted, Ordered
<1> QED
  BY <1>5, <1>6 DEF BreakInv

\* A command of the user.
LEMMA QueueInv ==
  ASSUME BreakInv, Inv', NEW c \in Command, c.id = NewId, Queue(c),
         UNCHANGED <<profile, now, base, sent, log, refused>>,
         selection'.phase \in Phases, \A a \in advances' : a.previous \in Phases,
         \/ CanCommand(1) /\ chosenAt' = chosenAt
         \/ profile # "desktop" /\ chosenAt' = chosenAt + 1,
         \/ triggers' = triggers
         \/ /\ profile = "desktop"
            /\ \E t \in Timers :
                 triggers' = Append(triggers, [finish |-> NewId, timer |-> t])
  PROVE  BreakInv'
<1>1. Inv /\ Lines /\ Lines' /\ Climbs /\ Climbs' /\ Counted /\ Wanted
  BY DEF BreakInv, Inv
<1>2. /\ timeline' = Insert(timeline, c) /\ mine' = mine \cup {c.id} /\ made' = made
      /\ queue' = queue \cup {c.id}
  BY DEF Queue
<1>3. Users' = Users + 1 /\ BreaksMade' = BreaksMade /\ Others' = Others
  BY <1>1, <1>2, CountStep
<1>4. /\ Users \in Nat /\ BreaksMade \in Nat /\ Others \in Nat /\ Len(timeline) \in Nat
      /\ MaxCommands[profile] \in Nat /\ chosenAt \in Nat /\ chosenAt' \in Nat
  BY <1>1, LineParts, Profile DEF Climbs
<1>5. CanCommand(1) => Users + 2 * Others + 1 <= MaxCommands[profile]
  BY DEF CanCommand, Users, Others
<1>6. Users' + 2 * Others' <= MaxCommands[profile] + Slack'
  <2>1. CASE CanCommand(1) /\ chosenAt' = chosenAt
    <3>1. Slack' \in Nat
      BY <1>4 DEF Slack
    <3> QED
      BY <1>3, <1>4, <1>5, <2>1, <3>1
  <2>2. CASE profile # "desktop" /\ chosenAt' = chosenAt + 1
    <3>1. Slack' = Slack + 1 /\ Slack \in Nat
      BY <1>4, <2>2 DEF Slack
    <3> QED
      BY <1>1, <1>3, <1>4, <3>1 DEF Counted
  <2> QED
    BY <2>1, <2>2
<1>7. NewId \in Nat
  BY <1>4 DEF NewId
<1>8. /\ Len(triggers') \in {Len(triggers), Len(triggers) + 1}
      /\ profile # "desktop" => triggers' = triggers
      /\ Wanted'
  <2>1. CASE triggers' = triggers
    BY <1>1, <1>2, <2>1 DEF Wanted
  <2>2. CASE /\ profile = "desktop"
             /\ \E t \in Timers :
                  triggers' = Append(triggers, [finish |-> NewId, timer |-> t])
    <3>1. PICK t \in Timers : triggers' = Append(triggers, [finish |-> NewId, timer |-> t])
      BY <2>2
    <3> DEFINE S == [finish : Nat, timer : Timers]
               e == [finish |-> NewId, timer |-> t]
    <3>2. e \in S /\ e.finish = NewId
      BY <1>7
    <3> HIDE DEF e
    <3>3. /\ Append(triggers, e) \in Seq(S) /\ Len(triggers) \in Nat
          /\ Len(Append(triggers, e)) = Len(triggers) + 1
          /\ \A k \in 1 .. Len(triggers) + 1 :
               Append(triggers, e)[k] = IF k = Len(triggers) + 1 THEN e ELSE triggers[k]
      BY <1>1, <3>2 DEF Wanted
    <3>4. triggers' = Append(triggers, e)
      BY <3>1 DEF e
    <3>5. \A k \in 1 .. Len(triggers') : triggers'[k].finish \in mine'
      BY <1>1, <1>2, <3>2, <3>3, <3>4 DEF Wanted
    <3> QED
      BY <2>2, <3>3, <3>4, <3>5 DEF Wanted
  <2> QED
    BY <2>1, <2>2
<1>9. Counted'
  <2>1. Len(triggers) \in Nat /\ BreaksMade + Len(triggers) <= Users
    BY <1>1 DEF Wanted, Counted
  <2>2. BreaksMade' + Len(triggers') <= Users'
    BY <1>3, <1>4, <1>8, <2>1
  <2> QED
    BY <1>1, <1>2, <1>6, <1>8, <2>2 DEF Counted
<1>10. Typed'
  <2>1. timeline' \in Seq(Command)
    BY <1>2, TimelineType DEF BreakInv, Typed
  <2> QED
    BY <2>1 DEF BreakInv, Typed
<1>11. Ordered'
  <2>1. Len(timeline') = Len(timeline) + 1
    BY <1>1, <1>2, Grows DEF Lines, NewId
  <2>2. Len(timeline) <= Len(timeline') /\ Len(timeline') \in Nat
    BY <1>4, <2>1
  <2> QED
    BY <1>1, <1>2, <2>2, OrderedKept DEF BreakInv
<1> QED
  BY <1>8, <1>9, <1>10, <1>11 DEF BreakInv

\* Looking at the triggers.
LEMMA TriggersStep ==
  ASSUME BreakInv, Inv', NEW b, NEW left, left \subseteq queue, NEW sel, Shaped(sel),
         sel.phase \in Phases, NEW o, NEW news,
         StartBreak(Deferred(b, left, o, news).start, left, sel),
         triggers' = Deferred(b, left, o, news).left,
         UNCHANGED <<profile, now, chosenAt>>
  PROVE  /\ timeline' \in Seq(Command) /\ selection'.phase \in Phases
         /\ Counted' /\ Wanted'
         /\ queue' \subseteq left \cup {NewId} /\ mine' \in {mine, mine \cup {NewId}}
         /\ mine' = mine => queue' = left
         /\ Len(timeline) <= Len(timeline') /\ Len(timeline') \in Nat
<1> DEFINE d == Deferred(b, left, o, news)
           S == [finish : Nat, timer : Timers]
<1>1. Inv /\ Lines /\ Lines' /\ Climbs /\ Climbs' /\ Counted /\ Wanted /\ Typed
  BY DEF BreakInv, Inv
<1>2. /\ triggers' \in Seq(S) /\ \A k \in 1 .. Len(triggers') : triggers'[k].finish \in mine
      /\ Len(triggers') <= Len(triggers)
      /\ d.start # None => \E k \in 1 .. Len(triggers) : Starts(d, k, b, left, o)
  BY <1>1, DeferredCases
<1>3. /\ Users \in Nat /\ BreaksMade \in Nat /\ Others \in Nat /\ Len(timeline) \in Nat
      /\ Len(timeline') \in Nat /\ NewId \in Nat /\ Len(triggers) \in Nat
      /\ Len(triggers') \in Nat
  BY <1>1, <1>2, LineParts, Places DEF Wanted, Lines
<1>4. Slack' = Slack
  BY DEF Slack
<1>5. \A s : s \in Seq(S) /\ Len(s) = 0 => s = <<>>
  OBVIOUS
<1>6. profile # "desktop" => triggers' = <<>>
  BY <1>1, <1>2, <1>3, <1>5 DEF Counted
<1> DEFINE start == d.start
<1>7. StartBreak(start, left, sel) /\ triggers' = d.left
  OBVIOUS
<1> HIDE DEF d, S
<1>8. CASE start = None
  <2>1. selection' = sel /\ queue' = left /\ UNCHANGED <<timeline, mine, made>>
    BY <1>7, <1>8 DEF StartBreak
  <2>2. UNCHANGED <<Users, BreaksMade, Others>>
    BY <1>1, <2>1, CountStep
  <2>3. BreaksMade' + Len(triggers') <= Users'
    BY <1>1, <1>2, <1>3, <2>2 DEF Counted
  <2>4. Counted'
    BY <1>1, <1>4, <1>6, <2>1, <2>2, <2>3 DEF Counted
  <2>5. Wanted'
    BY <1>2, <2>1 DEF Wanted, S
  <2>6. Len(timeline) <= Len(timeline')
    BY <1>3, <2>1
  <2> QED
    BY <1>1, <1>3, <2>1, <2>4, <2>5, <2>6 DEF Typed
<1>9. CASE start # None
  <2> DEFINE c == NewCommand("start", NewId, start.phase, now)
  <2>1. /\ selection' = [sel EXCEPT !.phase = start.phase]
        /\ timeline' = Insert(timeline, c) /\ mine' = mine \cup {c.id}
        /\ made' = made \cup {c.id} /\ queue' = left \cup {c.id}
    BY <1>7, <1>9 DEF StartBreak
  <2>2. PICK k \in 1 .. Len(triggers) : Starts(d, k, b, left, o)
    BY <1>2, <1>9
  <2>3. /\ Len(d.left) = Len(triggers) - k
        /\ start.phase \in Phases
    BY <2>2 DEF Starts
  <2>4. triggers # <<>> /\ Len(triggers') + 1 <= Len(triggers)
    BY <1>3, <1>7, <2>3
  <2>5. NewId \in Timers
    BY <1>1, <2>4, Numbers
  <2>6. now \in Nat /\ "start" \in Kinds
    BY <1>1 DEF Typed, Kinds
  <2>7. c \in Command /\ c.id = NewId
    BY <1>1, <2>3, <2>5, <2>6, NewCommandType
  <2> HIDE DEF c
  <2>8. Users' = Users /\ BreaksMade' = BreaksMade + 1 /\ Others' = Others
    BY <1>1, <2>1, <2>7, CountStep
  <2>9. BreaksMade' + Len(triggers') <= Users'
    <3>1. BreaksMade + Len(triggers) <= Users
      BY <1>1 DEF Counted
    <3>2. \A x, y, z, u \in Nat : x + y <= u /\ z + 1 <= y => (x + 1) + z <= u
      OBVIOUS
    <3> QED
      BY <1>3, <2>4, <2>8, <3>1, <3>2
  <2>10. profile = "desktop"
    BY <1>1, <2>4 DEF Counted
  <2>11. Counted'
    BY <1>1, <1>4, <2>8, <2>9, <2>10 DEF Counted
  <2>12. Wanted'
    BY <1>2, <2>1 DEF Wanted, S
  <2>13. timeline' \in Seq(Command)
    BY <1>1, <2>1, <2>7, TimelineType DEF Typed
  <2>14. selection'.phase \in Phases
    BY <2>1, <2>3, OtherPhase
  <2>15. Len(timeline') = Len(timeline) + 1
    BY <1>1, <2>1, <2>7, Grows DEF Lines, NewId
  <2>16. Len(timeline) <= Len(timeline')
    BY <1>3, <2>15
  <2>17. NewId \notin mine
    BY <1>1, Places DEF Lines
  <2> QED
    BY <1>3, <2>1, <2>7, <2>11, <2>12, <2>13, <2>14, <2>16, <2>17
<1> QED
  BY <1>8, <1>9

LEMMA InitBreak == Init => BreakInv
<1> SUFFICES ASSUME Init
             PROVE  BreakInv
  OBVIOUS
<1>1. /\ profile \in Profiles /\ timeline = <<>> /\ mine = {} /\ made = {} /\ queue = {}
      /\ sent = None /\ advances = {} /\ log = {} /\ refused = {} /\ chosenAt = 0
      /\ triggers = <<>> /\ base = Nothing /\ now = 0 /\ selection.phase = "focus"
  BY DEF Init
<1>2. Inv
  BY InitInv
<1>3. Typed
  <2>1. <<>> \in Seq(Command)
    OBVIOUS
  <2> QED
    BY <1>1, <2>1, NothingFrom DEF Typed, Phases
<1>4. Counted
  <2>1. Len(timeline) = 0 /\ Len(triggers) = 0
    BY <1>1
  <2>2. Users = 0 /\ BreaksMade = 0 /\ Others = 0
    <3>1. /\ Users \in Nat /\ BreaksMade \in Nat /\ Others \in Nat
          /\ 0 = Users + BreaksMade + Others
      BY <1>2, <2>1, LineParts DEF Inv
    <3> QED
      BY <3>1
  <2>3. MaxCommands[profile] \in Nat /\ Slack = 0
    BY <1>1, <1>2, Profile DEF Slack, Inv
  <2> QED
    BY <1>1, <2>1, <2>2, <2>3 DEF Counted
<1>5. Wanted
  BY <1>1 DEF Wanted
<1>6. Ordered
  BY <1>1 DEF Ordered
<1> QED
  BY <1>2, <1>3, <1>4, <1>5, <1>6 DEF BreakInv

\* What the client shows, now or before any deadline is read.
LEMMA HereType ==
  ASSUME Typed
  PROVE  /\ BaseFrom(Here, log \cup queue) /\ BaseFrom(Unexpired, log \cup queue)
         /\ Here.timer # None => Here.timer.timer \in Timers /\ Here.timer.phase \in Phases
         /\ Unexpired.timer # None =>
              Unexpired.timer.timer \in Timers /\ Unexpired.timer.phase \in Phases
<1>1. BaseFrom(Here, log \cup queue) /\ BaseFrom(Unexpired, log \cup queue)
  BY ViewFrom, ReducedShown DEF Typed, Here, Unexpired
<1> QED
  BY <1>1, TimerOfBase

LEMMA StartBreakInv ==
  ASSUME BreakInv, Inv', StartTimer
  PROVE  BreakInv'
<1> DEFINE e == IF profile \in {"apple", "pwa"} THEN FALSE ELSE selection.explicit
           c == NewCommand("start", NewId, selection.phase, now)
<1>1. Shaped(selection) /\ selection.phase \in Phases /\ now \in Nat
  BY DEF BreakInv, Inv, Climbs, Typed
<1>2. /\ CanCommand(1) /\ Queue(c)
      /\ selection' = [selection EXCEPT !.explicit = e]
      /\ UNCHANGED <<profile, now, sent, base, advances, triggers, log, refused, chosenAt>>
  BY <1>1 DEF StartTimer, Obligations, Server, Shaped
<1>3. NewId \in Timers
  BY <1>2, Numbers DEF BreakInv, Inv
<1>4. c \in Command /\ c.id = NewId
  BY <1>1, <1>3, NewCommandType DEF BreakInv, Inv, Kinds
<1> HIDE DEF e, c
<1>5. selection'.phase = selection.phase
  BY <1>1, <1>2, Changed DEF Shaped
<1> QED
  BY <1>1, <1>2, <1>4, <1>5, QueueInv DEF BreakInv, Typed

LEMMA ControlBreakInv ==
  ASSUME BreakInv, Inv', Control
  PROVE  BreakInv'
<1>1. /\ CanCommand(1) /\ Here.timer # None
      /\ UNCHANGED <<profile, now, selection, sent, base, advances, triggers, log, refused,
                     chosenAt>>
  BY DEF Control, Obligations, Server, Ghosts
<1>2. PICK kind \in Kinds :
        Queue(NewCommand(kind, Here.timer.timer, Here.timer.phase, now))
  BY DEF Control, Pauses, Kinds
<1> DEFINE c == NewCommand(kind, Here.timer.timer, Here.timer.phase, now)
<1>3. c \in Command /\ c.id = NewId
  BY <1>1, HereType, NewCommandType DEF BreakInv, Inv, Typed
<1> HIDE DEF c
<1> QED
  BY <1>1, <1>2, <1>3, QueueInv DEF BreakInv, Typed, c

LEMMA FinishBreakInv ==
  ASSUME BreakInv, Inv', NEW breakWanted, FinishTimer(breakWanted)
  PROVE  BreakInv'
<1> DEFINE timer == FinishTarget
           c     == NewCommand("finish", timer.timer, timer.phase, now)
           next  == PhaseAfter(timer.phase,
                      History(Apply(Reduced(base, timeline, queue), c)), Day(now))
           phase == IF Follows(timer) THEN next ELSE selection.phase
           gen   == GenerationAfter(next)
           owes  == profile = "desktop" \/ (profile = "apple" /\ ~ selection.explicit)
           a     == [cmd |-> c.id, timer |-> timer.timer,
                     previous |-> IF profile = "apple" THEN selection.phase
                                                       ELSE timer.phase,
                     advanced |-> next, generation |-> gen]
<1>1. /\ CanCommand(1) /\ timer # None /\ Queue(c)
      /\ selection' = [selection EXCEPT !.phase = phase, !.generation = gen]
      /\ advances' = IF owes THEN advances \cup {a} ELSE advances
      /\ triggers' = IF breakWanted
                     THEN Append(triggers, [finish |-> c.id, timer |-> timer.timer])
                     ELSE triggers
      /\ breakWanted => profile = "desktop"
      /\ UNCHANGED <<profile, now, sent, base, log, refused, chosenAt>>
  BY DEF FinishTimer, Server
<1>2. timer # None => timer.timer \in Timers /\ timer.phase \in Phases
  BY HereType DEF FinishTarget, BreakInv, Typed
<1>3. next \in Phases
  BY PhaseAfterType
<1>4. a.previous = IF profile = "apple" THEN selection.phase ELSE timer.phase
  OBVIOUS
<1>5. c \in Command /\ c.id = NewId
  BY <1>1, <1>2, NewCommandType DEF BreakInv, Inv, Typed, Kinds
<1>6. phase \in Phases
  BY <1>3 DEF BreakInv, Typed
<1>7. gen \in Gens
  BY Profile, Heights DEF GenerationAfter, BreakInv, Inv
<1> HIDE DEF timer, c, next, phase, gen, owes, a
<1>8. selection'.phase = phase
  <2>1. Shaped(selection)
    BY DEF BreakInv, Inv, Climbs
  <2>2. selection' = [phase |-> phase, generation |-> gen, explicit |-> selection.explicit]
    BY <1>1, <1>7, <2>1, Changed
  <2> QED
    BY <2>2
<1>9. \A d \in advances' : d.previous \in Phases
  BY <1>1, <1>2, <1>4 DEF BreakInv, Typed
<1>10. \/ triggers' = triggers
       \/ /\ profile = "desktop"
          /\ \E t \in Timers : triggers' = Append(triggers, [finish |-> NewId, timer |-> t])
  BY <1>1, <1>2, <1>5
<1> QED
  BY <1>1, <1>5, <1>6, <1>8, <1>9, <1>10, QueueInv

LEMMA ChooseBreakInv ==
  ASSUME BreakInv, Inv', NEW phase \in Phases, Choose(phase, Here), chosenAt < MaxChoices
  PROVE  BreakInv'
<1> DEFINE g == NextGeneration(selection.generation)
           e == profile \in {"apple", "pwa"} \/ selection.explicit
           c == NewCommand("clear", Here.timer.timer, Here.timer.phase, now)
<1>1. /\ selection' = [phase |-> phase, generation |-> g, explicit |-> e]
      /\ chosenAt' = chosenAt + 1
      /\ UNCHANGED <<profile, now, sent, base, advances, triggers, log, refused>>
      /\ \/ profile = "apple" /\ Here.timer # None /\ Queue(c)
         \/ UNCHANGED <<timeline, mine, made, queue>>
  BY DEF Choose, Server
<1>2. selection'.phase \in Phases
  BY <1>1
<1>3. now \in Nat /\ chosenAt \in Nat /\ chosenAt <= chosenAt'
  BY <1>1, Profile DEF BreakInv, Inv, Typed
<1>4. CASE profile = "apple" /\ Here.timer # None /\ Queue(c)
  <2>1. c \in Command /\ c.id = NewId
    BY <1>3, <1>4, HereType, NewCommandType DEF BreakInv, Inv, Typed, Kinds
  <2> HIDE DEF c
  <2> QED
    BY <1>1, <1>2, <1>4, <2>1, QueueInv DEF BreakInv, Typed
<1>5. CASE UNCHANGED <<timeline, mine, made, queue>>
  BY <1>1, <1>2, <1>3, <1>5, StillInv
<1> QED
  BY <1>1, <1>4, <1>5

LEMMA PeerBreakInv ==
  ASSUME BreakInv, Inv', PeerStarts \/ PeerFinishes
  PROVE  BreakInv'
<1>1. now \in Nat /\ Inv /\ Lines /\ Lines' /\ Climbs /\ Climbs' /\ Counted /\ Wanted
  BY DEF BreakInv, Inv, Typed
<1>2. /\ Users \in Nat /\ BreaksMade \in Nat /\ Others \in Nat /\ Len(timeline) \in Nat
      /\ MaxCommands[profile] \in Nat
  BY <1>1, LineParts, Profile
<1>3. CanCommand(2)
  BY DEF PeerStarts, PeerFinishes, Peer
<1>4. CanCommand(1) /\ Users + 2 * Others + 2 <= MaxCommands[profile]
  <2>1. Users + 2 * Others + 2 <= MaxCommands[profile]
    BY <1>3 DEF CanCommand, Users, Others
  <2>2. Users + 2 * Others + 1 <= MaxCommands[profile]
    BY <1>2, <2>1
  <2> QED
    BY <2>1, <2>2 DEF CanCommand, Users, Others
<1>5. PICK c \in Command : c.id = NewId /\ Peer(c)
  <2>1. CASE PeerStarts
    <3>1. PICK at \in 0 .. now, phase \in {"focus", "short_break"} :
            Peer(NewCommand("start", NewId, phase, at))
      BY <2>1 DEF PeerStarts
    <3>2. at \in Nat /\ phase \in Phases /\ "start" \in Kinds
      BY <1>1 DEF Phases, Kinds
    <3>3. NewId \in Timers
      BY <1>1, <1>4, Numbers
    <3> QED
      BY <1>1, <3>1, <3>2, <3>3, NewCommandType
  <2>2. CASE PeerFinishes
    <3> DEFINE timer == Shown(Reduced(Nothing, timeline, log)).timer
    <3>1. InUse(timer) /\ Peer(NewCommand("finish", timer.timer, timer.phase, now))
      BY <2>2 DEF PeerFinishes
    <3>2. BaseFrom(Shown(Reduced(Nothing, timeline, log)), {} \cup log)
      BY NothingFrom, ReducedShown DEF BreakInv, Typed
    <3>3. timer.timer \in Timers /\ timer.phase \in Phases
      BY <3>1, <3>2, TimerOfBase DEF InUse
    <3> HIDE DEF timer
    <3> QED
      BY <1>1, <3>1, <3>3, NewCommandType DEF Kinds
  <2> QED
    BY <2>1, <2>2
<1>6. /\ timeline' = Insert(timeline, c) /\ log' = log \cup {NewId}
      /\ UNCHANGED <<profile, now, selection, mine, made, queue, sent, base, advances,
                     triggers, refused, chosenAt>>
  BY <1>5 DEF Peer, Obligations, Ghosts
<1>7. Users' = Users /\ BreaksMade' = BreaksMade /\ Others' = Others + 1
  BY <1>1, <1>5, <1>6, CountStep
<1>8. Counted'
  <2>1. Slack \in Nat /\ Slack' = Slack
    BY <1>1, <1>6, Profile DEF Slack
  <2>2. Users' + 2 * Others' <= MaxCommands[profile] + Slack'
    BY <1>2, <1>4, <1>7, <2>1
  <2> QED
    BY <1>1, <1>6, <1>7, <2>2 DEF Counted
<1>9. Wanted'
  BY <1>1, <1>6 DEF Wanted
<1>10. Typed'
  <2>1. timeline' \in Seq(Command)
    BY <1>5, <1>6, TimelineType DEF BreakInv, Typed
  <2>2. BaseFrom(base, log')
    BY <1>6, BaseGrows DEF BreakInv, Typed
  <2> QED
    BY <1>6, <2>1, <2>2 DEF BreakInv, Typed
<1>11. Ordered'
  <2>1. Len(timeline') = Len(timeline) + 1 /\ NewId = Len(timeline) + 1
    BY <1>1, <1>5, <1>6, Grows DEF Lines, NewId
  <2>2. NewId \notin mine
    BY <1>1, Places DEF Lines
  <2>3. log' \cap mine' = log \cap mine
    BY <1>6, <2>2
  <2>4. log' \subseteq 1 .. Len(timeline')
    <3>1. \A i \in 1 .. Len(timeline) : i \in 1 .. Len(timeline) + 1
      BY <1>2
    <3>2. NewId \in 1 .. Len(timeline')
      BY <1>2, <2>1
    <3> QED
      BY <1>6, <2>1, <3>1, <3>2 DEF BreakInv, Ordered
  <2>5. refused' \subseteq mine' /\ log' \cap refused' = {}
    BY <1>6, <2>2 DEF BreakInv, Ordered
  <2> QED
    BY <1>6, <2>3, <2>4, <2>5 DEF BreakInv, Ordered
<1> QED
  BY <1>8, <1>9, <1>10, <1>11 DEF BreakInv

LEMMA SendBreakInv ==
  ASSUME BreakInv, Inv', Send
  PROVE  BreakInv'
<1>1. /\ UNCHANGED <<profile, now, selection, timeline, mine, made, queue, base, advances,
                     triggers, log, refused, chosenAt>>
      /\ sent = None /\ sent'.ids = Sendable(queue, waits)
  BY DEF Send, Obligations, Server
<1>2. Counted'
  <2>1. UNCHANGED <<Users, BreaksMade, Others>>
    BY <1>1, CountStep DEF BreakInv, Inv
  <2> QED
    BY <1>1, <2>1 DEF BreakInv, Counted, Slack
<1>3. Typed' /\ Wanted'
  BY <1>1 DEF BreakInv, Typed, Wanted
<1>4. queue \subseteq Nat
  <2>1. queue \subseteq 1 .. Len(timeline)
    BY Places DEF BreakInv, Inv, Lines
  <2> QED
    BY <2>1
<1>5. \A i \in sent'.ids, j \in queue \ sent'.ids : i < j
  <2> SUFFICES ASSUME NEW i \in sent'.ids, NEW j \in queue, ~ (i < j)
               PROVE  j \in sent'.ids
    OBVIOUS
  <2>1. i \in Nat /\ j \in Nat
    BY <1>1, <1>4 DEF Sendable
  <2>2. j <= i
    BY <2>1
  <2>3. i \in queue /\ \A k \in queue : k <= i => \A d \in waits : d[1] # k
    BY <1>1 DEF Sendable
  <2>4. \A k \in queue : k <= j => k <= i
    BY <1>4, <2>1, <2>2
  <2> QED
    BY <1>1, <2>3, <2>4 DEF Sendable
<1>6. sent'.ids \subseteq queue
  BY <1>1 DEF Sendable
<1>7. Ordered'
  BY <1>1, <1>5, <1>6 DEF BreakInv, Ordered
<1> QED
  BY <1>2, <1>3, <1>7 DEF BreakInv

LEMMA ServeBreakInv ==
  ASSUME BreakInv, Inv', Serve
  PROVE  BreakInv'
<1>1. /\ UNCHANGED <<profile, now, selection, timeline, mine, made, queue, sent, base,
                     advances, triggers, chosenAt>>
      /\ sent # None
  BY DEF Serve, Obligations, Ghosts
<1>2. PICK bad \in SUBSET (sent.ids \ (log \cup refused)) :
        refused' = refused \cup bad /\ log' = log \cup (sent.ids \ refused')
  BY DEF Serve
<1>3. Counted'
  <2>1. UNCHANGED <<Users, BreaksMade, Others>>
    BY <1>1, CountStep DEF BreakInv, Inv
  <2> QED
    BY <1>1, <2>1 DEF BreakInv, Counted, Slack
<1>4. Typed' /\ Wanted'
  <2>1. BaseFrom(base, log')
    BY <1>2, BaseGrows DEF BreakInv, Typed
  <2> QED
    BY <1>1, <2>1 DEF BreakInv, Typed, Wanted
<1>5. sent.ids \subseteq queue /\ queue \subseteq mine /\ mine \subseteq 1 .. Len(timeline)
  BY <1>1, Places DEF BreakInv, Inv, Lines, Ordered
<1>6. log' \subseteq 1 .. Len(timeline') /\ refused' \subseteq mine' /\ log' \cap refused' = {}
  BY <1>1, <1>2, <1>5 DEF BreakInv, Ordered
<1>7. \A i \in log' \cap mine', j \in queue' : i < j \/ (sent' # None /\ j \in sent'.ids)
  BY <1>1, <1>2 DEF BreakInv, Ordered
<1>8. (log' \cap mine') \ queue' \subseteq (log \cap mine) \ queue
  BY <1>1, <1>2, <1>5
<1>9. Ordered'
  BY <1>1, <1>6, <1>7, <1>8 DEF BreakInv, Ordered
<1> QED
  BY <1>3, <1>4, <1>9 DEF BreakInv

LEMMA OpportunityBreakInv ==
  ASSUME BreakInv, Inv', Opportunity
  PROVE  BreakInv'
<1>1. /\ triggers' = Deferred(base, queue, other, NoNews).left
      /\ StartBreak(Deferred(base, queue, other, NoNews).start, queue, selection)
      /\ UNCHANGED <<profile, now, sent, base, advances, log, refused, chosenAt>>
  BY DEF Opportunity, Server
<1>2. Shaped(selection) /\ selection.phase \in Phases
  BY DEF BreakInv, Inv, Climbs, Typed
<1>3. /\ timeline' \in Seq(Command) /\ selection'.phase \in Phases
      /\ Counted' /\ Wanted'
      /\ queue' \subseteq queue \cup {NewId} /\ mine' \in {mine, mine \cup {NewId}}
      /\ mine' = mine => queue' = queue
      /\ Len(timeline) <= Len(timeline') /\ Len(timeline') \in Nat
  BY <1>1, <1>2, TriggersStep
<1>4. queue' \in {queue, queue \cup {NewId}}
  BY <1>1 DEF StartBreak, NewCommand
<1>5. Ordered'
  BY <1>1, <1>3, <1>4, OrderedKept DEF BreakInv
<1>6. Typed'
  BY <1>1, <1>3 DEF BreakInv, Typed
<1> QED
  BY <1>3, <1>5, <1>6 DEF BreakInv

LEMMA AnswerFrom ==
  ASSUME timeline \in Seq(Command), NEW at \in Nat
  PROVE  BaseFrom(Answer(at).shown, log)
<1>1. Reduced(Nothing, timeline, log) \in From(log)
  BY NothingFrom, ReducedFrom
<1>2. Projected(Reduced(Nothing, timeline, log), at) \in From(log)
  BY <1>1, FromDeadline DEF Projected
<1> QED
  BY <1>2, ShownFrom DEF Answer

LEMMA InstallBreakInv ==
  ASSUME BreakInv, Inv', NEW at \in 0 .. now, Install(at)
  PROVE  BreakInv'
<1> DEFINE answer    == Answer(at)
           discarded == Discarded(answer)
           left      == queue \ (sent.ids \cup discarded)
           o         == other /\ ~ sent.other
           in        == Installation(answer, left, o, discarded)
           out       == Installed(profile, in)
           news      == [acks |-> answer.acks, discarded |-> discarded]
           later     == Deferred(answer.shown, left, o, news)
<1>1. /\ sent # None /\ sent' = None /\ base' = answer.shown
      /\ advances' = out.advances /\ triggers' = later.left
      /\ StartBreak(later.start, left, out.selection)
      /\ UNCHANGED <<profile, now, log, refused, chosenAt>>
  BY DEF Install, Server
<1>2. /\ Inv /\ Lines /\ Climbs /\ timeline \in Seq(Command) /\ now \in Nat
      /\ Shaped(selection) /\ selection.phase \in Phases
      /\ profile \in Clients /\ Len(timeline) \in Nat
  BY Profile, Places DEF BreakInv, Inv, Climbs, Typed, Lines
<1>3. BaseFrom(answer.shown, log)
  BY <1>2, AnswerFrom
<1>4. \A i \in mine : Cmd(i).phase \in Phases
  <2> SUFFICES ASSUME NEW i \in mine
               PROVE  Cmd(i).phase \in Phases
    OBVIOUS
  <2>1. PICK j \in 1 .. Len(timeline) : timeline[j].id = i
    BY <1>2 DEF Lines, Known
  <2>2. Cmd(i) = timeline[j]
    BY <1>2, <2>1, MadeIs DEF Lines, Made, Cmd
  <2>3. timeline[j] \in Command
    BY <1>2, <2>1
  <2> QED
    BY <2>2, <2>3 DEF Command
<1>5. sent.ids \subseteq queue /\ queue \subseteq mine
  BY <1>1, <1>2 DEF BreakInv, Ordered, Lines
<1>6. /\ in.selection = selection /\ in.advances = advances
      /\ in.last = Len(timeline) /\ in.timer = answer.shown.timer
      /\ in.next = View(answer.shown, timeline, left).timer
      /\ in.sent = {Cmd(i) : i \in sent.ids} /\ in.queued = {Cmd(i) : i \in queue}
  BY DEF Installation
<1>7. left \subseteq queue /\ left \cap sent.ids = {}
  OBVIOUS
<1> HIDE DEF answer, discarded, left, o, in, out, news, later
<1>8. Phased(in)
  <2>1. BaseFrom(View(answer.shown, timeline, left), log \cup left)
    BY <1>2, <1>3, ViewFrom
  <2>2. \A c \in in.sent \cup in.queued : c.phase \in Phases
    BY <1>4, <1>5, <1>6
  <2>3. \A a \in in.advances : a.previous \in Phases
    BY <1>6 DEF BreakInv, Typed
  <2> QED
    BY <1>2, <1>3, <1>6, <2>1, <2>2, <2>3, TimerOfBase DEF Phased
<1>9. out.selection.phase \in Phases /\ Shaped(out.selection)
      /\ \A a \in out.advances : a.previous \in Phases
  <2>1. /\ Moved(profile, in.selection, out.selection)
        /\ out.advances = IF profile \in {"android", "pwa"} THEN {}
                          ELSE Unresolved(profile, in)
    BY <1>2, <1>6, InstalledMoves DEF out
  <2>2. out.advances \subseteq advances
    BY <1>6, <2>1 DEF Unresolved
  <2>3. out.selection.phase \in Phases
    BY <1>2, <1>6, <1>8, InstalledPhase DEF out
  <2> QED
    BY <2>1, <2>2, <2>3 DEF BreakInv, Typed, Moved
<1>10. /\ timeline' \in Seq(Command) /\ selection'.phase \in Phases
       /\ Counted' /\ Wanted'
       /\ queue' \subseteq left \cup {NewId} /\ mine' \in {mine, mine \cup {NewId}}
       /\ mine' = mine => queue' = left
       /\ Len(timeline) <= Len(timeline') /\ Len(timeline') \in Nat
  BY <1>1, <1>7, <1>9, TriggersStep DEF later
<1>11. Typed'
  BY <1>1, <1>2, <1>3, <1>9, <1>10 DEF Typed
<1>12. Ordered'
  <2>1. /\ mine \subseteq 1 .. Len(timeline) /\ NewId \notin mine /\ NewId \notin log
        /\ \A i \in 1 .. Len(timeline) : i < NewId /\ i \in 1 .. Len(timeline')
    <3>1. \A i \in 1 .. Len(timeline) : i < NewId /\ i \in 1 .. Len(timeline') /\ i # NewId
      BY <1>2, <1>10 DEF NewId
    <3> QED
      BY <1>2, <3>1, Places DEF BreakInv, Ordered, Lines
  <2>2. log \cap mine' = log \cap mine
    BY <1>10, <2>1
  <2>3. \A i \in log \cap mine, j \in left : i < j
    BY <1>7 DEF BreakInv, Ordered
  <2>4. \A i \in log \cap mine, j \in queue' : i < j
    BY <1>10, <2>1, <2>3 DEF BreakInv, Ordered
  <2>5. log \subseteq 1 .. Len(timeline') /\ refused \subseteq mine' /\ log \cap refused = {}
    BY <1>10, <2>1 DEF BreakInv, Ordered
  <2> QED
    BY <1>1, <2>2, <2>4, <2>5 DEF Ordered
<1> QED
  BY <1>10, <1>11, <1>12 DEF BreakInv

LEMMA BreakInductive == BreakInv /\ [Next]_vars => BreakInv'
<1> SUFFICES ASSUME BreakInv, [Next]_vars
             PROVE  BreakInv'
  OBVIOUS
<1>1. Inv'
  BY Inductive DEF BreakInv
<1>2. CASE Tick \/ EditPreference \/ SignInOrOut \/ UNCHANGED vars
  <2>1. /\ UNCHANGED <<profile, selection, timeline, mine, made, queue, base, triggers,
                       sent, log, refused, advances, chosenAt>>
        /\ now' \in {now, now + 1}
    BY <1>2 DEF Tick, EditPreference, SignInOrOut, vars, Obligations, Server, Ghosts
  <2>2. now \in Nat /\ selection.phase \in Phases /\ chosenAt <= chosenAt
    BY Profile DEF BreakInv, Typed, Inv
  <2> QED
    BY <1>1, <2>1, <2>2, StillInv
<1>3. CASE StartTimer
  BY <1>1, <1>3, StartBreakInv
<1>4. CASE Control
  BY <1>1, <1>4, ControlBreakInv
<1>5. CASE \E breakWanted \in BOOLEAN : FinishTimer(breakWanted)
  BY <1>1, <1>5, FinishBreakInv
<1>6. CASE SelectPhase
  BY <1>1, <1>6, ChooseBreakInv DEF SelectPhase
<1>7. CASE Skip
  BY <1>1, <1>7, ChooseBreakInv, PhaseAfterType DEF Skip
<1>8. CASE PeerStarts \/ PeerFinishes
  BY <1>1, <1>8, PeerBreakInv
<1>9. CASE Send
  BY <1>1, <1>9, SendBreakInv
<1>10. CASE Serve
  BY <1>1, <1>10, ServeBreakInv
<1>11. CASE \E at \in 0 .. now : Install(at)
  BY <1>1, <1>11, InstallBreakInv
<1>12. CASE Opportunity
  BY <1>1, <1>12, OpportunityBreakInv
<1> QED
  BY <1>2, <1>3, <1>4, <1>5, <1>6, <1>7, <1>8, <1>9, <1>10, <1>11, <1>12 DEF Next

-----------------------------------------------------------------------------
(* A break that is started follows its focus.                              *)

LEMMA FocusShows ==
  ASSUME BreakInv, NEW b, BaseFrom(b, log), NEW q,
         \A i \in (log \cap mine) \ q, j \in q : i < j,
         NEW d, NEW o, NEW k \in 1 .. Len(triggers), Starts(d, k, b, q, o)
  PROVE  LET z == View(b, timeline, q).timer
             t == triggers[k]
         IN  /\ z # None /\ z.timer = t.timer /\ z.status = "completed"
             /\ t.finish \in log \cup q
             /\ signedIn => t.finish \in log
<1> DEFINE t == triggers[k]
           accepted == t.finish \notin q /\ ExactSource(b, t)
           seen == IF signedIn \/ accepted THEN b ELSE View(b, timeline, q)
<1>1. /\ ~ LaterCommand(t, timeline, q) /\ ~ (signedIn /\ t.finish \in q)
      /\ ExactSource(seen, t)
  BY DEF Starts
<1>2. t.finish \in mine /\ t.finish \in Nat /\ t.finish # None
  <2>1. triggers \in Seq([finish : Nat, timer : Timers])
    BY DEF BreakInv, Wanted
  <2>2. t \in [finish : Nat, timer : Timers]
    <3>1. \A S : triggers \in Seq(S) => triggers[k] \in S
      OBVIOUS
    <3> QED
      BY <2>1, <3>1
  <2>3. t.finish \in mine
    BY DEF BreakInv, Wanted
  <2> QED
    BY <2>2, <2>3, ReducerAssumption
<1>3. timeline \in Seq(Command) /\ now \in Nat
  BY DEF BreakInv, Typed
<1> HIDE DEF t
<1>4. CASE ~ (signedIn \/ accepted)
  <2> DEFINE z == View(b, timeline, q)
  <2>1. ExactSource(z, t)
    BY <1>1, <1>4
  <2>2. BaseFrom(z, log \cup q)
    BY <1>3, ViewFrom
  <2> HIDE DEF z
  <2>3. t.finish \in log \cup q
    BY <1>2, <2>1, <2>2 DEF ExactSource, CompletedRows, BaseFrom
  <2>4. z.timer # None /\ z.timer.timer = t.timer /\ z.timer.status = "completed"
    BY <2>1 DEF ExactSource
  <2> QED
    BY <1>4, <2>3, <2>4 DEF t, z
<1>5. CASE signedIn \/ accepted
  <2>1. ExactSource(b, t) /\ t.finish \notin q
    BY <1>1, <1>5
  <2>2. t.finish \in log
    BY <1>2, <2>1 DEF ExactSource, CompletedRows, BaseFrom
  <2>3. \A j \in q : t.finish < j
    BY <1>2, <2>1, <2>2
  <2>4. \A n \in 1 .. Len(timeline) : timeline[n].id \in q =>
          timeline[n].kind = "finish" /\ timeline[n].timer = t.timer
    <3> SUFFICES ASSUME NEW n \in 1 .. Len(timeline), timeline[n].id \in q
                 PROVE  timeline[n].kind = "finish" /\ timeline[n].timer = t.timer
      OBVIOUS
    <3>1. n \in DOMAIN timeline
      BY <1>3
    <3>2. timeline[n] \in Command
      BY <1>3
    <3>3. timeline[n].id \in Nat
      BY <3>2 DEF Command
    <3>4. timeline[n].id > t.finish
      BY <1>2, <2>3, <3>3
    <3> QED
      BY <1>1, <3>1, <3>4 DEF LaterCommand
  <2>5. /\ PairOK(b.timer, b.rows) /\ b.timer # None /\ b.timer.timer = t.timer
        /\ b.timer.status = "completed" /\ t.timer \in Timers
    BY <2>1, TimerOfBase DEF ExactSource, BaseFrom
  <2>6. Reduced(b, timeline, q) \in Over(t.timer)
    BY <1>3, <2>4, <2>5, ReducedOver
  <2> DEFINE r == Reduced(b, timeline, q)
             z == Shown(Projected(r, now)).timer
  <2>7. z = View(b, timeline, q).timer
    BY DEF View
  <2>8. r \in Over(t.timer)
    BY <2>6
  <2> HIDE DEF r
  <2>9. z # None /\ z.timer = t.timer /\ z.status = "completed"
    BY <2>5, <2>8, OverShown
  <2> QED
    BY <2>2, <2>7, <2>9 DEF t
<1> QED
  BY <1>4, <1>5

\* What BreakFollowsItsFocus says of a step.
Followed ==
  LET z == View(base', timeline, queue' \cap queue)
      t == triggers[Len(triggers) - Len(triggers')]
  IN  /\ z.timer # None /\ z.timer.timer = t.timer
      /\ z.timer.status = "completed"
      /\ t.finish \notin refused \/ t.finish \in queue'
      /\ signedIn => t.finish \in log

LEMMA BreakStep ==
  ASSUME BreakInv, NEW b, BaseFrom(b, log), NEW left, left \subseteq queue,
         \A i \in (log \cap mine) \ left, j \in left : i < j,
         NEW sel, NEW o, NEW news,
         StartBreak(Deferred(b, left, o, news).start, left, sel),
         triggers' = Deferred(b, left, o, news).left, base' = b, Generated # {}
  PROVE  Followed
<1> DEFINE d == Deferred(b, left, o, news)
<1>1. Wanted /\ Len(triggers) \in Nat /\ NewId \notin queue /\ log \cap refused = {}
  BY Places DEF BreakInv, Wanted, Inv, Lines, Ordered
<1>2. triggers' = d.left /\ StartBreak(d.start, left, sel)
  OBVIOUS
<1>3. d.start # None => \E k \in 1 .. Len(triggers) : Starts(d, k, b, left, o)
  BY <1>1, DeferredCases
<1> HIDE DEF d
<1>4. d.start # None
  BY <1>2 DEF StartBreak, Generated
<1>5. PICK k \in 1 .. Len(triggers) : Starts(d, k, b, left, o)
  BY <1>3, <1>4
<1>6. Len(triggers') = Len(triggers) - k
  BY <1>2, <1>5 DEF Starts
<1>7. Len(triggers) - Len(triggers') = k
  BY <1>1, <1>6
<1>8. queue' = left \cup {NewId}
  BY <1>2, <1>4 DEF StartBreak, NewCommand
<1>9. queue' \cap queue = left
  BY <1>1, <1>8
<1> DEFINE z == View(b, timeline, left).timer
           t == triggers[k]
<1>10. /\ z # None /\ z.timer = t.timer /\ z.status = "completed"
       /\ t.finish \in log \cup left /\ (signedIn => t.finish \in log)
  BY <1>5, FocusShows
<1>11. t.finish \notin refused \/ t.finish \in queue'
  BY <1>1, <1>8, <1>10
<1> QED
  BY <1>7, <1>9, <1>10, <1>11 DEF Followed

LEMMA FollowsStep ==
  ASSUME BreakInv, Next, Generated # {}
  PROVE  Followed
<1>1. Len(triggers') < Len(triggers) /\ triggers' # triggers
  <2>1. Len(triggers') < Len(triggers) /\ Len(triggers) \in Nat
    BY DEF Generated, BreakInv, Wanted
  <2> QED
    BY <2>1
<1>2. ~ (\/ Tick \/ StartTimer \/ Control \/ SelectPhase \/ Skip \/ PeerStarts
         \/ PeerFinishes \/ EditPreference \/ SignInOrOut \/ Send \/ Serve)
  BY <1>1 DEF Tick, StartTimer, Control, SelectPhase, Skip, Choose, PeerStarts,
     PeerFinishes, Peer, EditPreference, SignInOrOut, Send, Serve, Obligations
<1>3. ASSUME NEW breakWanted, FinishTimer(breakWanted)
      PROVE  FALSE
  <2>1. PICK e : triggers' \in {triggers, Append(triggers, e)}
    BY <1>3 DEF FinishTimer
  <2>2. triggers \in Seq([finish : Nat, timer : Timers])
    BY DEF BreakInv, Wanted
  <2>3. Len(Append(triggers, e)) = Len(triggers) + 1 /\ Len(triggers) \in Nat
    BY <2>2
  <2> QED
    BY <1>1, <2>1, <2>3
<1>4. CASE Opportunity
  <2>1. /\ triggers' = Deferred(base, queue, other, NoNews).left
        /\ StartBreak(Deferred(base, queue, other, NoNews).start, queue, selection)
        /\ base' = base
    BY <1>4 DEF Opportunity
  <2>2. BaseFrom(base, log) /\ \A i \in (log \cap mine) \ queue, j \in queue : i < j
    BY DEF BreakInv, Typed, Ordered
  <2> QED
    BY <2>1, <2>2, BreakStep
<1>5. ASSUME NEW at \in 0 .. now, Install(at)
      PROVE  Followed
  <2> DEFINE answer    == Answer(at)
             discarded == Discarded(answer)
             left      == queue \ (sent.ids \cup discarded)
             o         == other /\ ~ sent.other
             out       == Installed(profile, Installation(answer, left, o, discarded))
             news      == [acks |-> answer.acks, discarded |-> discarded]
             later     == Deferred(answer.shown, left, o, news)
  <2>1. /\ triggers' = later.left /\ StartBreak(later.start, left, out.selection)
        /\ base' = answer.shown /\ sent # None
    BY <1>5 DEF Install
  <2>2. BaseFrom(answer.shown, log)
    BY AnswerFrom DEF BreakInv, Typed
  <2>3. \A i \in log \cap mine, j \in left : i < j
    BY DEF BreakInv, Ordered
  <2>4. left \subseteq queue
    OBVIOUS
  <2> HIDE DEF answer, discarded, left, o, out, news
  <2> QED
    BY <2>1, <2>2, <2>3, <2>4, BreakStep
<1> QED
  BY <1>2, <1>3, <1>4, <1>5 DEF Next

\* A break starts on its own only after the focus it follows: while the client
\* shows that focus as its completed timer, whatever is still retained, for a
\* finish that the server has taken or not yet decided, and signed in only for
\* one that it has taken.
THEOREM BreakFollowsItsFocusHolds == Spec => BreakFollowsItsFocus
<1>1. BreakInv /\ [Next]_vars => [Generated # {} => Followed]_vars
  BY FollowsStep
<1> QED
  BY <1>1, InitBreak, BreakInductive, PTL DEF Spec, BreakFollowsItsFocus, Followed
=============================================================================
