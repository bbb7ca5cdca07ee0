--------------------------- MODULE OutgoingProofs ---------------------------
(***************************************************************************)
(* Theorems about what leaves a device.  The batch planner and its claims, *)
(* for every pair of limits and queues of any length.  Every outbox,       *)
(* whatever the number of operations, clocks, messages in flight, peers    *)
(* and operations sent past the claims: its safety properties, and that it *)
(* keeps the promise of ImmutableDelivery.                                 *)
(***************************************************************************)
EXTENDS BatchPlan, Outbox, TLAPS

-----------------------------------------------------------------------------
(* The batch planner.                                                      *)

\* How many domains a round visits from c before it reaches d.
Dist(c, d) == IF d >= c THEN d - c ELSE d + 5 - c

LEMMA DomainCases ==
  ASSUME NEW d \in Domains
  PROVE  d = 0 \/ d = 1 \/ d = 2 \/ d = 3 \/ d = 4
  BY DEF Domains

LEMMA NextDomainValue ==
  ASSUME NEW d \in Domains
  PROVE  NextDomain(d) = IF d = 4 THEN 0 ELSE d + 1
<1>1. 1 % 5 = 1 /\ 2 % 5 = 2 /\ 3 % 5 = 3 /\ 4 % 5 = 4 /\ 5 % 5 = 0
  OBVIOUS
<1> QED
  BY <1>1, DomainCases DEF NextDomain

LEMMA DistStep ==
  ASSUME NEW c \in Domains, NEW d \in Domains
  PROVE  /\ NextDomain(c) \in Domains
         /\ Dist(c, d) \in 0 .. 4
         /\ c # d => Dist(NextDomain(c), d) = Dist(c, d) - 1
         /\ Dist(c, d) = 0 => c = d
  BY NextDomainValue DEF Domains, Dist

LEMMA SumType ==
  ASSUME NEW f \in [Domains -> Nat]
  PROVE  SumOf(f) \in Nat
  BY DEF SumOf, Domains

LEMMA SumStep ==
  ASSUME NEW f \in [Domains -> Nat], NEW d \in Domains
  PROVE  SumOf([f EXCEPT ![d] = @ + 1]) = SumOf(f) + 1
<1> DEFINE g == [f EXCEPT ![d] = @ + 1]
<1>1. \A e \in Domains : f[e] \in Nat /\ g[e] = IF e = d THEN f[e] + 1 ELSE f[e]
  OBVIOUS
<1>2. {0, 1, 2, 3, 4} \subseteq Domains
  BY DEF Domains
<1> HIDE DEF g
<1>3. SumOf(g) = SumOf(f) + 1
  BY <1>1, <1>2, DomainCases DEF SumOf
<1> QED
  BY <1>3 DEF g

-----------------------------------------------------------------------------
(* The inductive invariant: what holds of a plan while its loop runs.      *)

WithinLimits ==
  plan # None =>
    /\ \A d \in Domains : plan.taken[d] <= PerDomain /\ plan.taken[d] <= queued[d]
    /\ plan.total = SumOf(plan.taken) /\ plan.total <= Total

\* The last misses domains before the next one have nothing to give.
MissesBehind ==
  plan # None =>
    \A d \in Domains :
      5 - Dist(plan.next, d) <= plan.misses => ~ Eligible(d, plan.taken[d])

DoneMeansEnded ==
  plan # None /\ plan.done /\ plan.status = "planned" => ~ Looping(plan)

\* An eligible domain that got nothing has not been reached yet.
NotReached ==
  plan # None =>
    \A d \in Domains :
      plan.taken[d] = 0 /\ Eligible(d, 0) /\ ~ (plan.done /\ plan.total = 0) =>
        /\ Dist(plan.next, d) <= Dist(plan.cursor, d)
        /\ Dist(plan.cursor, d) <= Dist(cursor, d)
        /\ plan.total > 0 => Dist(plan.cursor, d) < Dist(cursor, d)

WaitBounded == \A d \in Domains : waited[d] + Dist(cursor, d) <= 4

PlanInv ==
  /\ PlanTypeOK /\ HeldStaysHome /\ WithinLimits /\ ClaimReplayable
  /\ MissesBehind /\ DoneMeansEnded /\ NotReached /\ WaitBounded

LEMMA InitIInv == PlanInit => PlanInv
<1> SUFFICES ASSUME PlanInit PROVE PlanInv
  OBVIOUS
<1>1. PlanTypeOK /\ HeldStaysHome /\ WithinLimits /\ ClaimReplayable
  BY DEF PlanInit, PlanTypeOK, HeldStaysHome, WithinLimits, ClaimReplayable, Nothing,
         Domains, Commands
<1>2. MissesBehind /\ DoneMeansEnded /\ NotReached
  BY DEF PlanInit, MissesBehind, DoneMeansEnded, NotReached
<1>3. WaitBounded
  BY DistStep DEF PlanInit, WaitBounded, Nothing, Domains, Commands
<1> QED
  BY <1>1, <1>2, <1>3 DEF PlanInv

LEMMA EnqueueStep ==
  ASSUME PlanInv, NEW d \in Domains, Enqueue(d)
  PROVE  PlanInv'
<1>1. /\ plan = None /\ plan' = None /\ edges' = edges /\ cursor' = cursor
      /\ outgoing' = outgoing /\ waited' = waited
      /\ queued \in [Domains -> Nat]
      /\ queued' = [queued EXCEPT ![d] = @ + 1]
  BY DEF Enqueue, PlanInv, PlanTypeOK
<1>2. queued' \in [Domains -> Nat] /\ \A e \in Domains : queued[e] <= queued'[e]
  BY <1>1
<1>3. PlanTypeOK'
  BY <1>1, <1>2 DEF PlanInv, PlanTypeOK, Domains, Commands
<1>4. ClaimReplayable'
  BY <1>1, <1>2, <1>3 DEF PlanInv, ClaimReplayable, PlanTypeOK
<1>5. HeldStaysHome' /\ WithinLimits' /\ MissesBehind' /\ DoneMeansEnded' /\ NotReached'
  BY <1>1 DEF PlanInv, HeldStaysHome, WithinLimits, MissesBehind, DoneMeansEnded, NotReached
<1>6. WaitBounded'
  BY <1>1 DEF PlanInv, WaitBounded
<1> QED
  BY <1>3, <1>4, <1>5, <1>6 DEF PlanInv

LEMMA EnqueueDependentStep ==
  ASSUME PlanInv, NEW parent \in 1 .. Room[Commands], EnqueueDependent(parent)
  PROVE  PlanInv'
<1> DEFINE new == <<parent, queued[Commands] + 1>>
<1>1. /\ plan = None /\ plan' = None /\ cursor' = cursor
      /\ outgoing' = outgoing /\ waited' = waited
      /\ queued \in [Domains -> Nat] /\ Commands \in Domains
      /\ queued' = [queued EXCEPT ![Commands] = @ + 1]
      /\ parent \in 1 .. queued[Commands]
      /\ edges' = edges \cup {new}
  BY DEF EnqueueDependent, PlanInv, PlanTypeOK, Domains, Commands
<1>2. /\ queued' \in [Domains -> Nat] /\ \A e \in Domains : queued[e] <= queued'[e]
      /\ queued'[Commands] = queued[Commands] + 1
  BY <1>1
<1>3. PlanTypeOK'
  <2>1. new \in Nat \X Nat /\ 1 <= new[1] /\ new[1] < new[2]
        /\ new[2] <= queued'[Commands]
    BY <1>1, <1>2
  <2> HIDE DEF new
  <2>2. \A e \in edges' : /\ e \in Nat \X Nat
                         /\ 1 <= e[1] /\ e[1] < e[2] /\ e[2] <= queued'[Commands]
    BY <1>1, <1>2, <2>1 DEF PlanInv, PlanTypeOK
  <2> QED
    BY <1>1, <1>2, <2>2 DEF PlanInv, PlanTypeOK
<1>4. ClaimReplayable'
  BY <1>1, <1>2, <1>3 DEF PlanInv, ClaimReplayable, PlanTypeOK
<1>5. HeldStaysHome'
  <2>1. outgoing # None => outgoing[Commands] < new[2]
    BY <1>1 DEF PlanInv, ClaimReplayable, PlanTypeOK
  <2> QED
    BY <1>1, <2>1 DEF PlanInv, HeldStaysHome
<1>6. WithinLimits' /\ MissesBehind' /\ DoneMeansEnded' /\ NotReached'
  BY <1>1 DEF PlanInv, WithinLimits, MissesBehind, DoneMeansEnded, NotReached
<1>7. WaitBounded'
  BY <1>1 DEF PlanInv, WaitBounded
<1> QED
  BY <1>3, <1>4, <1>5, <1>6, <1>7 DEF PlanInv

LEMMA BeginStep ==
  ASSUME PlanInv, NEW mode \in Modes, Begin(mode)
  PROVE  PlanInv'
<1>1. /\ plan = None /\ outgoing = None /\ UNCHANGED <<queued, edges, cursor, outgoing, waited>>
      /\ plan' = [mode |-> mode, next |-> cursor, taken |-> Nothing, total |-> 0,
                  misses |-> 0, cursor |-> cursor, done |-> PlanRefused(mode),
                  status |-> IF ~ PlanRefused(mode) THEN "planned"
                             ELSE IF ~ Fits(queued) THEN "oversized"
                             ELSE "blocked_dependency"]
  BY DEF Begin
<1>2. /\ Nothing \in [Domains -> Nat] /\ cursor \in Domains
      /\ PlanRefused(mode) \in BOOLEAN
      /\ queued \in [Domains -> Nat]
  BY DEF PlanInv, PlanTypeOK, Nothing, PlanRefused
<1>3. plan' \in Plan
  BY <1>1, <1>2 DEF Plan
<1>4. PlanTypeOK'
  BY <1>1, <1>3 DEF PlanInv, PlanTypeOK
<1>5. HeldStaysHome'
  BY <1>1, <1>2 DEF PlanInv, HeldStaysHome, PlanTypeOK, Nothing, Domains, Commands
<1>6. WithinLimits'
  <2>1. SumOf(Nothing) = 0 /\ \A d \in Domains : Nothing[d] = 0
    BY DEF SumOf, Nothing, Domains
  <2> QED
    BY <1>1, <1>2, <2>1, LimitsAssumption DEF WithinLimits
<1>7. ClaimReplayable'
  BY <1>1 DEF ClaimReplayable
<1>8. MissesBehind'
  BY <1>1, <1>2, DistStep DEF MissesBehind
<1>9. DoneMeansEnded'
  BY <1>1 DEF DoneMeansEnded
<1>10. NotReached'
  <2>1. \A d \in Domains : Dist(cursor, d) \in Int /\ Dist(cursor, d) <= Dist(cursor, d)
    BY <1>2, DistStep
  <2>2. plan'.next = cursor /\ plan'.cursor = cursor /\ plan'.total = 0 /\ cursor' = cursor
    BY <1>1
  <2> QED
    BY <2>1, <2>2 DEF NotReached
<1>11. WaitBounded'
  BY <1>1 DEF PlanInv, WaitBounded
<1> QED
  BY <1>4, <1>5, <1>6, <1>7, <1>8, <1>9, <1>10, <1>11 DEF PlanInv

LEMMA VisitStep ==
  ASSUME PlanInv, Visit
  PROVE  PlanInv'
<1> DEFINE d0 == plan.next
           hit == Eligible(d0, plan.taken[d0])
<1>1. /\ plan \in Plan /\ plan # None /\ ~ plan.done /\ Looping(plan)
      /\ UNCHANGED <<queued, edges, cursor, outgoing, waited>>
      /\ plan' = IF hit THEN Take(plan) ELSE Miss(plan)
  BY DEF Visit, PlanInv, PlanTypeOK
<1>2. /\ d0 \in Domains /\ plan.taken \in [Domains -> Nat]
      /\ plan.total \in Nat /\ plan.misses \in 0 .. 5 /\ plan.cursor \in Domains
      /\ NextDomain(d0) \in Domains
      /\ queued \in [Domains -> Nat] /\ cursor \in Domains
  BY <1>1, DistStep DEF Plan, PlanInv, PlanTypeOK
<1>3. /\ plan.total < Total /\ plan.misses < 5
  BY <1>1 DEF Looping
<1>4. CASE hit
  <2> DEFINE t == [plan.taken EXCEPT ![d0] = @ + 1]
  <2>1. plan' = [plan EXCEPT !.taken = t, !.total = plan.total + 1, !.misses = 0,
                             !.next = NextDomain(d0), !.cursor = NextDomain(d0)]
    BY <1>1, <1>2, <1>4 DEF Take, Plan
  <2>2. /\ t \in [Domains -> Nat] /\ t[d0] = plan.taken[d0] + 1
        /\ \A d \in Domains \ {d0} : t[d] = plan.taken[d]
        /\ SumOf(t) = SumOf(plan.taken) + 1
    BY <1>2, SumStep
  <2> HIDE DEF t
  <2>3. /\ plan'.taken = t /\ plan'.total = plan.total + 1 /\ plan'.misses = 0
        /\ plan'.next = NextDomain(d0) /\ plan'.cursor = NextDomain(d0)
        /\ plan'.done = plan.done /\ plan'.status = plan.status
        /\ plan' \in Plan
    <3> DEFINE nd == NextDomain(d0)
               tt == plan.total + 1
    <3>1. nd \in Domains /\ tt \in Nat /\ 0 \in 0 .. 5
      BY <1>2
    <3>2. plan' = [plan EXCEPT !.taken = t, !.total = tt, !.misses = 0,
                               !.next = nd, !.cursor = nd]
      BY <2>1
    <3> HIDE DEF nd, tt
    <3>3. plan' \in Plan
      BY <1>1, <2>2, <3>1, <3>2 DEF Plan
    <3>4. /\ plan'.taken = t /\ plan'.total = tt /\ plan'.misses = 0
          /\ plan'.next = nd /\ plan'.cursor = nd
          /\ plan'.done = plan.done /\ plan'.status = plan.status
      BY <1>1, <3>2 DEF Plan
    <3> QED
      BY <3>3, <3>4 DEF nd, tt
  <2>4. PlanTypeOK'
    BY <1>1, <2>3 DEF PlanInv, PlanTypeOK
  <2>5. WithinLimits'
    <3>1. \A d \in Domains : t[d] <= PerDomain /\ t[d] <= queued[d]
      BY <1>1, <1>2, <1>4, <2>2, LimitsAssumption DEF PlanInv, WithinLimits, Eligible
    <3> QED
      BY <1>1, <1>2, <1>3, <2>2, <2>3, <3>1, LimitsAssumption DEF PlanInv, WithinLimits
  <2>6. HeldStaysHome'
    <3> SUFFICES ASSUME NEW e \in edges PROVE t[Commands] < e[2]
      BY <1>1, <2>3 DEF PlanInv, HeldStaysHome
    <3>1. plan.taken[Commands] < e[2] /\ e[2] \in Nat /\ Commands \in Domains
      BY <1>1 DEF PlanInv, HeldStaysHome, PlanTypeOK, Domains, Commands
    <3>2. CASE d0 # Commands
      BY <2>2, <3>1, <3>2
    <3>3. CASE d0 = Commands
      <4>1. ~ IsBarrier(plan.taken[Commands] + 1)
        BY <1>4, <3>3 DEF Eligible
      <4>2. \A x \in edges : plan.taken[Commands] < x[2] /\ x[2] \in Nat
        BY <1>1 DEF PlanInv, HeldStaysHome, PlanTypeOK
      <4>3. plan.taken[Commands] + 1 # e[2]
        <5> SUFFICES ASSUME plan.taken[Commands] + 1 = e[2] PROVE FALSE
          OBVIOUS
        <5>1. e[2] \in Held /\ \A q \in Held : e[2] <= q
          BY <1>2, <3>1, <4>2 DEF Held
        <5> QED
          BY <4>1, <5>1 DEF IsBarrier
      <4> QED
        BY <1>2, <2>2, <3>1, <3>3, <4>3
    <3> QED
      BY <3>2, <3>3
  <2>7. ClaimReplayable'
    BY <1>1 DEF PlanInv, ClaimReplayable
  <2>8. MissesBehind'
    BY <1>2, <2>3, DistStep DEF MissesBehind
  <2>9. DoneMeansEnded'
    BY <1>1, <2>3 DEF DoneMeansEnded
  <2>10. NotReached'
    <3> SUFFICES ASSUME NEW d \in Domains, t[d] = 0, Eligible(d, 0)'
                 PROVE  /\ Dist(NextDomain(d0), d) <= Dist(NextDomain(d0), d)
                        /\ Dist(NextDomain(d0), d) < Dist(cursor, d)
      <4>1. \A d \in Domains : Dist(NextDomain(d0), d) \in Int /\ Dist(cursor, d) \in Int
        BY <1>2, DistStep
      <4> QED
        BY <1>1, <2>3, <4>1 DEF NotReached
    <3>1. d # d0 /\ plan.taken[d] = 0 /\ Eligible(d, 0)
      BY <1>1, <1>2, <2>2 DEF Eligible, IsBarrier, Held
    <3>2. /\ Dist(d0, d) <= Dist(plan.cursor, d)
          /\ Dist(plan.cursor, d) <= Dist(cursor, d)
      BY <1>1, <3>1 DEF PlanInv, NotReached
    <3>3. Dist(NextDomain(d0), d) = Dist(d0, d) - 1
      BY <1>2, <3>1, DistStep
    <3> QED
      BY <1>2, <3>2, <3>3, DistStep
  <2>11. WaitBounded'
    BY <1>1 DEF PlanInv, WaitBounded
  <2> QED
    BY <2>4, <2>5, <2>6, <2>7, <2>8, <2>9, <2>10, <2>11 DEF PlanInv
<1>5. CASE ~ hit
  <2>1. /\ plan' = [plan EXCEPT !.misses = plan.misses + 1, !.next = NextDomain(d0)]
    BY <1>1, <1>5 DEF Miss, Plan
  <2>2. /\ plan'.taken = plan.taken /\ plan'.total = plan.total
        /\ plan'.misses = plan.misses + 1
        /\ plan'.next = NextDomain(d0) /\ plan'.cursor = plan.cursor
        /\ plan'.done = plan.done /\ plan'.status = plan.status
        /\ plan' \in Plan
    <3> DEFINE nd == NextDomain(d0)
               mm == plan.misses + 1
    <3>1. nd \in Domains /\ mm \in 0 .. 5
      BY <1>2, <1>3
    <3>2. plan' = [plan EXCEPT !.misses = mm, !.next = nd]
      BY <2>1
    <3> HIDE DEF nd, mm
    <3>3. plan' \in Plan
      BY <1>1, <3>1, <3>2 DEF Plan
    <3>4. /\ plan'.taken = plan.taken /\ plan'.total = plan.total
          /\ plan'.misses = mm
          /\ plan'.next = nd /\ plan'.cursor = plan.cursor
          /\ plan'.done = plan.done /\ plan'.status = plan.status
      BY <1>1, <3>2 DEF Plan
    <3> QED
      BY <3>3, <3>4 DEF nd, mm
  <2>3. PlanTypeOK'
    BY <1>1, <2>2 DEF PlanInv, PlanTypeOK
  <2>4. WithinLimits' /\ HeldStaysHome' /\ ClaimReplayable'
    BY <1>1, <2>2 DEF PlanInv, WithinLimits, HeldStaysHome, ClaimReplayable, Fits, SavedStatus
  <2>5. MissesBehind'
    <3> SUFFICES ASSUME NEW d \in Domains,
                        5 - Dist(NextDomain(d0), d) <= plan.misses + 1
                 PROVE  ~ Eligible(d, plan.taken[d])
      BY <1>1, <2>2 DEF MissesBehind, Eligible, IsBarrier, Held
    <3>1. CASE d = d0
      BY <1>5, <3>1
    <3>2. CASE d # d0
      <4>1. 5 - Dist(d0, d) <= plan.misses
        BY <1>2, <3>2, DistStep
      <4> QED
        BY <1>1, <4>1 DEF PlanInv, MissesBehind
    <3> QED
      BY <3>1, <3>2
  <2>6. DoneMeansEnded'
    BY <1>1, <2>2 DEF DoneMeansEnded
  <2>7. NotReached'
    <3> SUFFICES ASSUME NEW d \in Domains, plan.taken[d] = 0, Eligible(d, 0)
                 PROVE  /\ Dist(NextDomain(d0), d) <= Dist(plan.cursor, d)
                        /\ Dist(plan.cursor, d) <= Dist(cursor, d)
                        /\ plan.total > 0 => Dist(plan.cursor, d) < Dist(cursor, d)
      BY <1>1, <2>2 DEF NotReached, Eligible, IsBarrier, Held
    <3>1. d # d0
      BY <1>5
    <3>2. /\ Dist(d0, d) <= Dist(plan.cursor, d)
          /\ Dist(plan.cursor, d) <= Dist(cursor, d)
          /\ plan.total > 0 => Dist(plan.cursor, d) < Dist(cursor, d)
      BY <1>1 DEF PlanInv, NotReached
    <3>3. Dist(NextDomain(d0), d) = Dist(d0, d) - 1 /\ Dist(d0, d) \in Int
          /\ Dist(plan.cursor, d) \in Int
      BY <1>2, <3>1, DistStep
    <3> QED
      BY <3>2, <3>3
  <2>8. WaitBounded'
    BY <1>1 DEF PlanInv, WaitBounded
  <2> QED
    BY <2>3, <2>4, <2>5, <2>6, <2>7, <2>8 DEF PlanInv
<1> QED
  BY <1>4, <1>5

LEMMA FinishStep ==
  ASSUME PlanInv, Finish
  PROVE  PlanInv'
<1> DEFINE status == IF plan.total = 0 /\ Held # {} THEN "blocked_dependency"
                     ELSE plan.status
<1>1. /\ plan \in Plan /\ plan # None /\ ~ plan.done /\ ~ Looping(plan)
      /\ UNCHANGED <<queued, edges, cursor, outgoing, waited>>
      /\ plan' = [plan EXCEPT !.done = TRUE, !.status = status]
  BY DEF Finish, PlanInv, PlanTypeOK, Plan
<1>2. status \in {"planned", "oversized", "blocked_dependency"}
  BY <1>1 DEF Plan
<1> HIDE DEF status
<1>3. /\ plan' \in Plan /\ plan'.done
      /\ plan'.taken = plan.taken /\ plan'.total = plan.total
      /\ plan'.misses = plan.misses
      /\ plan'.next = plan.next /\ plan'.cursor = plan.cursor
  BY <1>1, <1>2 DEF Plan
<1>4. PlanTypeOK'
  BY <1>1, <1>3 DEF PlanInv, PlanTypeOK
<1>5. WithinLimits' /\ HeldStaysHome' /\ ClaimReplayable'
  BY <1>1, <1>3 DEF PlanInv, WithinLimits, HeldStaysHome, ClaimReplayable
<1>6. MissesBehind' /\ NotReached'
  BY <1>1, <1>3 DEF PlanInv, MissesBehind, NotReached, Eligible, IsBarrier, Held
<1>7. DoneMeansEnded' /\ WaitBounded'
  BY <1>1, <1>3 DEF PlanInv, DoneMeansEnded, WaitBounded, Looping
<1> QED
  BY <1>4, <1>5, <1>6, <1>7 DEF PlanInv

LEMMA PersistStep ==
  ASSUME PlanInv, Persist
  PROVE  PlanInv'
<1>1. /\ plan \in Plan /\ plan # None /\ plan.done /\ plan.total > 0
      /\ outgoing' = plan.taken /\ cursor' = plan.cursor /\ plan' = None
      /\ waited' = [d \in Domains |-> Waited(d)]
      /\ UNCHANGED <<queued, edges>>
  BY DEF Persist, PlanInv, PlanTypeOK
<1>2. plan.taken \in [Domains -> Nat] /\ plan.cursor \in Domains
  BY <1>1 DEF Plan
<1>3. \A d \in Domains : waited[d] \in Nat /\ Waited(d) \in Nat
  BY DEF Waited, PlanInv, PlanTypeOK
<1>4. PlanTypeOK'
  BY <1>1, <1>2, <1>3 DEF PlanInv, PlanTypeOK
<1>5. HeldStaysHome'
  BY <1>1 DEF PlanInv, HeldStaysHome
<1>6. ClaimReplayable'
  BY <1>1 DEF PlanInv, WithinLimits, ClaimReplayable, SavedStatus, Fits
<1>7. WithinLimits' /\ MissesBehind' /\ DoneMeansEnded' /\ NotReached'
  BY <1>1 DEF WithinLimits, MissesBehind, DoneMeansEnded, NotReached
<1>8. WaitBounded'
  <2> SUFFICES ASSUME NEW d \in Domains
               PROVE  Waited(d) + Dist(plan.cursor, d) <= 4
    BY <1>1 DEF WaitBounded
  <2>1. Dist(plan.cursor, d) \in 0 .. 4 /\ Dist(cursor, d) \in 0 .. 4
    BY <1>2, DistStep DEF PlanInv, PlanTypeOK
  <2>2. CASE plan.taken[d] = 0 /\ Eligible(d, 0)
    <3>1. Waited(d) = waited[d] + 1
      BY <2>2 DEF Waited
    <3>2. Dist(plan.cursor, d) < Dist(cursor, d)
      BY <1>1, <2>2 DEF PlanInv, NotReached
    <3>3. waited[d] + Dist(cursor, d) <= 4
      BY DEF PlanInv, WaitBounded
    <3> QED
      BY <1>3, <2>1, <3>1, <3>2, <3>3
  <2>3. CASE ~ (plan.taken[d] = 0 /\ Eligible(d, 0))
    BY <2>1, <2>3 DEF Waited
  <2> QED
    BY <2>2, <2>3
<1> QED
  BY <1>4, <1>5, <1>6, <1>7, <1>8 DEF PlanInv

LEMMA AbandonStep ==
  ASSUME PlanInv, Abandon
  PROVE  PlanInv'
  BY DEF Abandon, PlanInv, PlanTypeOK, HeldStaysHome, WithinLimits, ClaimReplayable,
         MissesBehind, DoneMeansEnded, NotReached, WaitBounded

LEMMA AcknowledgeStep ==
  ASSUME PlanInv, Acknowledge
  PROVE  PlanInv'
<1> DEFINE n == outgoing[Commands]
<1>1. /\ outgoing # None /\ outgoing \in [Domains -> Nat] /\ plan = None /\ plan' = None
      /\ outgoing' = None /\ cursor' = cursor /\ waited' = waited
      /\ queued' = [d \in Domains |-> queued[d] - outgoing[d]]
      /\ edges' = {<<e[1] - n, e[2] - n>> : e \in {x \in edges : x[1] > n}}
      /\ queued \in [Domains -> Nat] /\ Commands \in Domains
  BY DEF Acknowledge, PlanInv, PlanTypeOK, Domains, Commands
<1>2. \A d \in Domains : outgoing[d] <= queued[d]
  BY <1>1 DEF PlanInv, ClaimReplayable
<1>3. queued' \in [Domains -> Nat] /\ queued'[Commands] = queued[Commands] - n
      /\ n \in Nat
  BY <1>1, <1>2
<1>4. PlanTypeOK'
  <2>1. \A e \in edges' : /\ e \in Nat \X Nat
                         /\ 1 <= e[1] /\ e[1] < e[2] /\ e[2] <= queued'[Commands]
    <3> SUFFICES ASSUME NEW x \in edges, x[1] > n
                 PROVE  LET e == <<x[1] - n, x[2] - n>> IN
                        /\ e \in Nat \X Nat
                        /\ 1 <= e[1] /\ e[1] < e[2] /\ e[2] <= queued'[Commands]
      BY <1>1
    <3>1. /\ x[1] \in Nat /\ x[2] \in Nat
          /\ 1 <= x[1] /\ x[1] < x[2] /\ x[2] <= queued[Commands]
      BY DEF PlanInv, PlanTypeOK
    <3> QED
      BY <1>1, <1>3, <3>1
  <2> QED
    BY <1>1, <1>3, <2>1 DEF PlanInv, PlanTypeOK
<1>5. HeldStaysHome' /\ ClaimReplayable' /\ WithinLimits' /\ MissesBehind'
      /\ DoneMeansEnded' /\ NotReached'
  BY <1>1 DEF HeldStaysHome, ClaimReplayable, WithinLimits, MissesBehind,
              DoneMeansEnded, NotReached
<1>6. WaitBounded'
  BY <1>1 DEF PlanInv, WaitBounded
<1> QED
  BY <1>4, <1>5, <1>6 DEF PlanInv

LEMMA Inductive == PlanSpec => []PlanInv
<1>1. PlanInv /\ [PlanNext]_planVars => PlanInv'
  <2> SUFFICES ASSUME PlanInv, [PlanNext]_planVars PROVE PlanInv'
    OBVIOUS
  <2>1. CASE PlanNext
    BY <2>1, EnqueueStep, EnqueueDependentStep, BeginStep, VisitStep,
       FinishStep, PersistStep, AbandonStep, AcknowledgeStep DEF PlanNext
  <2>2. CASE UNCHANGED planVars
    BY <2>2 DEF planVars, PlanInv, PlanTypeOK, HeldStaysHome, WithinLimits, ClaimReplayable,
       MissesBehind, DoneMeansEnded, NotReached, WaitBounded, Eligible,
       IsBarrier, Held, Looping
  <2> QED
    BY <2>1, <2>2
<1> QED
  BY <1>1, InitIInv, PTL DEF PlanSpec

\* Queues, dependencies, cursor, plan and claim keep their types.
THEOREM PlanTypeCorrect == PlanSpec => []PlanTypeOK
<1>1. PlanInv => PlanTypeOK
  BY DEF PlanInv
<1> QED
  BY <1>1, Inductive, PTL

\* No plan and no claim ever contains a command whose parent is not yet
\* acknowledged, nor one behind it (the command prefix of select).
THEOREM HeldStaysHomeHolds == PlanSpec => []HeldStaysHome
<1>1. PlanInv => HeldStaysHome
  BY DEF PlanInv
<1> QED
  BY <1>1, Inductive, PTL

\* What plan_new selects, plan_saved replays.
THEOREM ClaimReplayableHolds == PlanSpec => []ClaimReplayable
<1>1. PlanInv => ClaimReplayable
  BY DEF PlanInv
<1> QED
  BY <1>1, Inductive, PTL

\* The selection loop stops for no other reason than the budget or the lack
\* of eligible operations.
THEOREM PlanMaximalHolds == PlanSpec => []PlanMaximal
<1>1. PlanInv => PlanMaximal
  <2> SUFFICES ASSUME PlanInv, plan # None, plan.done, plan.status = "planned",
                      plan.total < Total, NEW d \in Domains
               PROVE  ~ Eligible(d, plan.taken[d])
    BY DEF PlanMaximal
  <2>1. plan \in Plan /\ plan.misses \in 0 .. 5 /\ plan.next \in Domains
    BY DEF PlanInv, PlanTypeOK, Plan
  <2>2. plan.misses = 5
    BY <2>1 DEF PlanInv, DoneMeansEnded, Looping
  <2>3. Dist(plan.next, d) \in 0 .. 4
    BY <2>1, DistStep
  <2> QED
    BY <2>2, <2>3 DEF PlanInv, MissesBehind
<1> QED
  BY <1>1, Inductive, PTL

\* Nobody who is eligible waits for more than four batches of others, for
\* every pair of limits (the persisted cursor is what makes this true).
THEOREM FiveBatchesHolds == PlanSpec => []FiveBatches
<1>1. PlanInv => FiveBatches
  <2> SUFFICES ASSUME PlanInv, NEW d \in Domains PROVE waited[d] <= 4
    BY DEF FiveBatches
  <2>1. waited[d] \in Nat /\ Dist(cursor, d) \in 0 .. 4
    BY DistStep DEF PlanInv, PlanTypeOK
  <2> QED
    BY <2>1 DEF PlanInv, WaitBounded
<1> QED
  BY <1>1, Inductive, PTL

-----------------------------------------------------------------------------
(* The outbox: the inductive invariant.                                    *)

\* Messages, and what the server has, are about operations that exist.
Shapes ==
  /\ \A r \in wire : /\ DOMAIN r.says \subseteq Created
                     /\ r.says \in [DOMAIN r.says -> Bodies]
                     /\ r.claimed \in BOOLEAN
  /\ answers \subseteq [acks : SUBSET Ids, mine : SUBSET Ids, peers : SUBSET Clocks]
  /\ log \in [mine : SUBSET Ids, peers : SUBSET Clocks, said : [Ids -> Bodies]]
  /\ log.mine \subseteq Created

\* Nothing is acknowledged or shown that the log lacks, and what is on its way
\* is retained until the log has it.
Logged ==
  /\ \A a \in answers : a.acks \subseteq a.mine /\ a.mine \subseteq log.mine
  /\ base.mine \subseteq log.mine
  /\ \A r \in wire : DOMAIN r.says \subseteq pending \cup log.mine

\* A proof is one: what has it is nowhere else.
Proven ==
  /\ proof \cap (claim \cup log.mine) = {}
  /\ \A r \in wire : DOMAIN r.says \cap proof = {}

\* What has lost its proof is claimed, or was sent past the claims.
Accounted == Frozen \subseteq claim \cup stray

\* All copies agree, also the retained one with the one in the log.
Agreed ==
  /\ ImmutableRetry
  /\ \A i \in pending \cap log.mine : log.said[i] = body[i]

Opened(i) == ops[i].parent # 0 => ops[i].parent \in accepted

\* What is not held was opened, and only that is claimed.
Released ==
  /\ claim \cap deps = {}
  /\ \A i \in pending \ deps : Opened(i)
  /\ \A i \in log.mine \ stray : Opened(i)
  /\ \A r \in wire : \A i \in DOMAIN r.says \ stray : Opened(i)

\* The head covers the snapshot.
Headed ==
  /\ \A i \in base.mine : ops[i].clock <= head
  /\ \A c \in base.peers : c <= head

Settled == (Created \ pending) \cap log.mine

\* A message of an earlier claim acknowledges nothing that is retained, so no
\* later claim takes its answer for its own; the answer to the present claim
\* knows everything that settled before it.
Fresh ==
  /\ \A r \in wire : r.claimed => DOMAIN r.says \cap pending \subseteq claim
  /\ \A a \in answers : a.acks \cap pending \subseteq claim
  /\ \A a \in answers : Matches(a) => Settled \subseteq a.mine
  /\ Settled \subseteq base.mine

IInv ==
  /\ TypeOK /\ NoDanglingDependency /\ Shapes /\ Logged /\ Proven /\ Accounted
  /\ Agreed /\ Released /\ Headed /\ Fresh

-----------------------------------------------------------------------------
(* The dependency graph, and what a response makes of it.                  *)

LEMMA CreatedType ==
  ASSUME TypeOK
  PROVE  /\ Created \subseteq Ids
         /\ \A i \in Created : ops[i] \in Op
  BY OutboxAssumption DEF TypeOK, Created, Ids

LEMMA BelowInside ==
  ASSUME NEW roots, NEW walls
  PROVE  Below(roots, walls) \subseteq deps
  BY DEF Below

\* A child outside the walls belongs to what is below its parent.
LEMMA BelowClosed ==
  ASSUME NEW roots, NEW walls, NEW c \in deps \ walls,
         ops[c].parent \in roots \cup Below(roots, walls)
  PROVE  c \in Below(roots, walls)
<1> SUFFICES ASSUME NEW S \in SUBSET deps,
                    \A x \in deps \ walls : ops[x].parent \in roots \cup S => x \in S
             PROVE  c \in S
  BY DEF Below
<1>1. ops[c].parent \in roots \cup S
  BY DEF Below
<1> QED
  BY <1>1

LEMMA OpenedAcknowledged ==
  ASSUME NEW acks, NEW outcome, NEW say
  PROVE  Barriers(acks, outcome, say) \subseteq acks
  BY DEF Barriers, AcceptedSources, Sources

\* A held child that is retained and no longer held was opened.
LEMMA PromotedWasOpened ==
  ASSUME NoDanglingDependency, NEW acks, NEW outcome, NEW say,
         NEW c \in deps, c \in Kept(acks, outcome, say),
         c \notin StillHeld(acks, outcome, say)
  PROVE  ops[c].parent \in Barriers(acks, outcome, say)
<1> DEFINE open == Barriers(acks, outcome, say)
           gone == Below(acks \ open, open)
<1>1. c \notin acks /\ c \notin gone /\ c \notin open
  BY OpenedAcknowledged DEF Kept, Dropped
<1>2. CASE c \in Promoted(acks, outcome, say)
  BY <1>2 DEF Promoted
<1>3. CASE ops[c].parent \notin Kept(acks, outcome, say)
  <2>1. ops[c].parent \in acks \cup gone
    BY <1>3 DEF NoDanglingDependency, Kept, Dropped
  <2>2. ops[c].parent \notin (acks \ open) \cup gone
    BY <1>1, BelowClosed
  <2> QED
    BY <2>1, <2>2
<1> QED
  BY <1>2, <1>3 DEF StillHeld

\* What a response writes into a retained payload is a payload.
LEMMA NormalBodyType ==
  ASSUME TypeOK, NEW acks, NEW outcome, NEW say, NEW i \in Ids
  PROVE  NormalBody(acks, outcome, say, i) \in Bodies
<1> DEFINE fs == {f \in AcceptedSources(acks, outcome, say) : i \in BatchOf(f)}
           f == CHOOSE x \in fs : TRUE
           g == CHOOSE x \in BreakOf(f) : TRUE
<1>1. CASE fs = {}
  BY <1>1 DEF NormalBody, TypeOK
<1>2. CASE fs # {}
  <2>1. f \in Sources(acks)
    BY <1>2 DEF AcceptedSources
  <2>2. g \in BreakOf(f)
    BY <2>1 DEF Sources
  <2>3. g \in Ids
    BY <2>2, CreatedType DEF BreakOf, TypeOK
  <2>4. body[g] \in Bodies
    BY <2>3 DEF TypeOK
  <2> HIDE DEF g
  <2>5. NormalBody(acks, outcome, say, i) \in
          {body[g], IF say[f].long THEN "long" ELSE "short"}
    BY <1>2 DEF NormalBody, g
  <2> QED
    BY <2>4, <2>5 DEF Bodies
<1> QED
  BY <1>1, <1>2

\* What installing a response changes, and what it leaves alone.
LEMMA InstallEffect ==
  ASSUME TypeOK, NoDanglingDependency,
         NEW snap, NEW acks, NEW outcome, NEW say, NEW h,
         Install(snap, acks, outcome, say, h)
  PROVE  /\ pending' \subseteq pending \ acks
         /\ pending \ pending' \subseteq acks \cup (deps \cap proof)
         /\ deps' \subseteq deps \cap pending'
         /\ \A c \in deps' : ops[c].parent \in pending'
         /\ \A c \in (deps \cap pending') \ deps' : ops[c].parent \in accepted'
         /\ proof' = proof \cap pending'
         /\ body' \in [Ids -> Bodies]
         /\ \A i \in Ids \ (proof \cap pending') : body'[i] = body[i]
         /\ accepted \subseteq accepted' /\ accepted' \subseteq accepted \cup acks
         /\ ops' = ops /\ log' = log /\ stray' = stray
         /\ base' = snap /\ head' = h
         /\ \A i \in snap.mine : ops[i].clock <= h
         /\ \A c \in snap.peers : c <= h
<1> DEFINE kept == Kept(acks, outcome, say)
           gone == Dropped(acks, outcome, say)
<1>1. /\ pending' = kept /\ deps' = StillHeld(acks, outcome, say)
      /\ proof' = proof \cap kept
      /\ accepted' = accepted \cup Barriers(acks, outcome, say)
      /\ body' = [i \in Ids |-> IF i \in kept THEN NormalBody(acks, outcome, say, i)
                                              ELSE body[i]]
      /\ ops' = ops /\ log' = log /\ stray' = stray /\ base' = snap /\ head' = h
      /\ ~ Refused(acks, outcome, say) /\ IsHead(h, snap)
  BY DEF Install
<1>2. gone \subseteq deps /\ gone \cap Frozen = {}
  BY <1>1, BelowInside DEF Dropped, Refused, DropsFrozen
<1>3. pending' \subseteq pending \ acks
  BY <1>1 DEF Kept
<1>4. pending \ pending' \subseteq acks \cup (deps \cap proof)
  BY <1>1, <1>2 DEF Kept, Frozen
<1>5. /\ deps' \subseteq deps \cap pending'
      /\ \A c \in deps' : ops[c].parent \in pending'
  BY <1>1 DEF StillHeld
<1>6. \A c \in (deps \cap pending') \ deps' : ops[c].parent \in accepted'
  BY <1>1, PromotedWasOpened
<1>7. body' \in [Ids -> Bodies]
  BY <1>1, NormalBodyType DEF TypeOK
<1>8. ASSUME NEW i \in Ids \ (proof \cap pending')
      PROVE  body'[i] = body[i]
  <2>1. CASE i \notin kept
    BY <1>1, <2>1
  <2>2. CASE i \in kept
    <3>1. i \in Frozen \ (acks \cup gone)
      BY <1>1, <2>2 DEF Kept, Frozen
    <3>2. NormalBody(acks, outcome, say, i) = body[i]
      BY <1>1, <3>1 DEF Refused, RewritesFrozen
    <3> QED
      BY <1>1, <2>2, <3>2
  <2> QED
    BY <2>1, <2>2
<1>9. accepted \subseteq accepted' /\ accepted' \subseteq accepted \cup acks
  BY <1>1, OpenedAcknowledged
<1>10. /\ \A i \in snap.mine : ops[i].clock <= h
       /\ \A c \in snap.peers : c <= h
  BY <1>1 DEF IsHead
<1> QED
  BY <1>1, <1>3, <1>4, <1>5, <1>6, <1>7, <1>8, <1>9, <1>10

-----------------------------------------------------------------------------
(* Every step keeps the invariant.                                         *)

LEMMA InitInvariant == Init => IInv
<1> SUFFICES ASSUME Init
             PROVE  IInv
  OBVIOUS
<1>1. Len(ops) = 0 /\ Created = {}
  BY DEF Init, Created
<1>2. 0 \in Clocks /\ "short" \in Bodies
  BY OutboxAssumption DEF Clocks, Bodies
<1>3. TypeOK
  BY <1>1, <1>2, OutboxAssumption DEF Init, TypeOK, Snapshot, Bodies
<1>4. Shapes
  BY <1>1, <1>2 DEF Init, Shapes
<1> QED
  BY <1>1, <1>3, <1>4 DEF Init, IInv, NoDanglingDependency, Logged, Proven, Accounted,
     Frozen, Agreed, ImmutableRetry, Released, Headed, Fresh, Settled

LEMMA CreateKeeps ==
  ASSUME IInv, NEW op \in Op, NEW b \in Bodies, Create(op, b)
  PROVE  IInv'
<1> DEFINE i == Len(ops) + 1
<1>1. /\ i \in Ids /\ (op.parent = 0 \/ op.parent \in pending)
      /\ ops' = Append(ops, op) /\ body' = [body EXCEPT ![i] = b]
      /\ pending' = pending \cup {i} /\ proof' = proof \cup {i}
      /\ deps' = IF op.parent = 0 THEN deps ELSE deps \cup {i}
      /\ UNCHANGED <<claim, head, base, wire, answers, log, accepted, stray>>
  BY DEF Create
<1>2. ops \in Seq(Op) /\ Len(ops) \in Nat
  BY DEF IInv, TypeOK
<1>3. /\ ops' \in Seq(Op) /\ Len(ops') = i /\ Created' = Created \cup {i}
      /\ i \notin Created
      /\ \A j \in Created : ops'[j] = ops[j]
      /\ ops'[i] = op
  BY <1>1, <1>2 DEF Created
<1> HIDE DEF i
<1>4. i \notin pending \cup claim \cup deps \cup log.mine \cup base.mine
  BY <1>3 DEF IInv, TypeOK, Shapes, Logged
<1>5. body' \in [Ids -> Bodies] /\ \A j \in Ids \ {i} : body'[j] = body[j]
  BY <1>1 DEF IInv, TypeOK
<1>6. TypeOK'
  BY <1>1, <1>3, <1>5 DEF IInv, TypeOK, Ids, i
<1>7. NoDanglingDependency'
  <2>1. \A j \in pending : j < i
    BY <1>2 DEF IInv, TypeOK, Created, i
  <2> QED
    BY <1>1, <1>3, <1>4, <2>1 DEF IInv, TypeOK, NoDanglingDependency
<1>8. Shapes'
  BY <1>1, <1>3 DEF IInv, Shapes
<1>9. Logged' /\ Accounted'
  BY <1>1 DEF IInv, Logged, Accounted, Frozen
<1>10. Proven'
  BY <1>1, <1>3, <1>4 DEF IInv, Proven, Shapes
<1>11. Agreed'
  BY <1>1, <1>3, <1>4, <1>5, CreatedType DEF IInv, Agreed, ImmutableRetry, Shapes, TypeOK
<1>12. Released'
  BY <1>1, <1>3, <1>4 DEF IInv, Released, Opened, TypeOK, Shapes
<1>13. Headed'
  BY <1>1, <1>3 DEF IInv, Headed, Logged, Shapes
<1>14. Fresh'
  <2>1. Settled' = Settled
    BY <1>1, <1>3, <1>4 DEF Settled
  <2>2. \A r \in wire : i \notin DOMAIN r.says
    BY <1>3 DEF IInv, Shapes
  <2>3. \A a \in answers : i \notin a.acks
    BY <1>4 DEF IInv, Logged
  <2> QED
    BY <1>1, <2>1, <2>2, <2>3 DEF IInv, Fresh, Matches
<1> QED
  BY <1>6, <1>7, <1>8, <1>9, <1>10, <1>11, <1>12, <1>13, <1>14 DEF IInv

LEMMA ClaimKeeps ==
  ASSUME IInv, NEW n \in Ids, Claim(n)
  PROVE  IInv'
<1>1. /\ claim = {} /\ n \in claim'
      /\ claim' \subseteq pending \ deps
      /\ proof' = proof \ claim'
      /\ UNCHANGED <<ops, body, pending, deps, head, base, wire, answers, log,
                     accepted, stray>>
  <2>1. \A i \in claim' : \A c \in deps : i < c
    BY DEF Claim
  <2>2. \A c \in deps : ~ (c < c)
    BY CreatedType DEF IInv, TypeOK, Ids
  <2> QED
    BY <2>1, <2>2 DEF Claim, Retired
<1>2. Created' = Created
  BY <1>1 DEF Created
<1>3. TypeOK' /\ NoDanglingDependency' /\ Shapes' /\ Logged' /\ Headed'
  BY <1>1, <1>2 DEF IInv, TypeOK, NoDanglingDependency, Shapes, Logged, Headed
<1>4. Proven' /\ Accounted' /\ Agreed' /\ Released'
  BY <1>1 DEF IInv, Proven, Accounted, Frozen, Agreed, ImmutableRetry, Released, Opened
<1>5. Fresh'
  BY <1>1, <1>2 DEF IInv, Fresh, Settled, Matches
<1> QED
  BY <1>3, <1>4, <1>5 DEF IInv

LEMMA SendKeeps ==
  ASSUME IInv, Send
  PROVE  IInv'
<1> DEFINE r == [says |-> [i \in claim |-> body[i]], claimed |-> TRUE]
<1>1. /\ wire' = wire \cup {r}
      /\ UNCHANGED <<ops, body, pending, deps, proof, claim, head, base, answers,
                     log, accepted, stray>>
  BY DEF Send
<1>2. Created' = Created
  BY <1>1 DEF Created
<1>3. /\ DOMAIN r.says = claim /\ r.claimed
      /\ \A i \in claim : r.says[i] = body[i]
      /\ r.says \in [claim -> Bodies]
  BY CreatedType DEF IInv, TypeOK
<1> HIDE DEF r
<1>4. TypeOK' /\ NoDanglingDependency' /\ Accounted' /\ Headed'
  BY <1>1, <1>2, <1>3 DEF IInv, TypeOK, NoDanglingDependency, Accounted, Frozen, Headed
<1>5. Shapes' /\ Logged' /\ Proven'
  BY <1>1, <1>2, <1>3 DEF IInv, TypeOK, Shapes, Logged, Proven
<1>6. Agreed'
  BY <1>1, <1>3 DEF IInv, Agreed, ImmutableRetry, TypeOK
<1>7. Released'
  BY <1>1, <1>3 DEF IInv, Released, Opened, TypeOK
<1>8. Fresh'
  BY <1>1, <1>2, <1>3 DEF IInv, Fresh, Settled, Matches
<1> QED
  BY <1>4, <1>5, <1>6, <1>7, <1>8 DEF IInv

LEMMA ServeKeeps ==
  ASSUME IInv, NEW r \in wire, Serve(r)
  PROVE  IInv'
<1> DEFINE sent == DOMAIN r.says
           a == [acks |-> sent, mine |-> log.mine \cup sent, peers |-> log.peers]
<1>1. /\ log' = [log EXCEPT !.mine = @ \cup sent,
                            !.said = [i \in Ids |-> IF i \in sent \ log.mine
                                                    THEN r.says[i] ELSE @[i]]]
      /\ answers' = IF r.claimed THEN answers \cup {a} ELSE answers
      /\ UNCHANGED <<ops, body, pending, deps, proof, claim, head, base, wire,
                     accepted, stray>>
  BY DEF Serve
<1>2. Created' = Created
  BY <1>1 DEF Created
<1>3. /\ sent \subseteq Created /\ sent \subseteq pending \cup log.mine
      /\ sent \cap proof = {} /\ \A i \in sent : r.says[i] \in Bodies
      /\ sent \subseteq Ids
  BY CreatedType DEF IInv, Shapes, Logged, Proven
<1>4. /\ log'.mine = log.mine \cup sent /\ log'.peers = log.peers
      /\ log' \in [mine : SUBSET Ids, peers : SUBSET Clocks, said : [Ids -> Bodies]]
      /\ \A i \in Ids : log'.said[i] = IF i \in sent \ log.mine THEN r.says[i]
                                                               ELSE log.said[i]
  BY <1>1, <1>3 DEF IInv, Shapes
<1>5. /\ answers \subseteq answers' /\ answers' \subseteq answers \cup {a}
      /\ a \in answers' \ answers => r.claimed
      /\ a.acks = sent /\ a.mine = log'.mine /\ a.peers = log.peers
  BY <1>1, <1>4
<1>6. a \in [acks : SUBSET Ids, mine : SUBSET Ids, peers : SUBSET Clocks]
  BY <1>3 DEF IInv, Shapes
<1> HIDE DEF a
<1>7. TypeOK' /\ NoDanglingDependency' /\ Accounted' /\ Headed'
  BY <1>1, <1>2 DEF IInv, TypeOK, NoDanglingDependency, Accounted, Frozen, Headed
<1>8. Shapes'
  BY <1>1, <1>2, <1>3, <1>4, <1>5, <1>6 DEF IInv, Shapes
<1>9. Logged'
  BY <1>1, <1>4, <1>5 DEF IInv, Logged
<1>10. Proven'
  BY <1>1, <1>3, <1>4 DEF IInv, Proven
<1>11. Agreed'
  <2>1. ASSUME NEW q \in wire, NEW i \in DOMAIN q.says, i \in log'.mine
        PROVE  log'.said[i] = q.says[i]
    <3>1. i \in Ids
      BY CreatedType DEF IInv, Shapes
    <3>2. CASE i \in log.mine
      BY <1>4, <3>1, <3>2 DEF IInv, Agreed, ImmutableRetry
    <3>3. CASE i \notin log.mine
      <4>1. i \in sent /\ i \in pending
        BY <1>3, <1>4, <2>1, <3>3
      <4>2. r.says[i] = body[i] /\ q.says[i] = body[i]
        BY <4>1 DEF IInv, Agreed, ImmutableRetry
      <4> QED
        BY <1>4, <3>1, <3>3, <4>1, <4>2
    <3> QED
      BY <3>2, <3>3
  <2>2. ASSUME NEW i \in pending \cap log'.mine
        PROVE  log'.said[i] = body[i]
    <3>1. i \in Ids
      BY CreatedType DEF IInv, TypeOK
    <3> QED
      BY <1>4, <2>2, <3>1 DEF IInv, Agreed, ImmutableRetry
  <2> QED
    BY <1>1, <2>1, <2>2 DEF IInv, Agreed, ImmutableRetry
<1>12. Released'
  BY <1>1, <1>4 DEF IInv, Released, Opened
<1>13. Fresh'
  <2>1. Settled' \subseteq log'.mine
    BY DEF Settled
  <2>2. ASSUME NEW q \in answers, Matches(q)
        PROVE  Settled' \subseteq q.mine
    <3>1. q.acks = claim /\ claim # {} /\ q.acks \subseteq q.mine
      BY <2>2 DEF Matches, IInv, Logged
    <3>2. Settled \subseteq q.mine
      BY <2>2 DEF IInv, Fresh
    <3>3. Settled' \subseteq Settled
      BY <1>1, <1>2, <1>3, <1>4 DEF Settled
    <3> QED
      BY <3>2, <3>3
  <2>3. Settled' \subseteq Settled
    BY <1>1, <1>2, <1>3, <1>4 DEF Settled
  <2>4. a \in answers' \ answers => a.acks \cap pending \subseteq claim
    BY <1>5 DEF IInv, Fresh
  <2> QED
    BY <1>1, <1>5, <2>1, <2>2, <2>3, <2>4 DEF IInv, Fresh, Matches
<1> QED
  BY <1>7, <1>8, <1>9, <1>10, <1>11, <1>12, <1>13 DEF IInv

LEMMA PeerWriteKeeps ==
  ASSUME IInv, NEW c \in Clocks, PeerWrite(c)
  PROVE  IInv'
<1>1. /\ log' = [log EXCEPT !.peers = @ \cup {c}]
      /\ UNCHANGED <<ops, body, pending, deps, proof, claim, head, base, wire,
                     answers, accepted, stray>>
  BY DEF PeerWrite
<1>2. Created' = Created
  BY <1>1 DEF Created
<1>3. /\ log'.mine = log.mine /\ log'.said = log.said
      /\ log' \in [mine : SUBSET Ids, peers : SUBSET Clocks, said : [Ids -> Bodies]]
  BY <1>1 DEF IInv, Shapes
<1>4. TypeOK' /\ NoDanglingDependency' /\ Shapes' /\ Logged'
  BY <1>1, <1>2, <1>3 DEF IInv, TypeOK, NoDanglingDependency, Shapes, Logged
<1>5. Proven' /\ Accounted' /\ Agreed' /\ Released' /\ Headed'
  BY <1>1, <1>3 DEF IInv, Proven, Accounted, Frozen, Agreed, ImmutableRetry, Released,
     Opened, Headed
<1>6. Fresh'
  BY <1>1, <1>2, <1>3 DEF IInv, Fresh, Settled, Matches
<1> QED
  BY <1>4, <1>5, <1>6 DEF IInv

\* Losing messages takes nothing away that the invariant asks for.
LEMMA LossKeeps ==
  ASSUME IInv, wire' \subseteq wire, answers' \subseteq answers,
         UNCHANGED <<ops, body, pending, deps, proof, claim, head, base, log,
                     accepted, stray>>
  PROVE  IInv'
<1>1. Created' = Created
  BY DEF Created
<1>2. TypeOK' /\ NoDanglingDependency' /\ Shapes' /\ Logged'
  BY <1>1 DEF IInv, TypeOK, NoDanglingDependency, Shapes, Logged
<1>3. Proven' /\ Accounted' /\ Agreed' /\ Released' /\ Headed'
  BY DEF IInv, Proven, Accounted, Frozen, Agreed, ImmutableRetry, Released, Opened,
     Headed
<1>4. Fresh'
  BY <1>1 DEF IInv, Fresh, Settled, Matches
<1> QED
  BY <1>2, <1>3, <1>4 DEF IInv

\* What every response keeps of the invariant, whether it answers a claim or not.
LEMMA InstallKeeps ==
  ASSUME IInv, NEW acks \in SUBSET Ids, NEW outcome, NEW say, NEW h \in Clocks,
         NEW snap \in Snapshot,
         Install(snap, acks, outcome, say, h),
         snap.mine \subseteq log.mine, acks \subseteq snap.mine,
         Settled \subseteq snap.mine,
         acks = claim \/ acks = {},
         wire' = wire, answers' \subseteq answers, claim' = claim \ acks
  PROVE  /\ Fresh' => IInv'
         /\ Settled' \subseteq snap.mine
         /\ Settled' \subseteq Settled \cup acks
<1>1. /\ pending' \subseteq pending \ acks
      /\ pending \ pending' \subseteq acks \cup (deps \cap proof)
      /\ deps' \subseteq deps \cap pending'
      /\ \A c \in deps' : ops[c].parent \in pending'
      /\ \A c \in (deps \cap pending') \ deps' : ops[c].parent \in accepted'
      /\ proof' = proof \cap pending'
      /\ body' \in [Ids -> Bodies]
      /\ \A i \in Ids \ (proof \cap pending') : body'[i] = body[i]
      /\ accepted \subseteq accepted' /\ accepted' \subseteq accepted \cup acks
      /\ ops' = ops /\ log' = log /\ stray' = stray
      /\ base' = snap /\ head' = h
      /\ \A i \in snap.mine : ops[i].clock <= h
      /\ \A c \in snap.peers : c <= h
  BY InstallEffect DEF IInv
<1>2. Created' = Created
  BY <1>1 DEF Created
<1>3. acks \subseteq claim /\ acks \subseteq Created
  BY DEF IInv, TypeOK
<1>4. claim' \subseteq pending'
  BY <1>1, <1>3 DEF IInv, TypeOK, Released
<1>5. Settled' \subseteq Settled \cup acks
  BY <1>1, <1>2 DEF IInv, Settled, Proven
<1>6. TypeOK'
  BY <1>1, <1>2, <1>3, <1>4 DEF IInv, TypeOK
<1>7. NoDanglingDependency' /\ Headed'
  BY <1>1 DEF IInv, NoDanglingDependency, Headed
<1>8. Shapes'
  BY <1>1, <1>2 DEF IInv, Shapes
<1>9. Logged'
  <2>1. ASSUME NEW r \in wire, NEW i \in DOMAIN r.says
        PROVE  i \in pending' \cup log.mine
    BY <1>1 DEF IInv, Logged, Proven
  <2> QED
    BY <1>1, <2>1 DEF IInv, Logged
<1>10. Proven'
  BY <1>1 DEF IInv, Proven
<1>11. Accounted'
  BY <1>1 DEF IInv, Accounted, Frozen
<1>12. Agreed'
  <2>1. ASSUME NEW r \in wire, NEW i \in DOMAIN r.says, i \in pending'
        PROVE  body'[i] = r.says[i]
    <3>1. i \in pending /\ i \in Ids /\ i \notin proof
      BY <1>1, <2>1, CreatedType DEF IInv, Proven, TypeOK
    <3>2. body[i] = r.says[i]
      BY <3>1 DEF IInv, Agreed, ImmutableRetry
    <3> QED
      BY <1>1, <3>1, <3>2
  <2>2. ASSUME NEW i \in pending' \cap log.mine
        PROVE  log.said[i] = body'[i]
    BY <1>1, CreatedType DEF IInv, Proven, TypeOK, Agreed
  <2> QED
    BY <1>1, <2>1, <2>2 DEF IInv, Agreed, ImmutableRetry
<1>13. Released'
  <2>1. \A i \in Created : Opened(i) => Opened(i)'
    BY <1>1 DEF Opened
  <2>2. \A i \in pending' \ deps' : Opened(i)'
    BY <1>1, <2>1 DEF IInv, Released, TypeOK, Opened
  <2>3. claim' \cap deps' = {}
    BY <1>1 DEF IInv, Released
  <2>4. \A i \in log'.mine \ stray' : Opened(i)'
    BY <1>1, <2>1 DEF IInv, Released, Shapes
  <2>5. \A r \in wire' : \A i \in DOMAIN r.says \ stray' : Opened(i)'
    BY <1>1, <2>1 DEF IInv, Released, Shapes
  <2> QED
    BY <2>2, <2>3, <2>4, <2>5 DEF Released
<1> QED
  BY <1>5, <1>6, <1>7, <1>8, <1>9, <1>10, <1>11, <1>12, <1>13 DEF IInv

LEMMA ReceiveKeeps ==
  ASSUME IInv, NEW a \in answers, Receive(a)
  PROVE  IInv'
<1>1. claim # {} /\ a.acks = claim /\ claim' = {} /\ wire' = wire
      /\ answers' \subseteq answers
  BY DEF Receive, Matches
<1>2. /\ a.acks \in SUBSET Ids /\ a.mine \in SUBSET Ids /\ a.peers \in SUBSET Clocks
      /\ a.acks \subseteq a.mine /\ a.mine \subseteq log.mine
      /\ Settled \subseteq a.mine
  BY <1>1 DEF IInv, Shapes, Logged, Fresh, Matches
<1> DEFINE snap == [mine |-> a.mine, peers |-> a.peers]
<1>3. snap \in Snapshot /\ snap.mine = a.mine
  BY <1>2 DEF Snapshot
<1>4. PICK outcome \in [a.acks -> Outcomes], say \in [Sources(a.acks) -> Verdict],
           h \in Clocks : Install(snap, a.acks, outcome, say, h)
  BY DEF Receive
<1> HIDE DEF snap
<1>5. /\ Fresh' => IInv'
      /\ Settled' \subseteq a.mine
  BY <1>1, <1>2, <1>3, <1>4, InstallKeeps
<1>6. base' = snap /\ pending' \subseteq pending \ claim
  BY <1>1, <1>4, InstallEffect DEF IInv
<1>7. Fresh'
  BY <1>1, <1>3, <1>5, <1>6 DEF IInv, Fresh, Matches
<1> QED
  BY <1>5, <1>7

LEMMA PullKeeps ==
  ASSUME IInv, Pull
  PROVE  IInv'
<1>1. UNCHANGED <<claim, wire, answers>>
  BY DEF Pull
<1> DEFINE snap == [mine |-> log.mine, peers |-> log.peers]
<1>2. snap \in Snapshot /\ snap.mine = log.mine /\ Settled \subseteq log.mine
  BY DEF IInv, Shapes, Snapshot, Settled
<1>3. PICK h \in Clocks : Install(snap, {}, <<>>, <<>>, h)
  BY DEF Pull
<1> HIDE DEF snap
<1>4. /\ Fresh' => IInv'
      /\ Settled' \subseteq log.mine
      /\ Settled' \subseteq Settled
  <2>1. claim' = claim \ {} /\ answers' \subseteq answers /\ {} \in SUBSET Ids
    BY <1>1
  <2> QED
    BY <1>1, <1>2, <1>3, <2>1, InstallKeeps
<1>5. base' = snap /\ pending' \subseteq pending
  BY <1>3, InstallEffect DEF IInv
<1>6. Fresh'
  BY <1>1, <1>2, <1>4, <1>5 DEF IInv, Fresh, Matches
<1> QED
  BY <1>4, <1>6

LEMMA SendStrayKeeps ==
  ASSUME IInv, NEW i \in Ids, SendStray(i)
  PROVE  IInv'
<1> DEFINE r == [says |-> [j \in {i} |-> body[j]], claimed |-> FALSE]
<1>1. /\ i \in proof /\ proof' = proof \ {i} /\ stray' = stray \cup {i}
      /\ wire' = wire \cup {r}
      /\ UNCHANGED <<ops, body, pending, deps, claim, head, base, answers, log,
                     accepted>>
  BY DEF SendStray
<1>2. Created' = Created /\ i \in Created /\ i \in pending
  BY <1>1 DEF IInv, TypeOK, Created
<1>3. /\ DOMAIN r.says = {i} /\ ~ r.claimed /\ r.claimed \in BOOLEAN
      /\ \A j \in DOMAIN r.says : r.says[j] = body[j]
      /\ r.says \in [DOMAIN r.says -> Bodies]
  BY DEF IInv, TypeOK
<1> HIDE DEF r
<1>4. TypeOK' /\ NoDanglingDependency' /\ Accounted' /\ Headed'
  BY <1>1, <1>2, <1>3 DEF IInv, TypeOK, NoDanglingDependency, Accounted, Frozen, Headed
<1>5. Shapes' /\ Logged' /\ Proven'
  BY <1>1, <1>2, <1>3 DEF IInv, Shapes, Logged, Proven
<1>6. Agreed'
  BY <1>1, <1>3 DEF IInv, Agreed, ImmutableRetry, Proven
<1>7. Released'
  BY <1>1, <1>3 DEF IInv, Released, Opened
<1>8. Fresh'
  BY <1>1, <1>2, <1>3 DEF IInv, Fresh, Settled, Matches
<1> QED
  BY <1>4, <1>5, <1>6, <1>7, <1>8 DEF IInv

LEMMA StepInvariant == IInv /\ [Next]_vars => IInv'
<1> SUFFICES ASSUME IInv, [Next]_vars
             PROVE  IInv'
  OBVIOUS
<1>1. ASSUME NEW o \in Menu, NEW c \in Clocks, NEW b \in Bodies,
             Create([o EXCEPT !.clock = c], b)
      PROVE  IInv'
  <2>1. [o EXCEPT !.clock = c] \in Op
    BY OutboxAssumption DEF Op
  <2> QED
    BY <1>1, <2>1, CreateKeeps
<1>2. ASSUME NEW n \in Ids, Claim(n)
      PROVE  IInv'
  BY <1>2, ClaimKeeps
<1>3. CASE Send
  BY <1>3, SendKeeps
<1>4. ASSUME NEW r \in wire, Serve(r) \/ LoseRequest(r)
      PROVE  IInv'
  <2>1. CASE Serve(r)
    BY <2>1, ServeKeeps
  <2>2. CASE LoseRequest(r)
    BY <2>2, LossKeeps DEF LoseRequest
  <2> QED
    BY <1>4, <2>1, <2>2
<1>5. ASSUME NEW a \in answers, Receive(a) \/ LoseAnswer(a)
      PROVE  IInv'
  <2>1. CASE Receive(a)
    BY <2>1, ReceiveKeeps
  <2>2. CASE LoseAnswer(a)
    BY <2>2, LossKeeps DEF LoseAnswer
  <2> QED
    BY <1>5, <2>1, <2>2
<1>6. ASSUME NEW c \in Clocks, PeerWrite(c)
      PROVE  IInv'
  BY <1>6, PeerWriteKeeps
<1>7. CASE Pull
  BY <1>7, PullKeeps
<1>8. ASSUME NEW i \in Ids, SendStray(i)
      PROVE  IInv'
  BY <1>8, SendStrayKeeps
<1>9. CASE UNCHANGED vars
  BY <1>9, LossKeeps DEF vars
<1> QED
  BY <1>1, <1>2, <1>3, <1>4, <1>5, <1>6, <1>7, <1>8, <1>9 DEF Next

\* Every reachable state satisfies the inductive invariant.
LEMMA Invariance == Spec => []IInv
  BY InitInvariant, StepInvariant, PTL DEF Spec

-----------------------------------------------------------------------------
(* The properties.                                                         *)

(* Queue, claim, proofs and messages only speak of operations that the     *)
(* device created, however long it runs and whatever the server answers.   *)
THEOREM TypeCorrect == Spec => []TypeOK
<1>1. IInv => TypeOK
  BY DEF IInv
<1> QED
  BY <1>1, Invariance, PTL

(* An outbox is well formed after every response and every restart: both   *)
(* ends of each dependency are retained, the parent first, so that         *)
(* timer_dependencies never rejects what an earlier response left behind.  *)
THEOREM ConsistentHolds == Spec => []Consistent
<1>1. IInv => Consistent
  BY DEF IInv, Consistent
<1> QED
  BY <1>1, Invariance, PTL

(* Every copy of an operation says the same, in flight, in the log and in  *)
(* the queue: a response never rewrites what may have been delivered.      *)
THEOREM ImmutableRetryHolds == Spec => []ImmutableRetry
<1>1. IInv => ImmutableRetry
  BY DEF IInv, Agreed
<1> QED
  BY <1>1, Invariance, PTL

(* No dependent is claimed, or reaches the server by a claim, before an    *)
(* acknowledgement opened its parent.                                      *)
THEOREM ChildAfterParentHolds == Spec => []ChildAfterParent
<1>1. IInv => ChildAfterParent
  <2> SUFFICES ASSUME IInv, NEW i \in (claim \cup log.mine) \ stray
               PROVE  Opened(i)
    BY DEF ChildAfterParent, Opened
  <2> QED
    BY DEF IInv, TypeOK, Released
<1> QED
  BY <1>1, Invariance, PTL

(* What the projection shows of the queue is what a replay of one complete *)
(* log would show: nothing twice, nothing before what the snapshot has,    *)
(* and nothing without what was retained before it.                        *)
THEOREM ProjectionIsReplayHolds == Spec => []ProjectionIsReplay
<1>1. IInv => ProjectionIsReplay
  <2> SUFFICES ASSUME IInv, NEW i \in ProjectionPending
               PROVE  /\ i \notin base.mine
                      /\ \A j \in base.mine : ops[j].clock < ops[i].clock
                      /\ \A c \in base.peers : c < ops[i].clock
                      /\ \A j \in pending : j < i => j \in ProjectionPending
    BY DEF ProjectionIsReplay
  <2>1. i \in pending /\ i \in proof /\ ops[i].clock > head /\ ProjectionPending = pending
    BY DEF ProjectionPending
  <2>2. i \notin base.mine
    BY <2>1 DEF IInv, Proven, Logged
  <2>3. /\ head \in Int /\ ops[i].clock \in Int
        /\ base.mine \subseteq Created /\ base.peers \subseteq Int
    BY <2>1, CreatedType DEF IInv, TypeOK, Op, Clocks, Snapshot, Logged, Shapes
  <2>4. \A j \in base.mine : ops[j].clock \in Int
    BY <2>3, CreatedType DEF IInv, Op, Clocks
  <2> QED
    BY <2>1, <2>2, <2>3, <2>4 DEF IInv, Headed
<1> QED
  BY <1>1, Invariance, PTL

(* What left the queue for the server is in every snapshot installed since *)
(* then: no late, repeated or reordered response makes it vanish.          *)
THEOREM SettledVisibleHolds == Spec => []SettledVisible
<1>1. IInv => SettledVisible
  BY DEF IInv, Fresh, Settled, SettledVisible
<1> QED
  BY <1>1, Invariance, PTL

(* A device that sends only what it claimed never has a response refused   *)
(* for what it would do to operations that may have been delivered.        *)
THEOREM NeverRefusedHolds == Spec => []NeverRefused
<1>1. IInv => NeverRefused
  <2> SUFFICES ASSUME IInv, stray = {}, NEW a \in answers, Matches(a),
                      NEW outcome \in [a.acks -> Outcomes],
                      NEW say \in [Sources(a.acks) -> Verdict],
                      \A f \in Sources(a.acks) : say[f].completion # "outside"
               PROVE  ~ Refused(a.acks, outcome, say)
    BY DEF NeverRefused
  <2>1. Frozen \subseteq claim /\ a.acks = claim /\ claim \cap deps = {}
    BY DEF IInv, Accounted, Matches, Released
  <2>2. ~ DayExcluded(a.acks, say)
    BY DEF DayExcluded
  <2>3. ~ DropsFrozen(a.acks, outcome, say)
    BY <2>1, BelowInside DEF DropsFrozen, Dropped
  <2>4. ~ RewritesFrozen(a.acks, outcome, say)
    BY <2>1 DEF RewritesFrozen
  <2> QED
    BY <2>2, <2>3, <2>4 DEF Refused
<1> QED
  BY <1>1, Invariance, PTL

\* A break that an answer opens follows an acknowledged finish, and nothing
\* that the user started since is left in the queue.
LEMMA OpenedBreak ==
  ASSUME IInv, NEW snap, NEW acks, NEW outcome, NEW say, NEW h,
         Install(snap, acks, outcome, say, h), acks \subseteq log.mine,
         NEW g \in Begun
  PROVE  Alone(g)
<1> DEFINE f == ops[g].parent
<1>1. /\ pending' = Kept(acks, outcome, say) /\ deps' = StillHeld(acks, outcome, say)
      /\ pending' \subseteq pending \ acks
  BY DEF Install, Kept
<1>2. g \in deps /\ g \notin deps' /\ ops[g].gen /\ g \in pending'
  BY DEF Begun
<1>3. f \in Barriers(acks, outcome, say)
  BY <1>1, <1>2, PromotedWasOpened DEF IInv
<1>4. f \in acks
  BY <1>3, OpenedAcknowledged
<1>5. g \in BreakOf(f)
  BY <1>2 DEF BreakOf
<1>6. f \in Sources(acks)
  BY <1>4, <1>5 DEF Sources
<1>7. f \in AcceptedSources(acks, outcome, say)
  BY <1>3, <1>6 DEF Barriers
<1>8. ~ NewerManualStart(g)
  BY <1>5, <1>7 DEF AcceptedSources
<1> QED
  BY <1>1, <1>4, <1>8 DEF NewerManualStart, Alone

(* However long the answer to a finish took, the break that it opens does  *)
(* not come over a timer that the user has started since (is_accepted of   *)
(* timer_dependencies).                                                    *)
THEOREM BreakGivesWayHolds == Spec => BreakGivesWay
<1>1. IInv /\ [Next]_vars => \A g \in Begun : Alone(g)
  <2> SUFFICES ASSUME IInv, [Next]_vars, NEW g \in Begun
               PROVE  Alone(g)
    OBVIOUS
  <2>1. ASSUME NEW a \in answers, Receive(a)
        PROVE  Alone(g)
    <3>1. a.acks \subseteq log.mine
      BY DEF IInv, Logged
    <3> QED
      BY <2>1, <3>1, OpenedBreak DEF Receive
  <2>2. CASE Pull
    BY <2>2, OpenedBreak DEF Pull
  <2>3. CASE deps \subseteq deps'
    BY <2>3 DEF Begun
  <2>4. ASSUME \/ \E o \in Menu, c \in Clocks, b \in Bodies :
                     Create([o EXCEPT !.clock = c], b)
               \/ \E n \in Ids : Claim(n) \/ SendStray(n)
               \/ Send
               \/ \E r \in wire : Serve(r) \/ LoseRequest(r)
               \/ \E a \in answers : LoseAnswer(a)
               \/ \E c \in Clocks : PeerWrite(c)
               \/ UNCHANGED vars
        PROVE  deps \subseteq deps'
    BY <2>4 DEF Create, Claim, SendStray, Send, Serve, LoseRequest, LoseAnswer,
                PeerWrite, vars
  <2> QED
    BY <2>1, <2>2, <2>3, <2>4 DEF Next
<1> QED
  BY <1>1, Invariance, PTL DEF Spec, BreakGivesWay

-----------------------------------------------------------------------------
(* The refinement of ImmutableDelivery.                                    *)

\* What any step does to the operations: they are created into the queue, they
\* reach the log from the queue and unchanged, they leave the queue from the
\* log or for ever, and no payload changes that the log has or the queue lost.
Moved ==
  /\ Created \subseteq Created' /\ log.mine \subseteq log'.mine
  /\ pending' \subseteq pending \cup (Created' \ Created)
  /\ Created' \ Created \subseteq pending' \ log'.mine
  /\ log'.mine \ log.mine \subseteq pending \cap pending'
  /\ pending \ pending' \subseteq log.mine \cup (Created \ log'.mine)
  /\ \A i \in log.mine : log'.said[i] = log.said[i]
  /\ \A i \in log'.mine \ log.mine : log'.said[i] = body[i]
  /\ \A i \in Ids \ ((pending' \ log'.mine) \cup (Created' \ Created)) : body'[i] = body[i]

LEMMA InstallMoves ==
  ASSUME IInv, NEW snap, NEW acks, NEW outcome, NEW say, NEW h,
         Install(snap, acks, outcome, say, h), acks \subseteq log.mine
  PROVE  Moved
<1>1. /\ pending' \subseteq pending /\ pending \ pending' \subseteq acks \cup proof
      /\ \A i \in Ids \ (proof \cap pending') : body'[i] = body[i]
      /\ ops' = ops /\ log' = log
  BY InstallEffect DEF IInv
<1>2. Created' = Created
  BY <1>1 DEF Created
<1> QED
  BY <1>1, <1>2 DEF IInv, TypeOK, Proven, Moved

LEMMA StepMoves == IInv /\ IInv' /\ [Next]_vars => Moved
<1> SUFFICES ASSUME IInv, IInv', [Next]_vars
             PROVE  Moved
  OBVIOUS
<1> USE DEF Moved
<1>1. ASSUME NEW o \in Menu, NEW c \in Clocks, NEW b \in Bodies,
             Create([o EXCEPT !.clock = c], b)
      PROVE  Moved
  <2> DEFINE i == Len(ops) + 1
             op == [o EXCEPT !.clock = c]
  <2>1. /\ ops' = Append(ops, op) /\ body' = [body EXCEPT ![i] = b]
        /\ pending' = pending \cup {i} /\ log' = log
    BY <1>1 DEF Create
  <2>2. op \in Op /\ ops \in Seq(Op)
    BY OutboxAssumption DEF Op, IInv, TypeOK
  <2>3. Created' = Created \cup {i} /\ i \notin Created
    BY <2>1, <2>2 DEF Created
  <2> HIDE DEF i
  <2> QED
    BY <2>1, <2>3 DEF IInv, TypeOK, Shapes
<1>2. ASSUME NEW r \in wire, Serve(r)
      PROVE  Moved
  <2> DEFINE sent == DOMAIN r.says
  <2>1. /\ log' = [log EXCEPT !.mine = @ \cup sent,
                              !.said = [i \in Ids |-> IF i \in sent \ log.mine
                                                      THEN r.says[i] ELSE @[i]]]
        /\ UNCHANGED <<ops, body, pending>>
    BY <1>2 DEF Serve
  <2>2. Created' = Created
    BY <2>1 DEF Created
  <2>3. sent \subseteq pending \cup log.mine /\ log.mine \subseteq Ids /\ sent \subseteq Ids
    BY CreatedType DEF IInv, Shapes, Logged
  <2>4. /\ log'.mine = log.mine \cup sent
        /\ \A i \in Ids : log'.said[i] = IF i \in sent \ log.mine THEN r.says[i]
                                                                 ELSE log.said[i]
    BY <2>1 DEF IInv, Shapes
  <2>5. \A i \in sent \cap pending : r.says[i] = body[i]
    BY DEF IInv, Agreed, ImmutableRetry
  <2> QED
    BY <2>1, <2>2, <2>3, <2>4, <2>5
<1>3. ASSUME NEW a \in answers, Receive(a)
      PROVE  Moved
  BY <1>3, InstallMoves DEF Receive, IInv, Logged
<1>4. CASE Pull
  BY <1>4, InstallMoves DEF Pull
<1>5. ASSUME NEW c \in Clocks, PeerWrite(c)
      PROVE  Moved
  <2>1. log'.mine = log.mine /\ log'.said = log.said /\ UNCHANGED <<ops, body, pending>>
    BY <1>5 DEF PeerWrite, IInv, Shapes
  <2> QED
    BY <2>1 DEF Created
<1>6. ASSUME UNCHANGED <<ops, body, pending, log>>
      PROVE  Moved
  BY <1>6 DEF Created
<1>7. ASSUME NEW n \in Ids, Claim(n) \/ SendStray(n)
      PROVE  Moved
  BY <1>6, <1>7 DEF Claim, SendStray
<1>8. CASE Send
  BY <1>6, <1>8 DEF Send
<1>9. ASSUME NEW r \in wire, LoseRequest(r)
      PROVE  Moved
  BY <1>6, <1>9 DEF LoseRequest
<1>10. ASSUME NEW a \in answers, LoseAnswer(a)
       PROVE  Moved
  BY <1>6, <1>10 DEF LoseAnswer
<1>11. CASE UNCHANGED vars
  BY <1>6, <1>11 DEF vars
<1> QED
  BY <1>1, <1>2, <1>3, <1>4, <1>5, <1>7, <1>8, <1>9, <1>10, <1>11 DEF Next

\* The payload that the promise is about.
Content(i) == IF i \in log.mine THEN log.said[i] ELSE body[i]

LEMMA PromiseStep ==
  ASSUME IInv, IInv', Moved
  PROVE  Promise!Next
<1>1. \A i \in Ids : Stage(i) \in Promise!Stages
  BY DEF Stage, Promise!Stages
<1>2. \A i \in Ids : Stage(i)' \in Promise!Stages
  BY DEF Stage, Promise!Stages
<1>3. \A i \in Ids : Content(i)' \in Bodies
  BY DEF Content, IInv, TypeOK, Shapes
<1>4. ASSUME NEW i \in Ids
      PROVE  \/ Stage(i)' = Stage(i) /\ Content(i)' = Content(i)
             \/ Stage(i) = "absent" /\ Stage(i)' = "queued"
             \/ Stage(i) = "queued" /\ Stage(i)' \in {"queued", "dropped"}
             \/ Stage(i) = "queued" /\ Stage(i)' = "delivered" /\ Content(i)' = Content(i)
             \/ Stage(i) = "delivered" /\ Stage(i)' = "settled" /\ Content(i)' = Content(i)
  <2>1. CASE i \notin Created'
    <3>1. i \notin Created /\ i \notin log.mine /\ i \notin log'.mine
      BY <2>1 DEF Moved, IInv, Shapes
    <3>2. body'[i] = body[i]
      BY <2>1 DEF Moved, IInv, TypeOK
    <3> QED
      BY <2>1, <3>1, <3>2 DEF Stage, Content
  <2>2. CASE i \in Created' \ Created
    BY <2>2 DEF Moved, Stage
  <2>3. CASE i \in Created /\ i \notin pending
    <3>1. i \notin pending' /\ i \in Created' /\ (i \in log'.mine <=> i \in log.mine)
      BY <2>3 DEF Moved
    <3>2. body'[i] = body[i] /\ (i \in log.mine => log'.said[i] = log.said[i])
      BY <2>3, <3>1 DEF Moved
    <3> QED
      BY <2>3, <3>1, <3>2 DEF Stage, Content
  <2>4. CASE i \in Created /\ i \in pending
    <3>1. i \in Created'
      BY <2>4 DEF Moved
    <3>2. CASE i \in log.mine
      BY <2>4, <3>1, <3>2 DEF Moved, Stage, Content
    <3>3. CASE i \notin log.mine /\ i \in log'.mine
      BY <2>4, <3>1, <3>3 DEF Moved, Stage, Content
    <3>4. CASE i \notin log.mine /\ i \notin log'.mine
      BY <2>4, <3>1, <3>4 DEF Moved, Stage
    <3> QED
      BY <3>2, <3>3, <3>4 DEF Moved
  <2>5. Created \subseteq Created'
    BY DEF Moved
  <2> QED
    BY <2>1, <2>2, <2>3, <2>4, <2>5
<1> QED
  BY <1>1, <1>2, <1>3, <1>4 DEF Promise!Next, Promise!OneStep, Content

(* The outbox keeps the promise of ImmutableDelivery: an operation changes *)
(* only before its first delivery, it is given up only if the server never *)
(* had it and never gets it, and it settles only after it was delivered.   *)
THEOREM KeepsPromiseHolds == Spec => KeepsPromise
<1>1. Init => Promise!Init
  <2> SUFFICES ASSUME Init
               PROVE  Promise!Init
    OBVIOUS
  <2>1. Created = {} /\ log.mine = {} /\ body = [i \in Ids |-> "short"]
    BY DEF Init, Created
  <2> QED
    BY <2>1 DEF Promise!Init, Stage, Bodies
<1>2. IInv /\ IInv' /\ [Next]_vars => Promise!Next
  BY StepMoves, PromiseStep
<1> QED
  BY <1>1, <1>2, Invariance, PTL DEF Spec, KeepsPromise, Promise!Spec
=============================================================================
