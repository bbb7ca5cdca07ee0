----------------------------- MODULE BatchPlan ------------------------------
(***************************************************************************)
(* The outgoing batch planner (src/batch_plan.rs) and the transaction in   *)
(* which an adapter uses it (BATCH_PLAN.md, "Adapter transaction           *)
(* contract"): plan, persist the claim together with the cursor, send,     *)
(* replay the saved claim after a restart, acknowledge.                    *)
(*                                                                         *)
(* A queue is sorted, so an operation is its position in it, and what the  *)
(* planner selects from a domain is a number: the length of the selected   *)
(* prefix.  New operations sort after the waiting ones.                    *)
(***************************************************************************)
EXTENDS Integers, FiniteSets

CONSTANTS
  PerDomain,  \* limits.perDomain
  Total,      \* limits.total
  Room,       \* bound: operations that may wait in each domain
  None        \* no plan, no claim

Domains  == 0 .. 4   \* the array DOMAINS, in visiting order
Commands == 0
Modes    == {"sync", "merge", "replace_remote", "keep_remote"}

ASSUME LimitsAssumption ==
  /\ PerDomain \in Nat \ {0} /\ Total \in Nat \ {0}
  /\ Room \in [Domains -> Nat]

VARIABLES
  queued,   \* how many operations wait in each domain
  edges,    \* unresolved <<parent, child>> positions in the command queue
  cursor,   \* the persisted nextDomain
  plan,     \* the plan under construction, or None
  outgoing, \* the claim, the durable request: how many of each domain, or None
  waited    \* batches since an eligible domain had its turn (a history)

planVars == <<queued, edges, cursor, plan, outgoing, waited>>

NextDomain(d) == (d + 1) % 5

Held == {e[2] : e \in edges}

\* Mutant: the last unresolved child is taken for the barrier.
IsLastHeld(p) == p \in Held /\ \A q \in Held : q <= p

\* plan.heldTimerOperationId: the first unresolved child, as a position.
IsBarrier(p) == p \in Held /\ \A q \in Held : p <= q

SumOf(f) == f[0] + f[1] + f[2] + f[3] + f[4]

Fits(counts) ==
  (\A d \in Domains : counts[d] <= PerDomain) /\ SumOf(counts) <= Total

Nothing == [d \in Domains |-> 0]

\* The planner's answer to a saved claim.
SavedStatus(saved) == IF Fits(saved) THEN "replay_saved" ELSE "oversized_saved"

-----------------------------------------------------------------------------
PlanInit ==
  /\ queued = Nothing
  /\ edges = {}
  /\ cursor = Commands
  /\ plan = None
  /\ outgoing = None
  /\ waited = Nothing

\* A user action: a task or preference operation, or an independent command.
Enqueue(d) ==
  /\ plan = None
  /\ queued[d] < Room[d]
  /\ queued' = [queued EXCEPT ![d] = @ + 1]
  /\ UNCHANGED <<edges, cursor, plan, outgoing, waited>>

\* A command that may leave only after an earlier one was acknowledged.
EnqueueDependent(parent) ==
  /\ plan = None
  /\ parent \in 1 .. queued[Commands]
  /\ queued[Commands] < Room[Commands]
  /\ queued' = [queued EXCEPT ![Commands] = @ + 1]
  /\ edges' = edges \cup {<<parent, queued[Commands] + 1>>}
  /\ UNCHANGED <<cursor, plan, outgoing, waited>>

PlanRefused(mode) ==
  mode # "sync" /\ (~ Fits(queued) \/ Held # {})

\* plan_new: an oversized or blocked bootstrap plan selects nothing at all.
Begin(mode) ==
  /\ plan = None /\ outgoing = None
  /\ mode = "keep_remote" => queued = Nothing
  /\ plan' = [mode |-> mode, next |-> cursor, taken |-> Nothing, total |-> 0,
              misses |-> 0, cursor |-> cursor, done |-> PlanRefused(mode),
              status |-> IF ~ PlanRefused(mode) THEN "planned"
                         ELSE IF ~ Fits(queued) THEN "oversized"
                         ELSE "blocked_dependency"]
  /\ UNCHANGED <<queued, edges, cursor, outgoing, waited>>

\* Mutant: the domain limit is off by one.
EligibleOneMore(d, n) ==
  /\ n < queued[d]
  /\ n <= PerDomain
  /\ d = Commands => ~ IsBarrier(n + 1)

\* The candidate that follows the n selected ones may be selected too.
Eligible(d, n) ==
  /\ n < queued[d]
  /\ n < PerDomain
  /\ d = Commands => ~ IsBarrier(n + 1)

\* Mutant: the loop gives up after four misses.
LoopingFour(p) == p.total < Total /\ p.misses < 4

\* Mutant: the cursor is not moved, every plan begins with the same domain.
TakeKeepingCursor(p) ==
  [p EXCEPT !.taken[p.next] = @ + 1, !.total = @ + 1, !.misses = 0,
            !.next = NextDomain(p.next)]

Looping(p) == p.total < Total /\ p.misses < 5

Take(p) ==
  [p EXCEPT !.taken[p.next] = @ + 1, !.total = @ + 1, !.misses = 0,
            !.next = NextDomain(p.next), !.cursor = NextDomain(p.next)]

Miss(p) == [p EXCEPT !.misses = @ + 1, !.next = NextDomain(p.next)]

\* select: one iteration of the loop.
Visit ==
  /\ plan # None /\ ~ plan.done /\ Looping(plan)
  /\ plan' = IF Eligible(plan.next, plan.taken[plan.next])
             THEN Take(plan) ELSE Miss(plan)
  /\ UNCHANGED <<queued, edges, cursor, outgoing, waited>>

\* select: the loop ends.
Finish ==
  /\ plan # None /\ ~ plan.done /\ ~ Looping(plan)
  /\ plan' = [plan EXCEPT !.done = TRUE,
                          !.status = IF plan.total = 0 /\ Held # {}
                                     THEN "blocked_dependency" ELSE @]
  /\ UNCHANGED <<queued, edges, cursor, outgoing, waited>>

Waited(d) ==
  IF plan.taken[d] = 0 /\ Eligible(d, 0) THEN waited[d] + 1 ELSE 0

\* The adapter persists the request and the cursor in one transaction.
Persist ==
  /\ plan # None /\ plan.done /\ plan.total > 0
  /\ outgoing' = plan.taken
  /\ cursor' = plan.cursor
  /\ waited' = [d \in Domains |-> Waited(d)]
  /\ plan' = None
  /\ UNCHANGED <<queued, edges>>

\* The transaction fails, the process stops, or there is nothing to send.
Abandon ==
  /\ plan # None /\ plan.done
  /\ plan' = None
  /\ UNCHANGED <<queued, edges, cursor, outgoing, waited>>

\* Mutant: the acknowledged parent releases nobody.
AcknowledgeWithoutPromotion ==
  /\ outgoing # None /\ plan = None
  /\ SavedStatus(outgoing) = "replay_saved"
  /\ LET n == outgoing[Commands] IN
     /\ queued' = [d \in Domains |-> queued[d] - outgoing[d]]
     /\ edges' = {<<e[1] - n, e[2] - n>> : e \in edges}
  /\ outgoing' = None
  /\ UNCHANGED <<cursor, plan, waited>>

\* The server acknowledged the whole claim: reconciliation removes it and
\* promotes the children whose parent it contained.
Acknowledge ==
  /\ outgoing # None /\ plan = None
  /\ SavedStatus(outgoing) = "replay_saved"
  /\ LET n == outgoing[Commands] IN
     /\ queued' = [d \in Domains |-> queued[d] - outgoing[d]]
     /\ edges' = {<<e[1] - n, e[2] - n>> : e \in {x \in edges : x[1] > n}}
  /\ outgoing' = None
  /\ UNCHANGED <<cursor, plan, waited>>

PlanNext ==
  \/ \E d \in Domains : Enqueue(d)
  \/ \E parent \in 1 .. Room[Commands] : EnqueueDependent(parent)
  \/ \E mode \in Modes : Begin(mode)
  \/ Visit \/ Finish \/ Persist \/ Abandon \/ Acknowledge

\* A sync is planned again and again (a user who bootstraps in between cannot
\* prevent it for ever), a plan runs to its end, its transaction succeeds if
\* it is tried again and again, and the server eventually answers a claim that
\* is sent again and again.
PlanFairness ==
  /\ SF_planVars(Begin("sync")) /\ WF_planVars(Visit) /\ WF_planVars(Finish)
  /\ WF_planVars(Persist \/ Abandon) /\ SF_planVars(Persist)
  /\ WF_planVars(Acknowledge)

PlanSpec == PlanInit /\ [][PlanNext]_planVars

PlanFairSpec == PlanSpec /\ PlanFairness

-----------------------------------------------------------------------------
Plan ==
  [mode : Modes, next : Domains, taken : [Domains -> Nat], total : Nat,
   misses : 0 .. 5, cursor : Domains, done : BOOLEAN,
   status : {"planned", "oversized", "blocked_dependency"}]

ASSUME NoneAssumption ==
  None \notin Plan /\ None \notin [Domains -> Nat]

(* Type correctness.                                                       *)
PlanTypeOK ==
  /\ queued \in [Domains -> Nat]
  /\ edges \subseteq (Nat \X Nat)
  /\ \A e \in edges : 1 <= e[1] /\ e[1] < e[2] /\ e[2] <= queued[Commands]
  /\ cursor \in Domains
  /\ plan = None \/ plan \in Plan
  /\ outgoing = None \/ outgoing \in [Domains -> Nat]
  /\ waited \in [Domains -> Nat]

(* A held child and every command behind it stay home until the parent is  *)
(* acknowledged, through any sequence of plans, failures and replays.      *)
HeldStaysHome ==
  \A e \in edges :
    /\ plan # None => plan.taken[Commands] < e[2]
    /\ outgoing # None => outgoing[Commands] < e[2]

(* A claim that was persisted is one the planner will always replay: the   *)
(* limits of a new plan and of a saved one agree, in every domain and in   *)
(* total, so no claim is stuck as oversized_saved.                         *)
ClaimReplayable ==
  outgoing # None =>
    SavedStatus(outgoing) = "replay_saved"
    /\ \A d \in Domains : outgoing[d] <= queued[d]

(* The loop stops only when the budget is used or nothing is eligible any  *)
(* more: a plan never leaves room for an operation that could have gone.   *)
PlanMaximal ==
  plan # None /\ plan.done /\ plan.status = "planned" /\ plan.total < Total =>
    \A d \in Domains : ~ Eligible(d, plan.taken[d])

(* Every continuously eligible domain has a turn within five successful    *)
(* batches, however small they are (BATCH_PLAN.md, "Ordering and           *)
(* progress").                                                             *)
FiveBatches == \A d \in Domains : waited[d] <= 4

(* Finite queues drain: whatever domain has waiting operations is sent     *)
(* from at last, the one behind a held child included.                     *)
QueuesDrain ==
  \A d \in Domains : queued[d] > 0 ~> outgoing # None /\ outgoing[d] > 0
=============================================================================
