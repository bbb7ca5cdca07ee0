------------------------------- MODULE Outbox -------------------------------
(***************************************************************************)
(* The outbox of one device: timer commands that wait for delivery, the    *)
(* durable claim of the request that is being sent, and the reconciliation *)
(* of a server response with both (src/reconciliation, rebase v2 and v3).  *)
(* Requests and responses are lost, delayed and repeated; other devices    *)
(* write to the same account; a stopped client restarts from what it had   *)
(* persisted, which is everything but the messages in flight.              *)
(*                                                                         *)
(* An operation is a number in creation order, which is both the device    *)
(* sequence and the order of its clocks.  A clock is one number.  What a   *)
(* payload says is its body: the break that a generated start asks for.    *)
(***************************************************************************)
EXTENDS Integers, Sequences, FiniteSets

CONSTANTS
  MaxOps,       \* bound: operations created by this device
  MaxClock,     \* bound: the latest clock of any operation
  MaxPeers,     \* bound: operations of other devices
  MaxStray,     \* bound: operations sent past the claims
  MaxFlight,    \* bound: requests in flight, and responses in flight
  Menu,         \* the operations a user may create, whatever their clock
  Completions   \* what a response may say about the completion of a finish:
                \* subset of {"none", "inside", "outside"}

Ids      == 1 .. MaxOps
Clocks   == 0 .. MaxClock
Bodies   == {"short", "long"}
Outcomes == {"applied", "ignored", "rejected"}
Kinds    == {"start", "finish", "edit"}

\* gen marks a generated break: a start that depends on the finish of a focus.
Op == [kind : Kinds, timer : 0 .. MaxOps, clock : Clocks,
       parent : 0 .. MaxOps, gen : BOOLEAN]

ASSUME OutboxAssumption ==
  /\ MaxOps \in Nat /\ MaxClock \in Nat /\ MaxPeers \in Nat /\ MaxStray \in Nat
  /\ MaxFlight \in Nat
  /\ Menu \subseteq Op
  /\ Completions \subseteq {"none", "inside", "outside"}

VARIABLES
  ops,       \* the operations created so far, as they were created
  body,      \* the retained payload of each operation
  pending,   \* the retained queue
  deps,      \* children whose parent is unresolved (timerDependencies)
  proof,     \* operations proven never sent (neverSent)
  claim,     \* the operations of the persisted outgoing request
  head,      \* the canonical head that came with the snapshot
  base,      \* the operations that the canonical snapshot represents
  wire,      \* requests in flight: payloads by operation, and whether the
             \* claim sent them
  answers,   \* responses in flight
  log,       \* the server's log, and what each operation said there
  accepted,  \* operations whose acknowledgement opened their dependents
  stray      \* operations that were sent past the claims

vars == <<ops, body, pending, deps, proof, claim, head, base, wire, answers,
          log, accepted, stray>>

Snapshot == [mine : SUBSET Ids, peers : SUBSET Clocks]

Created == 1 .. Len(ops)

\* Possibly delivered: everything retained without a proof.
Frozen == pending \ proof

-----------------------------------------------------------------------------
(* The dependency graph: deps holds the children, ops their parents.       *)

\* The least set of children that is closed under "my parent is in roots or
\* in the set", where the children in walls are never entered.
Below(roots, walls) ==
  {c \in deps :
     \A S \in SUBSET deps :
       (\A x \in deps \ walls : ops[x].parent \in roots \cup S => x \in S)
         => c \in S}

\* generated_by_source: the break that was generated for the finish f.
BreakOf(f) == {g \in deps : ops[g].gen /\ ops[g].parent = f}

\* batch_ids: the commands that follow f on the timer of its break.
BatchOf(f) ==
  {c \in Below({f}, {}) : \E g \in BreakOf(f) : ops[c].timer = ops[g].timer}

\* Mutant: the request is searched, not the queue.
NewerStartSent(g) ==
  \E i \in claim : i > g /\ ops[i].kind = "start" /\ i \notin deps

\* A start that the user asked for after the break g was generated.
NewerManualStart(g) ==
  \E i \in pending : i > g /\ ops[i].kind = "start" /\ i \notin deps

-----------------------------------------------------------------------------
(* timer_dependencies::resolve.  A response acknowledges the operations    *)
(* acks; outcome says how, and say what its snapshot says of the finishes  *)
(* that a break was generated for.                                         *)

Sources(acks) == {f \in acks : BreakOf(f) # {}}

\* is_accepted.
AcceptedSources(acks, outcome, say) ==
  {f \in Sources(acks) :
     /\ outcome[f] \in {"applied", "ignored"}
     /\ say[f].completion = "inside"
     /\ ~ say[f].superseded
     /\ \A g \in BreakOf(f) : ~ NewerManualStart(g)}

\* applied_timer_barriers: what opens its dependents.
Barriers(acks, outcome, say) ==
  {i \in acks \ Sources(acks) : outcome[i] = "applied"}
    \cup AcceptedSources(acks, outcome, say)

\* dropped_timer_operations: what depends on something that did not open.
Dropped(acks, outcome, say) ==
  LET open == Barriers(acks, outcome, say)
  IN  Below(acks \ open, open) \ acks

\* Mutant: everything behind an opened operation is opened with it.
PromotedBatch(acks, outcome, say) ==
  Below(Barriers(acks, outcome, say), {})
    \ (acks \cup Dropped(acks, outcome, say))

\* promote_timer_dependents: only the direct children of what opened.
Promoted(acks, outcome, say) ==
  {c \in deps : ops[c].parent \in Barriers(acks, outcome, say)}
    \ (acks \cup Dropped(acks, outcome, say))

\* normalize: the batch of an accepted break takes the phase that the
\* canonical count asks for, unless the break was finished already.
NormalBody(acks, outcome, say, i) ==
  LET fs == {f \in AcceptedSources(acks, outcome, say) : i \in BatchOf(f)}
  IN  IF fs = {} THEN body[i]
      ELSE LET f == CHOOSE x \in fs : TRUE
               g == CHOOSE x \in BreakOf(f) : TRUE
           IN  IF \E c \in BatchOf(f) : ops[c].kind = "finish" THEN body[g]
               ELSE IF say[f].long THEN "long" ELSE "short"

\* Mutant: whatever was claimed counts as acknowledged.
KeptUnclaimed(acks, outcome, say) ==
  pending \ (acks \cup claim \cup Dropped(acks, outcome, say))

\* filter_pending.
Kept(acks, outcome, say) == pending \ (acks \cup Dropped(acks, outcome, say))

\* Mutant: an opened child is still held by the parent that opened it.
HeldForEver(acks, outcome, say) == deps \cap Kept(acks, outcome, say)

\* pending_timer_dependencies.
StillHeld(acks, outcome, say) ==
  LET kept == Kept(acks, outcome, say)
  IN  {c \in deps \ Promoted(acks, outcome, say) :
         c \in kept /\ ops[c].parent \in kept}

(* The reasons for which a response with exact acknowledgements is refused  *)
(* that lie in the queue and its dependencies.  The server's answers are    *)
(* canonical: that a response is not valid by itself, that the retained     *)
(* queue does not replay over it, or that its timer and history overlap     *)
(* with what a finish says, is left out.                                    *)

\* The server completed the focus on a day that its break does not belong to.
DayExcluded(acks, say) == \E f \in Sources(acks) : say[f].completion = "outside"

\* validate_drops: a dependent that may have been delivered would be lost.
DropsFrozen(acks, outcome, say) == Dropped(acks, outcome, say) \cap Frozen # {}

\* projectable: an operation that may have been delivered would be rewritten.
RewritesFrozen(acks, outcome, say) ==
  \E i \in Frozen \ (acks \cup Dropped(acks, outcome, say)) :
    NormalBody(acks, outcome, say, i) # body[i]

\* Mutant: a possibly delivered operation may be rewritten.
RefusedUnlessRewritten(acks, outcome, say) ==
  DayExcluded(acks, say) \/ DropsFrozen(acks, outcome, say)

\* Mutant: a possibly delivered operation may be dropped.
RefusedUnlessDropped(acks, outcome, say) ==
  DayExcluded(acks, say) \/ RewritesFrozen(acks, outcome, say)

Refused(acks, outcome, say) ==
  \/ DayExcluded(acks, say)
  \/ DropsFrozen(acks, outcome, say)
  \/ RewritesFrozen(acks, outcome, say)

-----------------------------------------------------------------------------
\* Mutant: an operation as late as the head is late enough.
ProjectionWithTies ==
  IF \A i \in pending : i \in proof /\ ops[i].clock >= head
  THEN pending ELSE {}

\* delivery::Policy::projection: a queue is shown whole or not at all.
ProjectionPending ==
  IF \A i \in pending : i \in proof /\ ops[i].clock > head THEN pending ELSE {}

-----------------------------------------------------------------------------
Init ==
  /\ ops = <<>>
  /\ body = [i \in Ids |-> "short"]
  /\ pending = {} /\ deps = {} /\ proof = {} /\ claim = {}
  /\ head = 0
  /\ base = [mine |-> {}, peers |-> {}]
  /\ wire = {} /\ answers = {}
  /\ log = [mine |-> {}, peers |-> {}, said |-> [i \in Ids |-> "short"]]
  /\ accepted = {}
  /\ stray = {}

\* A user action creates the next operation, persisted with its proof.
Create(op, b) ==
  LET i == Len(ops) + 1 IN
  /\ i \in Ids
  /\ \A j \in Created : ops[j].clock < op.clock
  /\ op.kind = "start" => op.timer = i
  /\ op.kind # "start" =>
       op.timer = 0 \/ (op.timer \in Created /\ ops[op.timer].kind = "start")
  /\ op.parent = 0 \/ op.parent \in pending
  /\ op.gen => /\ op.kind = "start" /\ op.parent # 0
               /\ ops[op.parent].kind = "finish"
               /\ BreakOf(op.parent) = {}
  /\ ~ op.gen => b = IF op.timer \in Created THEN body[op.timer] ELSE "short"
  /\ ops' = Append(ops, op)
  /\ body' = [body EXCEPT ![i] = b]
  /\ pending' = pending \cup {i}
  /\ proof' = proof \cup {i}
  /\ deps' = IF op.parent = 0 THEN deps ELSE deps \cup {i}
  /\ UNCHANGED <<claim, head, base, wire, answers, log, accepted, stray>>

\* Mutant: a claim retires the proofs of everything that waits.
RetiredWithQueue(batch) == pending

\* The operations whose proof a claim retires.
Retired(batch) == batch

\* The planner's batch (BatchPlan): a prefix of the queue that ends before
\* the first held child.  Claim and retired proofs are one transaction.
Claim(n) ==
  LET batch == {i \in pending : i <= n /\ \A c \in deps : i < c} IN
  /\ claim = {} /\ n \in batch
  /\ claim' = batch
  /\ proof' = proof \ Retired(batch)
  /\ UNCHANGED <<ops, body, pending, deps, head, base, wire, answers, log,
                 accepted, stray>>

\* The first attempt, or another one after a timeout or a restart.
Send ==
  /\ claim # {}
  /\ Cardinality(wire) < MaxFlight
  /\ wire' = wire \cup {[says |-> [i \in claim |-> body[i]], claimed |-> TRUE]}
  /\ UNCHANGED <<ops, body, pending, deps, proof, claim, head, base, answers,
                 log, accepted, stray>>

\* The server takes a request, perhaps not for the first time: what it has
\* already is kept, the rest is appended, and everything is acknowledged to
\* whoever sent it.
Serve(r) ==
  LET sent == DOMAIN r.says IN
  /\ r.claimed => Cardinality(answers) < MaxFlight
  /\ log' = [log EXCEPT !.mine = @ \cup sent,
                        !.said = [i \in Ids |-> IF i \in sent \ log.mine
                                                THEN r.says[i] ELSE @[i]]]
  /\ answers' = IF r.claimed
                THEN answers \cup {[acks |-> sent, mine |-> log.mine \cup sent,
                                    peers |-> log.peers]}
                ELSE answers
  /\ UNCHANGED <<ops, body, pending, deps, proof, claim, head, base, wire,
                 accepted, stray>>

\* Another device writes at any clock, also at one used here.
PeerWrite(c) ==
  /\ Cardinality(log.peers) < MaxPeers
  /\ c \notin log.peers
  /\ log' = [log EXCEPT !.peers = @ \cup {c}]
  /\ UNCHANGED <<ops, body, pending, deps, proof, claim, head, base, wire,
                 answers, accepted, stray>>

LoseRequest(r) ==
  /\ wire' = wire \ {r}
  /\ UNCHANGED <<ops, body, pending, deps, proof, claim, head, base, answers,
                 log, accepted, stray>>

LoseAnswer(a) ==
  /\ answers' = answers \ {a}
  /\ UNCHANGED <<ops, body, pending, deps, proof, claim, head, base, wire,
                 log, accepted, stray>>

\* The server's head: the maximum of all the clocks in its log.
IsHead(h, snap) ==
  LET clocks == {0} \cup snap.peers \cup {ops[i].clock : i \in snap.mine}
  IN  h \in clocks /\ \A c \in clocks : c <= h

\* The transaction that installs a response: acknowledged and dropped
\* operations leave, dependents are promoted, the snapshot is replaced.
Install(snap, acks, outcome, say, h) ==
  LET kept == Kept(acks, outcome, say) IN
  /\ ~ Refused(acks, outcome, say)
  /\ IsHead(h, snap)
  /\ pending' = kept
  /\ body' = [i \in Ids |-> IF i \in kept
                            THEN NormalBody(acks, outcome, say, i)
                            ELSE body[i]]
  /\ deps' = StillHeld(acks, outcome, say)
  /\ proof' = proof \cap kept
  /\ head' = h
  /\ base' = snap
  /\ accepted' = accepted \cup Barriers(acks, outcome, say)
  /\ UNCHANGED <<ops, log, stray>>

Verdict == [completion : Completions, superseded : BOOLEAN, long : BOOLEAN]

\* A response counts only if it acknowledges exactly what was claimed.
Matches(a) == claim # {} /\ a.acks = claim

Receive(a) ==
  /\ Matches(a)
  /\ \E outcome \in [a.acks -> Outcomes], say \in [Sources(a.acks) -> Verdict],
        h \in Clocks :
       Install([mine |-> a.mine, peers |-> a.peers], a.acks, outcome, say, h)
  /\ claim' = {}
  /\ answers' = answers \ {a}
  /\ UNCHANGED wire

\* A response to a request that carried nothing.
Pull ==
  /\ \E h \in Clocks :
       Install([mine |-> log.mine, peers |-> log.peers], {}, <<>>, <<>>, h)
  /\ UNCHANGED <<claim, wire, answers>>

\* An operation leaves by another way than a claim: a release that recorded
\* no claims sent it, or a peer got it.  Its proof is gone, and the answer is
\* for somebody else.
SendStray(i) ==
  /\ i \in proof
  /\ Cardinality(stray) < MaxStray /\ Cardinality(wire) < MaxFlight
  /\ proof' = proof \ {i}
  /\ stray' = stray \cup {i}
  /\ wire' = wire \cup {[says |-> [j \in {i} |-> body[j]], claimed |-> FALSE]}
  /\ UNCHANGED <<ops, body, pending, deps, claim, head, base, answers, log,
                 accepted>>

Next ==
  \/ \E o \in Menu, c \in Clocks, b \in Bodies :
       Create([o EXCEPT !.clock = c], b)
  \/ \E n \in Ids : Claim(n)
  \/ Send
  \/ \E r \in wire : Serve(r) \/ LoseRequest(r)
  \/ \E a \in answers : Receive(a) \/ LoseAnswer(a)
  \/ \E c \in Clocks : PeerWrite(c)
  \/ Pull
  \/ \E i \in Ids : SendStray(i)

Spec == Init /\ [][Next]_vars

Answer == \E a \in answers : Receive(a)
Awaited(r) == r.claimed /\ DOMAIN r.says = claim

Answering == \E r \in wire : Serve(r) /\ Awaited(r)

StaleRequestLeaves == \E r \in wire : LoseRequest(r) /\ ~ Awaited(r)
StaleAnswerLeaves  == \E a \in answers : LoseAnswer(a) /\ ~ Matches(a)

\* The host plans and sends again and again, a network that is tried again
\* and again lets a request and its response through, and a message that
\* nobody waits for leaves the network at last.
Fairness ==
  /\ \A n \in Ids : WF_vars(Claim(n))
  /\ WF_vars(Send) /\ SF_vars(Answering) /\ SF_vars(Answer)
  /\ WF_vars(StaleRequestLeaves) /\ WF_vars(StaleAnswerLeaves)

FairSpec == Spec /\ Fairness

-----------------------------------------------------------------------------
(* Type correctness.                                                       *)
TypeOK ==
  /\ ops \in Seq(Op) /\ Len(ops) <= MaxOps
  /\ body \in [Ids -> Bodies]
  /\ pending \subseteq Created /\ deps \subseteq pending
  /\ proof \subseteq pending /\ claim \subseteq pending
  /\ head \in Clocks /\ base \in Snapshot
  /\ \A r \in wire : DOMAIN r.says \subseteq Created
  /\ accepted \subseteq Created
  /\ stray \subseteq Created

\* Every dependency that is left joins two retained commands, the parent
\* first.
NoDanglingDependency ==
  \A c \in deps : ops[c].parent \in pending /\ ops[c].parent < c

(* What a response leaves behind is well formed, and no dependency dangles: *)
(* it would make every later reconciliation fail (timer_dependencies.rs     *)
(* validates that both ends of each edge are retained).                     *)
Consistent == TypeOK /\ NoDanglingDependency

(* Every copy of an operation that is on its way, in the log or retained   *)
(* for another attempt says the same: no response rewrites what may have   *)
(* been delivered (IMMUTABLE_RECONCILIATION.md, Client migration, 3).      *)
ImmutableRetry ==
  \A r \in wire : \A i \in DOMAIN r.says :
    /\ i \in log.mine => log.said[i] = r.says[i]
    /\ i \in pending => body[i] = r.says[i]

(* A dependent leaves the device only after the acknowledgement of its     *)
(* parent opened it, through any losses, repetitions and restarts.         *)
ChildAfterParent ==
  \A i \in (claim \cup log.mine) \ stray :
    ops[i].parent # 0 => ops[i].parent \in accepted

(* What the user sees is what a replay of one complete log would show: a   *)
(* shown operation is not part of the snapshot already, follows everything *)
(* in it whatever the tie break, and hides no earlier retained operation.  *)
ProjectionIsReplay ==
  \A i \in ProjectionPending :
    /\ i \notin base.mine
    /\ \A j \in base.mine : ops[j].clock < ops[i].clock
    /\ \A c \in base.peers : c < ops[i].clock
    /\ \A j \in pending : j < i => j \in ProjectionPending

(* An operation that left the outbox for the server stays visible: every   *)
(* snapshot installed since then contains it, also one that a late         *)
(* response brought.                                                       *)
SettledVisible ==
  \A i \in Created \ pending : i \in log.mine => i \in base.mine

(* No response to a device that kept its proofs is refused for what may    *)
(* have been delivered: of the refusals that lie in the queue only one is  *)
(* left, that the server completed a focus outside the day that its device *)
(* recorded.  There the claim stays until it is recovered by hand.         *)
NeverRefused ==
  stray = {} =>
    \A a \in answers :
      Matches(a) =>
        \A outcome \in [a.acks -> Outcomes], say \in [Sources(a.acks) -> Verdict] :
          (\A f \in Sources(a.acks) : say[f].completion # "outside")
            => ~ Refused(a.acks, outcome, say)

(* The generated breaks that a step lets go; one is alone when its finish   *)
(* has settled and nothing that the user started since is in the queue.    *)
Begun == {g \in deps \ deps' : ops[g].gen /\ g \in pending'}

Alone(g) ==
  /\ ops[g].parent \in log.mine \ pending'
  /\ \A i \in pending' : i > g /\ ops[i].kind = "start" => i \in deps

(* A break that was generated for a finish is let go only once the server   *)
(* has the finish, and never while a start that the user asked for in the  *)
(* meantime waits behind it, whenever that was made and however often the  *)
(* answer was lost and asked for again (is_accepted).                      *)
BreakGivesWay == [][\A g \in Begun : Alone(g)]_vars

(* Every operation leaves the outbox in the end: sent and acknowledged, or  *)
(* dropped because what it depended on did not take effect.                *)
Drains == \A i \in Ids : i \in pending ~> i \notin pending

-----------------------------------------------------------------------------
(* The promise of the outbox, and how this state realizes it.              *)

Stage(i) ==
  IF i \notin Created THEN "absent"
  ELSE IF i \in pending THEN IF i \in log.mine THEN "delivered" ELSE "queued"
  ELSE IF i \in log.mine THEN "settled" ELSE "dropped"

Promise == INSTANCE ImmutableDelivery WITH
  Contents <- Bodies,
  stage    <- [i \in Ids |-> Stage(i)],
  content  <- [i \in Ids |-> IF i \in log.mine THEN log.said[i] ELSE body[i]]

(* Every behaviour of the outbox is one that the promise allows: nothing   *)
(* that may have been delivered is given up or rewritten, and nothing      *)
(* settles before it was delivered.                                        *)
KeepsPromise == Promise!Spec
=============================================================================
