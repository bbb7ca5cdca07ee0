------------------------- MODULE ImmutableDelivery -------------------------
(***************************************************************************)
(* What the outbox promises for every operation (IMMUTABLE_RECONCILIATION  *)
(* .md): its content may change only until it is delivered for the first   *)
(* time, it is given up only if it never was and never will be delivered,  *)
(* and it leaves the outbox otherwise only after its delivery.             *)
(***************************************************************************)
CONSTANTS
  Ids,      \* operation identities
  Contents  \* what an operation may say

VARIABLES
  stage,   \* the stage of each operation
  content  \* its content, meaningful from "queued" on

Stages == {"absent", "queued", "delivered", "settled", "dropped"}

Init ==
  /\ stage = [i \in Ids |-> "absent"]
  /\ content \in [Ids -> Contents]

\* The step of one operation.  Several may take one at once: a request
\* delivers a batch, and one response settles, rewrites and drops.
OneStep(i) ==
  \/ stage'[i] = stage[i] /\ content'[i] = content[i]
  \/ stage[i] = "absent"    /\ stage'[i] = "queued"
  \/ stage[i] = "queued"    /\ stage'[i] \in {"queued", "dropped"}
  \/ stage[i] = "queued"    /\ stage'[i] = "delivered" /\ content'[i] = content[i]
  \/ stage[i] = "delivered" /\ stage'[i] = "settled"   /\ content'[i] = content[i]

Next ==
  /\ stage' \in [Ids -> Stages] /\ content' \in [Ids -> Contents]
  /\ \A i \in Ids : OneStep(i)

Spec == Init /\ [][Next]_<<stage, content>>
=============================================================================
