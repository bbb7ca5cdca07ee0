---------------------------- MODULE MCBatchPlan -----------------------------
(***************************************************************************)
(* The command queue is longer than a batch and holds chains of            *)
(* dependencies; one other domain is longer than its limit.                *)
(***************************************************************************)
EXTENDS BatchPlan

MCRoom == [d \in Domains |-> CASE d = 0 -> 3 [] d = 1 -> 2 [] OTHER -> 1]
=============================================================================
