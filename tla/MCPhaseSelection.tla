-------------------------- MODULE MCPhaseSelection --------------------------
(***************************************************************************)
(* PhaseSelection on a small instance.                                     *)
(***************************************************************************)
EXTENDS PhaseSelection

AllTimers == 1 .. 6

Commands == [p \in Profiles |-> IF p \in {"desktop", "pwa"} THEN 3 ELSE 4]
=============================================================================
