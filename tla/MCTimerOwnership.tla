-------------------------- MODULE MCTimerOwnership --------------------------
(* Two tabs, a focus timer of this device and one of the other, and the     *)
(* break that a finish generates.                                           *)
EXTENDS TimerOwnership, TLC

CONSTANTS focus1, focus2, break1, tab1, tab2

(* Tabs and focus timers are interchangeable.                               *)
Symmetry == Permutations(Tabs) \cup Permutations({focus1, focus2})
=============================================================================
