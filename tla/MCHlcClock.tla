----------------------------- MODULE MCHlcClock -----------------------------
(* Two devices: a third one only adds longer chains of receipts.           *)
EXTENDS HlcClock, TLC

CONSTANTS d1, d2

MCDevices == {d1, d2}
MCSymmetry == Permutations(MCDevices)
=============================================================================
