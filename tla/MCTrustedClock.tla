--------------------------- MODULE MCTrustedClock ---------------------------
(* A skew of 4, an uncertainty of 2 and a drift of 1 stand for 300,000,     *)
(* 30,000 and 1,000 milliseconds.  An edit moves the wall clock by 3: a     *)
(* recovery soon after the sample accepts that, a later one does not.       *)
EXTENDS TrustedClock

AllProfiles == {"apple", "android", "desktop", "pwa"}
=============================================================================
