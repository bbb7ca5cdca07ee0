------------------------ MODULE MCLegacyDependencies ------------------------
(* LegacyDependencies with a long break that the account has shortened: a  *)
(* control may have observed more of it than it will last.                 *)
EXTENDS LegacyDependencies

MCTimers == 1 .. MaxCommands + 4

MCOldLengths == [short_break |-> 2, long_break |-> 3]
MCNewLengths == [short_break |-> 2, long_break |-> 1]
=============================================================================
