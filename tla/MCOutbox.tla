------------------------------ MODULE MCOutbox ------------------------------
(***************************************************************************)
(* The operations a user of one device may create.                         *)
(***************************************************************************)
EXTENDS Outbox

Shape(kind, timer, parent, gen) ==
  [kind |-> kind, timer |-> timer, clock |-> 0, parent |-> parent, gen |-> gen]

\* A focus is finished, its break starts by itself and is edited or finished;
\* the user may also start something else, depending on nothing or on it.
MCMenu ==
  {Shape("finish", 0, 0, FALSE), Shape("edit", 0, 1, FALSE),
   Shape("start", 2, 1, TRUE), Shape("edit", 2, 2, FALSE),
   Shape("finish", 2, 2, FALSE), Shape("start", 3, 0, FALSE)}
=============================================================================
