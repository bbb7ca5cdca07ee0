--------------------------- MODULE MCPagedReplay ---------------------------
(***************************************************************************)
(* Two timers, so that a page may know one, both or none of them, and      *)
(* pages of at most two commands.                                          *)
(***************************************************************************)
EXTENDS PagedReplay

CONSTANTS a, b, k

P(kind, t, task, at, observed) ==
  [timer |-> t, task |-> task, kind |-> kind, phase |-> "focus",
   planned |-> 2, at |-> at, observed |-> observed]

MCPayloads ==
  LET T == {a, b}
  IN  {P("start", t, None, at, 0) : t \in T, at \in {0, 3}}
      \cup {P(kd, t, None, 1, 1) : kd \in {"pause", "resume", "finish"}, t \in T}
      \cup {P(kd, t, None, 3, o) : kd \in {"cancel", "clear"}, t \in T, o \in {-1, 3}}
      \cup {P("retarget", t, k, 1, 0) : t \in T}
=============================================================================
