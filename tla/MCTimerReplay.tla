--------------------------- MODULE MCTimerReplay ---------------------------
(***************************************************************************)
(* Small instances of TimerReplay.  A planned time of two ticks and the    *)
(* instants 0..3 let a command occur before, at and after a deadline.      *)
(***************************************************************************)
EXTENDS TimerReplay

CONSTANTS a, b, old, k

P(kind, t, task, phase, at, observed) ==
  [timer |-> t, task |-> task, kind |-> kind, phase |-> phase, planned |-> 2,
   at |-> at, observed |-> observed]

MCPayloads ==
  LET T == {a, b}
  IN  {P("start", t, None, ph, at, 0) :
         t \in T, ph \in {"focus", "short_break"}, at \in {0, 1, 3}}
      \cup {P(kd, t, None, "focus", at, o) :
              kd \in {"pause", "resume", "cancel"}, t \in T,
              at \in {0, 3}, o \in {-1, 1}}
      \cup {P(kd, t, None, "focus", at, 0) :
              kd \in {"finish", "clear"}, t \in T, at \in {0, 3}}
      \cup {P("retarget", t, k, "focus", at, 0) : t \in T, at \in {1, 3}}
      \cup {P("unknown", a, None, "focus", 3, 0)}

MCSnap(status, elapsed, anchor, intent) ==
  [timer |-> a, task |-> None, phase |-> "focus", status |-> status,
   planned |-> 2, elapsed |-> elapsed, anchor |-> anchor, intent |-> intent]

MCIntent(kind, at) == [kind |-> kind, cmd |-> 1, at |-> at]

MCBaseTimers ==
  {None}
  \cup {snap \in {MCSnap(s, e, at, i) :
                 s \in Active \cup Ended, e \in {0, 2}, at \in {0, 1},
                 i \in {None} \cup {MCIntent(kd, 0) :
                                     kd \in Lifecycle \ {"clear"}}} :
           ActiveIntentOK(snap)}

MCRow(id, t, cmd, status) ==
  [id |-> id, timer |-> t, task |-> None, cmd |-> cmd, phase |-> "focus",
   status |-> status, planned |-> 2, ended |-> 1,
   completed |-> IF status = "completed" THEN 1 ELSE None]

\* At most one row for each timer.
MCBaseHistories ==
  LET Rows(t, ids) ==
        {{}} \cup {{MCRow(id, t, cmd, s)} :
                     id \in ids, cmd \in {None, 1, 2}, s \in Ended}
  IN  {x \cup y : x \in Rows(a, {a, b, old}), y \in Rows(b, {b})}

MCInstants == 0 .. 4
=============================================================================
