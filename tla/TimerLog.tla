------------------------------ MODULE TimerLog ------------------------------
(***************************************************************************)
(* The log that a replay reads: commands whose ids give their order, the   *)
(* payload of each one of a given set.                                     *)
(***************************************************************************)
EXTENDS TimerBoundary

CONSTANTS
  Payloads,     \* what a command may ask for: a Command without its id
  MaxCommands,  \* bound: commands applied in one behaviour
  Instants      \* the instants at which the projection is read

Payload ==
  [timer : Timers, task : Tasks \cup {None}, kind : Kinds, phase : Phases,
   planned : Nat, at : Int, observed : Int]

ASSUME LogAssumption ==
  MaxCommands \in Nat /\ Instants \subseteq Int /\ Payloads \subseteq Payload

Numbered(p, id) ==
  [id |-> id, timer |-> p.timer, task |-> p.task, kind |-> p.kind,
   phase |-> p.phase, planned |-> p.planned, at |-> p.at,
   observed |-> p.observed]
=============================================================================
