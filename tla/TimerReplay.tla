---------------------------- MODULE TimerReplay ----------------------------
(***************************************************************************)
(* One replay of the timer domain: a reduction seeded from an accepted     *)
(* snapshot, to which commands are applied in operation order.  The order  *)
(* (HLC, device, id) is sorted by the caller, so the k-th command applied  *)
(* here is any command whose key follows the earlier ones; its occurredAt  *)
(* may still precede theirs, since devices disagree about physical time.   *)
(***************************************************************************)
EXTENDS TimerLog

CONSTANTS
  BaseTimers,   \* canonical timers a replay may start from, None included
  BaseHistories,  \* sets of history rows a replay may start from
  FirstId       \* command ids below FirstId belong to the base

\* A command issued after the snapshot cannot have an id the snapshot uses.
BaseIdOK(i) == i = None \/ i.cmd < FirstId

\* An active timer carries the intent that activated it, no later than its
\* anchor, or none when it was imported: the only active snapshots that a
\* reduction projects.
ActiveIntentOK(snap) ==
  snap.intent # None =>
    /\ snap.status = "running" => /\ snap.intent.kind \in {"start", "resume"}
                                  /\ snap.intent.at <= snap.anchor
    /\ snap.status = "paused" => snap.intent.kind = "pause"

ASSUME ReplayAssumption ==
  /\ FirstId \in Nat
  /\ BaseTimers \subseteq Snapshot \cup {None}
  /\ BaseHistories \subseteq SUBSET Row
  /\ \A snap \in BaseTimers \ {None} :
       BaseIdOK(snap.intent) /\ ActiveIntentOK(snap)
  /\ \A rows \in BaseHistories : \A r \in rows : r.cmd = None \/ r.cmd < FirstId

VARIABLES
  st,    \* the reduction state
  next,  \* the id of the next command
  last   \* the command just applied, or None

vars == <<st, next, last>>

Init ==
  /\ \E timer \in BaseTimers, rows \in BaseHistories :
       /\ ValidPair(timer, rows)
       /\ st = Seed(timer, rows)
  /\ next = FirstId
  /\ last = None

Issue(p) == Numbered(p, next)

Step(p) ==
  /\ next < FirstId + MaxCommands
  /\ st' = Apply(st, Issue(p))
  /\ next' = next + 1
  /\ last' = Issue(p)

ApplyStart      == \E p \in Payloads : p.kind = "start" /\ Step(p)
ApplyActivation == \E p \in Payloads : p.kind \in {"pause", "resume"} /\ Step(p)
ApplyTerminal   == \E p \in Payloads : p.kind \in {"finish", "cancel"} /\ Step(p)
ApplyClear      == \E p \in Payloads : p.kind = "clear" /\ Step(p)
ApplyRetarget   == \E p \in Payloads : p.kind = "retarget" /\ Step(p)
ApplyUnknown    == \E p \in Payloads : p.kind = "unknown" /\ Step(p)

Next ==
  \/ ApplyStart \/ ApplyActivation \/ ApplyTerminal \/ ApplyClear
  \/ ApplyRetarget \/ ApplyUnknown

Spec == Init /\ [][Next]_vars

-----------------------------------------------------------------------------
(* Type correctness of the reduction state.                                *)
TypeOK ==
  /\ st \in Reduction
  /\ next \in Nat
  /\ last \in Command \cup {None}

(* A timer other than the current one can still be running or paused only  *)
(* if somebody cleared it from the screen: supersede_active only ever looks *)
(* at the current timer, and must still leave no second live timer behind. *)
LiveTimerUnique ==
  \A t \in Timers :
    /\ st.sessions[t] # None
    /\ IsActive(st.sessions[t])
    /\ st.current # t
    => /\ st.sessions[t].intent # None
       /\ st.sessions[t].intent.kind = "clear"

(* Whatever commands were replayed, and whenever it is read, the projected *)
(* timer and history form a pair that the boundary's own validation        *)
(* accepts, so the next read of the stored projection does not fail        *)
(* (timer/workspace.rs, replay: "must not return a timer/history aggregate *)
(* that its own next zero-command read rejects").                          *)
ProjectionReadable ==
  \A now \in Instants :
    LET p == Projected(st, now) IN ValidPair(Canonical(p), History(p))

(* A timer started here and ended by its deadline ended exactly when its   *)
(* planned time was over, however late the replay noticed it.              *)
NaturalEndAtDeadline ==
  \A t \in Timers :
    LET s == st.sessions[t] IN
      /\ s # None /\ s.status = "completed" /\ s.terminalCmd = None
      /\ s.intent # None /\ s.intent.kind = "start" /\ s.intent.cmd >= FirstId
      => s.ended = s.intent.at + s.planned

(* Reading late is the same as reading early and then again: the deadline  *)
(* that a read applies does not depend on who read before.                 *)
DeadlineReadStable ==
  \A n1, n2 \in Instants :
    n1 <= n2 => Projected(Projected(st, n1), n2) = Projected(st, n2)

(* The timer that superseded another one is a known session, and it was    *)
(* addressed by that command or by a later one.                            *)
SupersederKnown ==
  \A t \in Timers :
    LET s == st.sessions[t] IN
      s # None /\ s.supersededBy # None =>
        /\ s.status = "superseded" /\ s.supersededBy # t
        /\ st.sessions[s.supersededBy] # None
        /\ st.sessions[s.supersededBy].lastCmd # None
        /\ st.sessions[s.supersededBy].lastCmd >= s.terminalCmd

(* A terminal session is history: only a command addressed to that very    *)
(* timer may change it again.                                              *)
EndedRewrittenOnlyByOwner ==
  [][\A t \in Timers :
       /\ st.sessions[t] # None
       /\ st.sessions[t].status \in Ended
       /\ st'.sessions[t] # st.sessions[t]
       => last'.timer = t]_vars
=============================================================================
