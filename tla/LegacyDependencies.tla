------------------------- MODULE LegacyDependencies -------------------------
(***************************************************************************)
(* The migration of timer dependencies (src/legacy_dependencies): a client *)
(* that was built before them left commands that name the finish they      *)
(* followed; the plan makes edges of those, or discharges them on evidence *)
(* that the server took the finish, or asks for a decision and writes      *)
(* nothing.  The old client (PWA or Android), the server and another       *)
(* device make the workspaces that are migrated.                           *)
(*                                                                         *)
(* A command's number is its identity, its place in the order of clocks    *)
(* and of device sequences; a timer has the number of its start.  Civil    *)
(* days stand for the intervals that a row or the platform gives.          *)
(***************************************************************************)
EXTENDS CompletionState

CONSTANTS
  Profiles,     \* subset of {"android", "pwa"}
  Planned,      \* the planned duration of a focus
  OldLengths,   \* the durations of breaks that this client has installed
  NewLengths,   \* what they are in the account by now
  MaxNow,       \* bound: the last instant
  MaxCommands,  \* bound: commands of this device before the migration
  MaxRefused    \* bound: commands the server refuses

Breaks == {"short_break", "long_break"}

ASSUME LegacyAssumption ==
  /\ Profiles \subseteq {"android", "pwa"}
  /\ {Planned, MaxNow, MaxCommands, MaxRefused} \subseteq Nat
  /\ {OldLengths, NewLengths} \subseteq [Breaks -> Nat]
  /\ 1 .. MaxCommands + 4 \subseteq Timers

VARIABLES
  profile,  \* which client this is
  now,      \* the time everywhere
  made,     \* every command; src, gen and day are what the old client noted
  queue,    \* the retained commands
  unsent,   \* those of them proven never sent (neverSent)
  saved,    \* the commands of the saved request, or None (outgoing)
  acks,     \* the outcomes that were stored for it (sourceAcknowledgements)
  base,     \* the installed snapshot: timer, rows and durations of breaks
  deps,     \* the recorded edges (timerDependencies), None before migration
  log,      \* the commands the server has taken
  refused   \* the commands the server has refused

vars == <<profile, now, made, queue, unsent, saved, acks, base, deps, log,
          refused>>

Days == {Day(t) : t \in 0 .. MaxNow}

\* The retained commands over the snapshot, before any deadline is read, and
\* what the client shows.
Unexpired == Reduced(base, made, queue)
Here == Shown(Projected(Unexpired, now))

-----------------------------------------------------------------------------
(* Evidence (legacy_dependencies/evidence.rs).                             *)

CompletedBy(rows, f) ==
  {r \in rows : r.cmd = f /\ r.phase = "focus" /\ r.status = "completed"}

\* canonical_completion: in the history, or as the canonical timer.
CanonicalCompletion(f) ==
  LET timer == base.timer
  IN  CompletedBy(base.rows, f)
        \cup {HistoryRow(timer.timer, [SessionFromCanonical(timer) EXCEPT
                                         !.terminalCmd = f]) :
                x \in IF /\ timer # None /\ CompletedBy(base.rows, f) = {}
                         /\ timer.phase = "focus" /\ timer.status = "completed"
                         /\ timer.intent # None
                         /\ timer.intent.kind = "finish" /\ timer.intent.cmd = f
                      THEN {timer} ELSE {}}

SavedCommand(f) == saved # None /\ f \in saved

\* validate_claim: nothing that was sent is proven never sent, and nothing is
\* acknowledged that was not sent.
ValidClaim ==
  /\ \A f \in unsent : ~ SavedCommand(f)
  /\ \A f \in DOMAIN acks : SavedCommand(f)

Acknowledged(f, outcomes) == f \in DOMAIN acks /\ acks[f] \in outcomes

\* bounds: the day of an edge, or the interval that the platform knows.
Bounds(e, row, calendar) ==
  {d \in IF e.day = None THEN calendar ELSE {e.day} : d = Day(row.ended)}

Identity(r) == IF r.cmd = None THEN r.timer ELSE r.cmd

\* What was over when the source was, ties in the order of identities.
Causal(rows, source) ==
  {r \in rows : \/ r.ended < source.ended
                \/ r.ended = source.ended /\ Identity(r) <= source.cmd}

\* Mutant: later completions of the day count.
PhaseOfTheDay(rows, source, day) == PhaseAfter("focus", rows, day)

ExpectedPhase(rows, source, day) ==
  PhaseAfter("focus", Causal(rows, source) \cup {source}, day)

-----------------------------------------------------------------------------
(* The plan (legacy_dependencies/graph.rs).  An edge is a record child,    *)
(* parent, gen, day.                                                       *)

IsBreakStart(i) == made[i].kind = "start" /\ made[i].phase \in Breaks

Generated(i, p, gen) ==
  /\ IsBreakStart(i)
  /\ made[p].kind = "finish" /\ made[p].phase = "focus"
  /\ gen \/ profile = "android"

RetainedEdges ==
  {[child |-> i, parent |-> made[i].src, day |-> made[i].day,
    gen |-> \/ made[i].gen
            \/ /\ profile = "android"
               /\ made[i].src \in queue \/ SavedCommand(made[i].src)
               /\ Generated(i, made[i].src, FALSE)] :
     i \in {j \in queue : made[j].src # None}}

\* Mutant: what the rows say is believed again after it was migrated.
EdgesOfRows == RetainedEdges

\* Recorded edges are authoritative, also when there are none.
Edges == IF deps = None THEN RetainedEdges ELSE deps

WellFormed(E) ==
  /\ \A e, d \in E : e.child = d.child => e = d
  /\ \A e \in E : /\ e.child \in queue
                  /\ e.parent \in queue => e.parent < e.child
                  /\ e.day # None => e.gen

Error      == [kind |-> "error"]
Undecided == [kind |-> "unresolved"]
Discharged == [kind |-> "discharged"]
Keep(e)    == [kind |-> "keep", edge |-> e]

\* The generated starts that name the same finish as the control e.child.
Siblings(E, e) ==
  {d.child : d \in
     {x \in E : /\ made[x.child].kind = "start" /\ x.parent = e.parent
                /\ x.gen \/ (x.parent \in queue
                             /\ Generated(x.child, x.parent, x.gen))
                /\ made[x.child].timer = made[e.child].timer}}

Earlier(i, start) ==
  {j \in queue : made[j].own /\ made[j].timer = made[i].timer
                 /\ start <= j /\ j < i}

\* Mutant: a control goes on waiting for the finish.
UpgradedNever(e, start) == e

\* upgrade: a control waits for the last earlier command of its timer.
Upgraded(e, start) ==
  [e EXCEPT !.parent =
     CHOOSE j \in Earlier(e.child, start) :
       \A k \in Earlier(e.child, start) : k <= j]

Ancestors(E) ==
  LET above[i \in DOMAIN made] ==
        LET up == {e.parent : e \in {d \in E : d.child = i}}
        IN  up \cup UNION {above[j] : j \in up}
  IN  above

\* generated_batch.
Batch(E, f, start) ==
  {r \in queue : made[r].timer = made[start].timer /\ f \in Ancestors(E)[r]}

\* Members that may have been delivered and do not say what is asked.
FrozenOtherwise(batch, phase, planned) ==
  \E r \in batch \ unsent :
    \/ made[r].phase # phase \/ made[r].planned # planned
    \/ Clamp(made[r].observed, 0, planned) # made[r].observed

\* frozen_payload_requires_decision.
FrozenPayload(batch, start, phase) ==
  IF \E r \in batch : made[r].kind = "finish"
  THEN FrozenOtherwise(batch, made[start].phase, made[start].planned)
  ELSE FrozenOtherwise(batch, phase, base.lengths[phase])

\* pending_generated: a break whose finish is retained.  source is what the
\* finish completed, days what is known of its day.
Pending(E, e, rows, source, days) ==
  CASE \/ source.timer # made[e.parent].timer
       \/ source.planned # made[e.parent].planned
       \/ source.ended > made[e.child].at
       \/ e.day # None /\ days = {} -> Error
    [] OTHER ->
         IF \/ days = {}
            \/ \E day \in days : FrozenPayload(Batch(E, e.parent, e.child), e.child,
                                               ExpectedPhase(rows, source, day))
         THEN Undecided
         ELSE Keep([e EXCEPT !.gen = TRUE, !.day = CHOOSE day \in days : TRUE])

PendingSource(E, e, rows, exact, calendar) ==
  LET source == CHOOSE r \in exact : TRUE
  IN  IF exact = {} THEN Undecided
      ELSE Pending(E, e, rows, source, Bounds(e, source, calendar))

PendingGenerated(E, e, rows, calendar) ==
  PendingSource(E, e, rows, CompletedBy(rows, e.parent), calendar)

\* Exact completion, the saved finish and its stored acknowledgement.
Evidence(f) ==
  /\ CanonicalCompletion(f) # {}
  /\ SavedCommand(f)
  /\ Acknowledged(f, {"applied", "ignored"})

\* saved_finish, saved_causality.
Contradicted(f, source, child) ==
  \/ made[f].kind # "finish" \/ made[f].phase # "focus"
  \/ source.timer # made[f].timer \/ source.planned # made[f].planned
  \/ source.ended # made[f].at
  \/ f >= child

\* missing, discharge: an edge whose parent is not retained.
Discharge(e, source, days) ==
  LET start == made[e.child] IN
  CASE Contradicted(e.parent, source, e.child) -> Error
    [] OTHER ->
         CASE ~ IsBreakStart(e.child) -> Undecided
           [] IsBreakStart(e.child)
                /\ \/ source.ended > start.at
                   \/ e.day # None /\ days = {} -> Error
           [] OTHER ->
                IF \E day \in days :
                     /\ start.phase = ExpectedPhase(base.rows, source, day)
                     /\ start.planned = base.lengths[start.phase]
                THEN Discharged ELSE Undecided

Missing(e, calendar) ==
  LET source == CHOOSE r \in CanonicalCompletion(e.parent) : TRUE
  IN  IF ~ Evidence(e.parent) THEN Undecided
      ELSE Discharge(e, source, Bounds(e, source, calendar))

\* An edge whose parent, after the upgrade, is known.
Classified(E, e, rows, calendar) ==
  CASE e.parent \notin queue -> Missing(e, calendar)
    [] e.parent \in queue /\ Generated(e.child, e.parent, e.gen) ->
         PendingGenerated(E, e, rows, calendar)
    [] OTHER -> IF e.gen THEN Error ELSE Keep(e)

Verdict(E, e, rows, calendar) ==
  LET starts   == Siblings(E, e)
      start    == CHOOSE s \in starts : TRUE
      upgrades == made[e.child].kind # "start" /\ starts # {}
  IN  IF Acknowledged(e.parent, {"rejected"}) THEN Undecided
      ELSE IF upgrades /\ (Cardinality(starts) # 1 \/ start >= e.child) THEN Error
      ELSE IF upgrades /\ e.child \notin unsent THEN Undecided
      ELSE Classified(E, IF upgrades THEN Upgraded(e, start) ELSE e, rows, calendar)

\* What v3 asks of the edges (timer_dependencies::validate_retained).
Admissible(D) ==
  /\ WellFormed(D)
  /\ \A e \in D :
       /\ e.parent \in queue
       /\ e.gen => /\ e.day # None /\ IsBreakStart(e.child)
                   /\ made[e.parent].kind = "finish"
                   /\ made[e.parent].phase = "focus"
                   /\ \A d \in D : d.gen /\ d.parent = e.parent => d = e

\* output: a workspace is migrated as a whole or not at all.
Output(verdicts, whole) ==
  LET kinds == {v.kind : v \in verdicts}
      kept  == {v.edge : v \in {x \in verdicts : x.kind = "keep"}}
  IN  CASE "error" \in kinds -> Error
        [] "error" \notin kinds
             /\ \/ "unresolved" \in kinds
                \/ \E f \in DOMAIN acks : acks[f] = "rejected"
                \/ saved # None /\ ~ whole -> [kind |-> "blocked"]
        [] OTHER -> IF ~ Admissible(kept) THEN Error
                    ELSE [kind |-> IF kept = deps THEN "noop" ELSE "planned",
                          deps |-> kept]

Verdicts(E, rows, calendar) == {Verdict(E, e, rows, calendar) : e \in E}

\* plan_json, over the rows that are shown.  The platform gives the days of
\* calendar; whole says that the saved body is there and complete.
Plan(rows, calendar, whole) ==
  IF ~ ValidClaim \/ ~ WellFormed(Edges) THEN Error
  ELSE Output(Verdicts(Edges, rows, calendar), whole)

-----------------------------------------------------------------------------
(* The old client, before the migration.                                   *)

OwnCommand(kind, timer, phase, planned, observed) ==
  [id |-> Len(made) + 1, timer |-> timer, task |-> None, kind |-> kind,
   phase |-> phase, planned |-> planned, at |-> now, observed |-> observed,
   own |-> TRUE, src |-> None, gen |-> FALSE, day |-> None]

\* Bound: MaxCommands before the migration, and one after it.
Room(n) == Cardinality({i \in DOMAIN made : made[i].own}) + n <= MaxCommands

Retain(cs) ==
  LET ids == {cs[k].id : k \in DOMAIN cs} IN
  /\ made' = made \o cs
  /\ queue' = queue \cup ids
  /\ unsent' = unsent \cup ids
  /\ UNCHANGED <<profile, now, saved, acks, base, log, refused>>

\* A finish starts the break at once.  The PWA notes the break and mostly its
\* day, Android the finish only.
FinishFocus ==
  /\ deps = None /\ Room(2)
  /\ LET timer  == Here.timer
         finish == OwnCommand("finish", timer.timer, "focus", timer.planned, 0)
         phase  == PhaseAfter("focus", History(Apply(Unexpired, finish)), Day(now))
         start  == [OwnCommand("start", finish.id + 1, phase,
                               base.lengths[phase], 0)
                      EXCEPT !.id = finish.id + 1, !.src = finish.id,
                             !.gen = (profile = "pwa")]
     IN  /\ timer # None /\ timer.status \in Active /\ timer.phase = "focus"
         /\ \E day \in {None} \cup IF profile = "pwa" THEN {Day(now)} ELSE {} :
              Retain(<<finish, [start EXCEPT !.day = day]>>)
  /\ UNCHANGED deps

\* The controls of a break copy the finish its retained start names.
ControlBreak(kind) ==
  /\ deps = None /\ Room(1)
  /\ LET timer == Here.timer
         spent == IF timer.status = "running" THEN ElapsedAt(timer, now)
                                              ELSE timer.elapsed
         c     == OwnCommand(kind, timer.timer, timer.phase, timer.planned, spent)
     IN  /\ timer # None /\ timer.status \in Active /\ timer.phase \in Breaks
         /\ kind = "pause"  => timer.status = "running"
         /\ kind = "resume" => timer.status = "paused"
         /\ Retain(<<[c EXCEPT !.src = IF timer.timer \in queue
                                       THEN made[timer.timer].src ELSE None]>>)
  /\ UNCHANGED deps

\* A request takes the first commands.
Send(n) ==
  LET ids == {i \in queue : Cardinality({j \in queue : j <= i}) <= n} IN
  /\ deps = None /\ saved = None /\ n <= Cardinality(queue)
  /\ saved' = ids
  /\ unsent' = unsent \ ids
  /\ UNCHANGED <<profile, now, made, queue, acks, base, deps, log, refused>>

Forget ==
  /\ deps = None /\ saved # None /\ acks = <<>>
  /\ saved' = None
  /\ UNCHANGED <<profile, now, made, queue, unsent, acks, base, deps, log,
                 refused>>

\* The outcomes are stored, the snapshot is installed and the request is
\* cleared in three steps: a device that stops in between restarts there.
Replayed(ids) == Reduced(Nothing, made, ids)

OutcomeOf(i) ==
  IF i \in refused THEN "rejected"
                   ELSE Replayed({j \in log : j <= i}).outcome

Acknowledge ==
  /\ deps = None /\ saved # None /\ acks = <<>>
  /\ saved \subseteq log \cup refused
  /\ acks' = [i \in saved |-> OutcomeOf(i)]
  /\ UNCHANGED <<profile, now, made, queue, unsent, saved, base, deps, log,
                 refused>>

\* A snapshot with what was acknowledged taken off the queue, or a pull when
\* no request is open.  What was just acknowledged need not be in the history.
Adopt(full) ==
  LET view == Shown(Projected(Replayed(log), now)) IN
  /\ deps = None
  /\ saved = None \/ DOMAIN acks \cap queue # {}
  /\ full \/ (view.timer # None /\ view.timer.status \in Ended
              /\ view.timer.intent.cmd \in DOMAIN acks)
  /\ base' = [timer |-> view.timer, lengths |-> NewLengths,
              rows |-> IF full THEN view.rows ELSE {r \in view.rows : r.timer # view.timer.timer}]
  /\ queue' = queue \ DOMAIN acks
  /\ unsent' = unsent \cap queue'
  /\ UNCHANGED <<profile, now, made, saved, acks, deps, log, refused>>

\* What waited for an answered finish waits no longer, unless it was rejected.
Settle ==
  /\ deps = None /\ acks # <<>> /\ DOMAIN acks \cap queue = {}
  /\ made' = [i \in DOMAIN made |->
                IF made[i].src \in {f \in DOMAIN acks : acks[f] # "rejected"}
                THEN [made[i] EXCEPT !.src = None, !.gen = FALSE, !.day = None]
                ELSE made[i]]
  /\ saved' = None /\ acks' = <<>>
  /\ UNCHANGED <<profile, now, queue, unsent, base, deps, log, refused>>

-----------------------------------------------------------------------------
(* Time, the server and the other devices.                                 *)

Tick ==
  /\ deps = None /\ now < MaxNow
  /\ now' = now + 1
  /\ UNCHANGED <<profile, made, queue, unsent, saved, acks, base, deps, log,
                 refused>>

Serve(deny) ==
  /\ deps = None /\ saved # None
  /\ deny \subseteq saved \ (log \cup refused)
  /\ Cardinality(refused \cup deny) <= MaxRefused
  /\ ~ saved \subseteq log \cup refused
  /\ refused' = refused \cup deny
  /\ log' = log \cup (saved \ refused')
  /\ UNCHANGED <<profile, now, made, queue, unsent, saved, acks, base, deps>>

\* Bound: another device shows up once more.
FromPeer(cs) ==
  /\ deps = None
  /\ {i \in DOMAIN made : ~ made[i].own} = {1, 2}
  /\ made' = made \o [k \in DOMAIN cs |-> [cs[k] EXCEPT !.own = FALSE]]
  /\ log' = log \cup {cs[k].id : k \in DOMAIN cs}
  /\ UNCHANGED <<profile, now, queue, unsent, saved, acks, base, deps, refused>>

PeerFocus ==
  LET start == OwnCommand("start", Len(made) + 1, "focus", Planned, 0)
  IN  FromPeer(<<start, [start EXCEPT !.id = @ + 1, !.kind = "finish"]>>)

\* Another device finishes a timer of this one.
PeerFinish(t) ==
  /\ t \in log /\ made[t].own /\ made[t].kind = "start"
  /\ FromPeer(<<OwnCommand("finish", t, made[t].phase, made[t].planned, 0)>>)

-----------------------------------------------------------------------------
(* The migration and what is retained after it.                            *)

Migrate ==
  /\ deps = None
  /\ \E plan \in {Plan(Here.rows, Days, TRUE)} :
       plan.kind = "planned" /\ deps' = plan.deps
  /\ UNCHANGED <<profile, now, made, queue, unsent, saved, acks, base, log,
                 refused>>

\* inherited_dependency: a later control waits for what waits already.
Inherited(t) ==
  LET line == {i \in queue : made[i].timer = t}
      last == {i \in line : \A j \in line : j <= i}
  IN  {[child |-> Len(made) + 1, parent |-> i, gen |-> FALSE, day |-> None] :
         i \in {j \in last : \E e \in deps : e.child = j}}

Continue(kind) ==
  /\ deps # None /\ Room(0)
  /\ LET timer == Here.timer
     IN  /\ timer # None /\ timer.status \in Active
         /\ Retain(<<OwnCommand(kind, timer.timer, timer.phase, timer.planned,
                                timer.elapsed)>>)
         /\ deps' = deps \cup Inherited(timer.timer)

\* Another device has completed a focus before this one started its own.
Init ==
  /\ profile \in Profiles /\ now = 0
  /\ LET start  == [id |-> 1, timer |-> 1, task |-> None, kind |-> "start",
                    phase |-> "focus", planned |-> Planned, at |-> 0,
                    observed |-> 0, own |-> FALSE, src |-> None, gen |-> FALSE,
                    day |-> None]
         finish == [start EXCEPT !.id = 2, !.kind = "finish"]
     IN  made = <<start, finish, [start EXCEPT !.id = 3, !.timer = 3, !.own = TRUE]>>
  /\ queue = {} /\ unsent = {} /\ saved = None /\ acks = <<>>
  /\ LET view == Shown(Replayed({1, 2, 3}))
     IN  base = [timer |-> view.timer, rows |-> view.rows, lengths |-> OldLengths]
  /\ deps = None /\ log = {1, 2, 3} /\ refused = {}

Next ==
  \/ Tick \/ FinishFocus
  \/ \E kind \in {"pause", "resume", "finish"} : ControlBreak(kind)
  \/ \E n \in 1 .. MaxCommands : Send(n)
  \/ \E deny \in SUBSET queue : Serve(deny)
  \/ Forget \/ Acknowledge \/ Settle
  \/ \E full \in BOOLEAN : Adopt(full)
  \/ PeerFocus
  \/ \E t \in log : PeerFinish(t)
  \/ Migrate
  \/ \E kind \in {"pause", "finish"} : Continue(kind)

Spec == Init /\ [][Next]_vars

-----------------------------------------------------------------------------
(* Properties.                                                             *)

(* The recorded edges order every command of a break behind those that went *)
(* before it, down to the finish it followed; where the finish is no longer *)
(* retained, the server has taken it (graph.rs: upgrade, missing).          *)
RecoversCauses ==
  deps # None =>
    \A i \in {j \in queue : made[j].src # None} :
      /\ \A j \in queue : made[j].own /\ made[j].timer = made[i].timer /\ j < i
                            => j \in Ancestors(deps)[i]
      /\ made[i].src \in IF made[i].src \in queue THEN Ancestors(deps)[i] ELSE log

\* What v3 makes of a break whose finish is answered (GeneratedBreakContext):
\* the focuses of the day are counted through the finish.
Members(i) == {r \in queue : made[r].timer = made[i].timer}

Through(source, rows) ==
  Cardinality({r \in rows :
    /\ r.phase = "focus" /\ r.status = "completed"
    /\ Day(r.ended) = Day(source.ended)
    /\ r.ended < source.ended
         \/ (r.ended = source.ended /\ Identity(r) <= Identity(source))})

Normalized(i, source, rows) ==
  LET phase == BreakForCount(Through(source, rows))
  IN  IF \E r \in Members(i) : made[r].kind = "finish"
      THEN [phase |-> made[i].phase, planned |-> made[i].planned]
      ELSE [phase |-> phase, planned |-> base.lengths[phase]]

\* It would rewrite a command that another device may have seen.
Rewrites(i, new) ==
  \E r \in Members(i) \ unsent :
    \/ made[r].phase # new.phase \/ made[r].planned # new.planned
    \/ made[r].observed > new.planned

PendingStarts == {i \in queue : made[i].src \in queue /\ IsBreakStart(i)}

Torn(rows) ==
  {i \in PendingStarts : \A source \in CompletedBy(rows, made[i].src) :
     Rewrites(i, Normalized(i, source, rows))}

Justified(dark, plan, torn) ==
  /\ "error" \notin {dark, plan}
  /\ deps # None => dark = "noop"
  /\ plan \in {"planned", "noop"} => torn = {}
  /\ plan = "blocked" =>
       \/ \E f \in DOMAIN acks : acks[f] = "rejected"
       \/ \E i \in queue : made[i].src # None /\ made[i].src \notin queue
       \/ \E i \in queue \ unsent : made[i].src # None /\ ~ IsBreakStart(i)
       \/ torn # {}

(* The migration never fails on a workspace the old client can leave, is    *)
(* idempotent, records a break only when v3 will not have to rewrite what   *)
(* was delivered, and asks for a decision only when something is missing or *)
(* torn (graph.rs: plan, frozen_payload_requires_decision).                 *)
AgreesWithRebase ==
  LET rows == Here.rows
  IN  Justified(Plan(rows, {}, TRUE).kind, Plan(rows, Days, TRUE).kind, Torn(rows))
=============================================================================
