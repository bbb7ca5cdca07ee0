# A TLA+ model of pomodorough-core

pomodorough-core is the deterministic library that every Pomodorough client and
the server share: it replays timer commands and preferences, plans batches of
retained operations, reconciles server responses and plans user intents. It
keeps no state of its own. A host (Apple, Android, desktop, PWA, server) passes
state in as JSON, gets the next state out and stores it. What can go wrong is
therefore in *sequences* of calls: a replay over what an earlier replay
projected, a response that arrives after the request was sent twice, two
devices with disagreeing clocks, a restart between two calls. These are the
behaviours modelled here. JSON, hashing, text normalisation and formatting are
not.

## Inventory

| Component (src/src) | State it transforms | Operations | Hard behaviour | What makes it correct |
|---|---|---|---|---|
| Timer reducer (`timer.rs`) | sessions by timer, current timer | start, pause, resume, finish, cancel, clear, retarget, deadline, project | commands in HLC order whose `occurredAt` disagree; deadlines noticed late; terminal timers retaken | one live timer, history only rewritten by its owner, deadline independent of readers |
| Raw boundary (`timer/workspace.rs`) | a canonical timer and history rows | validate, seed, replay, project | the output of one replay is the input of the next | what it writes it can read |
| Paged replay (`timer/replay_page.rs`) | the same, kept by the host between pages | reduce one page | a page sees only the sessions the host passes | pages = one replay |
| HLC (`clock.rs`) | one clock per device | head, tick | clocks go back, remote clocks ahead, counter at 2^53-1 | stamps respect cause |
| Preferences (`sync_projection.rs`, `projection.rs`) | tasks, durations, auto-start, selection | last-writer-wins replay | any order, selection of deleted tasks | convergence |
| Batch planner (`batch_plan*.rs`) | five queues, dependencies, cursor, saved claim | plan, replay saved | held children, tiny budgets, crash around the claim | nothing held leaves, everything else leaves at last |
| Reconciliation (`reconciliation*.rs`) | retained queues, dependencies, delivery proofs, canonical base | rebase v1 (moves clocks), v2/v3 (immutable) | lost, late, repeated answers; dependents of refused commands; generated breaks | immutable retries, no loss, honest projection |
| Display context (`reconciliation/workspace*.rs`) | cached PWA display | project | cached display against newer base | display is a replay |
| Ownership (`timer_ownership.rs`, `ownership_plan.rs`) | owner record and lease in shared storage | install, renew, release | two tabs, expiry, stale heartbeats | one lease holder |
| Trusted clock (`trusted_clock*.rs`) | anchor of server time on a monotonic clock | sample, advance, restore, current | reboots, suspended clocks, wall-clock edits | bounded, forward time |
| Completion (`completion_plan*.rs`) | selected phase with its generation, advances, consumed completions | choose, skip, advance, install a snapshot, roll back | an answer that is older than a choice; rollback of a suffix after a refusal | a choice stands, a refusal leaves no trace |
| Lifecycle (`completion_mutation/lifecycle*`) | triggers of deferred breaks, evidence of completions | finish, defer, start later | the world moves on before the break starts | a break follows its own focus |
| Intents (`workspace_intent*.rs`) | whole workspace | user intents, natural completion | stale ownership, allocation at limits | atomic groups |
| Bootstrap (`bootstrap*.rs`) | local and remote workspace | classify, merge, replace | sign-in with data on both sides | nothing lost silently |
| Legacy dependencies (`legacy_dependencies*`) | timer dependencies of an old workspace | plan | a workspace left in the middle of a sync, partial evidence | causes recovered or a decision asked for |
| Legacy preferences (`legacy_preferences*`) | old settings | zero-clock preferences | none of its own | a stored value is kept |
| Read model, strict JSON, ABI | none | decode, present | none | - |

The components meet in the host's stored workspace. An intent is allocated an
HLC stamp and a sequence and joins a retained queue with a proof that it was
never sent. The planner selects a batch; the host stores it as the claim,
retires the proofs, and sends it. The server replays its log with the same
reducers and answers with a canonical snapshot and one acknowledgement per
operation. Reconciliation removes what was answered, drops or opens dependents,
and projects what is left over the snapshot.

## Modules

### Timer: `TimerReducer`, `TimerBoundary`, `TimerLog`, `TimerReplay`

`TimerReducer` is the reducer as operators on a record of sessions and the
current timer, one operator per handler. `TimerBoundary` says which pairs of a
canonical timer and history rows a replay accepts and how it seeds sessions from
them. `TimerLog` has what a log to be replayed contains: payloads, numbered commands
and accepted bases. `TimerReplay` applies commands one by one: the k-th command is any command
whose key sorts after the earlier ones, so `at` (occurredAt) is arbitrary, as it
is when devices disagree. `startedAt` and device identities are dropped: no
handler reads them.

Two restrictions on the base are named in `TimerLog`. `BaseIdOK`: a command
issued after a snapshot has a fresh id. `ActiveIntentOK`: an active timer carries
an intent that activates, or none. The boundary itself does not check the
second: it accepts a running timer whose last intent is a pause, which ends at
its deadline as a pair it would then refuse. No reduction produces such a timer.

### Pages: `PagedReplay`

The host of a long log keeps all sessions and submits pages with the sessions
their commands address: `OpenPage` passes them, `Submit` adds a command,
`ClosePage` stores what came back. `Crash` loses a page, `Repeat` submits the last
page again because the host does not know that it stored it, `CloseLog` reads the
end at an instant. Histories (`done`, `whole`) hold one replay of the same commands
without cuts, with which `PagesMatchReplay` compares.

### HLC: `HlcClock`

Each device has one clock. `Create` is a local tick, `ReceiveOp` a tick with the
stamp of some operation in the account (any, late, repeatedly), `Observe` is
`head` over what the device has stored. Physical readings are arbitrary numbers
up to `MaxWall`. The error of an overflowing counter is an outcome: the action is
not taken, since the host keeps its old clock.

### Preferences: `PreferenceReducer`, `Preferences`

`PreferenceReducer` is last-writer-wins over four kinds of slots: a task (active
or deleted), the duration of a phase, the auto-start switch and the selection,
with the fallback that a selection disappears with its task. `Canonical` is the
server's replay of its log, `Project` what a device does over a snapshot.

`Preferences` puts users, devices and the server around it. `Edit` is a whole user
intent: planned against what the host shows the planner, expanded to a group
(adding before selecting, renaming as add, delete and select), allocated one tick
per operation, admitted by a replay of the whole retained queue, stored with the
display context of a PWA. `Claim`, `Serve`, `Lose` and `Receive` are a sync whose
request may arrive twice and whose answer may be lost. The hosts differ where the
code asks for the profile; a behaviour starts with one assignment of `Profiles`.
A PWA alone is examined more closely than the pairs (`MCPreferences`): it has the
display context, and may retain operations of a release before delivery proofs.

Two restrictions. No timer is active: with one, deleting or renaming a task adds
timer commands, which are not in these queues. And `HonestPreview` names one
difference from the server, `Revived`: when the snapshot dropped a selection
together with its task and an unsent operation adds the task again, the server's
replay of its log restores the selection while the device's replay over the
snapshot cannot know of it. Both show the same after the next sync (`Converges`).

### Tabs: `TimerOwnership`

Several tabs of one PWA share a stored workspace and an owner record with a lease.
Each action is one guarded storage transaction on it: `Heartbeat` and `Install` plan
the owner, `Close` releases it or crashes, `StartTimer`, `PauseOrResume` and
`CancelAndClear` are user intents, `Finish` is the completion planner with both of
its paths - the timer is still active in the replay without deadlines, or it has
ended by its deadline. What a tab asks to act on is its `screen`, drawn at some
earlier `See`, while the decision is made on the stored state. The timers are those
of `TimerReducer`: the server replays its log, the device replays what it retains
over the snapshot, and `shown` is that replay at 1970, which the code uses to tell a
deadline from a finish. `Deliver` and `Install` keep the dependency rules of
`Outbox` for the generated break; requests are not lost here and all retained rows
are displayed, which `Outbox` and `Preferences` vary.

Restrictions: wall and trusted clock differ by a constant, a timer is started once,
the source day of a generated break always contains the completion and its phase is
not renamed. `Evidence` says whether the host stores the evidence of its natural
finishes; the two kinds of hosts decide on different replays.

### The selected phase: `CompletionState`, `PhaseSelection`

`CompletionState` holds the rules as operators: the cadence (which break follows a
focus, by the completions of a civil day), what undoes an advance, and what an
installed snapshot makes of the selected phase on Apple, Android, the desktop and a PWA
that has opted in to the lifecycle. Apple and the desktop look for the latest
completion, Android and the PWA at the finishes of the request.

`PhaseSelection` is one of these clients around them: `StartTimer`, `Control`,
`FinishTimer`, `Choose` (an explicit phase) and `Skip` are its user, `Send`, `Serve`
and `Install` the sync, in which the server may refuse commands and answers are late
or lost, `PeerStarts` and `PeerFinishes` another device whose commands may sort
before those of the client. `Deferred` and `StartBreak` are the desktop's break that
waits for its focus, with `EditPreference` and `SignInOrOut` as what holds it back,
and `Opportunity` the natural finish that the lifecycle offers. A choice is
remembered in the history variable `chosen`, and taken back where a client by design
moves on from it.

What these clients do differs, and the properties name the differences:

* Apple fences every rollback by the generation, also when generations wrap.
* A finish on the desktop always moves the phase, also a chosen one, and advances
  that stand on each other are not unwound. An installed completion is consumed
  even when its effect is blocked (COMPLETION_STATE.md:37).
* Android keeps a choice only if it was made after the request was sent.
* The PWA undoes rejected finishes but not ignored ones (COMPLETION_STATE.md:125), and
  a finish of a paused timer overrides an explicit choice, because only a timer
  whose last intent is a start or a resume ends naturally (PWA_CYCLE_REPAIR.md:15).
* With two refusals Android, the desktop and the PWA leave traces, which is why
  `MaxRefused` is one.

**The PWA without a lifecycle is left out.** Its install requests carry no `lifecycle`,
as those of today's adapter, which hardcodes an implicit selection
(PWA_NATURAL_COMPLETION.md:78). For them `protected_selection` (pwa.rs:109) protects
nothing: a late refused finish takes back a phase that matches what the finish selected,
also one the user chose explicitly (COMPLETION_STATE.md:125, and the fixture
`pwa-no-generation-fence`). `ChoiceStands` is not true of such a PWA and not claimed of it; nothing
in `CompletionState`, `PhaseSelection` and their proofs is about it. Of the PWA that has
opted in, both guards are translated: requests bring a lifecycle, with the evidence of
their finishes. A generation that is exhausted there makes a choice fail
(pwa_selection.rs:43); Apple's wraps.

Also left out: the expiry of Iroh, Android's commands after a cancellation, the atomic
generated breaks of Apple, Android and the PWA (those are in `TimerOwnership` and
`Outbox`). Whether a break starts by itself is free.

### Migration: `LegacyDependencies`

An old client notes with a break the finish it followed, and with every control of
the break the same finish. `FinishFocus`, `ControlBreak`, `Send`, `Forget`,
`Acknowledge`, `Adopt` and `Settle` are that client, from what the migration and its
fixtures say of its records; storing the outcomes, installing the snapshot and
clearing the request are three steps, so that the workspace is found in between.
`Serve`, `PeerFocus` and `PeerFinish` are the rest of the account. `Plan` is the
migration: the edges of the rows (or those recorded, which win even when there are
none), and a verdict for each: kept, kept behind the last earlier command of its
timer, discharged on evidence, undecided, or an error. `Migrate` records a plan that
has no undecided edge; the old client is gone then, and `Continue` adds what
`inherited_dependency` makes of later controls.

`AgreesWithRebase` compares the plan with what v3 would do with the same break:
`Through`, `Normalized` and `Torn` are `GeneratedBreakContext` of reconciliation,
which counts the day in its own way. It holds that the plan never fails on a
workspace the old client can leave, that planning again changes nothing, that no
break is recorded which v3 would have to rewrite after its delivery, and that a
decision is asked for only when evidence is missing or a break is torn.

The account of the run has shortened its long break since this client installed its
preferences, so that a control may have observed more than the break will last, which
`normalize` clamps. A break of its old length is rewritten then in any case. The
exception for a missing cause is broad on purpose: with the finish neither
retained nor provable from what the server returned, any row that names it may be undecided.

Left out: the shape of the records, the comparison of saved and retained bytes (the
model has one copy), observation times, the live client's own reconstruction, and
other devices that take up this one's timers (they finish them here).

### Trusted time: `TrustedClock`

A device has real time `now`, a wall clock that is `offset` ahead of it, and a
monotonic clock `ticks` that starts anew with every `boot`. `Tick`, `Sleep`,
`EditWall`, `Restart` and `Reboot` are what happens to them. `Send`, `Serve`,
`Receive` are the round trip that a sample is measured on, with everything else
possible in between; `ReceiveLater` is Android's `advance` within a transaction and
`Install` the client's saving of its sample. `Restore` is called when a process
starts. `Readings` are the times that `current` (Apple also `advance`) may return in
a state, each with the state the kernel returns, and `Read` takes one of them. Apple's
`advance` records what it emitted by way of a floating date in seconds, which may lose
a millisecond (`Recorded`). The
client may make it its lower bound (`retainedWallMs`, `minimumWallMs`). Each
behaviour follows one of the four profiles.

The properties speak about all readings of a state, not only those taken. They are
relative to `past`, a history of what befell the clocks since each sample was
requested. `NeverAhead` and `NeverBehind` bound the distance from the server's time
by the uncertainty the kernel computed, for as long as the clock in question was
left alone, and say which disturbances each client survives: Android all but an
edit of the wall clock across a reboot, the desktop a reboot up to its drift; Apple
continues after a reboot behind the server when its uptime has passed the saved
one, and the PWA's time rests on the wall clock of the moment it was seeded.
Whether sleep stops the monotonic clock is the platform's: it does here, except on
Android, whose clock is elapsed real time. The desktop's mode is chosen per read.

### Batches: `BatchPlan`

A sorted queue is a number of positions and a selection a prefix length. One
`Visit` is one iteration of the selection loop. `Persist` is the adapter's
transaction that stores claim and cursor; `Abandon` is every way of not getting
there (failure, crash, empty plan). While a claim exists nothing else is
planned; it is replayed as it is until it is acknowledged.

### Reconciliation: `Outbox` implements `ImmutableDelivery`

One device, a network, a server log and other devices. `Create` allocates an
operation; `Claim` is the planner's selection together with the retirement of
its proofs; `Send` may happen any number of times; requests and answers are lost
or stay in flight while the device goes on; the server acknowledges what it has
already. `Receive` is the whole of `rebase` for an answer with exactly the
claimed set; `Pull` is the answer to an empty request. `Install` has the code's
order: resolve dependencies, refuse what would drop or rewrite a possibly
delivered operation, filter, project. `Refused` is the errors of resolution and of the
delivery policy. What rejects an answer for its own sake is left out: an invalid
canonical response, values of the queue that do not replay over it, and, where the
boundary is `Strict` (`rebase_v1_json` and `rebase_v2_json`), a canonical timer that is also a row of the history
(timer.rs:311). The server is taken to answer with a projection that the host's boundary
accepts; for `Workspace`, `ProjectionReadable` is about that. `SendStray` is an operation that left by a
path without a claim, which is what the missing proofs protect from; the answer to it
goes where it was sent from, not to the reconciliation of the host, so the server
takes it and nothing is installed.

A restart needs no action: everything but `wire` and `answers` is durable, and
messages that survive or vanish with the process are already possible.

The outcome of each acknowledgement, whether the server completed a finish
inside its source day, whether another timer is live there, and which break its
count asks for, are chosen freely: the server's reducer is `TimerReplay`, not
part of this module.

`ImmutableDelivery` is what the contract (IMMUTABLE_RECONCILIATION.md) promises
for an operation: absent, queued, delivered, settled or dropped; content fixed
from delivery on; dropped only when never delivered. `KeepsPromise` is the
refinement.

`NeverRefused` is about refusals for what was delivered. It excepts the completion
outside the source day, for which the code gives no way out (it rejects every such answer), and
promises none. `BreakGivesWay` is about the order of the user's intents: a break that
is generated for a finish and waits for it is let go with the finish acknowledged, and
never while a start that the user made since is waiting (`is_accepted`); it holds
through lost answers and repeated claims.

## Runs

| Run | Bounds | Shows |
|---|---|---|
| `TimerReplay` | 2 timers, from an empty account and after every accepted base pair; 4 commands, plan of 2 ticks, instants 0..4 | all kinds before, at and after a deadline; supersession and retaking need 3 commands, a clear in between 4; legacy history ids, imported timers without intent |
| `HlcClock` | 2 devices, 3 operations, counters and walls 0..2 | ties, overflow, clocks going back |
| `PagedReplay` | 2 timers, 4 commands, pages of at most 2, last page read at 0 or 3 | every cut of a log, with commands submitted again |
| `Preferences` | Apple and desktop or Android and PWA with 3 operations and clocks 1..3; one PWA with 4, of which 2 may be retained from before, the server at most 3 ahead; 2 tasks | the display context under claims, snapshots and superseded durations; previews, admission, sync and convergence of two devices that edit the same slots; the server's clock moves with the other device |
| `TimerOwnership` | 2 tabs, 2 focus timers and a break, 3 commands, plan of 1 tick, lease of 1, instants 0..2 | expiry of lease and deadline in either order; start, finish and a second finish; start, finish and generated break; a peer that retakes or replaces the timer |
| `TimerOwnershipFair` | 1 focus timer and its break, 2 commands of users, 3 kept for finishes, no evidence | every natural end is finished |
| `PhaseSelection` | Apple, Android, the desktop and the opted-in PWA, 3 commands (4 on Apple and Android), long break every 2nd focus, 2 days of 1 tick, 1 choice, 1 refusal | a choice between request and answer, stacked advances, wrapping generations, breaks that start late |
| `LegacyDependencies` | PWA and Android, 3 days of 1 tick, a focus with its break and one control before the migration and one after it, another device that shows up once more, 1 refusal, a long break that the account has shortened from 3 to 1 | every state of delivery of a break, both kinds of break, edges kept, upgraded, discharged and undecided |
| `TrustedClock` | 3 units of time, wall clock 0 or 3 ahead, 2 upsets; skew 4, uncertainty 2, drift 1 | trips of 0 to 3 with their roundings, an upset during the request and one after the sample; recoveries that are accepted and refused |
| `BatchPlan` | 3+2+1+1+1 operations, 2 per domain, 3 in total | both limits bind, chains of two held commands; domains are starved when the cursor stays, so the five-batch bound is at work |
| `Outbox` | 3 operations, clocks 0..3, 1 peer, 1 stray, 1 message each way | finish, generated break and a command on it is the longest chain the code distinguishes |
| `OutboxFair` | the same without peers and strays | draining |

A run stops only where a bound stops it: `CHECK_DEADLOCK FALSE` is there for the
bounded number of commands or operations. An outbox of four operations was also
explored (1.5 million states) without a difference.

Fairness. `BatchPlan`: a sync is planned again and again and its transaction
succeeds if tried for ever (strong, because crashes interrupt it), the server
answers a claim at last. `Outbox`: the host plans and resends, and a network
that is tried for ever lets one request and its answer through; messages nobody
waits for vanish at last. `Preferences`: every device syncs for ever (strong for
`Claim`, which an answer in flight disables, and for `Receive`, whose answer may be
lost again and again), and the server answers; editing is not fair, it ends at the
bound on clocks. `TimerOwnership`: open tabs are redrawn, time passes, and when
some tab can always finish a timer one does; sync, heartbeats and releases are not
fair. A tab alone could be kept from finishing by a peer that takes the lease over
again and again, so the fairness is about the tabs together. The code justifies the host's part: sync is driven by
timers and reconnects in every adapter contract. One
case is left out of `OutboxFair` by its `Completions`: a canonical completion
outside the source day makes every response fail, and such an outbox does not
drain.

One sentence of the documentation is not what the code does. OWNERSHIP_PLAN.md (line
110) says that the lease is retained until completion commits, "using the existing
non-expiring replay to distinguish explicit terminal state". That replay keeps a timer
running whose start or resume is retained, the case the test has. Once the server has
noticed the deadline the snapshot itself says completed, no replay undoes that, and
`plan` (ownership_plan.rs:162) removes the owner when it is installed. `LeaseKept`
therefore excepts a timer that is over. Nothing is lost by it: `OneFinish` and
`FinishedAtLast` hold all the same.

## Proofs

A module `MProofs` holds the theorems about `M`; `ClockProofs` has those about
`HlcClock` and `TrustedClock`, `OutgoingProofs` those about `BatchPlan` and `Outbox`,
and `TimerReplayProofs` those about `PagedReplay` too.
They are for every value of the constants that satisfies the modules' assumptions: any
number of timers, tabs, devices, operations, messages in flight and upsets, and every
bound. `TimerReducerProofs` has the lemmas about the reducer, the seeding and the
projection that `TimerReplayProofs`, `TimerOwnershipProofs`, `PhaseSelectionProofs` and
`LegacyDependenciesProofs` share.

**Assumptions.** Constants have their types. `None` is none of the values it stands
beside (`ReducerAssumption`, `BoundaryAssumption`, `LogAssumption`, `PagedAssumption`,
`OwnershipAssumption`, `HlcAssumption`, `ClockAssumption`): it stands for JSON's `null`.
The generations of a selection wrap after more steps than a behaviour takes
(`GenerationAssumption`; there are 2^63), and there is a timer id for every command it
takes (`SelectionAssumption`). What a PWA retains from before is finite, and of one
device no two operations have one stamp (`LegacyAssumption` of `Preferences`), as
`rebase` requires of queues. `RecoversCausesHolds` says itself that `None`, the edges not
recorded yet, is no set of edges; TLC cannot evaluate that. The bases of `TimerReplay` satisfy `BaseIdOK` and `ActiveIntentOK`, which are
explained above.

**Timer.** `TypeOK` is inductive by itself; so are `LiveTimerUnique`,
`SupersederKnown` and `NaturalEndAtDeadline` on top of it, the last one with what a
timer carries that was started here and not touched since (`NaturalSession`). A
deadline is idempotent under later reads by arithmetic on the anchor, which gives
`DeadlineReadStable`. That the boundary reads back what a replay projects
(`ProjectionReadable`) needs three facts of every reduction: history ids stay apart
from one another and from the other timers (`IdsApart`), what is over has an instant
(`Ends`), and the current session has the provenance the boundary asks for: what runs
was activated by its intent, not after its anchor, and what ended did so at its anchor
by a command or at its full length (`Provenance`).

**Pages.** `HandlePointwise` and its companions say that a handler changes the
sessions of the command's own timer and of the timers that were live, and looks at
nothing else. So a reduction that agrees with another one on a set of timers (`Agree`)
still does after the same command, if the set has the command's timer and the current
one, and outside the set nothing moved (`Within`). `PagesMatchReplay` follows: at each
page end the stored state is the uncut replay. Submitting a page again is harmless
since what it sees is stored anew.

**Tabs.** A stored workspace is replayed by the keys of its commands, a recursive
function over the places of a log. What it computes is shown by the least place at which
it would fail, since induction as such is not available. Replaying a well-typed log keeps
a `Good` state, and a command with a larger key than all others is applied last; so
server, device and tabs each read what they have stored (`ConsistentHolds`, from
`Inv == Typed /\ Based /\ Owned`). For `LeaseKeptHolds` a plan honours a live lease
(`Honoured`) of whoever the planned owner is (`PlannedOwnerIs`), and the owner's timer is
the one that is current or was dropped with what it waited for (`CurrentIs`).

`OneFinishHolds` is about what one device ever committed. A second finish of a timer is
refused because the replay of what is stored already ends it, which the rows must
guarantee across snapshots and answers. `Arranged` is the order that makes it so: keys are
apart (`KeysApart`), what is retained was not answered (`Retained`), what was sent
precedes what was not (`SentFirst`), a start precedes the rest of its timer
(`StartsFirst`), and a dependent follows what it waits for (`Chained`). A timer is then
over in the base or in the retained rows, never in neither (`BaseOver`), and finished once
in the log (`Once`, carried by `OnceInv`).

**Phase.** Why a choice stands differs by client, and the PWA here is the one that has opted in
to the lifecycle (`ChoiceStandsHolds` says nothing of the other). Apple and the desktop compare
generations: no advance is newer than the selection (`Below`), on Apple each has a
generation of its own in the order of the commands (`Ranked`), and a rollback undoes a
suffix, so what is left stays below what the selection goes back to (`AppleRollback`). A
choice takes the next generation, which nothing has seen: a generation is as high as
there were commands and choices before it (`Height`, `Climbs`). Apple and the PWA also
carry `explicit` until the next start, and Android compares the selection with the one it
captured with the request. Together: an installation over a choice is `Fenced`, and a
fenced installation leaves the selection alone, except that the desktop follows a new
completion of the very phase (`FencedInstall`). The commands of a request keep their
meaning when others are inserted before them (`Grows`).

`BreakFollowsItsFocusHolds` is about a second replay, of what is retained over what was
installed. Its invariant `BreakInv` says that what is stored is typed, with a base that
only speaks of commands which the server has taken (`Typed`, `BaseFrom`); that
what the server has taken of this client was made before what still waits, also in the
middle of a request (`Ordered`); that a trigger is for a finish of this client
(`Wanted`); and how many commands there can be (`Counted`), so that a new one has an
admissible number. Where a base comes from is carried through the replay (`From`), as in
**Tabs** by the least place at which it would fail (`ReducedStays`). Let a break start.
If its finish is still retained, the desktop has looked at what it shows. Otherwise the
base shows the completed focus with that finish, which the server therefore has; what is
retained is younger, and `later_command` found nothing there but finishes of the
very timer. Those leave a completed timer as it is (`Over`), so the client shows it too
(`FocusShows`).

**Legacy dependencies.** `Inv` is `Before` until the migration and `After` from then on.
`Before` says what the notes of an old client mean: a break notes a finish of a focus of
this device, its controls note what it notes as long as its start is retained (`Sourced`,
`Shared`), what is retained are the last commands of the device and what was sent the
first of those (`Retained`), an outcome that is no rejection is of a command the server
has (`Answered`), and the base only shows started timers in their own phases
(`Faithful`), which every replay keeps (`ReplayShows`), so that a new break has a timer of
its own and a control the phase of its start. `MigrationRecovers` is the migration. A
plan that is carried out has decided every edge (`PlanDecides`); a start keeps its finish
or had it discharged (`StartVerdict`), on evidence, which the server has given
(`EvidenceTaken`); a control is hung behind the last earlier command of its break
(`ControlVerdict`). That all the earlier ones are then among its ancestors is shown at
the least command of the break for which it would fail. What a command waits for is a
recursive function of its place; `AncestorsClimb` unfolds it, and `AncestorsStay` says
that later commands and edges take nothing away, which is all that `Continue` needs.

**HLC.** `CausalStamps` needs that a device's clock is not before the stamps of what
it knows, and that knowledge is transitive (`KnowsPast`); `StampsReal` bounds stamps by
the latest physical reading for `NoRunaway`.

**Preferences.** `Topmost`: a finite set of operations with distinct keys has a last
one for each slot. It is proved by a minimal counterexample among the subsets, and
makes last-writer-wins a fact about filters. Two replays agree on a slot if their last
writers do (`LateReplay` when one set is all later than the other). A group that an
intent plans is coherent: it selects only what it, or the state it was planned on,
leaves active (`CoherentWrites`); so the replay of the whole queue admits it
(`GroupAdmitted`), which is `OfferedIsAdmitted`. `IInv` says that keys are unique and
covered by the clocks of their devices, that an answer knows the claim, and that a
snapshot is the replay of a log which its head covers. `HonestPreview`,
`NothingHidden`, `Consistent`, `NothingLost` and `DisplayStep` follow from it.

**Trusted time.** A reading is compared with a real time that no client knows, so
the invariant has it: a request left at some real time `sent`, and the clocks counted
of the trip what `past` allows (`Journey`). `Ages` says it of every step of the device
and of every slot of `past` in use. From the two the sample of a response is near to
the server's time (`Corrects`, and for the monotonic clock the second conjuncts of
`AppleInv`, `AndroidFresh`, `DesktopInv`), and each step keeps it near or notes in
`past` why not. Two conjuncts are there only for induction: an Android point tells the
time during its own boot, which a reboot ends before `Restore` looks, and an anchor
made of the wall clock is off by what that clock was off at that read
(`AndroidAnchor`, `PwaRuntime`). For `SteadyPace` the readings of each client are
written as functions of the state (`AppleSteady` and its like); then each action
leaves the base of the time alone, or moves a base and its reading by the same amount.

**Batches.** `HeldStaysHome` is carried through the loop by the barrier and across
claims by the prefix; `FiveBatches` needs a variant that relates how long a domain
waited to the distance of the cursor from it; `PlanMaximal` that five misses in a row
are misses of all five domains.

**Reconciliation.** The invariant of `Outbox` accounts for every operation: what has a
proof is nowhere else (`Proven`), what has none is claimed or left past the claims
(`Accounted`), what is not held was opened (`Released`), all copies say the same
(`Agreed`), and an answer that matches the claim knows all that settled before it
(`Fresh`). The last is what makes late answers harmless, and with the first two
nothing that may have been delivered is dropped or rewritten (`NeverRefused`). The
refinement `KeepsPromise` maps an operation to its place in `ImmutableDelivery`; every
step of the outbox changes each operation by one step of the contract or not at all
(`Moved`). `BreakGivesWay` is read off an answer: a generated break that it opens is among
those whose sources it accepts (`OpenedBreak`), and the rest is `is_accepted`.

The types of `TimerReplay`, `HlcClock`, `BatchPlan`, `Outbox` and `TrustedClock`,
`SupersederKnown`, `EndedRewrittenOnlyByOwner` and `ClockForward` are proved and in no run: the proofs cover every
instance.

**Model-checked only.** Liveness (`Drains`, `QueuesDrain`, `Converges`, `FinishedAtLast`) is out of
the prover's reach. `RefusedLeavesNoTrace` and the `AgreesWithRebase` of
`LegacyDependencies` stay with TLC too. Both need what a replay counts: that a finish
which the server applied leaves a completed row in every later snapshot, and that the
completions of a day are the same ones in the replays of the client and of the server,
when a finish is refused and when it was made.

## Plan

1. `ClockRebase`: v1 reconciliation, which moves the clocks of held work, as an
   extension of `HlcClock` and its run.
2. `Bootstrap`, the expiry of Iroh, and the observed replays.
3. Proofs of `RefusedLeavesNoTrace` and of `AgreesWithRebase`, from what
   `PhaseSelectionProofs` shows of a replay.

Not planned: JSON shape checks, the ABI, hashing and Unicode normalisation, the
read model, fixtures and release scripts. They keep no state and have
example-based tests.
