--------------------------- MODULE PhaseSelection ---------------------------
(***************************************************************************)
(* The selected phase of one client, from the commands and choices of its  *)
(* user (workspace_intent) over the finishes it commits before any server  *)
(* knows of them (completion_mutation) to what it installs afterwards      *)
(* (completion_plan/state), on each of the four clients.  The server may   *)
(* refuse a command, peers write to the same account, answers are late or  *)
(* lost, and on the desktop a break that a finish asked for is started     *)
(* later (lifecycle/deferred).                                             *)
(*                                                                         *)
(* The PWA is one that has opted in: every request brings its lifecycle,   *)
(* with the evidence of its finishes.  One that has not protects no phase, *)
(* also an explicitly chosen one: a late refusal takes back whatever phase *)
(* the finish went to (COMPLETION_STATE.md:125).  It is not modelled: what *)
(* is said of the PWA below is said of the first.                          *)
(*                                                                         *)
(* A command's number is the order in which it was made; its place on the  *)
(* timeline is the order of the clocks, where a late peer comes earlier.   *)
(* A timer has the number of its start.                                    *)
(***************************************************************************)
EXTENDS CompletionState

CONSTANTS
  Profiles,    \* subset of {"apple", "android", "desktop", "pwa"}
  Planned,     \* the planned duration of every timer
  Pausing,     \* bound: the profiles whose user pauses timers
  MaxNow,      \* bound: the last instant
  MaxCommands, \* bound: commands of the user and of other devices, by profile
  MaxChoices,  \* bound: choices of the user
  MaxRefused   \* bound: commands the server refuses

\* Every finish on the desktop may ask for a break, and every choice on Apple
\* may clear a timer.
MostCommands(p) ==
  MaxCommands[p] + IF p = "desktop" THEN MaxCommands[p] ELSE MaxChoices

ASSUME SelectionAssumption ==
  /\ Profiles \subseteq {"apple", "android", "desktop", "pwa"}
  /\ {Planned, MaxNow, MaxChoices, MaxRefused} \subseteq Nat
  /\ MaxCommands \in [Profiles -> Nat]
  /\ \A p \in Profiles : 1 .. MostCommands(p) \subseteq Timers

\* Generations wrap, but none comes again in a behaviour: there are 2^63.
ASSUME GenerationAssumption ==
  \A p \in Profiles : MaxCommands[p] + MaxChoices < Generations

VARIABLES
  profile,    \* which client this is
  now,        \* the time everywhere
  selection,  \* the selected phase
  timeline,   \* every command, in the order of the clocks
  mine,       \* the commands of this client
  made,       \* those of them that are generated breaks
  queue,      \* those it retains
  waits,      \* <<child, parent>> of retained children (timerDependencies)
  other,      \* whether a preference operation is retained
  sent,       \* the request that is being sent
  base,       \* the installed canonical timer and history
  advances,   \* advances of the phase that no answer has resolved
  triggers,   \* breaks that are still to be started (pendingBreaks)
  consumed,   \* completions that were consumed (consumedCompletions)
  signedIn,   \* whether the session is authenticated
  log,        \* the commands the server has taken
  refused,    \* the commands the server has refused
  chosen,     \* the choice in force, None when there is none
  chosenAt,   \* how many choices were made
  stacked,    \* whether a finish was committed over an unanswered one
  witnessed   \* whether any completion was ever installed

vars == <<profile, now, selection, timeline, mine, made, queue, waits, other, sent,
          base, advances, triggers, consumed, signedIn, log, refused, chosen,
          chosenAt, stacked, witnessed>>

-----------------------------------------------------------------------------
(* Commands and what they amount to.                                       *)

Cmd(i) == timeline[CHOOSE k \in DOMAIN timeline : timeline[k].id = i]

NewId == Len(timeline) + 1

NewCommand(kind, timer, phase, at) ==
  [id |-> NewId, timer |-> timer, task |-> None, kind |-> kind,
   phase |-> phase, planned |-> Planned, at |-> at, observed |-> 0]

Insert(line, c) ==
  LET before == Cardinality({k \in DOMAIN line : line[k].at <= c.at})
  IN  InsertAt(line, before + 1, c)

\* What the client shows now, and what it has before any deadline is read.
View(b, line, q) == Shown(Projected(Reduced(b, line, q), now))
Unexpired == Shown(Reduced(base, timeline, queue))

Here == View(base, timeline, queue)

Owned(t) == t \in mine

\* inherited_dependency: a command for a timer whose start still waits.
Inherits(t) ==
  IF \E w \in waits : Cmd(w[1]).timer = t
  THEN {<<NewId, t>>} ELSE {}

\* What goes into a request: nothing behind a command that waits.
Sendable(q, w) ==
  {i \in q : \A j \in q : j <= i => \A d \in w : d[1] # j}

Waiting(kind) == \E i \in queue : Cmd(i).kind = kind

-----------------------------------------------------------------------------
(* The deferred break of the desktop (lifecycle/deferred.rs).              *)

ExactSource(b, t) ==
  /\ b.timer # None /\ b.timer.timer = t.timer
  /\ b.timer.phase = "focus" /\ b.timer.status = "completed"
  /\ \E r \in CompletedRows(b.rows) : r.timer = t.timer /\ r.cmd = t.finish
                                      /\ r.phase = "focus"

\* Mutant: what the user did since does not matter.
NoLaterCommand(t, line, q) == FALSE

LaterCommand(t, line, q) ==
  \E k \in DOMAIN line :
    /\ line[k].id \in q /\ line[k].id > t.finish
    /\ line[k].kind # "finish" \/ line[k].timer # t.timer

\* news: the outcomes and the discarded commands that an install brought.
Denied(t, b, news) ==
  \/ t.finish \in news.discarded
  \/ /\ t.finish \in DOMAIN news.acks
     /\ \/ news.acks[t.finish] = "rejected"
        \/ ~ ExactSource(b, t)

NoNews == [acks |-> <<>>, discarded |-> {}]

\* The triggers that are left and the break that is started, if any.
Deferred(b, q, o, news) ==
  LET open == {i \in DOMAIN triggers :
                 ~ Denied(triggers[i], b, news)
                 /\ ~ LaterCommand(triggers[i], timeline, q)}
      k    == CHOOSE i \in open : \A j \in open : i <= j
      t    == triggers[k]
      accepted == t.finish \notin q /\ ExactSource(b, t)
      seen == IF signedIn \/ accepted THEN b ELSE View(b, timeline, q)
  IN  CASE open = {} -> [left |-> <<>>, start |-> None]
        [] open # {} /\ \/ signedIn /\ (t.finish \in q \/ o)
                        \/ ~ ExactSource(seen, t) ->
             [left |-> SubSeq(triggers, k, Len(triggers)), start |-> None]
        [] OTHER ->
             [left |-> SubSeq(triggers, k + 1, Len(triggers)),
              start |-> [finish |-> t.finish, waits |-> ~ accepted,
                         phase |-> PhaseAfter("focus", seen.rows,
                           Day((CHOOSE r \in seen.rows : r.cmd = t.finish).ended))]]

-----------------------------------------------------------------------------
Init ==
  /\ profile \in Profiles
  /\ now = 0
  /\ selection = [phase |-> "focus", explicit |-> FALSE,
                  generation |-> IF profile = "apple" THEN Generations - 1 ELSE 0]
  /\ timeline = <<>> /\ mine = {} /\ made = {} /\ queue = {} /\ waits = {} /\ other = FALSE
  /\ sent = None /\ base = Nothing
  /\ advances = {} /\ triggers = <<>> /\ consumed = {}
  /\ signedIn \in IF profile = "desktop" THEN BOOLEAN ELSE {TRUE}
  /\ log = {} /\ refused = {}
  /\ chosen = None /\ chosenAt = 0 /\ stacked = FALSE /\ witnessed = FALSE

Server    == <<log, refused>>
Obligations == <<advances, triggers, consumed>>
Ghosts    == <<chosen, chosenAt, stacked, witnessed>>

Theirs == (1 .. Len(timeline)) \ mine

\* bound: the commands that are not generated; one of a peer counts twice.
CanCommand(weight) ==
  Cardinality(mine \ made) + 2 * Cardinality(Theirs) + weight
    <= MaxCommands[profile]

Queue(c) ==
  /\ timeline' = Insert(timeline, c)
  /\ mine' = mine \cup {c.id} /\ queue' = queue \cup {c.id} /\ UNCHANGED made
  /\ waits' = waits \cup Inherits(c.timer)

Tick ==
  /\ now < MaxNow
  /\ now' = now + 1
  /\ UNCHANGED <<profile, selection, timeline, mine, made, queue, waits, other, sent,
                 base, signedIn, Obligations, Server, Ghosts>>

\* A start takes the selected phase.  On Apple and in the PWA it ends what
\* the user had chosen for it.
StartTimer ==
  /\ CanCommand(1)
  /\ profile = "apple" => ~ InUse(Here.timer)
  /\ Queue(NewCommand("start", NewId, selection.phase, now))
  /\ selection' = [selection EXCEPT !.explicit =
                     IF profile \in {"apple", "pwa"} THEN FALSE ELSE @]
  /\ chosen' = None
  /\ UNCHANGED <<profile, now, other, sent, base, signedIn, Obligations, Server,
                 chosenAt, stacked, witnessed>>

\* Pause, resume, cancel and clear do not touch the selection.
Pauses == IF profile \in Pausing THEN {"pause"} ELSE {}

Control ==
  LET timer == Here.timer IN
  /\ CanCommand(1)
  /\ timer # None
  /\ \E kind \in CASE timer.status = "running" -> Pauses \cup {"cancel"}
                   [] timer.status = "paused"  -> {"resume", "cancel"}
                   [] OTHER                    -> {"clear"} :
       Queue(NewCommand(kind, timer.timer, timer.phase, now))
  /\ UNCHANGED <<profile, now, selection, other, sent, base, signedIn,
                 Obligations, Server, Ghosts>>

-----------------------------------------------------------------------------
(* Finish (completion_mutation.rs).  Only the PWA finishes a timer that    *)
(* its deadline has completed; the others finish it as if it ran.          *)

IntentIsNatural(timer) == timer.intent.kind \in {"start", "resume"}

NaturallyCompleted(v) ==
  /\ v.timer # None /\ v.timer.status = "completed"
  /\ \E r \in v.rows : r.timer = v.timer.timer /\ Natural(v.timer, r)

QueuedFinish(t) == \E i \in queue : Cmd(i).kind = "finish" /\ Cmd(i).timer = t

\* The timer a finish would end, None if there is none.
FinishTarget ==
  LET here  == Here
      timer == IF profile = "pwa" THEN here.timer ELSE Unexpired.timer
  IN  IF /\ timer # None
         /\ \/ InUse(timer)
            \/ /\ profile = "pwa" /\ NaturallyCompleted(here)
               /\ Owned(timer.timer) /\ ~ QueuedFinish(timer.timer)
               /\ ~ \E i \in consumed : i.timer = timer.timer
                      /\ i.phase = timer.phase /\ i.cmd # None
      THEN timer ELSE None

\* Mutant: a choice does not hold the selection back.
FollowsAlways(timer) == TRUE

\* advance_selection.
Follows(timer) ==
  CASE profile = "apple" -> ~ selection.explicit
    [] profile = "pwa" /\ IntentIsNatural(timer) ->
         /\ ~ selection.explicit /\ selection.phase = timer.phase
         /\ ~ \E i \in consumed : i.timer = timer.timer /\ i.phase = timer.phase
    [] OTHER -> TRUE

GenerationAfter(phase) ==
  CASE profile = "apple" /\ ~ selection.explicit ->
         NextGeneration(selection.generation)
    [] profile = "android" /\ selection.phase # phase ->
         NextGeneration(selection.generation)
    [] OTHER -> selection.generation

FinishTimer(breakWanted) ==
  LET timer == FinishTarget
      c     == NewCommand("finish", timer.timer, timer.phase, now)
      next  == PhaseAfter(timer.phase,
                 History(Apply(Reduced(base, timeline, queue), c)), Day(now))
      phase == IF Follows(timer) THEN next ELSE selection.phase
      gen   == GenerationAfter(next)
  IN
  /\ CanCommand(1) /\ timer # None
  /\ breakWanted => profile = "desktop" /\ timer.phase = "focus"
                    /\ Owned(timer.timer)
  /\ Queue(c)
  /\ selection' = [selection EXCEPT !.phase = phase, !.generation = gen]
  /\ advances' = IF \/ profile = "desktop"
                    \/ profile = "apple" /\ ~ selection.explicit
                 THEN advances \cup
                        {[cmd |-> c.id, timer |-> timer.timer,
                          previous |-> IF profile = "apple" THEN selection.phase
                                                            ELSE timer.phase,
                          advanced |-> next, generation |-> gen]}
                 ELSE advances
  /\ triggers' = IF breakWanted
                 THEN Append(triggers, [finish |-> c.id, timer |-> timer.timer])
                 ELSE triggers
  /\ consumed' = IF timer.status = "completed"
                 THEN consumed \cup {Completion(timer.timer, None, timer.phase),
                                     Completion(timer.timer, c.id, timer.phase)}
                 ELSE consumed
  /\ chosen' = IF \/ profile \in {"desktop", "android"}
                  \/ profile = "pwa" /\ ~ IntentIsNatural(timer)
               THEN None ELSE chosen
  /\ stacked' = (stacked \/ Waiting("finish"))
  /\ UNCHANGED <<profile, now, other, sent, base, signedIn, Server, chosenAt,
                 witnessed>>

-----------------------------------------------------------------------------
(* Choices (policy.rs, pwa_selection.rs).                                  *)

CanChoose(phase, timer) ==
  profile = "android" => ~ InUse(timer) /\ phase # selection.phase

\* On Apple a choice clears a timer that is over.  In the PWA, by its lifecycle,
\* a choice of the phase that is selected counts, and fails when no generation
\* is left.
Choose(phase, here) ==
  /\ CanChoose(phase, here.timer)
  /\ profile = "pwa" => selection.generation < Generations - 1
  /\ selection' = [phase |-> phase,
                   generation |-> NextGeneration(selection.generation),
                   explicit |-> \/ profile \in {"apple", "pwa"}
                                \/ selection.explicit]
  /\ IF profile = "apple" /\ here.timer # None /\ here.timer.status \in Ended
     THEN Queue(NewCommand("clear", here.timer.timer, here.timer.phase, now))
     ELSE UNCHANGED <<timeline, mine, made, queue, waits>>
  /\ consumed' = IF profile = "pwa" /\ NaturallyCompleted(here)
                 THEN consumed \cup {Completion(here.timer.timer, None,
                                                here.timer.phase)}
                 ELSE consumed
  /\ chosen' = phase /\ chosenAt' = chosenAt + 1
  /\ UNCHANGED <<profile, now, other, sent, base, advances, triggers, signedIn,
                 Server, stacked, witnessed>>

SelectPhase ==
  /\ chosenAt < MaxChoices
  /\ LET here == Here IN \E phase \in Phases : Choose(phase, here)

Skip ==
  /\ chosenAt < MaxChoices
  /\ profile \in {"apple", "pwa"}
  /\ LET here == Here
     IN  Choose(PhaseSkipped(selection.phase, here.rows, Day(now)), here)

-----------------------------------------------------------------------------
(* The account.                                                            *)

Peer(c) ==
  /\ CanCommand(2)
  /\ timeline' = Insert(timeline, c)
  /\ log' = log \cup {c.id}
  /\ UNCHANGED <<profile, now, selection, mine, made, queue, waits, other, sent, base,
                 Obligations, signedIn, refused, Ghosts>>

\* A peer's command may reach the server late.
PeerStarts ==
  \E at \in 0 .. now, phase \in {"focus", "short_break"} :
    Peer(NewCommand("start", NewId, phase, at))

PeerFinishes ==
  LET timer == Shown(Reduced(Nothing, timeline, log)).timer
  IN  /\ InUse(timer)
      /\ Peer(NewCommand("finish", timer.timer, timer.phase, now))

\* Preferences and the session only hold breaks back.
EditPreference ==
  /\ profile = "desktop" /\ ~ other /\ triggers # <<>>
  /\ other' = TRUE
  /\ UNCHANGED <<profile, now, selection, timeline, mine, made, queue, waits, sent,
                 base, Obligations, signedIn, Server, Ghosts>>

SignInOrOut ==
  /\ profile = "desktop" /\ triggers # <<>>
  /\ signedIn' = ~ signedIn
  /\ UNCHANGED <<profile, now, selection, timeline, mine, made, queue, waits, other,
                 sent, base, Obligations, Server, Ghosts>>

\* A request without operations asks for what happened elsewhere.
Send ==
  /\ sent = None
  /\ Sendable(queue, waits) # {} \/ other \/ Theirs # {} \/ InUse(base.timer)
  /\ sent' = [ids |-> Sendable(queue, waits), other |-> other,
              captured |-> selection, at |-> now]
  /\ chosen' = IF profile = "android" /\ \E i \in sent'.ids : Cmd(i).kind = "finish"
               THEN None ELSE chosen
  /\ UNCHANGED <<profile, now, selection, timeline, mine, made, queue, waits, other,
                 base, Obligations, signedIn, Server, chosenAt, stacked, witnessed>>

\* The server takes a request, and may refuse a command of it.  What it
\* decided stands when the answer is lost and asked for again.
Serve ==
  /\ sent # None
  /\ \E bad \in SUBSET (sent.ids \ (log \cup refused)) :
       /\ Cardinality(refused \cup bad) <= MaxRefused
       /\ refused' = refused \cup bad
       /\ log' = log \cup (sent.ids \ refused')
       /\ log' # log \/ refused' # refused
  /\ UNCHANGED <<profile, now, selection, timeline, mine, made, queue, waits, other,
                 sent, base, Obligations, signedIn, Ghosts>>

UpTo(line, i) == SubSeq(line, 1, CHOOSE k \in DOMAIN line : line[k].id = i)

\* What the server says at an instant between the request and now.
Answer(at) ==
  [shown |-> Shown(Projected(Reduced(Nothing, timeline, log), at)),
   acks  |-> [i \in sent.ids |->
               IF i \in refused THEN "rejected"
               ELSE Reduced(Nothing, UpTo(timeline, i), log).outcome]]

-----------------------------------------------------------------------------
(* Installation.                                                           *)

\* A child is released when its parent was applied and, for a break, shows
\* as the completion it followed; otherwise it goes with its timer.
Released(w, answer) ==
  /\ answer.acks[w[2]] = "applied"
  /\ Cmd(w[2]).kind = "finish" =>
       \E r \in CompletedRows(answer.shown.rows) : r.cmd = w[2]

Discarded(answer) ==
  {i \in queue : \E w \in waits :
     /\ w[2] \in DOMAIN answer.acks /\ ~ Released(w, answer)
     /\ Cmd(w[1]).timer = Cmd(i).timer}

Installation(answer, left, o, discarded) ==
  [lifecycle |-> "evidence",
   before |-> base.rows, after |-> answer.shown.rows,
   timer |-> answer.shown.timer, selection |-> selection,
   pending |-> IF profile = "desktop" THEN Sendable(left, waits) ELSE left,
   other |-> o, advances |-> advances, acks |-> answer.acks,
   discarded |-> discarded, reference |-> now, captured |-> sent.captured,
   sent |-> {Cmd(i) : i \in sent.ids}, queued |-> {Cmd(i) : i \in queue},
   last |-> Len(timeline),
   next |-> View(answer.shown, timeline, left).timer,
   optimistic |-> Here.rows, consumed |-> consumed]

\* A generated start: on the desktop the selection follows it.
StartBreak(start, left, sel) ==
  IF start = None
  THEN /\ selection' = sel /\ queue' = left
       /\ UNCHANGED <<timeline, mine, made>>
  ELSE LET c == NewCommand("start", NewId, start.phase, now)
       IN  /\ selection' = [sel EXCEPT !.phase = start.phase]
           /\ timeline' = Insert(timeline, c)
           /\ mine' = mine \cup {c.id} /\ made' = made \cup {c.id}
           /\ queue' = left \cup {c.id}

NewWait(start) ==
  IF start # None /\ start.waits THEN {<<NewId, start.finish>>} ELSE {}

Taken(start, old) == IF start = None THEN old ELSE None

Install(at) ==
  LET answer    == Answer(at)
      discarded == Discarded(answer)
      left      == queue \ (sent.ids \cup discarded)
      o         == other /\ ~ sent.other
      in        == Installation(answer, left, o, discarded)
      out       == Installed(profile, in)
      later     == Deferred(answer.shown, left, o,
                            [acks |-> answer.acks, discarded |-> discarded])
  IN
  /\ sent # None /\ sent.ids \subseteq log \cup refused /\ sent.at <= at
  /\ base' = answer.shown
  /\ other' = o
  /\ advances' = out.advances
  /\ triggers' = later.left
  /\ StartBreak(later.start, left, out.selection)
  /\ waits' = {w \in waits : w[1] \in left /\ w[2] \notin sent.ids}
                \cup NewWait(later.start)
  /\ consumed' = IF profile = "pwa" THEN PwaConsumed(in) ELSE consumed
  /\ chosen' = IF \/ later.start # None
                  \/ /\ profile = "desktop" /\ out.selection # selection
                     /\ \E r \in CompletedRows(answer.shown.rows) \ base.rows :
                          r.phase = selection.phase
               THEN None ELSE chosen
  /\ sent' = None
  /\ witnessed' = (witnessed \/ CompletedRows(answer.shown.rows) # {})
  /\ UNCHANGED <<profile, now, signedIn, Server, chosenAt, stacked>>

\* The desktop looks at its triggers again.
Opportunity ==
  LET later == Deferred(base, queue, other, NoNews)
  IN
  /\ profile = "desktop" /\ triggers # <<>>
  /\ triggers' = later.left
  /\ StartBreak(later.start, queue, selection)
  /\ waits' = waits \cup NewWait(later.start)
  /\ chosen' = Taken(later.start, chosen)
  /\ UNCHANGED <<profile, now, other, sent, base, advances, consumed, signedIn,
                 Server, chosenAt, stacked, witnessed>>

Next ==
  \/ Tick \/ StartTimer \/ Control
  \/ \E breakWanted \in BOOLEAN : FinishTimer(breakWanted)
  \/ SelectPhase \/ Skip
  \/ PeerStarts \/ PeerFinishes \/ EditPreference \/ SignInOrOut
  \/ Send \/ Serve \/ \E at \in 0 .. now : Install(at)
  \/ Opportunity

Spec == Init /\ [][Next]_vars

-----------------------------------------------------------------------------
\* A choice stands until the next start of a timer, whatever is refused,
\* installed or completed in the meantime: no rollback and no installation
\* takes an older advance for the phase that the user has chosen since.  What
\* each client does not promise is where chosen is taken back: a finish of
\* the desktop and of Android, and of a paused timer in the PWA, moves on
\* from the choice; Android keeps it only if it was made after the request;
\* the desktop follows a new completion of the very phase that was chosen.
\* A PWA without a lifecycle promises none of it: there a refused finish takes
\* back a choice of the phase it went to.
ChoiceStands == chosen # None => selection.phase = chosen

Settled == queue = {} /\ sent = None

\* Once everything is answered and nothing was ever completed or chosen, the
\* selection is what it was at the beginning: a finish that was refused, or
\* found nothing to finish, leaves no trace, however many advances it had
\* made on Apple and in the PWA.  On Android and on the desktop an advance
\* over an unanswered one is not unwound, the PWA goes back for a refused finish
\* only, and all but Apple go back to the phase of the finished timer, which
\* is the selected one unless a peer had started it.
RefusedLeavesNoTrace ==
  (/\ Settled /\ chosenAt = 0 /\ ~ witnessed
   /\ stacked => profile \in {"apple", "pwa"}
   /\ profile # "apple" => \A i \in Theirs : Cmd(i).phase = "focus"
   /\ profile = "pwa" =>
        \A i \in mine : Cmd(i).kind = "finish" => i \in refused)
  => /\ selection.phase = "focus"
     /\ profile = "apple" => selection.generation = Generations - 1
     /\ advances = {}

Generated ==
  {k \in DOMAIN timeline' :
     /\ timeline'[k].id \in mine' \ mine /\ timeline'[k].kind = "start"
     /\ Len(triggers') < Len(triggers)}

\* The break that a finish asked for starts at most when the focus it follows
\* is still what the client shows: never over a timer that the user has
\* started since, never for a finish that the server refused, and for a
\* signed-in client only when the server has the finish.
BreakFollowsItsFocus ==
  [][Generated # {} =>
       LET b == View(base', timeline, queue' \cap queue)
           t == triggers[Len(triggers) - Len(triggers')]
       IN  /\ b.timer # None /\ b.timer.timer = t.timer
           /\ b.timer.status = "completed"
           /\ t.finish \notin refused \/ t.finish \in queue'
           /\ signedIn => t.finish \in log]_vars
=============================================================================
