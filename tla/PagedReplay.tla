---------------------------- MODULE PagedReplay ----------------------------
(***************************************************************************)
(* Replay of a long log in pages (src/timer/replay_page.rs).  The host     *)
(* keeps all sessions and the current timer; to a page it passes only the  *)
(* sessions that the page's commands address and the current one, and what *)
(* comes back replaces those.  A host that stops within a page, or that    *)
(* does not know whether it stored the last one, submits commands again.   *)
(***************************************************************************)
EXTENDS TimerLog, FiniteSets

CONSTANT PageSize  \* the most commands in a page

ASSUME PagedAssumption == None \notin Reduction /\ PageSize \in Nat \ {0}

VARIABLES
  kept,   \* what the host has stored: the sessions and the current timer
  after,  \* the order key of the last command it has stored
  page,   \* the reduction of the page that is being replayed, or None
  scope,  \* the timers whose sessions the host passed to it
  size,   \* the commands submitted in it
  done,   \* one replay of the whole log up to after (a history)
  whole,  \* the same, with the commands of the page (a history)
  latest, \* the key of the last command of whole (a history)
  head,   \* the first command of the page, or None (a history)
  first,  \* the first command of the page stored last, or None (a history)
  closed  \* the log was read to its end

pagedVars == <<kept, after, page, scope, size, done, whole, latest, head,
               first, closed>>

Empty == [sessions |-> [t \in Timers |-> None], current |-> None,
          outcome |-> "applied"]

\* Mutant: a restored session does not know who superseded it.
RestoreWithoutSuperseder(s, t) ==
  [s EXCEPT !.historyId = t, !.supersededBy = None]

\* restore_session: the history id is not passed, it is the timer's.
Restore(s, t) == [s EXCEPT !.historyId = t]

\* What restore and restore_session ask of the sessions of a page.
Restorable(s) ==
  s.elapsed <= s.planned /\ (s.status \in Ended <=> s.ended # None)

Accepted(red, timers) ==
  /\ \A t \in timers : red.sessions[t] # None => Restorable(red.sessions[t])
  /\ Cardinality({t \in timers : red.sessions[t] # None}) <= PageSize + 1
  /\ red.current # None => red.current \in timers /\ Exists(red, red.current)

\* The commands of all pages follow each other in the order of their keys.
Ordered(id, previous) == id > previous

-----------------------------------------------------------------------------
PagedInit ==
  /\ kept = Empty /\ after = 0
  /\ page = None /\ scope = {} /\ size = 0
  /\ done = Empty /\ whole = Empty /\ latest = 0
  /\ head = None /\ first = None
  /\ closed = FALSE

\* The host passes the sessions of some timers.
OpenPage(timers) ==
  /\ page = None /\ ~ closed
  /\ Accepted(kept, timers)
  /\ page' = [kept EXCEPT !.sessions =
                [t \in Timers |-> IF t \in timers /\ @[t] # None
                                  THEN Restore(@[t], t) ELSE None]]
  /\ scope' = timers
  /\ UNCHANGED <<kept, after, size, done, whole, latest, head, first, closed>>

\* The next command of the log.
Submit(p) ==
  LET c == Numbered(p, latest + 1) IN
  /\ page # None /\ size < PageSize /\ latest < MaxCommands
  /\ p.timer \in scope
  /\ Ordered(c.id, latest)
  /\ page' = Apply(page, c)
  /\ whole' = Apply(whole, c)
  /\ latest' = c.id
  /\ head' = IF size = 0 THEN c ELSE head
  /\ size' = size + 1
  /\ UNCHANGED <<kept, after, scope, done, first, closed>>

\* No page is in progress any more.
NoPage == page' = None /\ scope' = {} /\ size' = 0 /\ head' = None

\* What the page computed is lost, and with it what was counted in it.
LosePage ==
  /\ NoPage
  /\ whole' = done /\ latest' = after
  /\ UNCHANGED <<kept, after, done, first, closed>>

\* A host that does not know whether it stored the last page submits that
\* page again: the call fails.
Repeat ==
  /\ page # None /\ size < PageSize /\ first # None
  /\ first.timer \in scope
  /\ IF Ordered(first.id, latest)
     THEN /\ page' = Apply(page, first) /\ size' = size + 1
          /\ UNCHANGED <<kept, after, scope, done, whole, latest, head, first,
                         closed>>
     ELSE LosePage

\* The host stores what comes back; sessions outside the page stay verbatim.
Merge(red, part) ==
  [part EXCEPT !.sessions =
     [t \in Timers |-> IF @[t] # None THEN @[t] ELSE red.sessions[t]]]

ClosePage ==
  /\ page # None /\ size > 0
  /\ kept' = Merge(kept, page)
  /\ after' = latest
  /\ first' = head
  /\ done' = whole
  /\ NoPage
  /\ UNCHANGED <<whole, latest, closed>>

\* The last page, perhaps an empty one, also says when it is read.
CloseLog(now) ==
  /\ page # None
  /\ kept' = Merge(kept, Projected(page, now))
  /\ after' = latest
  /\ done' = Projected(whole, now) /\ whole' = Projected(whole, now)
  /\ NoPage
  /\ closed' = TRUE
  /\ UNCHANGED <<latest, first>>

\* The host stops before it stored the page.
Crash == page # None /\ LosePage

PagedNext ==
  \/ \E timers \in SUBSET Timers : OpenPage(timers)
  \/ \E p \in Payloads : Submit(p)
  \/ Repeat
  \/ ClosePage
  \/ \E now \in Instants : CloseLog(now)
  \/ Crash

PagedSpec == PagedInit /\ [][PagedNext]_pagedVars

-----------------------------------------------------------------------------
\* No command leaves a session behind that the next page would refuse.
NextPageAccepted ==
  /\ \A t \in Timers : kept.sessions[t] # None => Restorable(kept.sessions[t])
  /\ kept.current # None => Exists(kept, kept.current)

(* Pages add up: what the host has stored is what one replay of the whole  *)
(* log would have computed, wherever the pages were cut, whichever further *)
(* sessions were passed, and however often the host started a page again   *)
(* ("Replay the full sorted log; the host retains untouched sessions       *)
(* verbatim", replay_page.rs); and another page can always follow.         *)
PagesMatchReplay ==
  /\ kept.sessions = done.sessions /\ kept.current = done.current
  /\ NextPageAccepted
=============================================================================
