-------------------------- MODULE PreferencesProofs --------------------------
(***************************************************************************)
(* Theorems about Preferences, for all hosts, devices, tasks, intents and  *)
(* rows of earlier releases: what a device shows is honest and consistent, *)
(* what it offers is admitted, and no edit is lost or hidden.              *)
(***************************************************************************)
EXTENDS Preferences, TLAPS, FiniteSetTheorems, WellFoundedInduction,
        SequenceTheorems

-----------------------------------------------------------------------------
(* Operations and their order.                                             *)

\* No two operations have the same clock key.
Keyed(ops) ==
  \A o, p \in ops : o.hlc = p.hlc /\ o.device = p.device => o = p

\* Operations, whatever their clock values.
Rows == [slot : Slots, value : Values, hlc : Int, device : Devices]

LEMMA OperationIsRow == Operation \subseteq Rows
  BY DEF Operation, Rows, Stamps

\* Later orders operations by their keys.
LEMMA LaterOrder ==
  /\ \A o \in Rows : o.hlc \in Int /\ o.device \in Int
  /\ \A o \in Rows : ~ Later(o, o)
  /\ \A o, p \in Rows : ~ (Later(o, p) /\ Later(p, o))
  /\ \A o, p, q \in Rows : Later(o, p) /\ Later(p, q) => Later(o, q)
  /\ \A o, p \in Rows : ~ Later(o, p) /\ ~ Later(p, o)
                           => o.hlc = p.hlc /\ o.device = p.device
<1>1. \A o \in Rows : o.hlc \in Int /\ o.device \in Int
  BY DevicesAssumption DEF Rows
<1> QED
  BY <1>1 DEF Later

\* Of finitely many operations one has no later one.
LEMMA Topmost ==
  ASSUME NEW ops \in SUBSET Rows, IsFiniteSet(ops), ops # {}
  PROVE  \E m \in ops : \A p \in ops : ~ Later(p, m)
<1> DEFINE Up(o) == {p \in ops : Later(p, o)}
           T == {Up(o) : o \in ops}
<1>1. IsWellFoundedOn(StrictSubsetOrdering(ops), SUBSET ops)
  BY FS_StrictSubsetOrderingWellFounded, FS_FiniteSubsetsOfFinite
<1>2. T \subseteq SUBSET ops /\ T # {}
  OBVIOUS
<1>3. PICK x \in T : \A y \in T : ~ (<<y, x>> \in StrictSubsetOrdering(ops))
  <2> HIDE DEF T
  <2> QED
    BY <1>1, <1>2, WFMin
<1>4. PICK m \in ops : x = Up(m)
  BY <1>3
<1>5. SUFFICES ASSUME NEW p \in ops, Later(p, m)
               PROVE  FALSE
  OBVIOUS
<1>6. \A q \in ops : Later(q, p) => Later(q, m)
  BY <1>5, LaterOrder
<1>7. ~ Later(p, p)
  BY LaterOrder
<1>8. Up(p) \subseteq Up(m) /\ Up(p) # Up(m)
  BY <1>5, <1>6, <1>7
<1>9. <<Up(p), Up(m)>> \in StrictSubsetOrdering(ops)
  BY <1>8 DEF StrictSubsetOrdering
<1> QED
  BY <1>3, <1>4, <1>9

\* A winner is the only one.
LEMMA WinnerIs ==
  ASSUME NEW ops \in SUBSET Rows, NEW s, NEW o \in Winners(ops, s)
  PROVE  Winner(ops, s) = o
<1>1. \A p \in Winners(ops, s) : p = o
  BY LaterOrder DEF Winners, Wins
<1> QED
  BY <1>1 DEF Winner

\* A slot that was written has a winner.
LEMMA WinnerWins ==
  ASSUME NEW ops \in SUBSET Rows, IsFiniteSet(ops), Keyed(ops),
         NEW s, Touched(ops, s)
  PROVE  Winner(ops, s) \in Winners(ops, s)
<1> DEFINE own == {o \in ops : o.slot = s}
<1>1. own \in SUBSET Rows /\ IsFiniteSet(own) /\ own # {}
  BY FS_Subset DEF Touched
<1>2. PICK m \in own : \A p \in own : ~ Later(p, m)
  BY <1>1, Topmost
<1>3. \A p \in own : p = m \/ Later(m, p)
  <2> SUFFICES ASSUME NEW p \in own, ~ Later(m, p)
               PROVE  p = m
    OBVIOUS
  <2>1. m \in Rows /\ p \in Rows
    OBVIOUS
  <2>2. p.hlc = m.hlc /\ p.device = m.device
    BY <1>2, <2>1, LaterOrder
  <2> QED
    BY <2>2 DEF Keyed
<1>4. m \in Winners(ops, s)
  BY <1>3 DEF Winners, Wins
<1> QED
  BY <1>4, WinnerIs

\* The greatest clock value is one.
LEMMA GreatestIs ==
  ASSUME NEW ops \in SUBSET Operation, IsFiniteSet(ops)
  PROVE  /\ Greatest(ops) \in 0 .. MaxStamp
         /\ \A o \in ops : o.hlc <= Greatest(ops)
<1>1. CASE ops = {}
  BY <1>1, BoundAssumption DEF Greatest
<1>2. CASE ops # {}
  <2>1. PICK m \in ops : \A p \in ops : ~ Later(p, m)
    BY <1>2, Topmost, OperationIsRow
  <2>2. \A p \in ops : p.hlc <= m.hlc
    BY <2>1 DEF Later, Operation, Stamps
  <2>3. /\ Greatest(ops) \in {o.hlc : o \in ops}
        /\ \A o \in ops : o.hlc <= Greatest(ops)
    BY <1>2, <2>2 DEF Greatest
  <2> QED
    BY <2>3, BoundAssumption DEF Operation, Stamps
<1> QED
  BY <1>1, <1>2

-----------------------------------------------------------------------------
(* Replays.                                                                *)

LEMMA SlotNames ==
  /\ Tasks \subseteq Slots /\ Phases \subseteq Slots
  /\ "auto" \in Slots /\ "selection" \in Slots
  /\ "selection" \notin Tasks /\ "selection" \notin Phases
  /\ None \in Values /\ Tasks \subseteq Values /\ Durations \subseteq Values
  /\ \A v \in {"active", "deleted", "on", "off"} : v \in Values
  BY SlotsAssumption DEF Slots, Values

\* A projection, slot by slot.
LEMMA ProjectSlots ==
  ASSUME NEW b, NEW ops
  PROVE  /\ \A s \in Slots \ {"selection"} : Project(b, ops)[s] = Written(b, ops, s)
         /\ Project(b, ops)["selection"] = SelectionOf(b, ops)
         /\ Project(b, ops) = [s \in Slots |-> Project(b, ops)[s]]
  BY SlotNames DEF Project

LEMMA WrittenType ==
  ASSUME NEW ops \in SUBSET Rows, IsFiniteSet(ops), Keyed(ops),
         NEW b \in View, NEW s \in Slots
  PROVE  Written(b, ops, s) \in Values
<1>1. CASE Touched(ops, s)
  <2>1. Winner(ops, s) \in Rows
    BY <1>1, WinnerWins DEF Winners
  <2> QED
    BY <1>1, <2>1 DEF Written, Rows
<1>2. CASE ~ Touched(ops, s)
  BY <1>2 DEF Written, View
<1> QED
  BY <1>1, <1>2

LEMMA ProjectType ==
  ASSUME NEW ops \in SUBSET Rows, IsFiniteSet(ops), Keyed(ops), NEW b \in View
  PROVE  Project(b, ops) \in View
<1>1. SelectionOf(b, ops) \in Values
  BY SlotNames DEF SelectionOf
<1>2. \A s \in Slots : Project(b, ops)[s] \in Values
  BY <1>1, WrittenType, ProjectSlots
<1> QED
  BY <1>2, ProjectSlots DEF View

LEMMA DefaultsType == Defaults \in View
<1>1. \A s \in Slots : Defaults[s] \in Values
  <2> SUFFICES ASSUME NEW s \in Slots
               PROVE  Defaults[s] \in Values
    OBVIOUS
  <2>1. CASE s \in Tasks
    <3>1. Defaults[s] = "deleted"
      BY <2>1, SlotsAssumption DEF Defaults, Slots
    <3> QED
      BY <3>1, SlotNames
  <2>2. CASE s \in Phases
    <3>1. Defaults[s] = Standard
      BY <2>2, SlotsAssumption DEF Defaults, Slots
    <3> QED
      BY <3>1, SlotNames, SlotsAssumption
  <2>3. CASE s = "auto"
    <3>1. Defaults[s] = "off"
      BY <2>3, SlotsAssumption DEF Defaults, Slots
    <3> QED
      BY <3>1, SlotNames
  <2>4. CASE s = "selection"
    <3>1. Defaults[s] = None
      BY <2>4, SlotsAssumption DEF Defaults, Slots
    <3> QED
      BY <3>1, SlotNames
  <2> QED
    BY <2>1, <2>2, <2>3, <2>4 DEF Slots
<1> QED
  BY <1>1 DEF View, Defaults

LEMMA DefaultSelection == Defaults["selection"] = None
  BY SlotsAssumption DEF Defaults, Slots

\* No projection selects a task that it does not have.
LEMMA SelectionIsActive ==
  ASSUME NEW b, NEW ops
  PROVE  Project(b, ops)["selection"] # None
           => Project(b, ops)[Project(b, ops)["selection"]] = "active"
<1> DEFINE w == SelectionOf(b, ops)
<1>1. w # None => w \in Tasks /\ Written(b, ops, w) = "active"
  BY DEF SelectionOf
<1>2. w # None => w \in Slots \ {"selection"}
  BY <1>1, SlotNames
<1> HIDE DEF w
<1>3. w # None => Project(b, ops)[w] = "active"
  BY <1>1, <1>2, ProjectSlots
<1> QED
  BY <1>3, ProjectSlots DEF w

LEMMA ProjectNothing == Project(Defaults, {}) = Defaults
<1>1. \A s : Written(Defaults, {}, s) = Defaults[s]
  BY DEF Written, Touched
<1>2. SelectionOf(Defaults, {}) = Defaults["selection"]
  BY <1>1, DefaultSelection, SlotsAssumption DEF SelectionOf
<1>3. \A s \in Slots : Project(Defaults, {})[s] = Defaults[s]
  BY <1>1, <1>2, ProjectSlots
<1>4. Project(Defaults, {}) = [s \in Slots |-> Project(Defaults, {})[s]]
  BY ProjectSlots
<1>5. Defaults = [s \in Slots |-> Defaults[s]]
  BY DefaultsType DEF View
<1> QED
  BY <1>3, <1>4, <1>5

\* What only later operations say about a slot is what all of them say.
LEMMA LateWritten ==
  ASSUME NEW old \in SUBSET Rows, NEW new \in SUBSET Rows,
         IsFiniteSet(new), Keyed(new),
         \A o \in old, p \in new : p.hlc > o.hlc,
         NEW b, NEW s
  PROVE  Written(b, old \cup new, s) =
           IF Touched(new, s) THEN Winner(new, s).value ELSE Written(b, old, s)
<1> DEFINE all == old \cup new
<1>1. CASE Touched(new, s)
  <2>1. Winner(new, s) \in Winners(new, s)
    BY <1>1, WinnerWins
  <2>2. Winner(new, s) \in Winners(all, s)
    <3> DEFINE w == Winner(new, s)
    <3>1. w \in new /\ w.slot = s /\ \A p \in new : p.slot = s => p = w \/ Later(w, p)
      BY <2>1 DEF Winners, Wins
    <3> HIDE DEF w
    <3>2. \A p \in old : Later(w, p)
      BY <3>1 DEF Later
    <3>3. w \in Winners(all, s)
      BY <3>1, <3>2 DEF Winners, Wins
    <3> QED
      BY <3>3 DEF w
  <2>3. Winner(all, s) = Winner(new, s)
    BY <2>2, WinnerIs
  <2>4. Touched(all, s)
    BY <1>1 DEF Touched
  <2>5. Written(b, all, s) = Winner(all, s).value
    BY <2>4 DEF Written
  <2> QED
    BY <1>1, <2>3, <2>5
<1>2. CASE ~ Touched(new, s)
  <2>1. Winners(all, s) = Winners(old, s)
    BY <1>2 DEF Winners, Wins, Touched
  <2>2. Touched(all, s) <=> Touched(old, s)
    BY <1>2 DEF Touched
  <2>3. Winner(all, s) = Winner(old, s)
    BY <2>1 DEF Winner
  <2>4. Written(b, all, s) = Written(b, old, s)
    BY <2>2, <2>3 DEF Written
  <2> QED
    BY <1>2, <2>4
<1> QED
  BY <1>1, <1>2

\* Later operations replayed over a snapshot give what a replay of everything
\* gives, but for a selection that the snapshot lost with its task.
LEMMA LateReplay ==
  ASSUME NEW old \in SUBSET Rows, NEW new \in SUBSET Rows,
         IsFiniteSet(new), Keyed(new),
         \A o \in old, p \in new : p.hlc > o.hlc
  PROVE  LET here == Project(Canonical(old), new)
             whole == Canonical(old \cup new)
         IN  /\ \A s \in Slots \ {"selection"} : here[s] = whole[s]
             /\ \/ here["selection"] = whole["selection"]
                \/ /\ here["selection"] = None
                   /\ Canonical(old)["selection"] = None
                   /\ ~ Touched(new, "selection")
                   /\ Touched(new, whole["selection"])
<1> DEFINE b == Canonical(old)
           here == Project(b, new)
           whole == Canonical(old \cup new)
           W(s) == Written(Defaults, old \cup new, s)
           H(s) == Written(b, new, s)
<1>1. \A s \in Slots \ {"selection"} : H(s) = W(s)
  <2> SUFFICES ASSUME NEW s \in Slots \ {"selection"}
               PROVE  H(s) = W(s)
    OBVIOUS
  <2>1. b[s] = Written(Defaults, old, s)
    BY ProjectSlots DEF Canonical
  <2> QED
    <3>1. H(s) = IF Touched(new, s) THEN Winner(new, s).value
                                   ELSE Written(Defaults, old, s)
      BY <2>1 DEF Written
    <3>2. W(s) = IF Touched(new, s) THEN Winner(new, s).value
                                   ELSE Written(Defaults, old, s)
      BY LateWritten
    <3> QED
      BY <3>1, <3>2
<1>2. /\ \A s \in Slots \ {"selection"} : here[s] = H(s) /\ whole[s] = W(s)
      /\ here["selection"] = SelectionOf(b, new)
      /\ whole["selection"] = SelectionOf(Defaults, old \cup new)
      /\ b["selection"] = SelectionOf(Defaults, old)
  BY ProjectSlots DEF Canonical
<1>3. \A t \in Tasks : H(t) = W(t)
  BY <1>1, SlotNames
<1>4. CASE Touched(new, "selection")
  <2>1. H("selection") = W("selection")
    <3>1. H("selection") = Winner(new, "selection").value
      BY <1>4 DEF Written
    <3> QED
      BY <1>4, <3>1, LateWritten
  <2>2. here["selection"] = whole["selection"]
    BY <1>2, <1>3, <2>1 DEF SelectionOf
  <2> QED
    BY <1>1, <1>2, <2>2
<1>5. CASE ~ Touched(new, "selection")
  <2> DEFINE w == Written(Defaults, old, "selection")
             kept == w \in Tasks /\ Written(Defaults, old, w) = "active"
             now == w \in Tasks /\ W(w) = "active"
  <2>1. W("selection") = w
    BY <1>5, LateWritten
  <2>2. H("selection") = b["selection"]
    BY <1>5 DEF Written
  <2>3. whole["selection"] = IF now THEN w ELSE None
    BY <1>2, <2>1 DEF SelectionOf
  <2>4. b["selection"] = IF kept THEN w ELSE None
    BY <1>2 DEF SelectionOf
  <2>5. CASE kept
    <3>1. here["selection"] = IF now THEN w ELSE None
      BY <1>2, <1>3, <2>2, <2>4, <2>5 DEF SelectionOf
    <3> QED
      BY <1>1, <1>2, <2>3, <3>1
  <2>6. CASE ~ kept
    <3>1. here["selection"] = None
      BY <1>2, <2>2, <2>4, <2>6, SlotsAssumption DEF SelectionOf
    <3>2. now => Touched(new, w)
      BY <2>6, LateWritten
    <3> QED
      BY <1>1, <1>2, <1>5, <2>3, <2>4, <2>6, <3>1, <3>2
  <2> QED
    BY <2>5, <2>6
<1> QED
  BY <1>4, <1>5

-----------------------------------------------------------------------------
(* The operations of an intent.                                            *)

Changes == [slot : Slots, value : Values]

\* One slot is written once, and a selected task is active: by an operation of
\* the same intent, or already.
Coherent(d, w) ==
  /\ w \in Seq(Changes)
  /\ \A j, k \in 1 .. Len(w) : w[j].slot = w[k].slot => j = k
  /\ \A j \in 1 .. Len(w) : w[j].slot = "selection" =>
       \/ w[j].value = None
       \/ /\ w[j].value \in Tasks
          /\ \/ \E k \in 1 .. Len(w) : /\ w[k].slot = w[j].value
                                       /\ w[k].value = "active"
             \/ /\ Selectable(d, w[j].value)
                /\ \A k \in 1 .. Len(w) : w[k].slot # w[j].value

LEMMA ShortSequences ==
  ASSUME NEW S, NEW a \in S, NEW b \in S, NEW c \in S
  PROVE  /\ <<>> \o <<a>> = <<a>> /\ <<a>> \o <<>> = <<a>>
         /\ <<a, b>> \o <<>> = <<a, b>>
         /\ <<a>> \o <<b>> = <<a, b>>
         /\ <<a, b>> \o <<c>> = <<a, b, c>>
<1>1. /\ <<a>> \o <<b>> \in Seq(S) /\ <<a, b>> \in Seq(S) /\ <<a>> \in Seq(S)
      /\ Len(<<a>> \o <<b>>) = 2 /\ Len(<<a, b>>) = 2
      /\ \A i \in 1 .. 2 : (<<a>> \o <<b>>)[i] = <<a, b>>[i]
  OBVIOUS
<1>2. /\ <<a, b>> \o <<c>> \in Seq(S) /\ <<a, b, c>> \in Seq(S)
      /\ Len(<<a, b>> \o <<c>>) = 3 /\ Len(<<a, b, c>>) = 3
      /\ \A i \in 1 .. 3 : (<<a, b>> \o <<c>>)[i] = <<a, b, c>>[i]
  OBVIOUS
<1>3. <<a>> \o <<b>> = <<a, b>>
  BY <1>1, SeqEqual
<1>4. <<a, b>> \o <<c>> = <<a, b, c>>
  BY <1>2, SeqEqual
<1>5. <<>> \o <<a>> = <<a>> /\ <<a>> \o <<>> = <<a>>
  BY <1>1, ConcatEmptySeq
<1>6. <<a, b>> \o <<>> = <<a, b>>
  BY <1>1, ConcatEmptySeq
<1> QED
  BY <1>3, <1>4, <1>5, <1>6

LEMMA CoherentSelect ==
  ASSUME NEW d, NEW t \in Tasks \cup {None}, t \in Tasks => Selectable(d, t)
  PROVE  Coherent(d, SelectWrites(d, t))
<1>1. Coherent(d, <<>>)
  BY DEF Coherent
<1>2. Coherent(d, <<Write("selection", t)>>)
  BY SlotNames DEF Coherent, Write, Changes
<1> QED
  BY <1>1, <1>2 DEF SelectWrites

LEMMA CoherentChange ==
  ASSUME NEW d, NEW c \in Changes, c.slot # "selection"
  PROVE  Coherent(d, <<c>>)
  BY DEF Coherent

LEMMA CoherentDelete ==
  ASSUME NEW d, NEW t \in Tasks
  PROVE  Coherent(d, DeleteWrites(d, t))
<1> DEFINE gone == Write(t, "deleted")
           unselect == Write("selection", None)
<1>1. gone \in Changes /\ gone.slot = t /\ t # "selection"
  BY SlotNames DEF Write, Changes
<1>2. unselect \in Changes /\ unselect.slot = "selection" /\ unselect.value = None
  BY SlotNames DEF Write, Changes
<1>3. DeleteWrites(d, t) = <<gone>> \/ DeleteWrites(d, t) = <<gone, unselect>>
  <2> HIDE DEF gone, unselect
  <2>1. <<gone>> \o <<>> = <<gone>> /\ <<gone>> \o <<unselect>> = <<gone, unselect>>
    BY <1>1, <1>2, ShortSequences
  <2> QED
    BY <2>1 DEF DeleteWrites, gone, unselect
<1> HIDE DEF gone, unselect
<1>4. Coherent(d, <<gone>>)
  BY <1>1, CoherentChange
<1>5. Coherent(d, <<gone, unselect>>)
  BY <1>1, <1>2 DEF Coherent
<1> QED
  BY <1>3, <1>4, <1>5

LEMMA CoherentAdd ==
  ASSUME NEW d, NEW t \in Tasks
  PROVE  Coherent(d, <<Write(t, "active"), Write("selection", t)>>)
<1> DEFINE a == Write(t, "active")
           b == Write("selection", t)
<1>1. a \in Changes /\ a.slot = t /\ a.value = "active" /\ t # "selection"
  BY SlotNames DEF Write, Changes
<1>2. b \in Changes /\ b.slot = "selection" /\ b.value = t
  BY SlotNames DEF Write, Changes
<1> HIDE DEF a, b
<1>3. Coherent(d, <<a, b>>)
  BY <1>1, <1>2 DEF Coherent
<1> QED
  BY <1>3 DEF a, b

LEMMA CoherentRename ==
  ASSUME NEW d, NEW t \in Tasks, NEW u \in Tasks, t # u
  PROVE  Coherent(d, RenameWrites(d, t, u))
<1> DEFINE a == Write(u, "active")
           b == Write(t, "deleted")
           c == Write("selection", u)
<1>1. a \in Changes /\ a.slot = u /\ a.value = "active" /\ u # "selection"
  BY SlotNames DEF Write, Changes
<1>2. b \in Changes /\ b.slot = t /\ t # "selection"
  BY SlotNames DEF Write, Changes
<1>3. c \in Changes /\ c.slot = "selection" /\ c.value = u
  BY SlotNames DEF Write, Changes
<1>4. /\ ActiveFor(d, u) => RenameWrites(d, t, u) \in {<<b>>, <<b, c>>}
      /\ ~ ActiveFor(d, u) => RenameWrites(d, t, u) \in {<<a, b>>, <<a, b, c>>}
  <2> HIDE DEF a, b, c
  <2>1. /\ <<>> \o <<b>> \o <<>> = <<b>> /\ <<>> \o <<b>> \o <<c>> = <<b, c>>
        /\ <<a>> \o <<b>> \o <<>> = <<a, b>>
        /\ <<a>> \o <<b>> \o <<c>> = <<a, b, c>>
    <3>1. <<>> \o <<b>> = <<b>> /\ <<a>> \o <<b>> = <<a, b>>
      BY <1>1, <1>2, ShortSequences
    <3>2. /\ <<b>> \o <<>> = <<b>> /\ <<b>> \o <<c>> = <<b, c>>
          /\ <<a, b>> \o <<>> = <<a, b>> /\ <<a, b>> \o <<c>> = <<a, b, c>>
      BY <1>1, <1>2, <1>3, ShortSequences
    <3> QED
      BY <3>1, <3>2
  <2> QED
    BY <2>1 DEF RenameWrites, a, b, c
<1> HIDE DEF a, b, c
<1>5. Coherent(d, <<b>>)
  BY <1>2, CoherentChange
<1>6. ActiveFor(d, u) => Coherent(d, <<b, c>>)
  <2> SUFFICES ASSUME ActiveFor(d, u)
               PROVE  Coherent(d, <<b, c>>)
    OBVIOUS
  <2>1. Selectable(d, u)
    BY DEF Selectable
  <2> DEFINE w == <<b, c>>
  <2>2. w \in Seq(Changes) /\ Len(w) = 2 /\ w[1] = b /\ w[2] = c
    BY <1>2, <1>3
  <2> HIDE DEF w
  <2>3. \A j \in 1 .. Len(w) : j = 1 \/ j = 2
    BY <2>2
  <2>4. \A j, k \in 1 .. Len(w) : w[j].slot = w[k].slot => j = k
    BY <1>2, <1>3, <2>2, <2>3
  <2>5. \A j \in 1 .. Len(w) : w[j].slot = "selection" => w[j].value = u
    BY <1>2, <1>3, <2>2, <2>3
  <2>6. \A k \in 1 .. Len(w) : w[k].slot # u
    BY <1>1, <1>2, <1>3, <2>2, <2>3
  <2>7. Coherent(d, w)
    BY <2>1, <2>2, <2>4, <2>5, <2>6 DEF Coherent
  <2> QED
    BY <2>7 DEF w
<1>7. Coherent(d, <<a, b>>)
  BY <1>1, <1>2 DEF Coherent
<1>8. Coherent(d, <<a, b, c>>)
  <2> DEFINE w == <<a, b, c>>
  <2>1. w \in Seq(Changes) /\ Len(w) = 3 /\ w[1] = a /\ w[2] = b /\ w[3] = c
    BY <1>1, <1>2, <1>3
  <2> HIDE DEF w
  <2>2. \A j \in 1 .. Len(w) : j = 1 \/ j = 2 \/ j = 3
    BY <2>1
  <2>3. \A j, k \in 1 .. Len(w) : w[j].slot = w[k].slot => j = k
    BY <1>1, <1>2, <1>3, <2>1, <2>2
  <2>4. \A j \in 1 .. Len(w) : w[j].slot = "selection" =>
          /\ w[j].value \in Tasks /\ 1 \in 1 .. Len(w)
          /\ w[1].slot = w[j].value /\ w[1].value = "active"
    BY <1>1, <1>2, <1>3, <2>1, <2>2
  <2>5. Coherent(d, w)
    BY <2>1, <2>3, <2>4 DEF Coherent
  <2> QED
    BY <2>5 DEF w
<1> QED
  BY <1>4, <1>5, <1>6, <1>7, <1>8

LEMMA CoherentWrites ==
  ASSUME NEW d, NEW i \in Intent, Accepted(d, i)
  PROVE  Coherent(d, Writes(d, i))
<1>1. CASE i.kind = "selectTask"
  <2>1. i.task \in Tasks \cup {None}
    BY <1>1 DEF Intent
  <2>2. i.task \in Tasks => Selectable(d, i.task)
    BY <1>1 DEF Accepted
  <2>3. Writes(d, i) = SelectWrites(d, i.task)
    BY <1>1 DEF Writes
  <2> QED
    BY <2>1, <2>2, <2>3, CoherentSelect
<1>2. CASE i.kind = "upsertTask"
  <2>1. i.task \in Tasks
    BY <1>2 DEF Intent
  <2>2. Writes(d, i) = <<Write(i.task, "active")>>
    BY <1>2 DEF Writes
  <2>3. /\ Write(i.task, "active") \in Changes
        /\ Write(i.task, "active").slot # "selection"
    BY <2>1, SlotNames DEF Write, Changes
  <2> QED
    BY <2>2, <2>3, CoherentChange
<1>3. CASE i.kind = "addAndSelectTask"
  <2>1. i.task \in Tasks
    BY <1>3 DEF Intent
  <2>2. Writes(d, i) = IF ActiveFor(d, i.task) THEN SelectWrites(d, i.task)
                       ELSE <<Write(i.task, "active"), Write("selection", i.task)>>
    BY <1>3 DEF Writes
  <2>3. ActiveFor(d, i.task) => Selectable(d, i.task)
    BY DEF Selectable
  <2> QED
    BY <2>1, <2>2, <2>3, CoherentSelect, CoherentAdd
<1>4. CASE i.kind = "deleteTask"
  <2>1. i.task \in Tasks
    BY <1>4 DEF Intent
  <2>2. Writes(d, i) = DeleteWrites(d, i.task)
    BY <1>4 DEF Writes
  <2> QED
    BY <2>1, <2>2, CoherentDelete
<1>5. CASE i.kind = "renameTask"
  <2>1. i.task \in Tasks /\ i.new \in Tasks
    BY <1>5 DEF Intent
  <2>2. i.task # i.new
    BY <1>5 DEF Accepted
  <2>3. Writes(d, i) = RenameWrites(d, i.task, i.new)
    BY <1>5 DEF Writes
  <2> QED
    BY <2>1, <2>2, <2>3, CoherentRename
<1>6. CASE i.kind = "setDuration"
  <2>1. i.phase \in Phases /\ i.value \in Durations
    BY <1>6 DEF Intent
  <2>2. Writes(d, i) = <<>> \/ Writes(d, i) = <<Write(i.phase, i.value)>>
    BY <1>6 DEF Writes
  <2>3. /\ Write(i.phase, i.value) \in Changes
        /\ Write(i.phase, i.value).slot # "selection"
    BY <2>1, SlotNames DEF Write, Changes
  <2>4. Coherent(d, <<>>)
    BY DEF Coherent
  <2> QED
    BY <2>2, <2>3, <2>4, CoherentChange
<1>7. CASE i.kind = "setAutoStart"
  <2>1. i.value \in {"on", "off"}
    BY <1>7 DEF Intent
  <2>2. Writes(d, i) = <<>> \/ Writes(d, i) = <<Write("auto", i.value)>>
    BY <1>7 DEF Writes
  <2>3. /\ Write("auto", i.value) \in Changes
        /\ Write("auto", i.value).slot # "selection"
    BY <2>1, SlotNames DEF Write, Changes
  <2>4. Coherent(d, <<>>)
    BY DEF Coherent
  <2> QED
    BY <2>2, <2>3, <2>4, CoherentChange
<1> QED
  BY <1>1, <1>2, <1>3, <1>4, <1>5, <1>6, <1>7 DEF Intent

\* Rows are superseded by a newer one of their slot.
LEMMA SupersededRows ==
  ASSUME NEW d, NEW i \in Intent, NEW retired \in Superseded(d, i)
  PROVE  /\ retired \subseteq unsent[d]
         /\ \A o \in retired : o.slot \in Phases
         /\ Writes(d, i) # <<>> =>
              \A o \in retired : Writes(d, i) = <<Write(o.slot, i.value)>>
<1>1. \A o \in retired : o \in unsent[d] /\ i.kind = "setDuration" /\ o.slot = i.phase
  BY DEF Superseded
<1>2. i.kind = "setDuration" => i.phase \in Phases
  BY DEF Intent
<1>3. i.kind = "setDuration" =>
        Writes(d, i) = <<>> \/ Writes(d, i) = <<Write(i.phase, i.value)>>
  BY DEF Writes
<1> QED
  BY <1>1, <1>2, <1>3

\* The operations of an intent, as a set.
LEMMA GroupElements ==
  ASSUME NEW d \in Devices, NEW w \in Seq(Changes), NEW h \in Int
  PROVE  /\ Group(d, w, h) \subseteq Rows
         /\ \A o \in Group(d, w, h) :
              \E k \in 1 .. Len(w) : /\ o.slot = w[k].slot /\ o.value = w[k].value
                                     /\ o.hlc = h + k - 1 /\ o.device = d
         /\ \A k \in 1 .. Len(w) :
              \E o \in Group(d, w, h) : /\ o.slot = w[k].slot /\ o.value = w[k].value
                                        /\ o.hlc = h + k - 1 /\ o.device = d
<1> DEFINE Row(k) == [slot |-> w[k].slot, value |-> w[k].value, hlc |-> h + k - 1,
                      device |-> d]
<1>1. Group(d, w, h) = {Row(k) : k \in 1 .. Len(w)}
  BY DEF Group
<1>2. \A k \in 1 .. Len(w) :
        /\ Row(k) \in Rows
        /\ Row(k).slot = w[k].slot /\ Row(k).value = w[k].value
        /\ Row(k).hlc = h + k - 1 /\ Row(k).device = d
  <2> SUFFICES ASSUME NEW k \in 1 .. Len(w)
               PROVE  Row(k) \in Rows
    OBVIOUS
  <2>1. w[k] \in Changes /\ k \in Int
    BY ElementOfSeq
  <2>2. w[k].slot \in Slots /\ w[k].value \in Values /\ h + k - 1 \in Int
    BY <2>1 DEF Changes
  <2> QED
    BY <2>2 DEF Rows
<1> HIDE DEF Row
<1> QED
  BY <1>1, <1>2

\* The group of an accepted intent wins every replay that the planner saw all
\* of, and says what holds afterwards.
LEMMA GroupAdmitted ==
  ASSUME NEW d \in Devices, NEW i \in Intent, Accepted(d, i),
         queue[d] \subseteq Operation, clock[d] \in Int,
         \A o \in queue[d] : o.hlc <= clock[d],
         Before(d) = Project(base[d], queue[d]),
         NEW retired \in Superseded(d, i), NEW h \in Int, Ticked(d, h)
  PROVE  LET group == Group(d, Writes(d, i), h)
         IN  Admitted(d, group, (queue[d] \ retired) \cup group)
<1> DEFINE w == Writes(d, i)
           group == Group(d, w, h)
           left == queue[d] \ retired
           ops == left \cup group
           b == base[d]
<1>1. Coherent(d, w)
  BY CoherentWrites
<1>2. \A o \in retired : o.slot \in Phases
  BY SupersededRows
<1> HIDE DEF w
<1>3. w \in Seq(Changes)
  BY <1>1 DEF Coherent
<1>4. /\ group \subseteq Rows
      /\ \A o \in group :
           \E k \in 1 .. Len(w) : /\ o.slot = w[k].slot /\ o.value = w[k].value
                                  /\ o.hlc = h + k - 1 /\ o.device = d
      /\ \A k \in 1 .. Len(w) :
           \E o \in group : /\ o.slot = w[k].slot /\ o.value = w[k].value
                            /\ o.hlc = h + k - 1 /\ o.device = d
  BY <1>3, GroupElements
<1>5. \A o, p \in group : o.slot = p.slot => o = p
  <2> SUFFICES ASSUME NEW o \in group, NEW p \in group, o.slot = p.slot
               PROVE  o = p
    OBVIOUS
  <2>1. PICK j \in 1 .. Len(w) : /\ o.slot = w[j].slot /\ o.value = w[j].value
                                 /\ o.hlc = h + j - 1 /\ o.device = d
    BY <1>4
  <2>2. PICK k \in 1 .. Len(w) : /\ p.slot = w[k].slot /\ p.value = w[k].value
                                 /\ p.hlc = h + k - 1 /\ p.device = d
    BY <1>4
  <2>3. j = k
    BY <1>1, <2>1, <2>2 DEF Coherent
  <2>4. o \in Rows /\ p \in Rows
    BY <1>4
  <2> QED
    BY <2>1, <2>2, <2>3, <2>4 DEF Rows
<1> HIDE DEF group
<1>6. \A o \in group, p \in left : Later(o, p)
  <2> SUFFICES ASSUME NEW o \in group, NEW p \in left
               PROVE  o.hlc > p.hlc
    BY DEF Later
  <2>1. h > clock[d] /\ p.hlc <= clock[d] /\ p.hlc \in Int
    BY OperationIsRow DEF Ticked, Rows
  <2>2. o.hlc >= h /\ o.hlc \in Int
    <3>1. PICK k \in 1 .. Len(w) : o.hlc = h + k - 1
      BY <1>4
    <3>2. Len(w) \in Nat
      BY <1>3
    <3> QED
      BY <3>1, <3>2
  <2> QED
    BY <2>1, <2>2
<1>7. \A o \in group : Wins(o, ops)
  BY <1>5, <1>6 DEF Wins
<1>8. ops \in SUBSET Rows
  BY <1>4, OperationIsRow
<1>9. \A o \in group : Written(b, ops, o.slot) = o.value
  <2> SUFFICES ASSUME NEW o \in group
               PROVE  Written(b, ops, o.slot) = o.value
    OBVIOUS
  <2>1. o \in Winners(ops, o.slot) /\ Touched(ops, o.slot)
    BY <1>7 DEF Winners, Touched
  <2>2. Winner(ops, o.slot) = o
    BY <1>8, <2>1, WinnerIs
  <2> QED
    BY <2>1, <2>2 DEF Written
<1>10. ASSUME NEW t \in Tasks, Selectable(d, t), \A k \in 1 .. Len(w) : w[k].slot # t
       PROVE  Written(b, ops, t) = "active"
  <2>1. Written(b, queue[d], t) = "active"
    BY <1>10, ProjectSlots, SlotNames DEF Selectable, ActiveFor
  <2>2. \A o \in group \cup retired : o.slot # t
    BY <1>2, <1>4, <1>10, SlotsAssumption
  <2>3. Winners(ops, t) = Winners(queue[d], t)
    BY <2>2 DEF Winners, Wins
  <2>4. Touched(ops, t) <=> Touched(queue[d], t)
    BY <2>2 DEF Touched
  <2>5. Winner(ops, t) = Winner(queue[d], t)
    BY <2>3 DEF Winner
  <2> QED
    BY <2>1, <2>4, <2>5 DEF Written
<1>11. ASSUME NEW o \in group
       PROVE  Project(b, ops)[o.slot] = o.value
  <2>1. CASE o.slot # "selection"
    <3>1. o.slot \in Slots \ {"selection"}
      BY <1>4, <1>11, <2>1 DEF Rows
    <3>2. Project(b, ops)[o.slot] = Written(b, ops, o.slot)
      BY <3>1, ProjectSlots
    <3> QED
      BY <1>9, <1>11, <3>2
  <2>2. CASE o.slot = "selection"
    <3>1. Written(b, ops, "selection") = o.value
      BY <1>9, <1>11, <2>2
    <3>2. o.value # None =>
            o.value \in Tasks /\ Written(b, ops, o.value) = "active"
      <4>1. PICK j \in 1 .. Len(w) : o.slot = w[j].slot /\ o.value = w[j].value
        BY <1>4, <1>11
      <4>2. \/ o.value = None
            \/ /\ o.value \in Tasks
               /\ \/ \E k \in 1 .. Len(w) : w[k].slot = o.value /\ w[k].value = "active"
                  \/ /\ Selectable(d, o.value)
                     /\ \A k \in 1 .. Len(w) : w[k].slot # o.value
        BY <1>1, <2>2, <4>1 DEF Coherent
      <4>3. ASSUME NEW k \in 1 .. Len(w), w[k].slot = o.value, w[k].value = "active"
            PROVE  Written(b, ops, o.value) = "active"
        <5>1. PICK p \in group : p.slot = w[k].slot /\ p.value = w[k].value
          BY <1>4
        <5> QED
          BY <1>9, <4>3, <5>1
      <4>4. ASSUME o.value \in Tasks, Selectable(d, o.value),
                   \A k \in 1 .. Len(w) : w[k].slot # o.value
            PROVE  Written(b, ops, o.value) = "active"
        BY <1>10, <4>4
      <4> QED
        BY <4>2, <4>3, <4>4
    <3>3. SelectionOf(b, ops) = o.value
      BY <3>1, <3>2, SlotsAssumption DEF SelectionOf
    <3> QED
      BY <2>2, <3>3, ProjectSlots
  <2> QED
    BY <2>1, <2>2
<1> QED
  BY <1>7, <1>11 DEF Admitted, group, w

-----------------------------------------------------------------------------
(* The inductive invariant.                                                *)

Retained == UNION {queue[d] : d \in Devices}

\* Clock keys are not used twice, and every device knows its own.
Stamped ==
  /\ Keyed(log \cup Retained)
  /\ \A d \in Devices : \A o \in queue[d] : o.device = d
  /\ \A o \in log \cup Retained : o.hlc <= clock[o.device]

\* There is always a last operation.
Finite == IsFiniteSet(log) /\ \A d \in Devices : IsFiniteSet(queue[d])

\* Proofs, claims and display records are about what is retained, and nothing
\* claimed has a proof.  Only a PWA stores what it displays.
Within ==
  \A d \in Devices :
    /\ unsent[d] \subseteq queue[d] /\ display[d] \subseteq queue[d]
    /\ claim[d] \subseteq queue[d] \ unsent[d]
    /\ d \notin Pwa => display[d] = {}

\* An answer knows the claim, and its head covers what it knows.
Answered ==
  \A d \in Devices : answer[d] # None =>
    /\ claim[d] \subseteq answer[d].log /\ answer[d].log \subseteq log
    /\ \A o \in answer[d].log : o.hlc <= answer[d].head

\* A snapshot is one of a log that its head covers.
Based ==
  \A d \in Devices :
    /\ base[d] = Canonical(seen[d]) /\ seen[d] \subseteq log
    /\ head[d] = None => seen[d] = {}
    /\ head[d] # None => /\ head[d] <= clock[d]
                         /\ \A o \in seen[d] : o.hlc <= head[d]

IInv ==
  /\ TypeOK /\ Stamped /\ Finite /\ Within /\ Answered /\ Based
  /\ NothingHidden

LEMMA ProfileType ==
  ASSUME TypeOK
  PROVE  /\ Active \subseteq Devices /\ Pwa \subseteq Active /\ Profile \in Profiles
         /\ Intents[Profile] \subseteq Intent
         /\ LastStamp[Profile] \in 0 .. MaxStamp
<1>1. Profile \in Profiles
  BY DEF TypeOK
<1>2. PICK D \in SUBSET Devices : Profile \in [D -> Hosts]
  BY <1>1, ProfileAssumption
<1>3. Active = D
  BY <1>2 DEF Active
<1> QED
  BY <1>1, <1>3, IntentsAssumption, MaxAssumption DEF Pwa

\* Parts of what is known are finite, and have no key twice.
LEMMA KnownParts ==
  ASSUME TypeOK, Stamped, Finite
  PROVE  /\ \A ops \in SUBSET log : IsFiniteSet(ops)
         /\ \A d \in Devices : \A ops \in SUBSET queue[d] : IsFiniteSet(ops)
         /\ \A ops \in SUBSET (log \cup Retained) :
              Keyed(ops) /\ ops \subseteq Operation /\ ops \subseteq Rows
         /\ \A d \in Devices : queue[d] \subseteq log \cup Retained
<1>1. /\ \A ops \in SUBSET log : IsFiniteSet(ops)
      /\ \A d \in Devices : \A ops \in SUBSET queue[d] : IsFiniteSet(ops)
  BY FS_Subset DEF Finite
<1>2. \A d \in Devices : queue[d] \subseteq log \cup Retained
  BY DEF Retained
<1>3. log \cup Retained \subseteq Operation
  BY DEF Retained, TypeOK
<1>4. \A ops \in SUBSET (log \cup Retained) : Keyed(ops)
  BY DEF Stamped, Keyed
<1> QED
  BY <1>1, <1>2, <1>3, <1>4, OperationIsRow

\* What an edit does: new rows with new keys replace superseded ones.
EditOf(d, group, retired, last) ==
  LET ops == (queue[d] \ retired) \cup group
      proven == (unsent[d] \ retired) \cup group
  IN  /\ clock' = [clock EXCEPT ![d] = last]
      /\ queue' = [queue EXCEPT ![d] = ops]
      /\ unsent' = [unsent EXCEPT ![d] = proven]
      /\ display' = IF d \in Pwa
                    THEN [display EXCEPT ![d] =
                            Displayed(ops, proven, head[d], display[d] \cap ops)]
                    ELSE display
      /\ UNCHANGED <<Profile, log, answer, claim, base, head, seen, clean>>

LEMMA EditEffect ==
  ASSUME TypeOK, NEW d \in Active, Edit(d)
  PROVE  \E group \in SUBSET Operation, retired \in SUBSET unsent[d],
            last \in 0 .. MaxStamp :
           /\ EditOf(d, group, retired, last)
           /\ IsFiniteSet(group) /\ Keyed(group) /\ clock[d] <= last
           /\ \A o \in group : o.device = d /\ clock[d] < o.hlc /\ o.hlc <= last
           /\ \A o \in retired : \E p \in group : p.slot = o.slot
<1>1. PICK i \in Intents[Profile], h \in Stamps :
        LET writes == Writes(d, i)
            group == Group(d, writes, h)
            last == h + Len(writes) - 1
        IN  \E retired \in Superseded(d, i) :
              /\ Accepted(d, i) /\ writes # <<>>
              /\ Ticked(d, h) /\ last <= LastStamp[Profile]
              /\ EditOf(d, group, retired, last)
  BY DEF Edit, EditOf
<1> DEFINE w == Writes(d, i)
           group == Group(d, w, h)
           last == h + Len(w) - 1
<1>0. PICK retired \in Superseded(d, i) :
        /\ Accepted(d, i) /\ w # <<>>
        /\ Ticked(d, h) /\ last <= LastStamp[Profile]
        /\ EditOf(d, group, retired, last)
  BY <1>1
<1>2. d \in Devices /\ i \in Intent /\ LastStamp[Profile] \in 0 .. MaxStamp
  BY ProfileType
<1>3. h \in Int /\ h > clock[d] /\ clock[d] \in 0 .. MaxStamp
  BY <1>0, <1>2, BoundAssumption DEF Stamps, Ticked, TypeOK
<1>4. w \in Seq(Changes) /\ Len(w) \in Nat \ {0}
  <2>1. w \in Seq(Changes)
    BY <1>0, <1>2, CoherentWrites DEF Coherent
  <2> QED
    BY <1>0, <2>1, EmptySeq
<1>5. last \in 0 .. MaxStamp /\ clock[d] <= last /\ h <= last
  <2>1. last <= LastStamp[Profile]
    BY <1>0
  <2> HIDE DEF w
  <2> QED
    BY <1>2, <1>3, <1>4, <2>1, BoundAssumption
<1>6. /\ group \subseteq Rows
      /\ \A o \in group :
           \E k \in 1 .. Len(w) : /\ o.slot = w[k].slot /\ o.value = w[k].value
                                  /\ o.hlc = h + k - 1 /\ o.device = d
      /\ \A k \in 1 .. Len(w) :
           \E o \in group : /\ o.slot = w[k].slot /\ o.value = w[k].value
                            /\ o.hlc = h + k - 1 /\ o.device = d
  BY <1>2, <1>3, <1>4, GroupElements
<1>7. \A o \in group : /\ o.device = d /\ clock[d] < o.hlc /\ o.hlc <= last
                       /\ o.hlc \in Stamps
  <2> HIDE DEF w, group
  <2> SUFFICES ASSUME NEW o \in group
               PROVE  /\ o.device = d /\ clock[d] < o.hlc /\ o.hlc <= last
                      /\ o.hlc \in Stamps
    OBVIOUS
  <2>1. PICK k \in 1 .. Len(w) : o.hlc = h + k - 1 /\ o.device = d
    BY <1>6
  <2> QED
    BY <1>3, <1>4, <1>5, <2>1, BoundAssumption DEF Stamps
<1>8. group \subseteq Operation
  BY <1>6, <1>7 DEF Operation, Rows
<1>9. Keyed(group)
  <2> HIDE DEF w, group
  <2> SUFFICES ASSUME NEW o \in group, NEW p \in group, o.hlc = p.hlc
               PROVE  o = p
    BY DEF Keyed
  <2>1. PICK j \in 1 .. Len(w) : /\ o.slot = w[j].slot /\ o.value = w[j].value
                                 /\ o.hlc = h + j - 1 /\ o.device = d
    BY <1>6
  <2>2. PICK k \in 1 .. Len(w) : /\ p.slot = w[k].slot /\ p.value = w[k].value
                                 /\ p.hlc = h + k - 1 /\ p.device = d
    BY <1>6
  <2>3. j \in Int /\ k \in Int
    BY <1>4
  <2>4. h + j - 1 = h + k - 1
    BY <2>1, <2>2
  <2>5. j = k
    BY <1>3, <2>3, <2>4
  <2>6. o \in Rows /\ p \in Rows
    BY <1>6
  <2> QED
    BY <2>1, <2>2, <2>5, <2>6 DEF Rows
<1>10. IsFiniteSet(group)
  <2> DEFINE f == [k \in 1 .. Len(w) |->
                     [slot |-> w[k].slot, value |-> w[k].value, hlc |-> h + k - 1,
                      device |-> d]]
  <2>1. group = {f[k] : k \in 1 .. Len(w)}
    BY DEF Group
  <2> HIDE DEF w, group
  <2>2. IsFiniteSet(1 .. Len(w))
    <3>1. PICK n \in Nat : n = Len(w)
      BY <1>4
    <3>2. IsFiniteSet(1 .. n)
      BY <3>1, FS_Interval
    <3> QED
      BY <3>1, <3>2
  <2>3. f \in [1 .. Len(w) -> group]
    BY <2>1
  <2> HIDE DEF f
  <2>4. f \in Surjection(1 .. Len(w), group)
    BY <2>1, <2>3 DEF Surjection
  <2> QED
    BY <2>2, <2>4, FS_Surjection
<1>11. retired \subseteq unsent[d] /\ \A o \in retired : \E p \in group : p.slot = o.slot
  <2>1. /\ retired \subseteq unsent[d]
        /\ \A o \in retired : w = <<Write(o.slot, i.value)>>
    BY <1>0, <1>2, SupersededRows
  <2> SUFFICES ASSUME NEW o \in retired
               PROVE  \E p \in group : p.slot = o.slot
    BY <2>1
  <2>2. Len(w) = 1 /\ w[1].slot = o.slot
    BY <2>1 DEF Write
  <2> HIDE DEF w, group
  <2> QED
    BY <1>6, <2>2
<1>12. EditOf(d, group, retired, last)
  BY <1>0
<1> HIDE DEF w, group, last
<1> QED
  BY <1>5, <1>7, <1>8, <1>9, <1>10, <1>11, <1>12

-----------------------------------------------------------------------------
(* What is displayed.                                                      *)

LEMMA DisplayedBounds ==
  ASSUME NEW ops, NEW proven, NEW h, NEW stored \in SUBSET ops
  PROVE  /\ stored \subseteq Displayed(ops, proven, h, stored)
         /\ Displayed(ops, proven, h, stored) \subseteq ops
  BY DEF Displayed, Fresh

\* Rows that may join all join.
LEMMA DisplayedAll ==
  ASSUME NEW ops, NEW proven, NEW h, NEW stored \in SUBSET ops,
         \A o \in ops \ stored : o \in proven /\ (h = None \/ AboveHead(o, h))
  PROVE  Displayed(ops, proven, h, stored) = ops
  BY DEF Displayed, Fresh

\* A row joins only with all the others of its domain.
LEMMA DisplayedDomains ==
  ASSUME NEW ops, NEW proven, NEW h, NEW stored \in SUBSET ops,
         NEW o \in Displayed(ops, proven, h, stored) \ stored,
         NEW p \in ops, SameDomain(o, p)
  PROVE  p \in Displayed(ops, proven, h, stored)
<1>1. CASE p \in stored
  BY <1>1 DEF Displayed
<1>2. CASE p \notin stored
  <2>1. \A q \in ops \ stored :
          SameDomain(o, q) => q \in proven /\ (h = None \/ AboveHead(q, h))
    BY DEF Displayed, Fresh
  <2>2. \A q : SameDomain(p, q) => SameDomain(o, q)
    BY DEF SameDomain
  <2>3. p \in Fresh(ops, proven, h, stored)
    BY <1>2, <2>1, <2>2 DEF Fresh
  <2> QED
    BY <2>3 DEF Displayed
<1> QED
  BY <1>1, <1>2

-----------------------------------------------------------------------------
(* The invariant is inductive.                                             *)

LEMMA RetainedUpdate ==
  ASSUME TypeOK, NEW d \in Devices, NEW ops, queue' = [queue EXCEPT ![d] = ops]
  PROVE  /\ queue'[d] = ops
         /\ \A c \in Devices \ {d} : queue'[c] = queue[c]
         /\ Retained' \subseteq Retained \cup ops
  BY DEF Retained, TypeOK

LEMMA EditKeeps ==
  ASSUME IInv, NEW d \in Active, Edit(d)
  PROVE  IInv'
<1> USE DEF IInv
<1>1. PICK group \in SUBSET Operation, retired \in SUBSET unsent[d],
           last \in 0 .. MaxStamp :
        /\ EditOf(d, group, retired, last)
        /\ IsFiniteSet(group) /\ Keyed(group) /\ clock[d] <= last
        /\ \A o \in group : o.device = d /\ clock[d] < o.hlc /\ o.hlc <= last
        /\ \A o \in retired : \E p \in group : p.slot = o.slot
  BY EditEffect
<1> DEFINE ops == (queue[d] \ retired) \cup group
           proven == (unsent[d] \ retired) \cup group
           shown == Displayed(ops, proven, head[d], display[d] \cap ops)
<1>2. d \in Devices
  BY ProfileType
<1>3. /\ clock' = [clock EXCEPT ![d] = last]
      /\ queue' = [queue EXCEPT ![d] = ops]
      /\ unsent' = [unsent EXCEPT ![d] = proven]
      /\ display' = IF d \in Pwa THEN [display EXCEPT ![d] = shown] ELSE display
      /\ UNCHANGED <<Profile, log, answer, claim, base, head, seen, clean>>
  BY <1>1 DEF EditOf
<1>4. Pwa' = Pwa
  BY <1>3 DEF Pwa, Active
<1>5. shown \subseteq ops
  <2> HIDE DEF ops, proven
  <2> QED
    BY DisplayedBounds
<1>6. ops \subseteq Operation /\ proven \subseteq ops
  BY <1>2 DEF TypeOK, Within
<1>7. TypeOK'
  <2> HIDE DEF ops, proven, shown
  <2> QED
    BY <1>2, <1>3, <1>4, <1>5, <1>6 DEF TypeOK
<1>8. /\ queue'[d] = ops
      /\ \A c \in Devices \ {d} : queue'[c] = queue[c]
      /\ Retained' \subseteq Retained \cup group
  <2>1. ops \subseteq Retained \cup group
    BY <1>2 DEF Retained
  <2> HIDE DEF ops
  <2> QED
    BY <1>2, <1>3, <2>1, RetainedUpdate
<1>9. /\ \A o \in log \cup Retained : o \in Operation /\ o.hlc <= clock[o.device]
      /\ \A c \in Devices : clock[c] \in Int /\ clock'[c] \in Int /\ clock[c] <= clock'[c]
      /\ clock'[d] = last
  BY <1>1, <1>2, <1>3, BoundAssumption DEF Stamped, TypeOK, Retained
<1>10. Stamped'
  <2> HIDE DEF ops, proven, shown
  <2>1. \A o \in log \cup Retained, p \in group : o.device = d => o.hlc < p.hlc
    BY <1>1, <1>2, <1>9 DEF Operation, Stamps
  <2>2. Keyed(log' \cup Retained')
    <3>1. Keyed(log \cup Retained) /\ Keyed(group)
      BY <1>1 DEF Stamped
    <3>2. SUFFICES ASSUME NEW o \in log \cup Retained \cup group,
                          NEW p \in log \cup Retained \cup group,
                          o.hlc = p.hlc, o.device = p.device
                   PROVE  o = p
      BY <1>3, <1>8 DEF Keyed
    <3>3. \A q \in log \cup Retained \cup group : q.hlc \in Int
      BY <1>1, <1>9 DEF Operation, Stamps
    <3>4. \/ o \in log \cup Retained /\ p \in log \cup Retained
          \/ o \in group /\ p \in group
      BY <1>1, <2>1, <3>2, <3>3
    <3> QED
      BY <3>1, <3>2, <3>4 DEF Keyed
  <2>3. \A c \in Devices : \A o \in queue'[c] : o.device = c
    BY <1>1, <1>2, <1>8 DEF Stamped, ops
  <2>4. \A o \in log' \cup Retained' : o.hlc <= clock'[o.device]
    <3> SUFFICES ASSUME NEW o \in log \cup Retained \cup group
                 PROVE  o.hlc <= clock'[o.device]
      BY <1>3, <1>8
    <3>1. CASE o \in group
      BY <1>1, <1>9, <3>1
    <3>2. CASE o \in log \cup Retained
      <4>1. o.hlc \in Int /\ o.device \in Devices
        BY <1>9, <3>2 DEF Operation, Stamps
      <4> QED
        BY <1>9, <3>2, <4>1
    <3> QED
      BY <3>1, <3>2
  <2> QED
    BY <2>2, <2>3, <2>4 DEF Stamped
<1>11. Finite'
  <2>1. IsFiniteSet(ops)
    BY <1>1, <1>2, FS_Union, FS_Subset DEF Finite
  <2> HIDE DEF ops
  <2> QED
    BY <1>3, <1>8, <2>1 DEF Finite
<1>12. Within'
  <2>1. claim[d] \subseteq queue[d] \ unsent[d]
    BY <1>2 DEF Within
  <2>2. claim[d] \cap group = {}
    BY <1>1, <1>2, <1>9, <2>1 DEF Retained, Stamped, Operation, Stamps
  <2>3. claim[d] \subseteq ops \ proven
    BY <2>1, <2>2
  <2>4. display'[d] \subseteq ops
    <3>1. CASE d \in Pwa
      <4> HIDE DEF ops, proven, shown
      <4> QED
        BY <1>2, <1>3, <1>5, <3>1 DEF TypeOK
    <3>2. CASE d \notin Pwa
      BY <1>2, <1>3, <3>2 DEF Within
    <3> QED
      BY <3>1, <3>2
  <2> HIDE DEF ops, proven, shown
  <2> QED
    BY <1>2, <1>3, <1>4, <1>6, <1>8, <2>3, <2>4 DEF Within, TypeOK
<1>13. Answered'
  BY <1>3 DEF Answered
<1>14. Based'
  <2>1. \A c \in Devices : head[c] # None => head[c] \in Int
    BY BoundAssumption DEF TypeOK
  <2> QED
    BY <1>3, <1>9, <2>1 DEF Based
<1>15. NothingHidden'
  <2> SUFFICES ASSUME NEW c \in clean
               PROVE  display'[c] = queue'[c]
    BY <1>3 DEF NothingHidden
  <2>1. c \in Devices /\ c \in Pwa /\ display[c] = queue[c]
    BY ProfileType DEF TypeOK, NothingHidden
  <2>2. CASE c = d
    <3>1. \A o \in ops \ (display[d] \cap ops) :
            o \in proven /\ (head[d] = None \/ AboveHead(o, head[d]))
      <4>1. \A o \in ops \ (display[d] \cap ops) : o \in group
        BY <2>1, <2>2
      <4>2. \A o \in group : head[d] = None \/ o.hlc > head[d]
        <5>1. head[d] # None => head[d] \in Int /\ head[d] <= clock[d]
          BY <1>2, BoundAssumption DEF TypeOK, Based
        <5>2. \A o \in group : o.hlc \in Int
          BY DEF Operation, Stamps
        <5> QED
          BY <1>1, <1>2, <1>9, <5>1, <5>2
      <4> QED
        BY <4>1, <4>2 DEF AboveHead
    <3>2. shown = ops
      <4> HIDE DEF ops, proven
      <4> QED
        BY <3>1, DisplayedAll
    <3> HIDE DEF ops, proven, shown
    <3> QED
      BY <1>2, <1>3, <1>8, <2>1, <2>2, <3>2 DEF TypeOK
  <2>3. CASE c # d
    <3> HIDE DEF ops, proven, shown
    <3> QED
      BY <1>2, <1>3, <1>8, <2>1, <2>3 DEF TypeOK
  <2> QED
    BY <2>2, <2>3
<1> QED
  BY <1>7, <1>10, <1>11, <1>12, <1>13, <1>14, <1>15

LEMMA ClaimKeeps ==
  ASSUME IInv, NEW d \in Active, Claim(d)
  PROVE  IInv'
<1> USE DEF IInv
<1>1. PICK batch \in SUBSET queue[d] :
        /\ claim' = [claim EXCEPT ![d] = batch]
        /\ unsent' = [unsent EXCEPT ![d] = unsent[d] \ batch]
        /\ answer[d] = None
        /\ UNCHANGED <<Profile, log, answer, queue, display, base, head, clock,
                       seen, clean>>
  BY DEF Claim
<1>2. d \in Devices
  BY ProfileType
<1>3. Pwa' = Pwa /\ Retained' = Retained
  BY <1>1 DEF Pwa, Active, Retained
<1>4. batch \subseteq Operation
  BY <1>2 DEF TypeOK
<1>5. TypeOK'
  BY <1>1, <1>2, <1>3, <1>4 DEF TypeOK
<1>6. Stamped' /\ Finite' /\ Based' /\ NothingHidden'
  BY <1>1, <1>3 DEF Stamped, Finite, Based, NothingHidden
<1>7. Within'
  BY <1>1, <1>2, <1>3 DEF Within, TypeOK
<1>8. Answered'
  BY <1>1, <1>2 DEF Answered, TypeOK
<1> QED
  BY <1>5, <1>6, <1>7, <1>8

LEMMA ServeKeeps ==
  ASSUME IInv, NEW d \in Active, Serve(d)
  PROVE  IInv'
<1> USE DEF IInv
<1>1. d \in Devices /\ LastStamp[Profile] \in 0 .. MaxStamp
  BY ProfileType
<1>2. PICK lead \in 0 .. MaxLead[Profile] :
        LET h == Greatest(log') + lead
        IN  /\ h <= LastStamp[Profile]
            /\ answer' = [answer EXCEPT ![d] = [log |-> log', head |-> h]]
  BY DEF Serve
<1> DEFINE h == Greatest(log') + lead
<1>3. log' = log \cup claim[d] /\ UNCHANGED deviceVars
  BY DEF Serve
<1>4. /\ Pwa' = Pwa /\ Retained' = Retained
      /\ UNCHANGED <<Profile, queue, unsent, claim, display, base, head, clock,
                     seen, clean>>
  BY <1>3 DEF Pwa, Active, Retained, deviceVars
<1>5. claim[d] \subseteq queue[d] /\ queue[d] \subseteq Retained
  BY <1>1 DEF Within, Retained
<1>6. log' \subseteq Operation /\ IsFiniteSet(log')
  BY <1>1, <1>3, <1>5, FS_Union, FS_Subset DEF Finite, TypeOK
<1>7. /\ h \in 0 .. MaxStamp
      /\ \A o \in log' : o.hlc <= h
  <2>1. /\ Greatest(log') \in 0 .. MaxStamp
        /\ \A o \in log' : o.hlc <= Greatest(log')
    BY <1>6, GreatestIs
  <2>2. lead \in Nat
    BY ProfileType, MaxAssumption
  <2>3. \A o \in log' : o.hlc \in Int
    BY <1>6 DEF Operation, Stamps
  <2> QED
    BY <1>1, <1>2, <2>1, <2>2, <2>3, BoundAssumption
<1>8. answer' = [answer EXCEPT ![d] = [log |-> log', head |-> h]]
  BY <1>2
<1> HIDE DEF h
<1>9. TypeOK'
  BY <1>1, <1>4, <1>6, <1>7, <1>8 DEF TypeOK, Answer
<1>10. Stamped'
  <2>1. log' \cup Retained' = log \cup Retained
    BY <1>3, <1>4, <1>5
  <2> QED
    BY <1>4, <2>1 DEF Stamped
<1>11. Finite' /\ Within' /\ NothingHidden'
  BY <1>4, <1>6 DEF Finite, Within, NothingHidden
<1>12. Answered'
  <2> SUFFICES ASSUME NEW c \in Devices, answer'[c] # None
               PROVE  /\ claim[c] \subseteq answer'[c].log /\ answer'[c].log \subseteq log'
                      /\ \A o \in answer'[c].log : o.hlc <= answer'[c].head
    BY <1>4 DEF Answered
  <2>1. CASE c = d
    <3>1. answer'[c].log = log' /\ answer'[c].head = h
      BY <1>8, <2>1 DEF TypeOK
    <3> QED
      BY <1>3, <1>7, <2>1, <3>1
  <2>2. CASE c # d
    <3>1. answer'[c] = answer[c]
      BY <1>8, <2>2 DEF TypeOK
    <3> QED
      BY <1>3, <3>1 DEF Answered
  <2> QED
    BY <2>1, <2>2
<1>13. Based'
  BY <1>3, <1>4 DEF Based
<1> QED
  BY <1>9, <1>10, <1>11, <1>12, <1>13

LEMMA LoseKeeps ==
  ASSUME IInv, NEW d \in Active, Lose(d)
  PROVE  IInv'
<1> USE DEF IInv
<1>1. /\ answer' = [answer EXCEPT ![d] = None]
      /\ UNCHANGED <<log, Profile, queue, unsent, claim, display, base, head, clock,
                     seen, clean>>
  BY DEF Lose, deviceVars
<1>2. d \in Devices
  BY ProfileType
<1>3. Pwa' = Pwa /\ Retained' = Retained
  BY <1>1 DEF Pwa, Active, Retained
<1>4. TypeOK'
  BY <1>1, <1>2, <1>3 DEF TypeOK
<1>5. Stamped' /\ Finite' /\ Within' /\ Based' /\ NothingHidden'
  BY <1>1, <1>3 DEF Stamped, Finite, Within, Based, NothingHidden
<1>6. Answered'
  BY <1>1, <1>2 DEF Answered, TypeOK
<1> QED
  BY <1>4, <1>5, <1>6

\* What an answer does to its device.
LEMMA ReceiveEffect ==
  ASSUME IInv, NEW d \in Active, Receive(d)
  PROVE  LET ans == answer[d]
             left == queue[d] \ claim[d]
             before == Displayed(queue[d], unsent[d], ans.head, display[d])
         IN  /\ ans \in Answer /\ d \in Devices
             /\ answer' = [answer EXCEPT ![d] = None]
             /\ queue' = [queue EXCEPT ![d] = left]
             /\ unsent' = [unsent EXCEPT ![d] = unsent[d] \cap left]
             /\ claim' = [claim EXCEPT ![d] = {}]
             /\ display' = IF d \in Pwa
                           THEN [display EXCEPT ![d] =
                                   Displayed(left, unsent[d] \cap left, ans.head,
                                             before \cap left)]
                           ELSE display
             /\ base' = [base EXCEPT ![d] = Canonical(ans.log)]
             /\ head' = [head EXCEPT ![d] = ans.head]
             /\ clock' = [clock EXCEPT ![d] = Larger(clock[d], ans.head)]
             /\ seen' = [seen EXCEPT ![d] = ans.log]
             /\ UNCHANGED <<Profile, log, clean>>
             /\ display[d] \subseteq queue[d]
             /\ claim[d] \subseteq ans.log /\ ans.log \subseteq log
             /\ \A o \in ans.log : o.hlc <= ans.head
<1> USE DEF IInv
<1>1. d \in Devices /\ answer[d] # None
  BY ProfileType DEF Receive
<1>2. answer[d] \in Answer
  BY <1>1 DEF TypeOK
<1>3. display[d] \subseteq queue[d]
  BY <1>1 DEF Within
<1>4. /\ claim[d] \subseteq answer[d].log /\ answer[d].log \subseteq log
      /\ \A o \in answer[d].log : o.hlc <= answer[d].head
  BY <1>1 DEF Answered
<1> QED
  BY <1>1, <1>2, <1>3, <1>4 DEF Receive, ContextAfter, Unacknowledged

LEMMA ReceiveKeeps ==
  ASSUME IInv, NEW d \in Active, Receive(d)
  PROVE  IInv'
<1> USE DEF IInv
<1> DEFINE ans == answer[d]
           left == queue[d] \ claim[d]
           before == Displayed(queue[d], unsent[d], ans.head, display[d])
           shown == Displayed(left, unsent[d] \cap left, ans.head, before \cap left)
           later == Larger(clock[d], ans.head)
<1>1. /\ ans \in Answer /\ d \in Devices
      /\ answer' = [answer EXCEPT ![d] = None]
      /\ queue' = [queue EXCEPT ![d] = left]
      /\ unsent' = [unsent EXCEPT ![d] = unsent[d] \cap left]
      /\ claim' = [claim EXCEPT ![d] = {}]
      /\ display' = IF d \in Pwa THEN [display EXCEPT ![d] = shown] ELSE display
      /\ base' = [base EXCEPT ![d] = Canonical(ans.log)]
      /\ head' = [head EXCEPT ![d] = ans.head]
      /\ clock' = [clock EXCEPT ![d] = later]
      /\ seen' = [seen EXCEPT ![d] = ans.log]
      /\ UNCHANGED <<Profile, log, clean>>
      /\ display[d] \subseteq queue[d]
      /\ claim[d] \subseteq ans.log /\ ans.log \subseteq log
      /\ \A o \in ans.log : o.hlc <= ans.head
  BY ReceiveEffect
<1>2. Pwa' = Pwa
  BY <1>1 DEF Pwa, Active
<1>3. shown \subseteq left /\ before \subseteq queue[d]
  <2>1. before \subseteq queue[d]
    BY <1>1, DisplayedBounds
  <2> HIDE DEF before, left
  <2>2. shown \subseteq left
    BY DisplayedBounds
  <2> QED
    BY <2>1, <2>2
<1>4. left \subseteq Operation /\ left \subseteq queue[d]
  BY <1>1 DEF TypeOK
<1>5. ans.head \in 0 .. MaxStamp /\ ans.head # None /\ ans.log \subseteq Operation
  BY <1>1, BoundAssumption DEF Answer
<1>6. later \in 0 .. MaxStamp /\ clock[d] <= later /\ ans.head <= later
  BY <1>1, <1>5, BoundAssumption DEF Larger, TypeOK
<1>7. Canonical(ans.log) \in View
  <2>1. IsFiniteSet(ans.log) /\ Keyed(ans.log) /\ ans.log \subseteq Rows
    <3>1. ans.log \in SUBSET log
      BY <1>1
    <3> HIDE DEF ans
    <3> QED
      BY <3>1, KnownParts
  <2> HIDE DEF ans
  <2> QED
    BY <2>1, ProjectType, DefaultsType DEF Canonical
<1> HIDE DEF ans, left, before, shown, later
<1>8. TypeOK'
  BY <1>1, <1>2, <1>3, <1>4, <1>5, <1>6, <1>7 DEF TypeOK
<1>9. /\ queue'[d] = left
      /\ \A c \in Devices \ {d} : queue'[c] = queue[c]
      /\ Retained' \subseteq Retained
  <2>1. left \subseteq Retained
    BY <1>1, <1>4 DEF Retained
  <2> QED
    BY <1>1, <2>1, RetainedUpdate
<1>10. Stamped'
  <2>1. Keyed(log' \cup Retained')
    BY <1>1, <1>9 DEF Stamped, Keyed
  <2>2. \A c \in Devices : \A o \in queue'[c] : o.device = c
    BY <1>4, <1>9 DEF Stamped
  <2>3. \A o \in log' \cup Retained' : o.hlc <= clock'[o.device]
    <3> SUFFICES ASSUME NEW o \in log \cup Retained
                 PROVE  o.hlc <= clock'[o.device]
      BY <1>1, <1>9
    <3>1. o.hlc <= clock[o.device]
      BY DEF Stamped
    <3>2. o.hlc \in Int /\ o.device \in Devices
      BY DEF TypeOK, Retained, Operation, Stamps
    <3>3. clock[o.device] \in Int /\ clock'[o.device] \in Int
          /\ clock[o.device] <= clock'[o.device]
      BY <1>1, <1>6, <3>2 DEF TypeOK
    <3> QED
      BY <3>1, <3>2, <3>3
  <2> QED
    BY <2>1, <2>2, <2>3 DEF Stamped
<1>11. Finite'
  <2>1. IsFiniteSet(left)
    BY <1>1, <1>4, FS_Subset DEF Finite
  <2> QED
    BY <1>1, <1>9, <2>1 DEF Finite
<1>12. Within'
  BY <1>1, <1>2, <1>3, <1>9 DEF Within, TypeOK
<1>13. Answered'
  <2> SUFFICES ASSUME NEW c \in Devices, answer'[c] # None
               PROVE  c # d /\ answer'[c] = answer[c] /\ claim'[c] = claim[c]
    BY <1>1 DEF Answered
  <2> QED
    BY <1>1 DEF TypeOK
<1>14. Based'
  <2> SUFFICES ASSUME NEW c \in Devices
               PROVE  /\ base'[c] = Canonical(seen'[c]) /\ seen'[c] \subseteq log'
                      /\ head'[c] = None => seen'[c] = {}
                      /\ head'[c] # None => /\ head'[c] <= clock'[c]
                                            /\ \A o \in seen'[c] : o.hlc <= head'[c]
    BY DEF Based
  <2>1. CASE c = d
    <3>1. /\ base'[c] = Canonical(ans.log) /\ seen'[c] = ans.log
          /\ head'[c] = ans.head /\ clock'[c] = later
      BY <1>1, <2>1 DEF TypeOK
    <3> QED
      BY <1>1, <1>5, <1>6, <3>1
  <2>2. CASE c # d
    <3>1. /\ base'[c] = base[c] /\ seen'[c] = seen[c]
          /\ head'[c] = head[c] /\ clock'[c] = clock[c]
      BY <1>1, <2>2 DEF TypeOK
    <3> QED
      BY <1>1, <3>1 DEF Based
  <2> QED
    BY <2>1, <2>2
<1>15. NothingHidden'
  <2> SUFFICES ASSUME NEW c \in clean
               PROVE  display'[c] = queue'[c]
    BY <1>1 DEF NothingHidden
  <2>1. c \in Devices /\ c \in Pwa /\ display[c] = queue[c]
    BY ProfileType DEF TypeOK, NothingHidden
  <2>2. CASE c = d
    <3>1. before = queue[d]
      BY <1>3, <2>1, <2>2, DisplayedBounds DEF before
    <3>2. before \cap left = left
      BY <1>4, <3>1
    <3>3. shown = left
      BY <1>3, <3>2, DisplayedBounds DEF shown
    <3> QED
      BY <1>1, <1>9, <2>1, <2>2, <3>3 DEF TypeOK
  <2>3. CASE c # d
    BY <1>1, <1>9, <2>1, <2>3 DEF TypeOK
  <2> QED
    BY <2>2, <2>3
<1> QED
  BY <1>8, <1>10, <1>11, <1>12, <1>13, <1>14, <1>15

LEMMA InitInv == Init => IInv
<1> SUFFICES ASSUME Init
             PROVE  IInv
  OBVIOUS
<1>1. /\ Profile \in Profiles
      /\ queue \in [Devices -> SUBSET Legacy[Profile]]
      /\ \A d \in Devices : \A o \in queue[d] : o.device = d
      /\ unsent \in [Devices -> SUBSET Legacy[Profile]]
      /\ \A d \in Devices : unsent[d] \subseteq queue[d]
      /\ display \in [Devices -> SUBSET Legacy[Profile]]
      /\ \A d \in Devices : display[d] \subseteq (IF d \in Pwa THEN queue[d] ELSE {})
      /\ log \in SUBSET UNION {queue[d] \ unsent[d] : d \in Devices}
      /\ claim = [d \in Devices |-> {}]
      /\ base = [d \in Devices |-> Defaults]
      /\ head = [d \in Devices |-> None]
      /\ clock = [d \in Devices |-> Greatest(queue[d])]
      /\ answer = [d \in Devices |-> None]
      /\ seen = [d \in Devices |-> {}]
      /\ clean = {d \in Pwa : display[d] = queue[d]}
  BY DEF Init
<1>2. /\ Legacy[Profile] \subseteq Operation /\ IsFiniteSet(Legacy[Profile])
      /\ Keyed(Legacy[Profile])
  BY <1>1, LegacyAssumption DEF Keyed
<1>3. Retained \subseteq Legacy[Profile] /\ log \subseteq Retained
  BY <1>1 DEF Retained
<1>4. Finite
  BY <1>1, <1>2, <1>3, FS_Subset DEF Finite
<1>5. \A d \in Devices : /\ clock[d] \in 0 .. MaxStamp
                         /\ \A o \in queue[d] : o.hlc <= clock[d]
  <2> SUFFICES ASSUME NEW d \in Devices
               PROVE  /\ clock[d] \in 0 .. MaxStamp
                      /\ \A o \in queue[d] : o.hlc <= clock[d]
    OBVIOUS
  <2>1. queue[d] \in SUBSET Operation /\ IsFiniteSet(queue[d])
    BY <1>1, <1>2, <1>4 DEF Finite
  <2>2. clock[d] = Greatest(queue[d])
    BY <1>1
  <2> QED
    BY <2>1, <2>2, GreatestIs
<1>6. TypeOK
  <2>1. /\ queue \in [Devices -> SUBSET Operation]
        /\ unsent \in [Devices -> SUBSET Operation]
        /\ display \in [Devices -> SUBSET Operation]
        /\ claim \in [Devices -> SUBSET Operation]
        /\ seen \in [Devices -> SUBSET Operation]
        /\ log \subseteq Operation
    BY <1>1, <1>2, <1>3
  <2>2. clock \in [Devices -> 0 .. MaxStamp]
    BY <1>1, <1>5
  <2>3. base \in [Devices -> View]
    BY <1>1, DefaultsType
  <2>4. /\ head \in [Devices -> (0 .. MaxStamp) \cup {None}]
        /\ answer \in [Devices -> Answer \cup {None}]
    BY <1>1
  <2> QED
    BY <1>1, <2>1, <2>2, <2>3, <2>4 DEF TypeOK
<1>7. Stamped
  <2>1. Keyed(log \cup Retained)
    BY <1>2, <1>3 DEF Keyed
  <2>2. \A o \in log \cup Retained : o.hlc <= clock[o.device]
    <3> SUFFICES ASSUME NEW d \in Devices, NEW o \in queue[d]
                 PROVE  o.hlc <= clock[o.device]
      BY <1>3 DEF Retained
    <3> QED
      BY <1>1, <1>5
  <2> QED
    BY <1>1, <2>1, <2>2 DEF Stamped
<1>8. Within /\ Answered /\ NothingHidden
  BY <1>1 DEF Within, Answered, NothingHidden
<1>9. Based
  BY <1>1, ProjectNothing DEF Based, Canonical
<1> QED
  BY <1>4, <1>6, <1>7, <1>8, <1>9 DEF IInv

LEMMA NextInv == IInv /\ [Next]_vars => IInv'
<1> SUFFICES ASSUME IInv, [Next]_vars
             PROVE  IInv'
  OBVIOUS
<1>1. CASE Next
  <2>1. PICK d \in Active : Edit(d) \/ Claim(d) \/ Serve(d) \/ Lose(d) \/ Receive(d)
    BY <1>1 DEF Next
  <2>2. CASE Edit(d)
    BY <2>2, EditKeeps
  <2>3. CASE Claim(d)
    BY <2>3, ClaimKeeps
  <2>4. CASE Serve(d)
    BY <2>4, ServeKeeps
  <2>5. CASE Lose(d)
    BY <2>5, LoseKeeps
  <2>6. CASE Receive(d)
    BY <2>6, ReceiveKeeps
  <2> QED
    BY <2>1, <2>2, <2>3, <2>4, <2>5, <2>6
<1>2. CASE UNCHANGED vars
  <2>1. Pwa' = Pwa /\ Retained' = Retained
    BY <1>2 DEF vars, deviceVars, Pwa, Active, Retained
  <2> QED
    BY <1>2, <2>1 DEF vars, deviceVars, IInv, TypeOK, Stamped, Finite, Within,
                      Answered, Based, NothingHidden
<1> QED
  BY <1>1, <1>2

LEMMA Inductive == Spec => []IInv
  BY InitInv, NextInv, PTL DEF Spec

-----------------------------------------------------------------------------
(* The theorems.                                                           *)

(* A PWA that hid nothing at first never hides an edit (display.rs): what  *)
(* is claimed, overtaken by other devices or acknowledged stays shown as   *)
(* long as it is retained.                                                 *)
THEOREM NothingHiddenHolds == Spec => []NothingHidden
<1>1. IInv => NothingHidden
  BY DEF IInv
<1> QED
  BY <1>1, Inductive, PTL

\* What a device replays is part of what it retains.
LEMMA ReplayedRetained ==
  ASSUME IInv, NEW d \in Devices
  PROVE  /\ Replayed(d) \subseteq queue[d]
         /\ \A ops \in {Replayed(d), queue[d]} :
              /\ ops \subseteq Rows /\ ops \subseteq log \cup Retained
              /\ IsFiniteSet(ops) /\ Keyed(ops)
<1> USE DEF IInv
<1>1. Displayed(queue[d], unsent[d], head[d], display[d]) \subseteq queue[d]
  BY DisplayedBounds DEF Within
<1>2. Projectable(queue[d], unsent[d], head[d]) \subseteq queue[d]
  BY DEF Projectable
<1>3. Replayed(d) \subseteq queue[d]
  BY <1>1, <1>2 DEF Replayed
<1> QED
  BY <1>3, KnownParts

(* Whatever is projected can be projected over (projection.rs              *)
(* validate_base_selected_task, display.rs validate_stored): the state is  *)
(* well typed, every selection names an active task, and no display record *)
(* outlives its operation.                                                 *)
THEOREM ConsistentHolds == Spec => []Consistent
<1>1. IInv => Consistent
  <2> SUFFICES ASSUME IInv
               PROVE  Consistent
    OBVIOUS
  <2>1. TypeOK
    BY DEF IInv
  <2>2. ContextRetained
    BY <2>1, ProfileType DEF IInv, Within, ContextRetained
  <2>3. SelectionActive
    <3> SUFFICES ASSUME NEW d \in Devices
                 PROVE  \A v \in {base[d], Shown(d)} :
                          v["selection"] # None => v[v["selection"]] = "active"
      BY DEF SelectionActive
    <3>1. base[d] = Project(Defaults, seen[d])
      BY DEF IInv, Based, Canonical
    <3> QED
      BY <3>1, SelectionIsActive DEF Shown
  <2> QED
    BY <2>1, <2>2, <2>3 DEF Consistent
<1> QED
  BY <1>1, Inductive, PTL

(* Under the delivery policy (delivery.rs projectable) a device shows what *)
(* the server would show if the replayed operations arrived next, but for  *)
(* a selection that its snapshot lost together with the task.              *)
THEOREM HonestPreviewHolds == Spec => []HonestPreview
<1>1. IInv => HonestPreview
  <2> SUFFICES ASSUME IInv, NEW d \in Devices \ Pwa
               PROVE  LET whole == Canonical(seen[d] \cup Replayed(d))
                      IN  \A s \in Slots : \/ Shown(d)[s] = whole[s]
                                           \/ s = "selection" /\ Revived(d)
    BY DEF HonestPreview
  <2> DEFINE new == Replayed(d)
             old == seen[d]
  <2>1. new = Projectable(queue[d], unsent[d], head[d])
    BY DEF Replayed
  <2>2. new \subseteq Rows /\ IsFiniteSet(new) /\ Keyed(new)
    BY ReplayedRetained
  <2>3. old \subseteq Rows
    BY OperationIsRow DEF IInv, Based, TypeOK
  <2>4. \A o \in old, p \in new : p.hlc > o.hlc
    <3> SUFFICES ASSUME NEW o \in old, NEW p \in new
                 PROVE  p.hlc > o.hlc
      OBVIOUS
    <3>1. AboveHead(p, head[d])
      BY <2>1 DEF Projectable, SameDomain
    <3>2. head[d] # None /\ p.hlc > head[d]
      BY <3>1 DEF AboveHead
    <3>3. o.hlc <= head[d]
      BY <3>2 DEF IInv, Based
    <3>4. head[d] \in Int /\ o.hlc \in Int /\ p.hlc \in Int
      BY <2>2, <2>3, <3>2, BoundAssumption DEF IInv, TypeOK, Rows
    <3> QED
      BY <3>2, <3>3, <3>4
  <2>5. base[d] = Canonical(old)
    BY DEF IInv, Based
  <2> HIDE DEF new, old
  <2>6. LET here == Project(Canonical(old), new)
            whole == Canonical(old \cup new)
        IN  /\ \A s \in Slots \ {"selection"} : here[s] = whole[s]
            /\ \/ here["selection"] = whole["selection"]
               \/ /\ here["selection"] = None
                  /\ Canonical(old)["selection"] = None
                  /\ ~ Touched(new, "selection")
                  /\ Touched(new, whole["selection"])
    BY <2>2, <2>3, <2>4, LateReplay
  <2>7. Shown(d) = Project(Canonical(old), new)
    BY <2>5 DEF Shown, new
  <2> QED
    BY <2>5, <2>6, <2>7 DEF Revived, new, old
<1> QED
  BY <1>1, Inductive, PTL

(* A user is never refused what the display offers (admission.rs group):   *)
(* whatever the retained ledger is, the group of an accepted intent wins   *)
(* it if the planner saw all of it.                                        *)
THEOREM OfferedIsAdmittedHolds == Spec => []OfferedIsAdmitted
<1>1. IInv => OfferedIsAdmitted
  <2> SUFFICES ASSUME IInv, NEW d \in Active,
                      Before(d) = Project(base[d], queue[d]),
                      NEW i \in Intents[Profile], Accepted(d, i),
                      NEW retired \in Superseded(d, i),
                      NEW h \in Stamps, Ticked(d, h)
               PROVE  LET group == Group(d, Writes(d, i), h)
                      IN  Admitted(d, group, (queue[d] \ retired) \cup group)
    BY DEF OfferedIsAdmitted
  <2>1. d \in Devices /\ i \in Intent
    BY ProfileType DEF IInv
  <2>2. queue[d] \subseteq Operation /\ clock[d] \in Int /\ h \in Int
    BY <2>1 DEF IInv, TypeOK, Stamps
  <2>3. \A o \in queue[d] : o.hlc <= clock[d]
    BY <2>1 DEF IInv, Stamped, Retained
  <2> QED
    BY <2>1, <2>2, <2>3, GroupAdmitted
<1> QED
  BY <1>1, Inductive, PTL

\* Superseded rows are replaced by newer ones of their slot.
LEMMA RetiredReplaced ==
  ASSUME IInv, NEW d \in Active, Edit(d)
  PROVE  /\ queue[d] \ queue'[d] \subseteq Replaced(d)
         /\ d \in Pwa =>
              display'[d] = Displayed(queue'[d], unsent'[d], head[d],
                                      display[d] \cap queue'[d])
         /\ \A c \in Devices \ {d} : queue'[c] = queue[c] /\ display'[c] = display[c]
<1> USE DEF IInv
<1>1. PICK group \in SUBSET Operation, retired \in SUBSET unsent[d],
           last \in 0 .. MaxStamp :
        /\ EditOf(d, group, retired, last)
        /\ \A o \in group : o.device = d /\ clock[d] < o.hlc /\ o.hlc <= last
        /\ \A o \in retired : \E p \in group : p.slot = o.slot
  BY EditEffect
<1>2. d \in Devices
  BY ProfileType
<1> DEFINE ops == (queue[d] \ retired) \cup group
           proven == (unsent[d] \ retired) \cup group
<1>3. /\ queue' = [queue EXCEPT ![d] = ops]
      /\ unsent' = [unsent EXCEPT ![d] = proven]
      /\ display' = IF d \in Pwa
                    THEN [display EXCEPT ![d] =
                            Displayed(ops, proven, head[d], display[d] \cap ops)]
                    ELSE display
  BY <1>1 DEF EditOf
<1> HIDE DEF proven
<1>4. /\ queue'[d] = ops /\ unsent'[d] = proven
      /\ d \in Pwa => display'[d] = Displayed(ops, proven, head[d], display[d] \cap ops)
      /\ \A c \in Devices \ {d} : queue'[c] = queue[c] /\ display'[c] = display[c]
  <2> HIDE DEF ops
  <2> QED
    BY <1>2, <1>3 DEF TypeOK
<1>5. queue[d] \ queue'[d] \subseteq Replaced(d)
  <2> SUFFICES ASSUME NEW o \in queue[d] \ queue'[d]
               PROVE  /\ o \in unsent[d]
                      /\ \E p \in queue'[d] \ queue[d] : p.slot = o.slot /\ Later(p, o)
    BY DEF Replaced
  <2>1. o \in retired
    BY <1>4
  <2>2. PICK p \in group : p.slot = o.slot
    BY <1>1, <2>1
  <2>3. \A q \in queue[d] : q.hlc \in Int /\ q.hlc <= clock[d] /\ clock[d] \in Int
    BY <1>2 DEF TypeOK, Stamped, Retained, Operation, Stamps
  <2>4. clock[d] < p.hlc /\ p.hlc \in Int
    BY <1>1 DEF Operation, Stamps
  <2>5. p \notin queue[d] /\ Later(p, o)
    BY <2>3, <2>4 DEF Later
  <2> QED
    BY <1>4, <2>1, <2>2, <2>5
<1> QED
  BY <1>4, <1>5

(* An edit leaves the device only with the snapshot that contains it, or   *)
(* unsent for a newer edit of its slot (acknowledgements.rs                *)
(* filter_pending, superseded_durations).                                  *)
THEOREM NothingLostHolds == Spec => NothingLost
<1> DEFINE Kept(d) ==
      queue[d] \ queue'[d] \subseteq (log' \cap seen'[d]) \cup Replaced(d)
<1>1. IInv /\ [Next]_vars => [\A d \in Devices : Kept(d)]_vars
  <2> SUFFICES ASSUME IInv, Next, NEW d \in Devices
               PROVE  Kept(d)
    OBVIOUS
  <2>1. PICK e \in Active : Edit(e) \/ Claim(e) \/ Serve(e) \/ Lose(e) \/ Receive(e)
    BY DEF Next
  <2>2. CASE Edit(e)
    BY <2>2, RetiredReplaced
  <2>3. CASE Claim(e) \/ Serve(e) \/ Lose(e)
    BY <2>3 DEF Claim, Serve, Lose, deviceVars
  <2>4. CASE Receive(e)
    <3>1. /\ queue' = [queue EXCEPT ![e] = queue[e] \ claim[e]]
          /\ seen' = [seen EXCEPT ![e] = answer[e].log] /\ log' = log
          /\ claim[e] \subseteq answer[e].log /\ answer[e].log \subseteq log
      BY <2>4, ReceiveEffect
    <3> QED
      BY <3>1 DEF IInv, TypeOK
  <2> QED
    BY <2>1, <2>2, <2>3, <2>4
<1> QED
  BY <1>1, Inductive, PTL DEF Spec, NothingLost

(* What a PWA shows of its own edits stays until the server has it, and    *)
(* rows join only with all the others of their domain (display.rs: "hiding *)
(* a domain barrier invents a winner").                                    *)
THEOREM DisplayStepHolds == Spec => DisplayStep
<1> DEFINE Steady(d) ==
      /\ display[d] \ display'[d] \subseteq (claim[d] \cap seen'[d]) \cup Replaced(d)
      /\ \A o \in display'[d] \ display[d], p \in queue'[d] :
           SameDomain(o, p) => p \in display'[d]
<1>1. IInv /\ [Next]_vars => [\A d \in Pwa : Steady(d)]_vars
  <2> SUFFICES ASSUME IInv, Next, NEW d \in Pwa
               PROVE  Steady(d)
    OBVIOUS
  <2>0. d \in Devices /\ display[d] \subseteq queue[d]
    BY ProfileType DEF IInv, Within
  <2>1. PICK e \in Active : Edit(e) \/ Claim(e) \/ Serve(e) \/ Lose(e) \/ Receive(e)
    BY DEF Next
  <2>2. CASE Edit(e)
    <3>1. CASE d = e
      <4>1. /\ queue[d] \ queue'[d] \subseteq Replaced(d)
            /\ display'[d] = Displayed(queue'[d], unsent'[d], head[d],
                                       display[d] \cap queue'[d])
        BY <2>2, <3>1, RetiredReplaced
      <4>2. display[d] \cap queue'[d] \subseteq display'[d]
        BY <4>1, DisplayedBounds
      <4>3. ASSUME NEW o \in display'[d] \ display[d], NEW p \in queue'[d],
                   SameDomain(o, p)
            PROVE  p \in display'[d]
        BY <4>1, <4>3, DisplayedDomains
      <4> QED
        BY <2>0, <4>1, <4>2, <4>3
    <3>2. CASE d # e
      <4>1. display'[d] = display[d]
        BY <2>0, <2>2, <3>2, RetiredReplaced
      <4> QED
        BY <4>1
    <3> QED
      BY <3>1, <3>2
  <2>3. CASE Claim(e) \/ Serve(e) \/ Lose(e)
    BY <2>3 DEF Claim, Serve, Lose, deviceVars
  <2>4. CASE Receive(e)
    <3>1. CASE d = e
      <4> DEFINE ans == answer[d]
                 left == queue[d] \ claim[d]
                 before == Displayed(queue[d], unsent[d], ans.head, display[d])
                 shown == Displayed(left, unsent[d] \cap left, ans.head, before \cap left)
      <4>1. /\ queue'[d] = left /\ display'[d] = shown /\ seen'[d] = ans.log
            /\ claim[d] \subseteq ans.log
        <5>1. /\ queue' = [queue EXCEPT ![d] = left]
              /\ display' = [display EXCEPT ![d] = shown]
              /\ seen' = [seen EXCEPT ![d] = ans.log]
              /\ claim[d] \subseteq ans.log
          BY <2>4, <3>1, ReceiveEffect
        <5> HIDE DEF left, shown, ans
        <5> QED
          BY <2>0, <5>1 DEF IInv, TypeOK
      <4>2. display[d] \subseteq before /\ before \subseteq queue[d]
        BY <2>0, DisplayedBounds
      <4> HIDE DEF before
      <4>3. before \cap left \subseteq shown
        BY DisplayedBounds
      <4>4. ASSUME NEW o \in shown \ display[d], NEW p \in left, SameDomain(o, p)
            PROVE  p \in shown
        <5>1. CASE o \in before
          <6>1. p \in before
            BY <2>0, <4>4, <5>1, DisplayedDomains DEF before
          <6> QED
            BY <4>3, <4>4, <6>1
        <5>2. CASE o \notin before
          BY <4>4, <5>2, DisplayedDomains
        <5> QED
          BY <5>1, <5>2
      <4> HIDE DEF shown
      <4> QED
        BY <2>0, <4>1, <4>2, <4>3, <4>4
    <3>2. CASE d # e
      <4>1. display'[d] = display[d]
        <5>1. \E new : display' = IF e \in Pwa THEN [display EXCEPT ![e] = new]
                                               ELSE display
          BY <2>4, ReceiveEffect
        <5> QED
          BY <2>0, <3>2, <5>1 DEF IInv, TypeOK
      <4> QED
        BY <4>1
    <3> QED
      BY <3>1, <3>2
  <2> QED
    BY <2>1, <2>2, <2>3, <2>4
<1> QED
  BY <1>1, Inductive, PTL DEF Spec, DisplayStep
=============================================================================
