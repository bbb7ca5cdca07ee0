---------------------------- MODULE ClockProofs ----------------------------
(***************************************************************************)
(* Theorems about the two clocks of a device.  The hybrid logical clock,   *)
(* for any set of devices, any integer range and any number of operations. *)
(* The trusted clock of all four clients, for all bounds, offsets of the   *)
(* wall clock and numbers of edits, sleeps, restarts and reboots: a time   *)
(* that is read is as near to the server's as its sample says, and a       *)
(* steady time passes as the monotonic clock does.                         *)
(***************************************************************************)
EXTENDS HlcClock, TrustedClock, TLAPS

-----------------------------------------------------------------------------
(* The hybrid logical clock.                                               *)

AtMost(a, b) == a = b \/ Before(a, b)

LEMMA WallType ==
  /\ \A c \in Clock : c.wall \in Int /\ c.wall \in 0 .. MaxSafe
  /\ MaxSafe \in Nat /\ \A n \in 0 .. MaxWall : n \in 0 .. MaxSafe
  BY HlcAssumption DEF Clock

LEMMA MaxOfType ==
  ASSUME NEW x \in Int, NEW y \in Int
  PROVE  /\ MaxOf(x, y) \in Int /\ MaxOf(x, y) >= x /\ MaxOf(x, y) >= y
         /\ MaxOf(x, y) = x \/ MaxOf(x, y) = y
  BY DEF MaxOf

LEMMA TickForward ==
  ASSUME NEW local \in Clock, NEW remote \in Clock, NEW physical \in 0 .. MaxWall,
         HlcTick(local, remote, physical) # Error
  PROVE  LET at == HlcTick(local, remote, physical) IN
         /\ at \in Clock
         /\ Before(local, at) /\ Before(remote, at)
         /\ at.wall = MaxOf(MaxOf(local.wall, remote.wall), physical)
<1> DEFINE wall == MaxOf(MaxOf(local.wall, remote.wall), physical)
<1>1. /\ MaxSafe \in Nat /\ Error \notin Int
      /\ local.wall \in 0 .. MaxSafe /\ local.counter \in 0 .. MaxSafe
      /\ remote.wall \in 0 .. MaxSafe /\ remote.counter \in 0 .. MaxSafe
      /\ physical \in 0 .. MaxSafe
  BY HlcAssumption DEF Clock
<1>2. /\ wall \in 0 .. MaxSafe
      /\ wall >= local.wall /\ wall >= remote.wall
  BY <1>1 DEF MaxOf
<1>3. CASE wall = local.wall /\ wall = remote.wall
  <2> DEFINE n == Increment(MaxOf(local.counter, remote.counter))
  <2>1. HlcTick(local, remote, physical) = Stamp(wall, n)
    BY <1>3 DEF HlcTick
  <2>2. n # Error
    BY <2>1 DEF Stamp
  <2>3. n \in 0 .. MaxSafe /\ n > local.counter /\ n > remote.counter
    BY <1>1, <2>2 DEF Increment, MaxOf
  <2>4. HlcTick(local, remote, physical) = [wall |-> wall, counter |-> n]
    BY <2>1, <2>2 DEF Stamp
  <2> HIDE DEF n
  <2> QED
    BY <1>2, <1>3, <2>3, <2>4 DEF Clock, Before
<1>4. CASE wall = local.wall /\ wall # remote.wall
  <2> DEFINE n == Increment(local.counter)
  <2>1. HlcTick(local, remote, physical) = Stamp(wall, n)
    BY <1>4 DEF HlcTick
  <2>2. n # Error
    BY <2>1 DEF Stamp
  <2>3. n \in 0 .. MaxSafe /\ n > local.counter
    BY <1>1, <2>2 DEF Increment
  <2>4. HlcTick(local, remote, physical) = [wall |-> wall, counter |-> n]
    BY <2>1, <2>2 DEF Stamp
  <2> HIDE DEF n
  <2> QED
    BY <1>1, <1>2, <1>4, <2>3, <2>4 DEF Clock, Before
<1>5. CASE wall # local.wall /\ wall = remote.wall
  <2> DEFINE n == Increment(remote.counter)
  <2>1. HlcTick(local, remote, physical) = Stamp(wall, n)
    BY <1>5 DEF HlcTick
  <2>2. n # Error
    BY <2>1 DEF Stamp
  <2>3. n \in 0 .. MaxSafe /\ n > remote.counter
    BY <1>1, <2>2 DEF Increment
  <2>4. HlcTick(local, remote, physical) = [wall |-> wall, counter |-> n]
    BY <2>1, <2>2 DEF Stamp
  <2> HIDE DEF n
  <2> QED
    BY <1>1, <1>2, <1>5, <2>3, <2>4 DEF Clock, Before
<1>6. CASE wall # local.wall /\ wall # remote.wall
  <2>1. HlcTick(local, remote, physical) = Stamp(wall, 0)
    BY <1>6 DEF HlcTick
  <2>2. HlcTick(local, remote, physical) = [wall |-> wall, counter |-> 0]
    BY <1>1, <2>1 DEF Stamp
  <2> QED
    BY <1>1, <1>2, <1>6, <2>2 DEF Clock, Before
<1> QED
  BY <1>3, <1>4, <1>5, <1>6

LEMMA LocalTickForward ==
  ASSUME NEW local \in Clock, NEW physical \in 0 .. MaxWall,
         LocalTick(local, physical) # Error
  PROVE  LET at == LocalTick(local, physical) IN
         at \in Clock /\ Before(local, at) /\ at.wall = MaxOf(local.wall, physical)
<1> DEFINE wall == MaxOf(local.wall, physical)
           n    == IF wall = local.wall THEN Increment(local.counter) ELSE 0
<1>1. /\ MaxSafe \in Nat /\ Error \notin Int
      /\ local.wall \in 0 .. MaxSafe /\ local.counter \in 0 .. MaxSafe
      /\ physical \in 0 .. MaxSafe
  BY HlcAssumption DEF Clock
<1>2. wall \in 0 .. MaxSafe /\ wall >= local.wall
  BY <1>1 DEF MaxOf
<1>3. n # Error /\ LocalTick(local, physical) = [wall |-> wall, counter |-> n]
  BY DEF LocalTick, Stamp
<1>4. n \in 0 .. MaxSafe /\ (wall = local.wall => n > local.counter)
  BY <1>1, <1>3 DEF Increment
<1> HIDE DEF n
<1> QED
  BY <1>1, <1>2, <1>3, <1>4 DEF Clock, Before

-----------------------------------------------------------------------------
(* CausalStamps is not inductive alone: a new operation is later than what *)
(* its device knows because the clock of the device is.                    *)

KnowsPast ==
  \A d \in Devices : \A i \in seen[d] : AtMost(log[i].at, hlc[d])

StampsReal == \A i \in 1 .. Len(log) : log[i].at.wall <= latest

HlcInv == HlcTypeOK /\ KnowsPast /\ CausalStamps /\ NoRunaway /\ StampsReal

LEMMA LogType ==
  ASSUME HlcTypeOK
  PROVE  /\ Len(log) \in Nat
         /\ \A k \in 1 .. Len(log) : log[k].at \in Clock
<1> DEFINE Op == [dev : Devices, at : Clock, past : SUBSET Nat]
<1>1. log \in Seq(Op)
  BY DEF HlcTypeOK
<1>2. \A o \in Op : o.at \in Clock
  OBVIOUS
<1> HIDE DEF Op
<1>3. Len(log) \in Nat /\ \A k \in 1 .. Len(log) : log[k] \in Op
  BY <1>1
<1> QED
  BY <1>2, <1>3

LEMMA BeforeOrder ==
  ASSUME NEW a \in Clock, NEW b \in Clock, NEW c \in Clock
  PROVE  /\ ~ Before(a, a)
         /\ Before(a, b) => ~ Before(b, a)
         /\ AtMost(a, b) /\ Before(b, c) => Before(a, c)
         /\ ~ Before(b, a) => AtMost(a, b)
         /\ AtMost(a, b) /\ AtMost(b, c) => AtMost(a, c)
<1>1. \A z \in {a, b, c} : /\ z.wall \in Int /\ z.counter \in Int
                            /\ z = [wall |-> z.wall, counter |-> z.counter]
  BY HlcAssumption DEF Clock
<1>2. ~ Before(b, a) => AtMost(a, b)
  <2>1. a.wall = b.wall /\ a.counter = b.counter => a = b
    BY <1>1
  <2> QED
    BY <1>1, <2>1 DEF Before, AtMost
<1> QED
  BY <1>1, <1>2 DEF Before, AtMost

LEMMA InitHlcInv == HlcInit => HlcInv
<1> SUFFICES ASSUME HlcInit PROVE HlcInv
  OBVIOUS
<1>1. [wall |-> 0, counter |-> 0] \in Clock /\ 0 \in 0 .. MaxSafe
  BY HlcAssumption DEF Clock
<1>2. HlcTypeOK
  BY <1>1 DEF HlcInit, HlcTypeOK
<1>3. KnowsPast /\ CausalStamps /\ NoRunaway /\ StampsReal
  BY DEF HlcInit, KnowsPast, CausalStamps, NoRunaway, StampsReal
<1> QED
  BY <1>2, <1>3 DEF HlcInv

LEMMA CreateStep ==
  ASSUME HlcInv, NEW d \in Devices, NEW physical \in 0 .. MaxWall, Create(d, physical)
  PROVE  HlcInv' /\ \A e \in Devices : ~ Before(hlc'[e], hlc[e])
<1> DEFINE at == LocalTick(hlc[d], physical)
           op == [dev |-> d, at |-> at, past |-> seen[d]]
           n  == Len(log) + 1
<1>1. /\ hlc \in [Devices -> Clock] /\ latest \in 0 .. MaxSafe
      /\ log \in Seq([dev : Devices, at : Clock, past : SUBSET Nat])
      /\ seen \in [Devices -> SUBSET (1 .. Len(log))]
      /\ \A i \in 1 .. Len(log) : log[i].past \subseteq 1 .. i - 1
      /\ Len(log) \in Nat
  BY DEF HlcInv, HlcTypeOK
<1>2. /\ at \in Clock /\ Before(hlc[d], at)
      /\ at.wall = MaxOf(hlc[d].wall, physical)
  BY <1>1, LocalTickForward DEF Create
<1>3. /\ hlc' = [hlc EXCEPT ![d] = at]
      /\ log' = Append(log, op)
      /\ seen' = [seen EXCEPT ![d] = @ \cup {n}]
      /\ latest' = MaxOf(latest, physical)
  BY DEF Create
<1> HIDE DEF at
<1>4. /\ op \in [dev : Devices, at : Clock, past : SUBSET Nat]
      /\ op.past = seen[d] /\ op.at = at
  BY <1>1, <1>2
<1> HIDE DEF op
<1>5. /\ Len(log') = n /\ log'[n] = op
      /\ \A i \in 1 .. Len(log) : log'[i] = log[i]
      /\ log' \in Seq([dev : Devices, at : Clock, past : SUBSET Nat])
  BY <1>1, <1>3, <1>4
<1>6. HlcTypeOK'
  <2>1. hlc' \in [Devices -> Clock]
    BY <1>1, <1>2, <1>3
  <2>2. latest' \in 0 .. MaxSafe
    BY <1>1, <1>3, HlcAssumption DEF MaxOf
  <2>3. seen' \in [Devices -> SUBSET (1 .. Len(log'))]
    BY <1>1, <1>3, <1>5
  <2>4. \A i \in 1 .. Len(log') : log'[i].past \subseteq 1 .. i - 1
    BY <1>1, <1>4, <1>5
  <2> QED
    BY <1>5, <2>1, <2>2, <2>3, <2>4 DEF HlcTypeOK
<1>7. \A i \in seen[d] : AtMost(log[i].at, hlc[d]) /\ log[i].at \in Clock
  BY <1>1, LogType DEF HlcInv, KnowsPast
<1>8. KnowsPast'
  <2> SUFFICES ASSUME NEW e \in Devices, NEW i \in seen'[e]
               PROVE  AtMost(log'[i].at, hlc'[e])
    BY DEF KnowsPast
  <2>1. CASE e # d
    BY <1>1, <1>3, <1>5, <2>1 DEF HlcInv, KnowsPast
  <2>2. CASE e = d /\ i = n
    BY <1>1, <1>3, <1>4, <1>5, <2>2 DEF AtMost
  <2>3. CASE e = d /\ i # n
    <3>1. i \in seen[d] /\ i \in 1 .. Len(log) /\ hlc'[d] = at
      BY <1>1, <1>3, <2>3
    <3> QED
      BY <1>1, <1>2, <1>5, <1>7, <2>3, <3>1, BeforeOrder DEF AtMost
  <2> QED
    BY <2>1, <2>2, <2>3
<1>9. CausalStamps'
  <2> SUFFICES ASSUME NEW i \in 1 .. Len(log'), NEW j \in log'[i].past
               PROVE  Before(log'[j].at, log'[i].at)
    BY DEF CausalStamps
  <2>1. CASE i # n
    <3>1. i \in 1 .. Len(log) /\ log'[i] = log[i]
      BY <1>1, <1>5, <2>1
    <3>2. j \in 1 .. Len(log) /\ log'[j] = log[j] /\ j \in log[i].past
      BY <1>1, <1>5, <3>1
    <3> QED
      BY <3>1, <3>2 DEF HlcInv, CausalStamps
  <2>2. CASE i = n
    <3>1. j \in seen[d] /\ j \in 1 .. Len(log)
      BY <1>1, <1>4, <1>5, <2>2
    <3> QED
      BY <1>1, <1>2, <1>4, <1>5, <1>7, <2>2, <3>1, BeforeOrder
  <2> QED
    BY <2>1, <2>2
<1>10. NoRunaway' /\ StampsReal'
  <2>1. hlc[d].wall <= latest /\ hlc[d].wall \in Int
    BY <1>1, WallType DEF HlcInv, NoRunaway
  <2>2. at.wall <= latest' /\ latest <= latest' /\ latest' \in Int /\ at.wall \in Int
    <3>1. latest \in Int /\ physical \in Int
      BY <1>1, WallType
    <3>2. latest' \in Int /\ latest' >= latest /\ latest' >= physical
      BY <1>3, <3>1, MaxOfType
    <3>3. at.wall = hlc[d].wall \/ at.wall = physical
      BY <1>2, <2>1, <3>1, MaxOfType
    <3> QED
      BY <2>1, <3>1, <3>2, <3>3
  <2>3. \A i \in 1 .. Len(log) : log[i].at.wall <= latest'
    <3> SUFFICES ASSUME NEW i \in 1 .. Len(log) PROVE log[i].at.wall <= latest'
      OBVIOUS
    <3>1. log[i].at.wall <= latest /\ log[i].at.wall \in Int
      BY LogType, WallType DEF HlcInv, StampsReal
    <3> QED
      BY <1>1, <2>2, <3>1
  <2>4. NoRunaway'
    <3> SUFFICES ASSUME NEW e \in Devices PROVE hlc'[e].wall <= latest'
      BY DEF NoRunaway
    <3>1. hlc[e].wall <= latest /\ hlc[e].wall \in Int
      BY <1>1, WallType DEF HlcInv, NoRunaway
    <3> QED
      BY <1>1, <1>3, <2>2, <3>1
  <2>5. StampsReal'
    BY <1>1, <1>4, <1>5, <2>2, <2>3 DEF StampsReal
  <2> QED
    BY <2>4, <2>5
<1>11. \A e \in Devices : ~ Before(hlc'[e], hlc[e])
  BY <1>1, <1>2, <1>3, BeforeOrder
<1> QED
  BY <1>6, <1>8, <1>9, <1>10, <1>11 DEF HlcInv

LEMMA ReceiveStep ==
  ASSUME HlcInv, NEW d \in Devices, NEW physical \in 0 .. MaxWall,
         NEW i \in 1 .. Len(log), ReceiveOp(d, i, physical)
  PROVE  HlcInv' /\ \A e \in Devices : ~ Before(hlc'[e], hlc[e])
<1> DEFINE at == HlcTick(hlc[d], log[i].at, physical)
<1>1. /\ hlc \in [Devices -> Clock] /\ latest \in 0 .. MaxSafe
      /\ log \in Seq([dev : Devices, at : Clock, past : SUBSET Nat])
      /\ seen \in [Devices -> SUBSET (1 .. Len(log))]
      /\ \A k \in 1 .. Len(log) : log[k].past \subseteq 1 .. k - 1
      /\ Len(log) \in Nat
      /\ \A k \in 1 .. Len(log) : log[k].at \in Clock
  BY LogType DEF HlcInv, HlcTypeOK
<1>2. /\ at \in Clock /\ Before(hlc[d], at) /\ Before(log[i].at, at)
      /\ at.wall = MaxOf(MaxOf(hlc[d].wall, log[i].at.wall), physical)
  BY <1>1, TickForward DEF ReceiveOp
<1>3. /\ hlc' = [hlc EXCEPT ![d] = at] /\ log' = log
      /\ seen' = [seen EXCEPT ![d] = @ \cup {i} \cup log[i].past]
      /\ latest' = MaxOf(latest, physical)
  BY DEF ReceiveOp
<1> HIDE DEF at
<1>4. HlcTypeOK'
  <2>1. hlc' \in [Devices -> Clock] /\ latest' \in 0 .. MaxSafe
    BY <1>1, <1>2, <1>3, HlcAssumption DEF MaxOf
  <2>2. log[i].past \subseteq 1 .. Len(log)
    BY <1>1
  <2>3. seen' \in [Devices -> SUBSET (1 .. Len(log'))]
    BY <1>1, <1>3, <2>2
  <2> QED
    BY <1>1, <1>3, <2>1, <2>3 DEF HlcTypeOK
<1>5. KnowsPast'
  <2> SUFFICES ASSUME NEW e \in Devices, NEW k \in seen'[e]
               PROVE  AtMost(log[k].at, hlc'[e])
    BY <1>3 DEF KnowsPast
  <2>1. CASE e # d
    BY <1>1, <1>3, <2>1 DEF HlcInv, KnowsPast
  <2>2. CASE e = d
    <3>1. hlc'[d] = at /\ k \in 1 .. Len(log)
      BY <1>1, <1>3, <2>2
    <3>2. CASE k \in seen[d]
      <4>1. AtMost(log[k].at, hlc[d])
        BY <3>2 DEF HlcInv, KnowsPast
      <4> QED
        BY <1>1, <1>2, <2>2, <3>1, <4>1, BeforeOrder DEF AtMost
    <3>3. CASE k = i
      BY <1>2, <2>2, <3>1, <3>3 DEF AtMost
    <3>4. CASE k \in log[i].past
      <4>1. Before(log[k].at, log[i].at)
        BY <3>4 DEF HlcInv, CausalStamps
      <4> QED
        BY <1>1, <1>2, <2>2, <3>1, <4>1, BeforeOrder DEF AtMost
    <3> QED
      BY <1>1, <1>3, <2>2, <3>2, <3>3, <3>4
  <2> QED
    BY <2>1, <2>2
<1>6. CausalStamps'
  BY <1>3 DEF HlcInv, CausalStamps
<1>7. NoRunaway' /\ StampsReal'
  <2>1. log[i].at.wall <= latest
    BY DEF HlcInv, StampsReal
  <2>2. /\ latest <= latest' /\ physical <= latest' /\ latest' \in Int
        /\ hlc[d].wall <= latest /\ hlc[d].wall \in Int
        /\ log[i].at.wall \in Int /\ latest \in Int /\ physical \in Int
    <3>1. latest \in Int /\ physical \in Int
      BY <1>1, WallType
    <3>2. latest' \in Int /\ latest' >= latest /\ latest' >= physical
      BY <1>3, <3>1, MaxOfType
    <3>3. hlc[d].wall <= latest /\ hlc[d].wall \in Int /\ log[i].at.wall \in Int
      BY <1>1, WallType DEF HlcInv, NoRunaway
    <3> QED
      BY <3>1, <3>2, <3>3
  <2>5. at.wall <= latest'
    <3>1. LET m == MaxOf(hlc[d].wall, log[i].at.wall) IN
            m \in Int /\ (m = hlc[d].wall \/ m = log[i].at.wall)
      BY <2>2, MaxOfType
    <3>2. \/ at.wall = hlc[d].wall \/ at.wall = log[i].at.wall
          \/ at.wall = physical
      BY <1>2, <2>2, <3>1, MaxOfType
    <3> QED
      BY <2>1, <2>2, <3>2
  <2>3. \A k \in 1 .. Len(log) : log[k].at.wall <= latest'
    <3> SUFFICES ASSUME NEW k \in 1 .. Len(log) PROVE log[k].at.wall <= latest'
      OBVIOUS
    <3>1. log[k].at.wall <= latest /\ log[k].at.wall \in Int
      BY <1>1, WallType DEF HlcInv, StampsReal
    <3> QED
      BY <1>1, <2>2, <3>1
  <2>4. NoRunaway'
    <3> SUFFICES ASSUME NEW e \in Devices PROVE hlc'[e].wall <= latest'
      BY DEF NoRunaway
    <3>1. hlc[e].wall <= latest /\ hlc[e].wall \in Int
      BY <1>1, WallType DEF HlcInv, NoRunaway
    <3> QED
      BY <1>1, <1>3, <2>2, <2>5, <3>1
  <2> QED
    BY <1>3, <2>3, <2>4 DEF StampsReal
<1>8. \A e \in Devices : ~ Before(hlc'[e], hlc[e])
  BY <1>1, <1>2, <1>3, BeforeOrder
<1> QED
  BY <1>4, <1>5, <1>6, <1>7, <1>8 DEF HlcInv

LEMMA ObserveStep ==
  ASSUME HlcInv, NEW d \in Devices, NEW physical \in 0 .. MaxWall, Observe(d, physical)
  PROVE  HlcInv' /\ \A e \in Devices : ~ Before(hlc'[e], hlc[e])
<1> DEFINE all == {hlc[d]} \cup {log[i].at : i \in seen[d]}
                    \cup {[wall |-> physical, counter |-> 0]}
<1>1. /\ hlc \in [Devices -> Clock] /\ latest \in 0 .. MaxSafe
      /\ seen \in [Devices -> SUBSET (1 .. Len(log))]
      /\ Len(log) \in Nat
      /\ \A k \in 1 .. Len(log) : log[k].at \in Clock
      /\ MaxSafe \in Nat /\ physical \in 0 .. MaxSafe
  BY LogType, HlcAssumption DEF HlcInv, HlcTypeOK
<1>2. PICK c \in all : /\ \A b \in all : ~ Before(c, b)
                       /\ hlc' = [hlc EXCEPT ![d] = c]
  BY DEF Observe, Heads
<1>3. latest' = MaxOf(latest, physical) /\ log' = log /\ seen' = seen
  BY DEF Observe
<1>4. c \in Clock
  BY <1>1, <1>2 DEF Clock
<1>5. AtMost(hlc[d], c)
  <2>1. ~ Before(c, hlc[d])
    BY <1>2
  <2> QED
    BY <1>1, <1>4, <2>1, BeforeOrder
<1>6. c.wall <= latest' /\ latest <= latest' /\ latest' \in 0 .. MaxSafe
  <2>1. latest <= latest' /\ physical <= latest' /\ latest' \in 0 .. MaxSafe
    BY <1>1, <1>3 DEF MaxOf
  <2>2. CASE c = hlc[d]
    BY <1>1, <2>1, <2>2 DEF HlcInv, NoRunaway, Clock
  <2>3. CASE \E i \in seen[d] : c = log[i].at
    BY <1>1, <2>1, <2>3 DEF HlcInv, StampsReal, Clock
  <2>4. CASE c = [wall |-> physical, counter |-> 0]
    BY <2>1, <2>4
  <2> QED
    BY <1>2, <2>1, <2>2, <2>3, <2>4
<1> HIDE DEF all
<1>7. HlcTypeOK'
  BY <1>1, <1>2, <1>3, <1>4, <1>6 DEF HlcInv, HlcTypeOK
<1>8. KnowsPast'
  <2> SUFFICES ASSUME NEW e \in Devices, NEW k \in seen[e]
               PROVE  AtMost(log[k].at, hlc'[e])
    BY <1>3 DEF KnowsPast
  <2>1. AtMost(log[k].at, hlc[e]) /\ log[k].at \in Clock
    BY <1>1 DEF HlcInv, KnowsPast
  <2>2. CASE e # d
    BY <1>1, <1>2, <2>1, <2>2
  <2>3. CASE e = d
    BY <1>1, <1>2, <1>4, <1>5, <2>1, <2>3, BeforeOrder
  <2> QED
    BY <2>2, <2>3
<1>9. CausalStamps'
  BY <1>3 DEF HlcInv, CausalStamps
<1>10. NoRunaway' /\ StampsReal'
  <2>1. NoRunaway'
    BY <1>1, <1>2, <1>6 DEF HlcInv, NoRunaway, Clock
  <2>2. StampsReal'
    BY <1>1, <1>3, <1>6 DEF HlcInv, StampsReal, Clock
  <2> QED
    BY <2>1, <2>2
<1>11. \A e \in Devices : ~ Before(hlc'[e], hlc[e])
  BY <1>1, <1>2, <1>4, <1>5, BeforeOrder DEF AtMost
<1> QED
  BY <1>7, <1>8, <1>9, <1>10, <1>11 DEF HlcInv

LEMMA NextStep ==
  ASSUME HlcInv, HlcNext
  PROVE  HlcInv' /\ \A e \in Devices : ~ Before(hlc'[e], hlc[e])
  BY CreateStep, ReceiveStep, ObserveStep DEF HlcNext

LEMMA HlcInductive == HlcSpec => []HlcInv
<1>1. HlcInv /\ UNCHANGED hlcVars => HlcInv'
  BY DEF hlcVars, HlcInv, HlcTypeOK, KnowsPast, CausalStamps, NoRunaway, StampsReal
<1>2. HlcInv /\ [HlcNext]_hlcVars => HlcInv'
  BY <1>1, NextStep
<1> QED
  BY <1>2, InitHlcInv, PTL DEF HlcSpec

\* Clocks, operations and knowledge keep their types.
THEOREM HlcTypeCorrect == HlcSpec => []HlcTypeOK
<1>1. HlcInv => HlcTypeOK
  BY DEF HlcInv
<1> QED
  BY <1>1, HlcInductive, PTL

\* Replay order extends the causal order (tick_json, for every input).
THEOREM CausalStampsHold == HlcSpec => []CausalStamps
<1>1. HlcInv => CausalStamps
  BY DEF HlcInv
<1> QED
  BY <1>1, HlcInductive, PTL

\* No clock outruns the latest physical reading of the account.
THEOREM NoRunawayHolds == HlcSpec => []NoRunaway
<1>1. HlcInv => NoRunaway
  BY DEF HlcInv
<1> QED
  BY <1>1, HlcInductive, PTL

\* A tick or a head never takes a clock back.
THEOREM ClockForwardHolds == HlcSpec => ClockForward
<1>1. HlcInv /\ [HlcNext]_hlcVars =>
        [\A d \in Devices : ~ Before(hlc'[d], hlc[d])]_hlcVars
  BY NextStep
<1> QED
  BY <1>1, HlcInductive, PTL DEF HlcSpec, ClockForward

-----------------------------------------------------------------------------
(* The trusted clock: the inductive invariant.                             *)

Within(a, b, distance) == a <= b + distance /\ a >= b - distance

\* A request left the device at some real time, and what the device's clocks
\* count of the trip depends on what happened to them.
Journey(sent) ==
  /\ sent <= now
  /\ ticks >= exchange.ticks
  /\ Trip <= now - sent
  /\ ~ past["exchange"].slept => Trip = now - sent
  /\ ~ past["exchange"].edited => WallTrip = now - sent
  /\ exchange.stamp # None => sent <= exchange.stamp /\ exchange.stamp <= now

ExchangeInv ==
  exchange # None =>
    /\ exchange \in [wall : Nat, ticks : Nat, stamp : Nat \cup {None}]
    /\ \E sent \in Nat : Journey(sent)
    /\ past["exchange"].slept => past["exchange"].stretched /\ profile # "android"

\* The offset of a sample corrects the wall clock.
Corrects(s) == Within(offset + s.offset, 0, s.uncertainty)

AppleInv ==
  profile = "apple" /\ clock.sample # None =>
    LET s == clock.sample
        happened == past["saved"]
        steady == s.anchor + ticks - s.uptime
    IN  /\ steady <= now + s.uncertainty
        /\ s.anchor <= now + s.uncertainty
        /\ ~ happened.rebooted => ticks >= s.uptime
        /\ ~ happened.slept /\ ~ happened.rebooted => steady >= now - s.uncertainty
        /\ ~ happened.edited /\ ~ happened.stretched =>
             offset + s.offset <= s.uncertainty

\* A point on the monotonic clock tells the time during its boot.
AndroidSaved ==
  LET s == clock.saved IN
  s # None =>
    /\ ~ past["saved"].edited => Corrects(s)
    /\ s.point # None =>
         /\ s.boot \in Nat /\ s.boot <= boot
         /\ s.boot = boot =>
              /\ ticks >= s.point.elapsed
              /\ Within(s.point.physical + s.offset + ticks - s.point.elapsed, now,
                        s.uncertainty)
         /\ started => s.boot = boot
         /\ s.point.physical + s.offset >= 0

AndroidFresh ==
  LET r == clock.request IN
  r # None =>
    /\ r.physical + r.offset = r.server
    /\ ticks >= r.elapsed
    /\ Within(r.server + ticks - r.elapsed, now, r.uncertainty)
    /\ ~ past["fresh"].edited => Corrects(r)

\* An anchor made of the wall clock is off by what the clock was off then.
AndroidAnchor ==
  LET a == clock.anchor
      s == clock.saved
      happened == past["saved"]
      steady == a.server + ticks - a.elapsed
      bound == Greater(s.uncertainty, happened.lead)
  IN
  a # None =>
    /\ started /\ s # None /\ ticks >= a.elapsed
    /\ \/ steady <= now + bound
       \/ s.point = None /\ happened.edited /\ steady <= now + bound + Skew
    /\ s.point # None \/ ~ happened.edited => steady >= now - s.uncertainty

AndroidInv ==
  profile = "android" => AndroidSaved /\ AndroidFresh /\ AndroidAnchor

DesktopInv ==
  profile = "desktop" /\ clock.sample # None =>
    LET s == clock.sample
        happened == past["saved"]
    IN  /\ Projected(s) <= now + s.uncertainty
        /\ ~ happened.slept /\ ~ happened.rebooted =>
             Projected(s) >= now - s.uncertainty
        /\ ~ happened.edited => Corrects(s)
        /\ ~ happened.slept /\ ~ happened.edited =>
             /\ s.trusted + Wall - s.wall >= now - s.uncertainty
             /\ clock.anchor = s => Projected(s) >= now - s.uncertainty - Drift

PwaSaved ==
  clock.sample # None /\ ~ past["saved"].edited => Corrects(clock.sample)

\* The runtime goes on from a time that was read on the wall clock.
PwaRuntime ==
  LET r == clock.runtime
      happened == past["runtime"]
      steady == r.wall + ticks - r.ticks
  IN
  r # None /\ r.identity # None /\ ~ happened.edited =>
    /\ steady <= now + Greater(r.identity[2], happened.lead)
    /\ ~ happened.slept => steady >= now - r.identity[2]

PwaInv == profile = "pwa" => PwaSaved /\ PwaRuntime

IInv ==
  /\ TypeOK /\ now >= Start
  /\ ExchangeInv /\ AppleInv /\ AndroidInv /\ DesktopInv /\ PwaInv

-----------------------------------------------------------------------------
(* The clocks of the device.                                               *)

\* Half of a trip is half of it, up to the odd millisecond.
LEMMA Halves ==
  ASSUME NEW n \in Nat
  PROVE  /\ n \div 2 \in Nat /\ (n + 1) \div 2 \in Nat
         /\ n \div 2 + (n + 1) \div 2 = n
         /\ n \div 2 <= (n + 1) \div 2
  OBVIOUS

\* Halving towards zero goes no further than the number.
LEMMA HalvesOfInt ==
  ASSUME NEW n \in Int
  PROVE  /\ Half(n) \in Int
         /\ n >= 0 => 0 <= Half(n) /\ Half(n) <= n
         /\ n < 0 => n <= Half(n) /\ Half(n) <= 0
  BY DEF Half

\* The gap of two numbers.
LEMMA Gaps ==
  ASSUME NEW a \in Int, NEW b \in Int
  PROVE  Gap(a, b) \in Nat /\ a - b <= Gap(a, b) /\ b - a <= Gap(a, b)
  BY DEF Gap, Greater

\* The wall clock always shows a time.
LEMMA WallIsTime ==
  ASSUME now \in Nat, now >= Start, offset \in Offsets
  PROVE  offset \in Int /\ Wall \in Nat /\ Wall >= 1
  BY ClockAssumption DEF Wall

\* A step that is the device's own: what the process had in memory may go.
DeviceStep == Tick \/ Sleep \/ EditWall \/ Restart \/ Reboot

\* What becomes of the clocks is what the past of a slot in use tells: later
\* is the real time that passed, counted what the monotonic clock counted of it.
Ages(slot, later, counted) ==
  LET p == past[slot]
      q == past'[slot]
  IN  /\ q.lead = p.lead
      /\ p.edited => q.edited
      /\ p.slept => q.slept
      /\ p.stretched => q.stretched
      /\ p.rebooted => q.rebooted
      /\ ~ q.edited => offset' = offset
      /\ ~ q.rebooted => boot' = boot
      /\ boot' = boot /\ (~ q.slept \/ profile = "android") => counted = later
      /\ q.slept => p.slept \/ profile # "android"
      /\ slot = "exchange" /\ q.slept => p.slept \/ q.stretched

\* Whether the process lives on or has ended.
LivesOn == boot' = boot /\ UNCHANGED <<clock, started, exchange>>
Ends == clock' = Reopened(clock) /\ started' = (profile \notin Restores) /\ exchange' = None

DeviceMoves(later, counted) ==
  /\ profile' = profile
  /\ counted <= later /\ now' = now + later
  /\ offset' \in Offsets
  /\ \/ boot' = boot /\ ticks' = ticks + counted
     \/ boot' = boot + 1 /\ ticks' = 0 /\ Ends
  /\ upsets' \in 0 .. MaxUpsets
  /\ past' \in [Slots -> Flags]
  /\ \A slot \in InUse : Ages(slot, later, counted)
  /\ LivesOn \/ Ends

\* Every upset is noted in the past of the slots that are in use.
LEMMA UpsetIsNoted ==
  ASSUME TypeOK, NEW field \in {"edited", "slept", "rebooted"}, Upset(field)
  PROVE  /\ upsets' \in 0 .. MaxUpsets
         /\ past' \in [Slots -> Flags]
         /\ \A slot \in InUse :
              /\ past'[slot].lead = past[slot].lead
              /\ past'[slot].edited = (past[slot].edited \/ field = "edited")
              /\ past'[slot].slept = (past[slot].slept \/ field = "slept")
              /\ past'[slot].rebooted = (past[slot].rebooted \/ field = "rebooted")
              /\ past[slot].stretched => past'[slot].stretched
              /\ slot = "exchange" /\ field = "slept" => past'[slot].stretched
<1>1. upsets' \in 0 .. MaxUpsets
  <2>1. upsets \in 0 .. MaxUpsets /\ upsets < MaxUpsets /\ upsets' = upsets + 1
    BY DEF TypeOK, Upset
  <2> QED
    BY <2>1, ClockAssumption
<1>2. ASSUME NEW slot \in Slots
      PROVE  past[slot] \in Flags
  BY DEF TypeOK
<1>3. ASSUME NEW slot \in InUse
      PROVE  /\ slot \in Slots
             /\ past'[slot] = [past[slot] EXCEPT ![field] = TRUE,
                  !.stretched = @ \/ (field = "slept" /\ slot = "exchange")]
  BY DEF Upset, InUse
<1>4. past' \in [Slots -> Flags]
  <2>1. ASSUME NEW slot \in Slots
        PROVE  [past[slot] EXCEPT ![field] = TRUE,
                  !.stretched = @ \/ (field = "slept" /\ slot = "exchange")] \in Flags
    BY <1>2 DEF Flags
  <2> QED
    BY <1>2, <2>1 DEF Upset
<1>5. ASSUME NEW slot \in InUse
      PROVE  /\ past'[slot].lead = past[slot].lead
             /\ past'[slot].edited = (past[slot].edited \/ field = "edited")
             /\ past'[slot].slept = (past[slot].slept \/ field = "slept")
             /\ past'[slot].rebooted = (past[slot].rebooted \/ field = "rebooted")
             /\ past[slot].stretched => past'[slot].stretched
             /\ slot = "exchange" /\ field = "slept" => past'[slot].stretched
  <2>1. slot \in Slots /\ past[slot] \in Flags
    BY <1>2, <1>3
  <2>2. CASE field = "edited"
    BY <1>3, <2>1, <2>2 DEF Flags
  <2>3. CASE field = "slept"
    BY <1>3, <2>1, <2>3 DEF Flags
  <2>4. CASE field = "rebooted"
    BY <1>3, <2>1, <2>4 DEF Flags
  <2> QED
    BY <2>2, <2>3, <2>4
<1> QED
  BY <1>1, <1>4, <1>5

\* Every step of the device is such a move.
LEMMA DeviceStepMoves ==
  ASSUME TypeOK, now >= Start, DeviceStep
  PROVE  \E later \in Nat, counted \in Nat : DeviceMoves(later, counted)
<1>1. /\ now \in Nat /\ ticks \in Nat /\ boot \in Nat /\ offset \in Offsets
      /\ upsets \in 0 .. MaxUpsets /\ past \in [Slots -> Flags]
  BY DEF TypeOK
<1>2. \A slot \in InUse : slot \in Slots /\ past[slot] \in Flags
  BY <1>1 DEF InUse
<1> USE DEF DeviceMoves, Ages, LivesOn, Ends, Flags
<1>3. CASE Tick
  <2>1. DeviceMoves(1, 1)
    BY <1>1, <1>2, <1>3 DEF Tick
  <2> QED
    BY <2>1
<1>4. CASE Sleep
  <2>1. DeviceMoves(1, 0)
    BY <1>1, <1>2, <1>4, UpsetIsNoted DEF Sleep
  <2> QED
    BY <2>1
<1>5. CASE EditWall
  <2>1. DeviceMoves(0, 0)
    BY <1>1, <1>2, <1>5, UpsetIsNoted DEF EditWall
  <2> QED
    BY <2>1
<1>6. CASE Restart
  <2>1. upsets' \in 0 .. MaxUpsets
    BY <1>1, <1>6, ClockAssumption DEF Restart
  <2>2. DeviceMoves(0, 0)
    BY <1>1, <1>2, <1>6, <2>1 DEF Restart, EndProcess
  <2> QED
    BY <2>2
<1>7. CASE Reboot
  <2>1. DeviceMoves(1, 0)
    BY <1>1, <1>2, <1>7, UpsetIsNoted DEF Reboot, EndProcess
  <2> QED
    BY <2>1
<1> QED
  BY <1>3, <1>4, <1>5, <1>6, <1>7 DEF DeviceStep

-----------------------------------------------------------------------------
(* The request under way.                                                  *)

QuietStep ==
  Restore \/ Send \/ Serve \/ Lose \/ Receive \/ ReceiveLater \/ Install \/ Read

\* A step is the device's, or the client's and the device stands still.
LEMMA Kinds ==
  ASSUME Next
  PROVE  DeviceStep \/ QuietStep
  BY DEF Next, DeviceStep, QuietStep

LEMMA QuietKeepsDevice ==
  ASSUME QuietStep
  PROVE  UNCHANGED <<profile, now, offset, ticks, boot, upsets>>
  BY DEF QuietStep, Restore, Send, Serve, Lose, Receive, ReceiveLater, Install, Read,
         device

\* The clock states of the four clients.
LEMMA ClockIs ==
  ASSUME TypeOK
  PROVE  /\ profile \in {"apple", "android", "desktop", "pwa"}
         /\ profile = "apple" => clock \in AppleClocks
         /\ profile = "android" => clock \in AndroidClocks
         /\ profile = "desktop" => clock \in DesktopClocks
         /\ profile = "pwa" => clock \in PwaClocks
<1>1. profile \in {"apple", "android", "desktop", "pwa"}
  BY ClockAssumption DEF TypeOK
<1>2. ClockOK
  BY DEF TypeOK
<1>3. profile = "apple" => clock \in AppleClocks
  BY <1>2, Zenon DEF ClockOK
<1>4. profile = "android" => clock \in AndroidClocks
  BY <1>2 DEF ClockOK
<1>5. profile = "desktop" => clock \in DesktopClocks
  BY <1>2 DEF ClockOK
<1>6. profile = "pwa" => clock \in PwaClocks
  BY <1>2 DEF ClockOK
<1> QED
  BY <1>1, <1>3, <1>4, <1>5, <1>6

\* The lower bounds of the four clients are times.
LEMMA FloorIs ==
  ASSUME TypeOK
  PROVE  /\ Floor(clock) \in Nat
         /\ profile = "apple" => Floor(clock) = clock.last + 1
         /\ profile = "android" => Floor(clock) = clock.retained
         /\ profile = "pwa" => Floor(clock) = clock.minimum
<1>1. profile = "apple" => Floor(clock) = clock.last + 1
  BY DEF Floor
<1>2. profile = "android" => Floor(clock) = clock.retained
  BY DEF Floor
<1>3. profile = "desktop" => Floor(clock) = 0
  BY DEF Floor
<1>4. profile = "pwa" => Floor(clock) = clock.minimum
  BY DEF Floor
<1> QED
  BY <1>1, <1>2, <1>3, <1>4, ClockIs DEF AppleClocks, AndroidClocks, PwaClocks

\* A read says of the past only what the lower bound was ahead.
Lead == Greater(past[InForce].lead, Floor(clock) - now)

LEMMA LeftIs ==
  ASSUME TypeOK, NEW reading
  PROVE  /\ Lead \in Nat /\ Lead >= Floor(clock) - now
         /\ Left(reading) \in [Slots -> Flags]
         /\ \A slot \in {"exchange", "fresh"} : Left(reading)[slot] = past[slot]
         /\ \/ Left(reading)["saved"] = past["saved"]
            \/ Left(reading)["saved"] = [past["saved"] EXCEPT !.lead = Lead]
         /\ reading.basis # "wall" \/ reading.next = clock => Left(reading) = past
         /\ reading.basis = "wall" /\ reading.next # clock =>
              /\ profile # "pwa" => Left(reading)["saved"] = [past["saved"] EXCEPT !.lead = Lead]
              /\ profile = "pwa" => /\ Left(reading)["runtime"] = [past["saved"] EXCEPT !.lead = Lead]
                                    /\ Left(reading)["saved"] = past["saved"]
<1>1. past \in [Slots -> Flags] /\ now \in Nat /\ InForce \in Slots
  BY DEF TypeOK, InForce, Slots
<1>2. past[InForce].lead \in Nat
  BY <1>1 DEF Flags
<1>3. Lead \in Nat /\ Lead >= Floor(clock) - now
  BY <1>1, <1>2, FloorIs DEF Lead, Greater
<1>4. past["saved"] \in Flags
  BY <1>1 DEF Slots
<1>5. [past["saved"] EXCEPT !.lead = Lead] \in Flags
  BY <1>3, <1>4 DEF Flags
<1>6. Left(reading) =
        IF reading.basis # "wall" \/ reading.next = clock THEN past
        ELSE IF profile = "pwa"
        THEN [past EXCEPT !["runtime"] = [past["saved"] EXCEPT !.lead = Lead]]
        ELSE [past EXCEPT !["saved"].lead = Lead]
  BY DEF Left, Lead
<1> HIDE DEF Lead
<1>7. CASE reading.basis # "wall" \/ reading.next = clock
  BY <1>1, <1>3, <1>6, <1>7
<1>8. CASE reading.basis = "wall" /\ reading.next # clock /\ profile = "pwa"
  BY <1>1, <1>3, <1>5, <1>6, <1>8 DEF Slots
<1>9. CASE reading.basis = "wall" /\ reading.next # clock /\ profile # "pwa"
  <2>1. Left(reading) = [past EXCEPT !["saved"] = [past["saved"] EXCEPT !.lead = Lead]]
    BY <1>6, <1>9
  <2> QED
    BY <1>1, <1>3, <1>5, <1>9, <2>1 DEF Slots
<1> QED
  BY <1>7, <1>8, <1>9

\* The request keeps telling of its journey.
LEMMA ExchangeKept ==
  ASSUME TypeOK, now >= Start, ExchangeInv, Next
  PROVE  ExchangeInv'
<1>1. /\ now \in Nat /\ ticks \in Nat /\ boot \in Nat /\ offset \in Int /\ Wall \in Nat
      /\ past \in [Slots -> Flags] /\ past["exchange"] \in Flags
  BY WallIsTime DEF TypeOK, Slots
<1>2. CASE DeviceStep
  <2>1. PICK later \in Nat, counted \in Nat : DeviceMoves(later, counted)
    BY <1>2, DeviceStepMoves
  <2>2. SUFFICES ASSUME exchange' # None
                 PROVE  ExchangeInv'
    BY DEF ExchangeInv
  <2>3. /\ boot' = boot /\ exchange' = exchange /\ exchange # None
        /\ counted <= later /\ now' = now + later /\ ticks' = ticks + counted
        /\ profile' = profile
        /\ past' \in [Slots -> Flags] /\ offset' \in Offsets
    BY <1>1, <2>1, <2>2 DEF DeviceMoves, LivesOn, Ends
  <2>4. Ages("exchange", later, counted)
    BY <2>1, <2>3 DEF DeviceMoves, InUse, Slots
  <2>5. PICK sent \in Nat : Journey(sent)
    BY <2>3 DEF ExchangeInv
  <2>6. exchange \in [wall : Nat, ticks : Nat, stamp : Nat \cup {None}]
    BY <2>3 DEF ExchangeInv
  <2>7. past'["exchange"] \in Flags
    BY <2>3 DEF Slots
  <2>8. Journey(sent)'
    <3>1. /\ sent <= now'
          /\ exchange'.stamp # None => sent <= exchange'.stamp /\ exchange'.stamp <= now'
      BY <1>1, <2>3, <2>5, <2>6 DEF Journey
    <3>2. ticks' >= exchange'.ticks /\ Trip' <= now' - sent
      BY <1>1, <2>3, <2>5, <2>6 DEF Journey, Trip
    <3>3. ~ past'["exchange"].slept => Trip' = now' - sent
      BY <1>1, <2>3, <2>4, <2>5, <2>6, <2>7 DEF Journey, Trip, Ages, Flags
    <3>4. ~ past'["exchange"].edited => WallTrip' = now' - sent
      <4>1. SUFFICES ASSUME ~ past'["exchange"].edited
                     PROVE  WallTrip' = now' - sent
        OBVIOUS
      <4>2. offset' = offset /\ WallTrip = now - sent
        BY <1>1, <2>4, <2>5, <2>7, <4>1 DEF Journey, Ages, Flags
      <4>3. (now + offset) - exchange.wall = now - sent
        BY <4>2 DEF WallTrip, Wall
      <4>4. WallTrip' = ((now + later) + offset) - exchange.wall
        BY <2>3, <4>2 DEF WallTrip, Wall
      <4> QED
        BY <1>1, <2>3, <2>6, <4>3, <4>4
    <3> QED
      BY <2>3, <3>1, <3>2, <3>3, <3>4 DEF Journey
  <2>9. past'["exchange"].slept => past'["exchange"].stretched /\ profile' # "android"
    BY <1>1, <2>3, <2>4, <2>7 DEF Ages, ExchangeInv, Flags
  <2> QED
    BY <2>3, <2>6, <2>8, <2>9 DEF ExchangeInv
<1>3. CASE Send
  <2>1. /\ exchange' = [wall |-> Wall, ticks |-> ticks, stamp |-> None]
        /\ past'["exchange"] = Calm
        /\ UNCHANGED <<profile, now, offset, ticks>>
    BY <1>1, <1>3 DEF Send, device, Slots
  <2>2. Journey(now)'
    BY <1>1, <2>1 DEF Journey, Trip, WallTrip, Wall, Calm
  <2> QED
    BY <1>1, <2>1, <2>2 DEF ExchangeInv, Calm
<1>4. CASE Serve
  <2>1. /\ exchange # None /\ exchange' = [exchange EXCEPT !.stamp = now]
        /\ UNCHANGED <<profile, now, offset, ticks, past>>
    BY <1>4 DEF Serve, device
  <2>2. /\ exchange \in [wall : Nat, ticks : Nat, stamp : Nat \cup {None}]
        /\ \E sent \in Nat : Journey(sent)
    BY <2>1 DEF ExchangeInv
  <2>3. PICK sent \in Nat : Journey(sent)
    BY <2>2
  <2>4. Journey(sent)'
    BY <1>1, <2>1, <2>2, <2>3 DEF Journey, Trip, WallTrip, Wall
  <2>5. exchange' \in [wall : Nat, ticks : Nat, stamp : Nat \cup {None}]
    BY <1>1, <2>1, <2>2
  <2> QED
    BY <2>1, <2>4, <2>5 DEF ExchangeInv
<1>5. CASE Lose \/ Receive \/ ReceiveLater
  BY <1>5 DEF Lose, Receive, ReceiveLater, ExchangeInv
<1>6. CASE Restore \/ Install \/ Read
  <2>1. UNCHANGED <<profile, now, offset, ticks, exchange>>
    BY <1>6 DEF Restore, Install, Read, device
  <2>2. past'["exchange"] = past["exchange"]
    <3>1. CASE Restore
      BY <3>1 DEF Restore
    <3>2. CASE Install
      BY <1>1, <3>2 DEF Install, Slots
    <3>3. CASE Read
      BY <3>3, LeftIs DEF Read
    <3> QED
      BY <1>6, <3>1, <3>2, <3>3
  <2> QED
    BY <2>1, <2>2 DEF ExchangeInv, Journey, Trip, WallTrip, Wall
<1> QED
  BY <1>2, <1>3, <1>4, <1>5, <1>6, Kinds DEF QuietStep

\* What a response tells of the trip, whose halves are half and rest.
RoundTrip(sent, half, rest) ==
  /\ half = Trip \div 2 /\ rest = (Trip + 1) \div 2 /\ half <= rest
  /\ ticks = exchange.ticks + (half + rest)
  /\ Trip = half + rest
  /\ sent <= exchange.stamp /\ exchange.stamp <= now
  /\ sent + (half + rest) <= now
  /\ ~ past["exchange"].slept => sent + (half + rest) = now
  /\ ~ past["exchange"].edited => /\ WallTrip = now - sent
                                 /\ exchange.wall = offset + sent

\* What the trip that a response ends says of real time.
LEMMA ResponseTells ==
  ASSUME TypeOK, now >= Start, ExchangeInv, exchange # None, exchange.stamp # None
  PROVE  /\ exchange.wall \in Nat /\ exchange.ticks \in Nat /\ exchange.stamp \in Nat
         /\ \E sent \in Nat, half \in Nat, rest \in Nat : RoundTrip(sent, half, rest)
<1>1. /\ now \in Nat /\ ticks \in Nat /\ offset \in Int
      /\ exchange.wall \in Nat /\ exchange.ticks \in Nat /\ exchange.stamp \in Nat
  BY WallIsTime DEF TypeOK, ExchangeInv
<1>2. PICK sent \in Nat : Journey(sent)
  BY DEF ExchangeInv
<1>3. Trip \in Nat /\ Trip = ticks - exchange.ticks
  BY <1>1, <1>2 DEF Journey, Trip
<1>4. PICK half \in Nat, rest \in Nat :
        /\ half = Trip \div 2 /\ rest = (Trip + 1) \div 2
        /\ half + rest = Trip /\ half <= rest
  BY <1>3, Halves
<1>5. ticks = exchange.ticks + (half + rest)
  BY <1>1, <1>3, <1>4
<1>6. /\ sent <= exchange.stamp /\ exchange.stamp <= now
      /\ Trip <= now - sent
      /\ ~ past["exchange"].slept => Trip = now - sent
      /\ ~ past["exchange"].edited => WallTrip = now - sent
  BY <1>2 DEF Journey
<1>7. WallTrip = now - sent => exchange.wall = offset + sent
  <2>1. WallTrip = (now + offset) - exchange.wall
    BY DEF WallTrip, Wall
  <2>2. ASSUME (now + offset) - exchange.wall = now - sent
        PROVE  exchange.wall = offset + sent
    <3>1. PICK w \in Nat : w = exchange.wall
      BY <1>1
    <3>2. (now + offset) - w = now - sent
      BY <2>2, <3>1
    <3>3. w = offset + sent
      BY <1>1, <3>2
    <3> QED
      BY <3>1, <3>3
  <2> QED
    BY <2>1, <2>2
<1>8. /\ sent + (half + rest) <= now
      /\ Trip = now - sent => sent + (half + rest) = now
  <2>1. /\ half + rest <= now - sent
        /\ Trip = now - sent => half + rest = now - sent
    BY <1>4, <1>6
  <2> QED
    BY <1>1, <2>1
<1>9. RoundTrip(sent, half, rest)
  BY <1>4, <1>5, <1>6, <1>7, <1>8 DEF RoundTrip
<1> QED
  BY <1>1, <1>9

-----------------------------------------------------------------------------
(* Apple.                                                                  *)

\* What a time rests on, and what it does to the clock.
LEMMA AppleReads ==
  ASSUME TypeOK, now >= Start, profile = "apple", AppleInv,
         NEW advance \in BOOLEAN, NEW reading \in AppleReadings(advance)
  PROVE  /\ reading.value \in Nat
         /\ \/ reading.next = clock
            \/ \E r \in Recorded(reading.value) :
                 reading.next = [clock EXCEPT !.last = Greater(@, r)]
         /\ LET s == clock.sample
                candidate == IF s = None THEN Wall
                             ELSE IF ticks >= s.uptime THEN s.anchor + ticks - s.uptime
                             ELSE Wall + s.offset
            IN  /\ candidate \in Int
                /\ \/ reading.value = candidate /\ (clock.last > 0 => candidate > clock.last)
                   \/ /\ reading.value = clock.last + 1
                      /\ clock.last > 0 /\ clock.last >= candidate
                /\ reading.basis = IF s = None THEN "local"
                                   ELSE IF ticks >= s.uptime THEN "steady" ELSE "wall"
                /\ reading.basis = "wall" => candidate <= Greater(s.anchor, clock.last) + Skew
<1> DEFINE s == clock.sample
<1> DEFINE candidate == IF s = None THEN Wall
                        ELSE IF ticks >= s.uptime THEN s.anchor + ticks - s.uptime
                        ELSE Wall + s.offset
<1> DEFINE basis == IF s = None THEN "local"
                    ELSE IF ticks >= s.uptime THEN "steady" ELSE "wall"
<1>1. /\ Wall \in Nat /\ now \in Nat /\ ticks \in Nat /\ clock.last \in Nat
      /\ s # None => /\ s.offset \in Int /\ s.anchor \in Nat /\ s.uptime \in Nat
  BY ClockIs, WallIsTime DEF TypeOK, AppleClocks
<1>2. /\ reading \in Emitted(candidate, basis, advance)
      /\ basis = "wall" => /\ candidate >= 1
                           /\ candidate <= Greater(s.anchor, clock.last) + Skew
  BY DEF AppleReadings
<1>3. candidate \in Nat
  BY <1>1, <1>2
<1> HIDE DEF candidate, basis
<1>4. /\ reading.basis = basis
      /\ reading.value = IF clock.last > 0 /\ candidate <= clock.last
                         THEN clock.last + 1 ELSE candidate
      /\ \/ reading.next = clock
         \/ \E r \in Recorded(reading.value) :
              reading.next = [clock EXCEPT !.last = Greater(@, r)]
  BY <1>2 DEF Emitted, Reading
<1>5. /\ reading.value \in Nat
      /\ \/ reading.value = candidate /\ (clock.last > 0 => candidate > clock.last)
         \/ /\ reading.value = clock.last + 1
            /\ clock.last > 0 /\ clock.last >= candidate
  BY <1>1, <1>3, <1>4
<1> QED
  BY <1>2, <1>3, <1>4, <1>5 DEF candidate, basis

\* A read leaves the sample as it is.
LEMMA AppleReadKeeps ==
  ASSUME TypeOK, now >= Start, profile = "apple", AppleInv, Read
  PROVE  /\ clock' \in AppleClocks /\ clock'.sample = clock.sample
         /\ clock'.last >= clock.last
<1>1. PICK reading \in Readings, retain \in BOOLEAN :
         clock' = IF retain THEN Retained(reading.next, reading.value) ELSE reading.next
  BY DEF Read
<1>2. Readings \subseteq UNION {AppleReadings(a) : a \in BOOLEAN}
  BY DEF Readings
<1>3. PICK a \in BOOLEAN : reading \in AppleReadings(a)
  BY <1>1, <1>2
<1>4. clock' = reading.next
  BY <1>1 DEF Retained
<1>5. /\ reading.value \in Nat
      /\ \/ reading.next = clock
         \/ \E r \in Recorded(reading.value) :
              reading.next = [clock EXCEPT !.last = Greater(@, r)]
  BY <1>3, AppleReads
<1>6. clock \in AppleClocks
  BY ClockIs
<1>7. \A r \in Recorded(reading.value) : r \in Nat
  BY <1>5 DEF Recorded
<1>8. CASE reading.next = clock
  BY <1>4, <1>6, <1>8 DEF AppleClocks
<1>9. CASE reading.next # clock
  <2>1. PICK r \in Nat : reading.next = [clock EXCEPT !.last = Greater(@, r)]
    BY <1>5, <1>7, <1>9
  <2> QED
    BY <1>4, <1>6, <2>1 DEF AppleClocks, Greater
<1> QED
  BY <1>8, <1>9

\* Every step keeps Apple's part of the invariant.
LEMMA AppleKept ==
  ASSUME TypeOK, now >= Start, profile = "apple", ExchangeInv, AppleInv, Next
  PROVE  clock' \in AppleClocks /\ AppleInv'
<1>1. /\ clock \in AppleClocks /\ now \in Nat /\ ticks \in Nat /\ boot \in Nat
      /\ offset \in Int /\ Wall \in Nat /\ past \in [Slots -> Flags]
      /\ past["saved"] \in Flags /\ past["exchange"] \in Flags
  BY ClockIs, WallIsTime DEF TypeOK, Slots
<1>2. CASE DeviceStep
  <2>1. PICK later \in Nat, counted \in Nat : DeviceMoves(later, counted)
    BY <1>2, DeviceStepMoves
  <2>2. clock' = clock /\ profile' = profile
    <3>1. Reopened(clock) = clock
      BY DEF Reopened
    <3> QED
      BY <2>1, <3>1 DEF DeviceMoves, LivesOn, Ends
  <2>3. SUFFICES ASSUME clock.sample # None
                 PROVE  AppleInv'
    BY <1>1, <2>2 DEF AppleInv
  <2>4. Ages("saved", later, counted)
    BY <2>1, <2>3 DEF DeviceMoves, InUse, Slots, HasSample
  <2>5. /\ counted <= later /\ now' = now + later
        /\ \/ boot' = boot /\ ticks' = ticks + counted
           \/ boot' = boot + 1 /\ ticks' = 0
        /\ past' \in [Slots -> Flags]
    BY <2>1 DEF DeviceMoves
  <2>6. past'["saved"] \in Flags
    BY <2>5 DEF Slots
  <2>7. /\ clock.sample.offset \in Int /\ clock.sample.uncertainty \in Nat
        /\ clock.sample.anchor \in Nat /\ clock.sample.uptime \in Nat
    BY <1>1, <2>3, ClockAssumption DEF AppleClocks, Certain
  <2> QED
    BY <1>1, <2>2, <2>3, <2>4, <2>5, <2>6, <2>7 DEF AppleInv, Ages, Flags
<1>3. CASE QuietStep
  <2>0. UNCHANGED <<profile, now, offset, ticks, boot>>
    BY <1>3, QuietKeepsDevice
  \* The sample stays and so does what happened to it.
  <2>1. ASSUME clock'.sample = clock.sample,
               \/ past'["saved"] = past["saved"]
               \/ past'["saved"] = [past["saved"] EXCEPT !.lead = Lead]
        PROVE  AppleInv'
    <3>1. /\ past'["saved"].edited = past["saved"].edited
          /\ past'["saved"].slept = past["saved"].slept
          /\ past'["saved"].stretched = past["saved"].stretched
          /\ past'["saved"].rebooted = past["saved"].rebooted
      BY <1>1, <2>1 DEF Flags
    <3> QED
      BY <2>0, <2>1, <3>1 DEF AppleInv
  <2>2. ~ Restore /\ ~ ReceiveLater /\ ~ Install
    BY DEF Restore, RestoreAndroid, RestoreDesktop, ReceiveLater, Install, HasFresh
  <2>3. CASE Send \/ Serve \/ Lose
    <3>1. clock' = clock /\ past'["saved"] = past["saved"]
      BY <1>1, <2>3 DEF Send, Serve, Lose, Slots
    <3> QED
      BY <1>1, <2>1, <3>1
  <2>4. CASE Receive
    <3>1. CASE clock' = clock /\ past' = [past EXCEPT !["exchange"] = Calm]
      BY <1>1, <2>1, <3>1 DEF Slots
    <3>2. CASE /\ clock' = Installed(Sampled)
               /\ past' = [past EXCEPT !["saved"] = past["exchange"], !["exchange"] = Calm]
               /\ \E lead \in Leads : Acceptable(lead)
      <4>1. Sampled = AppleSample
        BY DEF Sampled
      <4>2. Installed(Sampled) = [clock EXCEPT !.sample = AppleSample]
        BY <4>1 DEF Installed
      <4>3. AppleSample.uncertainty <= Uncertainty
        BY <3>2, <4>1 DEF Acceptable
      <4>4. /\ exchange.wall \in Nat /\ exchange.ticks \in Nat /\ exchange.stamp \in Nat
            /\ past["exchange"].slept => past["exchange"].stretched
        BY <2>4, ResponseTells DEF Receive, ExchangeInv
      <4>5. PICK sent \in Nat, half \in Nat, rest \in Nat : RoundTrip(sent, half, rest)
        BY <2>4, ResponseTells DEF Receive
      <4>6. past'["saved"] = past["exchange"]
        BY <1>1, <3>2 DEF Slots
      <4>8. AppleSample = [offset |-> exchange.stamp - (exchange.wall + half),
                           uncertainty |-> rest,
                           anchor |-> exchange.stamp + half, uptime |-> ticks]
        BY <4>5 DEF AppleSample, RoundTrip
      <4>9. rest \in Certain
        BY <4>3, <4>8, ClockAssumption DEF Certain
      <4>10. clock' \in AppleClocks
        BY <1>1, <3>2, <4>2, <4>4, <4>8, <4>9 DEF AppleClocks
      <4>11. clock'.sample = AppleSample
        BY <1>1, <3>2, <4>2 DEF AppleClocks
      <4>12. /\ exchange.stamp + half <= now + rest
             /\ ~ past["exchange"].slept => exchange.stamp + half >= now - rest
             /\ ~ past["exchange"].edited /\ ~ past["exchange"].stretched =>
                  offset + (exchange.stamp - (exchange.wall + half)) <= rest
        <5>1. exchange.stamp + half <= now + rest
          BY <1>1, <4>4, <4>5 DEF RoundTrip
        <5>2. ~ past["exchange"].slept => exchange.stamp + half >= now - rest
          BY <1>1, <4>4, <4>5 DEF RoundTrip
        <5>3. ASSUME ~ past["exchange"].edited, ~ past["exchange"].slept
              PROVE  offset + (exchange.stamp - (exchange.wall + half)) <= rest
          <6>1. exchange.wall = offset + sent /\ sent + (half + rest) = now
            BY <4>5, <5>3 DEF RoundTrip
          <6>2. exchange.stamp <= now
            BY <4>5 DEF RoundTrip
          <6> QED
            BY <1>1, <4>4, <6>1, <6>2
        <5> QED
          BY <1>1, <4>4, <5>1, <5>2, <5>3 DEF Flags
      <4>13. AppleInv'
        BY <1>1, <2>0, <4>4, <4>6, <4>8, <4>11, <4>12 DEF AppleInv
      <4> QED
        BY <4>10, <4>13
    <3> QED
      BY <2>4, <3>1, <3>2 DEF Receive
  <2>5. CASE Read
    <3>1. /\ clock' \in AppleClocks /\ clock'.sample = clock.sample
      BY <2>5, AppleReadKeeps
    <3>2. \/ past'["saved"] = past["saved"]
          \/ past'["saved"] = [past["saved"] EXCEPT !.lead = Lead]
      BY <2>5, LeftIs DEF Read
    <3> QED
      BY <2>1, <3>1, <3>2
  <2> QED
    BY <1>3, <2>2, <2>3, <2>4, <2>5 DEF QuietStep
<1> QED
  BY <1>2, <1>3, Kinds

-----------------------------------------------------------------------------
(* The desktop.                                                            *)

\* What the desktop's readings rest on.
LEMMA DesktopReads ==
  ASSUME NEW mode \in Modes, NEW reading \in DesktopReadings(mode)
  PROVE  \/ reading.basis = "local" /\ reading.next = clock
         \/ /\ reading.basis = "wall" /\ reading.next = clock
            /\ clock.sample # None /\ reading.value = Wall + clock.sample.offset
         \/ /\ reading.basis = "steady" /\ reading.next = [clock EXCEPT !.anchor = clock.sample]
            /\ clock.sample # None /\ reading.value = Projected(clock.sample)
            /\ clock.anchor = clock.sample \/ Agree(clock.sample)
  BY DEF DesktopReadings, Reading

\* Of two clocks in agreement neither is far behind if the other is not.
LEMMA AgreementTells ==
  ASSUME now \in Nat, ticks \in Nat, offset \in Int,
         NEW s \in [offset : Int, uncertainty : Certain, wall : Nat, ticks : Nat, trusted : Nat],
         Agree(s), s.trusted + Wall - s.wall >= now - s.uncertainty
  PROVE  Projected(s) >= now - s.uncertainty - Drift
<1>1. /\ Drift \in Nat /\ s.uncertainty \in Nat /\ s.wall \in Nat /\ s.ticks \in Nat
      /\ s.trusted \in Nat /\ Wall \in Int
  BY ClockAssumption DEF Certain, Wall
<1>2. Wall - (s.wall + ticks - s.ticks) <= Drift
  BY <1>1 DEF Agree, Gap, Greater
<1> QED
  BY <1>1, <1>2 DEF Projected

\* Every step keeps the desktop's part of the invariant.
LEMMA DesktopKept ==
  ASSUME TypeOK, now >= Start, profile = "desktop", ExchangeInv, DesktopInv, Next
  PROVE  clock' \in DesktopClocks /\ DesktopInv'
<1>1. /\ clock \in DesktopClocks /\ now \in Nat /\ ticks \in Nat /\ boot \in Nat
      /\ offset \in Int /\ Wall \in Nat /\ past \in [Slots -> Flags]
      /\ past["saved"] \in Flags /\ past["exchange"] \in Flags
      /\ Drift \in Nat
  BY ClockIs, WallIsTime, ClockAssumption DEF TypeOK, Slots
<1>2. ASSUME clock.sample # None
      PROVE  /\ clock.sample \in [offset : Int, uncertainty : Certain, wall : Nat,
                                  ticks : Nat, trusted : Nat]
             /\ clock.sample.offset \in Int /\ clock.sample.uncertainty \in Nat
             /\ clock.sample.wall \in Nat /\ clock.sample.ticks \in Nat
             /\ clock.sample.trusted \in Nat
  BY <1>1, <1>2, ClockAssumption DEF DesktopClocks, DesktopSamples, Certain
<1>3. CASE DeviceStep
  <2>1. PICK later \in Nat, counted \in Nat : DeviceMoves(later, counted)
    BY <1>3, DeviceStepMoves
  <2>2. /\ clock' = clock \/ clock' = [clock EXCEPT !.anchor = None]
        /\ (boot' = boot /\ clock' = clock) \/ clock' = [clock EXCEPT !.anchor = None]
        /\ profile' = profile
    <3>1. Reopened(clock) = [clock EXCEPT !.anchor = None]
      BY DEF Reopened
    <3> QED
      BY <2>1, <3>1 DEF DeviceMoves, LivesOn, Ends
  <2>3. clock' \in DesktopClocks /\ clock'.sample = clock.sample
    BY <1>1, <2>2 DEF DesktopClocks, DesktopSamples
  <2>4. SUFFICES ASSUME clock.sample # None
                 PROVE  DesktopInv'
    BY <1>1, <2>2, <2>3 DEF DesktopInv
  <2>5. Ages("saved", later, counted)
    BY <2>1, <2>4 DEF DeviceMoves, InUse, Slots, HasSample
  <2>6. /\ counted <= later /\ now' = now + later
        /\ \/ boot' = boot /\ ticks' = ticks + counted
           \/ boot' = boot + 1 /\ ticks' = 0
        /\ past' \in [Slots -> Flags]
    BY <2>1 DEF DeviceMoves
  <2>7. past'["saved"] \in Flags
    BY <2>6 DEF Slots
  <2> DEFINE s == clock.sample
  <2>8. (s.trusted + ticks' - s.ticks) <= now' + s.uncertainty
    BY <1>1, <1>2, <2>4, <2>6 DEF DesktopInv, Projected
  <2>9. ASSUME ~ past'["saved"].slept, ~ past'["saved"].rebooted
        PROVE  s.trusted + ticks' - s.ticks >= now' - s.uncertainty
    BY <1>1, <1>2, <2>4, <2>5, <2>6, <2>7, <2>9 DEF DesktopInv, Projected, Ages, Flags
  <2>10. ASSUME ~ past'["saved"].edited
         PROVE  Corrects(s)'
    <3>1. offset' = offset /\ Corrects(s)
      BY <1>1, <2>4, <2>5, <2>7, <2>10 DEF DesktopInv, Ages, Flags
    <3> QED
      BY <2>3, <3>1 DEF Corrects
  <2>11. ASSUME ~ past'["saved"].slept, ~ past'["saved"].edited
         PROVE  /\ s.trusted + Wall' - s.wall >= now' - s.uncertainty
                /\ clock'.anchor = s => s.trusted + ticks' - s.ticks >= now' - s.uncertainty - Drift
    <3>1. /\ offset' = offset
          /\ s.trusted + Wall - s.wall >= now - s.uncertainty
          /\ clock.anchor = s => Projected(s) >= now - s.uncertainty - Drift
          /\ boot' = boot => counted = later
      BY <1>1, <2>4, <2>5, <2>7, <2>11 DEF DesktopInv, Ages, Flags
    <3>2. Wall' = (now + later) + offset /\ Wall = now + offset
      BY <2>6, <3>1 DEF Wall
    <3>3. s.trusted + Wall' - s.wall >= now' - s.uncertainty
      BY <1>1, <1>2, <2>4, <2>6, <3>1, <3>2
    <3>4. clock'.anchor = s => boot' = boot /\ clock' = clock
      BY <1>1, <2>2, <2>4 DEF DesktopClocks
    <3>5. clock'.anchor = s => s.trusted + ticks' - s.ticks >= now' - s.uncertainty - Drift
      BY <1>1, <1>2, <2>4, <2>6, <3>1, <3>4 DEF Projected
    <3> QED
      BY <3>3, <3>5
  <2>12. DesktopInv'
    BY <2>3, <2>8, <2>9, <2>10, <2>11 DEF DesktopInv, Projected
  <2> QED
    BY <2>3, <2>12
<1>4. CASE QuietStep
  <2>0. UNCHANGED <<profile, now, offset, ticks, boot>>
    BY <1>4, QuietKeepsDevice
  \* The sample stays and so does what happened to it; the anchor may be set
  \* to it if the clocks agree.
  <2>1. ASSUME clock' \in DesktopClocks, clock'.sample = clock.sample,
               clock'.anchor = clock.anchor \/ Agree(clock.sample),
               \/ past'["saved"] = past["saved"]
               \/ past'["saved"] = [past["saved"] EXCEPT !.lead = Lead]
        PROVE  DesktopInv'
    <3>1. /\ past'["saved"].edited = past["saved"].edited
          /\ past'["saved"].slept = past["saved"].slept
          /\ past'["saved"].rebooted = past["saved"].rebooted
      BY <1>1, <2>1 DEF Flags
    <3>2. SUFFICES ASSUME clock.sample # None
                   PROVE  DesktopInv'
      BY <2>0, <2>1 DEF DesktopInv
    <3> DEFINE s == clock.sample
    <3>3. /\ Projected(s)' = Projected(s) /\ Corrects(s)' = Corrects(s)
          /\ Wall' = Wall /\ s' = s
      BY <2>0, <2>1 DEF Projected, Corrects, Wall
    <3>4. /\ Projected(s) <= now + s.uncertainty
          /\ ~ past["saved"].slept /\ ~ past["saved"].rebooted =>
               Projected(s) >= now - s.uncertainty
          /\ ~ past["saved"].edited => Corrects(s)
      BY <3>2 DEF DesktopInv
    <3>5. ASSUME ~ past["saved"].slept, ~ past["saved"].edited
          PROVE  /\ s.trusted + Wall - s.wall >= now - s.uncertainty
                 /\ clock'.anchor = s => Projected(s) >= now - s.uncertainty - Drift
      BY <1>1, <1>2, <2>1, <3>2, <3>5, AgreementTells DEF DesktopInv
    <3> HIDE DEF s
    <3> QED
      BY <2>0, <2>1, <3>1, <3>3, <3>4, <3>5 DEF DesktopInv, s
  <2>2. ~ ReceiveLater /\ ~ Install
    BY DEF ReceiveLater, Install, HasFresh
  <2>3. CASE Restore
    <3>1. /\ clock' = IF clock.sample = None THEN clock
                      ELSE IF Agree(clock.sample) THEN [clock EXCEPT !.anchor = clock.sample]
                      ELSE [clock EXCEPT !.sample = None]
          /\ past' = past
      BY <2>3 DEF Restore, RestoreAndroid, RestoreDesktop
    <3>2. clock' \in DesktopClocks
      BY <1>1, <3>1 DEF DesktopClocks, DesktopSamples
    <3>3. CASE clock.sample # None /\ ~ Agree(clock.sample)
      <4>1. clock'.sample = None
        BY <1>1, <3>1, <3>3 DEF DesktopClocks
      <4> QED
        BY <3>2, <4>1 DEF DesktopInv
    <3>4. CASE clock.sample = None \/ Agree(clock.sample)
      <4>1. /\ clock'.sample = clock.sample
            /\ clock'.anchor = clock.anchor \/ Agree(clock.sample)
        BY <1>1, <3>1, <3>4 DEF DesktopClocks
      <4> QED
        BY <2>1, <3>1, <3>2, <4>1
    <3> QED
      BY <3>3, <3>4
  <2>4. CASE Send \/ Serve \/ Lose
    <3>1. clock' = clock /\ past'["saved"] = past["saved"]
      BY <1>1, <2>4 DEF Send, Serve, Lose, Slots
    <3> QED
      BY <1>1, <2>1, <3>1
  <2>5. CASE Receive
    <3>1. CASE clock' = clock /\ past' = [past EXCEPT !["exchange"] = Calm]
      BY <1>1, <2>1, <3>1 DEF Slots
    <3>2. CASE /\ clock' = Installed(Sampled)
               /\ past' = [past EXCEPT !["saved"] = past["exchange"], !["exchange"] = Calm]
               /\ \E lead \in Leads : Acceptable(lead)
      <4>1. Sampled = DesktopSample
        BY DEF Sampled
      <4>2. Installed(Sampled) = [clock EXCEPT !.sample = DesktopSample, !.anchor = DesktopSample]
        BY <4>1 DEF Installed
      <4>3. DesktopSample.uncertainty <= Uncertainty
        BY <3>2, <4>1 DEF Acceptable
      <4>4. exchange.wall \in Nat /\ exchange.ticks \in Nat /\ exchange.stamp \in Nat
        BY <2>5, ResponseTells DEF Receive
      <4>5. PICK sent \in Nat, half \in Nat, rest \in Nat : RoundTrip(sent, half, rest)
        BY <2>5, ResponseTells DEF Receive
      <4>6. past'["saved"] = past["exchange"]
        BY <1>1, <3>2 DEF Slots
      <4>7. PICK gap \in Nat : /\ gap = Gap(WallTrip, Trip)
                               /\ WallTrip - Trip <= gap
        <5>1. WallTrip \in Int /\ Trip \in Int
          BY <1>1, <4>4 DEF WallTrip, Trip
        <5> QED
          BY <5>1, Gaps
      <4>8. DesktopSample = [offset |-> exchange.stamp - (exchange.wall + half),
                             uncertainty |-> rest + gap,
                             wall |-> Wall, ticks |-> ticks,
                             trusted |-> exchange.stamp + rest]
        <5>1. exchange.stamp + Trip - half = exchange.stamp + rest
          BY <4>4, <4>5 DEF RoundTrip
        <5> QED
          BY <4>5, <4>7, <5>1 DEF DesktopSample, RoundTrip
      <4>9. rest + gap \in Certain
        BY <4>3, <4>8, ClockAssumption DEF Certain
      <4>10. clock' \in DesktopClocks
        <5>1. DesktopSample \in DesktopSamples
          BY <1>1, <4>4, <4>8, <4>9 DEF DesktopSamples
        <5> QED
          BY <1>1, <3>2, <4>2, <5>1 DEF DesktopClocks
      <4>11. clock'.sample = DesktopSample
        BY <1>1, <3>2, <4>2 DEF DesktopClocks
      <4>12. exchange.stamp + rest <= now + (rest + gap)
        BY <1>1, <4>4, <4>5 DEF RoundTrip
      <4>13. ~ past["exchange"].slept => exchange.stamp + rest >= now - (rest + gap)
        BY <1>1, <4>4, <4>5 DEF RoundTrip
      <4>14. ASSUME ~ past["exchange"].edited
             PROVE  Within(offset + (exchange.stamp - (exchange.wall + half)), 0, rest + gap)
        <5>1. exchange.wall = offset + sent
          BY <4>5, <4>14 DEF RoundTrip
        <5>2. now - sent <= (half + rest) + gap
          <6>1. WallTrip = now - sent /\ Trip = half + rest
            BY <4>5, <4>14 DEF RoundTrip
          <6>2. (now - sent) - (half + rest) <= gap
            BY <4>7, <6>1
          <6> QED
            BY <1>1, <6>2
        <5>3. sent <= exchange.stamp /\ exchange.stamp <= now /\ half <= rest
          BY <4>5 DEF RoundTrip
        <5> QED
          BY <1>1, <4>4, <5>1, <5>2, <5>3 DEF Within
      <4>15. DesktopInv'
        BY <1>1, <2>0, <4>4, <4>6, <4>8, <4>11, <4>12, <4>13, <4>14
        DEF DesktopInv, Projected, Corrects, Wall
      <4> QED
        BY <4>10, <4>15
    <3> QED
      BY <2>5, <3>1, <3>2 DEF Receive
  <2>6. CASE Read
    <3>1. PICK reading \in Readings, retain \in BOOLEAN :
            /\ clock' = IF retain THEN Retained(reading.next, reading.value) ELSE reading.next
            /\ past' = Left(reading)
      BY <2>6 DEF Read
    <3>2. Readings \subseteq UNION {DesktopReadings(m) : m \in Modes}
      BY DEF Readings
    <3>3. PICK mode \in Modes : reading \in DesktopReadings(mode)
      BY <3>1, <3>2
    <3>4. clock' = reading.next
      BY <3>1 DEF Retained
    <3>5. /\ clock' \in DesktopClocks /\ clock'.sample = clock.sample
          /\ clock'.anchor = clock.anchor \/ Agree(clock.sample)
      BY <1>1, <3>3, <3>4, DesktopReads DEF DesktopClocks
    <3>6. \/ past'["saved"] = past["saved"]
          \/ past'["saved"] = [past["saved"] EXCEPT !.lead = Lead]
      BY <3>1, LeftIs
    <3> QED
      BY <2>1, <3>5, <3>6
  <2> QED
    BY <1>4, <2>2, <2>3, <2>4, <2>5, <2>6 DEF QuietStep
<1> QED
  BY <1>3, <1>4, Kinds

-----------------------------------------------------------------------------
(* The PWA.                                                                *)

PwaWall == Greater(Wall + IF clock.sample = None THEN 0 ELSE clock.sample.offset,
                   clock.minimum)

\* What the PWA's readings rest on.
LEMMA PwaReads ==
  ASSUME TypeOK, now >= Start, profile = "pwa",
         NEW measured \in BOOLEAN, NEW reading \in PwaReadings(measured)
  PROVE  LET s == clock.sample
             r == clock.runtime
         IN  /\ \/ /\ reading.value = PwaWall /\ reading.next = clock
                   /\ reading.basis = IF s = None THEN "local" ELSE "wall"
                \/ /\ reading.value = Greater(r.wall + ticks - r.ticks, clock.minimum)
                   /\ reading.basis = IF s = None THEN "local" ELSE "steady"
                   /\ reading.next = clock
                   /\ r # None /\ r.identity = Identity(s) /\ ticks >= r.ticks
                \/ /\ reading.value = PwaWall
                   /\ reading.basis = IF s = None THEN "local" ELSE "wall"
                   /\ reading.next = [clock EXCEPT !.runtime =
                        [identity |-> Identity(s), ticks |-> ticks, wall |-> PwaWall]]
                   /\ ~ (r # None /\ r.identity = Identity(s) /\ ticks >= r.ticks)
             /\ reading.value \in Nat /\ PwaWall \in Nat
             /\ PwaWall >= clock.minimum /\ reading.value >= clock.minimum
<1> DEFINE s == clock.sample
<1> DEFINE r == clock.runtime
<1>1. /\ Wall \in Nat /\ ticks \in Nat /\ clock.minimum \in Nat
      /\ s # None => s.offset \in Int
      /\ r # None => r.wall \in Nat /\ r.ticks \in Nat
  BY ClockIs, WallIsTime DEF TypeOK, PwaClocks
<1>2. PwaWall \in Nat /\ PwaWall >= clock.minimum
  BY <1>1 DEF PwaWall, Greater
<1>3. \/ /\ reading.value = PwaWall /\ reading.next = clock
         /\ reading.basis = IF s = None THEN "local" ELSE "wall"
      \/ /\ reading.value = Greater(r.wall + ticks - r.ticks, clock.minimum)
         /\ reading.basis = IF s = None THEN "local" ELSE "steady"
         /\ reading.next = clock
         /\ r # None /\ r.identity = Identity(s) /\ ticks >= r.ticks
      \/ /\ reading.value = PwaWall
         /\ reading.basis = IF s = None THEN "local" ELSE "wall"
         /\ reading.next = [clock EXCEPT !.runtime =
              [identity |-> Identity(s), ticks |-> ticks, wall |-> PwaWall]]
         /\ ~ (r # None /\ r.identity = Identity(s) /\ ticks >= r.ticks)
  BY DEF PwaReadings, Reading, PwaWall
<1>4. reading.value \in Nat /\ reading.value >= clock.minimum
  BY <1>1, <1>2, <1>3 DEF Greater
<1> QED
  BY <1>2, <1>3, <1>4

\* A time on the wall clock that the sample corrects.
LEMMA PwaWallIsNear ==
  ASSUME TypeOK, now >= Start, profile = "pwa", PwaSaved,
         clock.sample # None, ~ past["saved"].edited
  PROVE  /\ PwaWall <= now + Greater(clock.sample.uncertainty, Floor(clock) - now)
         /\ PwaWall >= now - clock.sample.uncertainty
<1>1. /\ now \in Nat /\ offset \in Int /\ clock.minimum \in Nat
      /\ clock.sample.offset \in Int /\ clock.sample.uncertainty \in Nat
      /\ Floor(clock) = clock.minimum
  BY ClockIs, WallIsTime, FloorIs, ClockAssumption DEF TypeOK, PwaClocks, Certain
<1>2. /\ offset + clock.sample.offset <= clock.sample.uncertainty
      /\ offset + clock.sample.offset >= - clock.sample.uncertainty
  BY <1>1 DEF PwaSaved, Corrects, Within
<1> QED
  BY <1>1, <1>2 DEF PwaWall, Wall, Greater

\* What names a sample is no name of the absence of one.
LEMMA IdentityIs ==
  ASSUME NEW s \in [offset : Int, uncertainty : Certain, sampledAt : Nat], s # None
  PROVE  /\ Identity(s) \in Int \X Certain \X Nat
         /\ Identity(s) # None
         /\ Identity(s)[2] = s.uncertainty
<1>1. Identity(s) = <<s.offset, s.uncertainty, s.sampledAt>>
  BY DEF Identity
<1>2. s.uncertainty \in Int
  BY ClockAssumption DEF Certain
<1>3. Identity(s) \in Int \X Int \X Int
  BY <1>1, <1>2
<1> QED
  BY <1>1, <1>3, ClockAssumption

\* Every step keeps the PWA's part of the invariant.
LEMMA PwaKept ==
  ASSUME TypeOK, now >= Start, profile = "pwa", ExchangeInv, PwaInv, Next
  PROVE  clock' \in PwaClocks /\ PwaInv'
<1>1. /\ clock \in PwaClocks /\ now \in Nat /\ ticks \in Nat /\ boot \in Nat
      /\ offset \in Int /\ Wall \in Nat /\ past \in [Slots -> Flags]
      /\ past["saved"] \in Flags /\ past["exchange"] \in Flags /\ past["runtime"] \in Flags
  BY ClockIs, WallIsTime DEF TypeOK, Slots
<1>2. ASSUME clock.runtime # None
      PROVE  /\ clock.runtime.wall \in Nat /\ clock.runtime.ticks \in Nat
             /\ clock.runtime.identity # None => clock.runtime.identity[2] \in Nat
  BY <1>1, <1>2, ClockAssumption DEF PwaClocks, Certain
<1>3. CASE DeviceStep
  <2>1. PICK later \in Nat, counted \in Nat : DeviceMoves(later, counted)
    BY <1>3, DeviceStepMoves
  <2>2. /\ (boot' = boot /\ clock' = clock) \/ clock' = [clock EXCEPT !.runtime = None]
        /\ profile' = profile
    <3>1. Reopened(clock) = [clock EXCEPT !.runtime = None]
      BY DEF Reopened
    <3> QED
      BY <2>1, <3>1 DEF DeviceMoves, LivesOn, Ends
  <2>3. clock' \in PwaClocks /\ clock'.sample = clock.sample
    BY <1>1, <2>2 DEF PwaClocks
  <2>4. /\ counted <= later /\ now' = now + later
        /\ \/ boot' = boot /\ ticks' = ticks + counted
           \/ boot' = boot + 1 /\ ticks' = 0
        /\ past' \in [Slots -> Flags]
    BY <2>1 DEF DeviceMoves
  <2>5. past'["saved"] \in Flags /\ past'["runtime"] \in Flags
    BY <2>4 DEF Slots
  <2>6. PwaSaved'
    <3>1. SUFFICES ASSUME clock.sample # None, ~ past'["saved"].edited
                   PROVE  Corrects(clock.sample)'
      BY <2>3 DEF PwaSaved
    <3>2. Ages("saved", later, counted)
      BY <2>1, <3>1 DEF DeviceMoves, InUse, Slots, HasSample
    <3>3. offset' = offset /\ Corrects(clock.sample)
      BY <1>1, <1>3, <2>5, <3>1, <3>2 DEF PwaInv, PwaSaved, Ages, Flags
    <3> QED
      BY <2>3, <3>3 DEF Corrects
  <2>7. PwaRuntime'
    <3> DEFINE r == clock.runtime
    <3>1. SUFFICES ASSUME clock'.runtime # None, clock'.runtime.identity # None,
                          ~ past'["runtime"].edited
                   PROVE  /\ clock'.runtime.wall + ticks' - clock'.runtime.ticks
                               <= now' + Greater(clock'.runtime.identity[2],
                                                 past'["runtime"].lead)
                          /\ ~ past'["runtime"].slept =>
                               clock'.runtime.wall + ticks' - clock'.runtime.ticks
                                 >= now' - clock'.runtime.identity[2]
      BY DEF PwaRuntime
    <3>2. boot' = boot /\ clock' = clock /\ ticks' = ticks + counted
      BY <1>1, <2>2, <2>4, <3>1 DEF PwaClocks
    <3>3. Ages("runtime", later, counted)
      BY <2>1, <3>1, <3>2 DEF DeviceMoves, InUse, Slots
    <3>4. /\ past'["runtime"].lead = past["runtime"].lead
          /\ past["runtime"].lead \in Nat
          /\ ~ past["runtime"].edited
          /\ ~ past'["runtime"].slept => ~ past["runtime"].slept /\ counted = later
      BY <1>1, <2>5, <3>1, <3>2, <3>3 DEF Ages, Flags
    <3>5. /\ r.wall + ticks - r.ticks <= now + Greater(r.identity[2], past["runtime"].lead)
          /\ ~ past["runtime"].slept => r.wall + ticks - r.ticks >= now - r.identity[2]
      BY <3>1, <3>2, <3>4 DEF PwaInv, PwaRuntime
    <3>6. /\ r.wall \in Nat /\ r.ticks \in Nat /\ r.identity[2] \in Nat
      BY <1>2, <3>1, <3>2
    <3>7. Greater(r.identity[2], past["runtime"].lead) \in Nat
      BY <3>4, <3>6 DEF Greater
    <3>8. r.wall + ticks' - r.ticks <= now' + Greater(r.identity[2], past["runtime"].lead)
      BY <1>1, <2>4, <3>2, <3>5, <3>6, <3>7
    <3>9. ~ past'["runtime"].slept => r.wall + ticks' - r.ticks >= now' - r.identity[2]
      BY <1>1, <2>4, <3>2, <3>4, <3>5, <3>6
    <3> QED
      BY <3>2, <3>4, <3>8, <3>9
  <2> QED
    BY <2>3, <2>6, <2>7 DEF PwaInv
<1>4. CASE QuietStep
  <2>0. UNCHANGED <<profile, now, offset, ticks, boot>>
    BY <1>4, QuietKeepsDevice
  \* Neither the sample nor the runtime is replaced.
  <2>1. ASSUME clock'.sample = clock.sample, past'["saved"] = past["saved"]
        PROVE  PwaSaved'
    BY <2>0, <2>1 DEF PwaInv, PwaSaved, Corrects
  <2>2. ASSUME clock'.runtime = clock.runtime, past'["runtime"] = past["runtime"]
        PROVE  PwaRuntime'
    BY <2>0, <2>2 DEF PwaInv, PwaRuntime
  <2>3. ~ Restore /\ ~ ReceiveLater /\ ~ Install
    BY DEF Restore, RestoreAndroid, RestoreDesktop, ReceiveLater, Install, HasFresh
  <2>4. CASE Send \/ Serve \/ Lose
    <3>1. /\ clock' = clock /\ past'["saved"] = past["saved"]
          /\ past'["runtime"] = past["runtime"]
      BY <1>1, <2>4 DEF Send, Serve, Lose, Slots
    <3> QED
      BY <1>1, <2>1, <2>2, <3>1 DEF PwaInv
  <2>5. CASE Receive
    <3>1. CASE clock' = clock /\ past' = [past EXCEPT !["exchange"] = Calm]
      BY <1>1, <2>1, <2>2, <3>1 DEF Slots, PwaInv
    <3>2. CASE /\ clock' = Installed(Sampled)
               /\ past' = [past EXCEPT !["saved"] = past["exchange"], !["exchange"] = Calm]
               /\ \E lead \in Leads : Acceptable(lead)
      <4>1. Sampled = PwaSample
        BY DEF Sampled
      <4>2. Installed(Sampled) = [clock EXCEPT !.sample = PwaSample]
        BY <4>1 DEF Installed
      <4>3. PwaSample.uncertainty <= Uncertainty /\ WallTrip >= 0
        BY <3>2, <4>1 DEF Acceptable
      <4>4. exchange.wall \in Nat /\ exchange.stamp \in Nat
        BY <2>5, ResponseTells DEF Receive
      <4>5. PICK sent \in Nat, before \in Nat, after \in Nat : RoundTrip(sent, before, after)
        BY <2>5, ResponseTells DEF Receive
      <4>6. past'["saved"] = past["exchange"] /\ past'["runtime"] = past["runtime"]
        BY <1>1, <3>2 DEF Slots
      <4>7. PICK half \in Nat, rest \in Nat :
              /\ half = WallTrip \div 2 /\ rest = (WallTrip + 1) \div 2
              /\ half + rest = WallTrip /\ half <= rest
        <5>1. WallTrip \in Nat
          BY <1>1, <4>3, <4>4 DEF WallTrip
        <5> QED
          BY <5>1, Halves
      <4>8. PwaSample = [offset |-> exchange.stamp - (exchange.wall + half),
                         uncertainty |-> rest, sampledAt |-> exchange.wall + half]
        BY <4>7 DEF PwaSample
      <4>9. rest \in Certain
        BY <4>3, <4>8, ClockAssumption DEF Certain
      <4>10. clock' \in PwaClocks
        <5>1. PwaSample \in [offset : Int, uncertainty : Certain, sampledAt : Nat]
          BY <4>4, <4>8, <4>9
        <5> QED
          BY <1>1, <3>2, <4>2, <5>1 DEF PwaClocks
      <4>11. clock'.sample = PwaSample /\ clock'.runtime = clock.runtime
        BY <1>1, <3>2, <4>2 DEF PwaClocks
      <4>12. ASSUME ~ past["exchange"].edited
             PROVE  Within(offset + (exchange.stamp - (exchange.wall + half)), 0, rest)
        <5>1. /\ exchange.wall = offset + sent /\ WallTrip = now - sent
              /\ sent <= exchange.stamp /\ exchange.stamp <= now
          BY <4>5, <4>12 DEF RoundTrip
        <5>2. half + rest = now - sent
          BY <4>7, <5>1
        <5> QED
          BY <1>1, <4>4, <4>7, <5>1, <5>2 DEF Within
      <4>13. PwaSaved'
        BY <2>0, <4>6, <4>8, <4>11, <4>12 DEF PwaSaved, Corrects
      <4> QED
        BY <2>2, <4>6, <4>10, <4>11, <4>13 DEF PwaInv
    <3> QED
      BY <2>5, <3>1, <3>2 DEF Receive
  <2>6. CASE Read
    <3>1. PICK reading \in Readings, retain \in BOOLEAN :
            /\ clock' = IF retain THEN Retained(reading.next, reading.value) ELSE reading.next
            /\ past' = Left(reading)
      BY <2>6 DEF Read
    <3>2. Readings \subseteq UNION {PwaReadings(m) : m \in BOOLEAN}
      BY DEF Readings
    <3>3. PICK measured \in BOOLEAN : reading \in PwaReadings(measured)
      BY <3>1, <3>2
    <3>4. /\ Retained(reading.next, reading.value)
               = [reading.next EXCEPT !.minimum = Greater(@, reading.value)]
      BY DEF Retained
    <3> DEFINE seeded == [identity |-> Identity(clock.sample), ticks |-> ticks, wall |-> PwaWall]
    <3>5. /\ reading.value \in Nat /\ PwaWall \in Nat
          /\ \/ reading.next = clock
             \/ /\ reading.next = [clock EXCEPT !.runtime = seeded]
                /\ reading.basis = IF clock.sample = None THEN "local" ELSE "wall"
      BY <3>3, PwaReads
    <3>6. seeded \in [identity : {None} \cup (Int \X Certain \X Nat), ticks : Nat, wall : Nat]
      <4>1. CASE clock.sample = None
        BY <1>1, <3>5, <4>1 DEF Identity
      <4>2. CASE clock.sample # None
        BY <1>1, <3>5, <4>2, IdentityIs DEF PwaClocks
      <4> QED
        BY <4>1, <4>2
    <3> HIDE DEF seeded
    <3>7. /\ reading.next \in PwaClocks /\ reading.next.sample = clock.sample
      BY <1>1, <3>5, <3>6 DEF PwaClocks
    <3>8. /\ clock' \in PwaClocks /\ clock'.sample = clock.sample
          /\ clock'.runtime = reading.next.runtime
      BY <3>1, <3>4, <3>5, <3>7 DEF PwaClocks, Greater
    <3>9. past'["saved"] = past["saved"]
      BY <1>1, <3>1, LeftIs DEF Slots
    <3>10. PwaRuntime'
      <4>1. CASE reading.next = clock
        BY <2>2, <3>1, <3>8, <4>1, LeftIs
      <4>2. CASE reading.next # clock /\ clock.sample = None
        <5>1. clock'.runtime.identity = None
          BY <1>1, <3>5, <3>8, <4>2 DEF PwaClocks, seeded, Identity
        <5> QED
          BY <5>1 DEF PwaRuntime
      <4>3. CASE reading.next # clock /\ clock.sample # None
        <5>1. past'["runtime"] = [past["saved"] EXCEPT !.lead = Lead]
          BY <3>1, <3>5, <4>3, LeftIs
        <5>2. /\ past'["runtime"].edited = past["saved"].edited
              /\ past'["runtime"].lead = Lead
          BY <1>1, <5>1 DEF Flags
        <5>3. clock'.runtime = seeded
          BY <1>1, <3>5, <3>8, <4>3 DEF PwaClocks
        <5>4. /\ clock'.runtime.identity[2] = clock.sample.uncertainty
              /\ clock'.runtime.wall = PwaWall /\ clock'.runtime.ticks = ticks
          BY <1>1, <4>3, <5>3, IdentityIs DEF PwaClocks, seeded
        <5>5. SUFFICES ASSUME ~ past["saved"].edited
                       PROVE  PwaRuntime'
          BY <5>2 DEF PwaRuntime
        <5>6. /\ PwaWall <= now + Greater(clock.sample.uncertainty, Floor(clock) - now)
              /\ PwaWall >= now - clock.sample.uncertainty
          BY <4>3, <5>5, PwaWallIsNear DEF PwaInv
        <5>7. Lead \in Nat /\ Floor(clock) \in Nat /\ clock.sample.uncertainty \in Nat
          BY <1>1, <4>3, LeftIs, FloorIs, ClockAssumption DEF PwaClocks, Certain
        <5>8. Lead >= Floor(clock) - now
          BY LeftIs
        <5>9. PwaWall <= now + Greater(clock.sample.uncertainty, Lead)
          BY <1>1, <3>5, <5>6, <5>7, <5>8 DEF Greater
        <5>10. PwaWall + ticks - ticks = PwaWall
          BY <1>1, <3>5
        <5> QED
          BY <2>0, <5>2, <5>4, <5>6, <5>9, <5>10 DEF PwaRuntime
      <4> QED
        BY <4>1, <4>2, <4>3
    <3> QED
      BY <2>1, <3>8, <3>9, <3>10 DEF PwaInv
  <2> QED
    BY <1>4, <2>3, <2>4, <2>5, <2>6 DEF QuietStep
<1> QED
  BY <1>3, <1>4, Kinds

-----------------------------------------------------------------------------
(* Android.                                                                *)

\* The fields of Android's clock state.
LEMMA AndroidTypes ==
  ASSUME TypeOK, now >= Start, profile = "android"
  PROVE  /\ clock \in AndroidClocks /\ now \in Nat /\ ticks \in Nat /\ boot \in Nat
         /\ offset \in Int /\ Wall \in Nat /\ past \in [Slots -> Flags]
         /\ past["saved"] \in Flags /\ past["fresh"] \in Flags /\ past["exchange"] \in Flags
         /\ clock.retained \in Nat /\ Skew \in Nat
         /\ clock.saved # None =>
              /\ clock.saved \in [offset : Int, uncertainty : Certain,
                   point : {None} \cup [physical : Nat, elapsed : Nat], boot : Nat \cup {None}]
              /\ clock.saved.offset \in Int /\ clock.saved.uncertainty \in Nat
              /\ clock.saved.point # None =>
                   clock.saved.point.physical \in Nat /\ clock.saved.point.elapsed \in Nat
         /\ clock.anchor # None => clock.anchor.server \in Nat /\ clock.anchor.elapsed \in Nat
         /\ clock.request # None =>
              /\ clock.request.offset \in Int /\ clock.request.uncertainty \in Nat
              /\ clock.request.uncertainty \in Certain
              /\ clock.request.server \in Nat /\ clock.request.physical \in Nat
              /\ clock.request.elapsed \in Nat
<1>1. clock \in AndroidClocks
  BY ClockIs
<1>2. Certain \subseteq Nat
  BY ClockAssumption DEF Certain
<1>3. /\ now \in Nat /\ ticks \in Nat /\ boot \in Nat
      /\ offset \in Int /\ Wall \in Nat /\ past \in [Slots -> Flags]
      /\ past["saved"] \in Flags /\ past["fresh"] \in Flags /\ past["exchange"] \in Flags
      /\ Skew \in Nat
  BY WallIsTime, ClockAssumption DEF TypeOK, Slots
<1> QED
  BY <1>1, <1>2, <1>3 DEF AndroidClocks

\* The device moves on: the invariant only tells more of the past.
LEMMA AndroidMoves ==
  ASSUME TypeOK, now >= Start, profile = "android", AndroidInv, DeviceStep
  PROVE  clock' \in AndroidClocks /\ AndroidInv'
<1>1. PICK later \in Nat, counted \in Nat : DeviceMoves(later, counted)
  BY DeviceStepMoves
<1>2. /\ \/ boot' = boot /\ clock' = clock /\ started' = started
         \/ /\ clock' = [clock EXCEPT !.anchor = None, !.request = None]
            /\ started' = FALSE
      /\ profile' = profile
  <2>1. Reopened(clock) = [clock EXCEPT !.anchor = None, !.request = None]
    BY DEF Reopened
  <2> QED
    BY <1>1, <2>1 DEF DeviceMoves, LivesOn, Ends, Restores
<1>3. /\ clock' \in AndroidClocks /\ clock'.saved = clock.saved
      /\ clock'.anchor # None => boot' = boot /\ clock' = clock /\ started' = started
      /\ clock'.request # None => boot' = boot /\ clock' = clock /\ started' = started
  BY <1>2, AndroidTypes DEF AndroidClocks
<1>4. /\ counted <= later /\ now' = now + later
      /\ \/ boot' = boot /\ ticks' = ticks + counted
         \/ boot' = boot + 1 /\ ticks' = 0
      /\ past' \in [Slots -> Flags]
  BY <1>1 DEF DeviceMoves
<1>5. past'["saved"] \in Flags /\ past'["fresh"] \in Flags
  BY <1>4 DEF Slots
<1>6. clock.saved # None => Ages("saved", later, counted)
  BY <1>1 DEF DeviceMoves, InUse, Slots, HasSample
<1>7. AndroidSaved'
  <2> DEFINE s == clock.saved
  <2>1. SUFFICES ASSUME s # None
                 PROVE  AndroidSaved'
    BY <1>3 DEF AndroidSaved
  <2>2. ~ past'["saved"].edited => Corrects(s)'
    <3>1. SUFFICES ASSUME ~ past'["saved"].edited
                   PROVE  Corrects(s)'
      OBVIOUS
    <3>2. offset' = offset /\ Corrects(s)
      BY <1>5, <1>6, <2>1, <3>1, AndroidTypes DEF AndroidInv, AndroidSaved, Ages, Flags
    <3> QED
      BY <1>3, <3>2 DEF Corrects
  <2>3. ASSUME s.point # None
        PROVE  /\ s.boot \in Nat /\ s.boot <= boot'
               /\ s.boot = boot' =>
                    /\ ticks' >= s.point.elapsed
                    /\ Within(s.point.physical + s.offset + ticks' - s.point.elapsed, now',
                              s.uncertainty)
               /\ started' => s.boot = boot'
               /\ s.point.physical + s.offset >= 0
    <3>1. /\ s.boot \in Nat /\ s.boot <= boot
          /\ s.boot = boot =>
               /\ ticks >= s.point.elapsed
               /\ Within(s.point.physical + s.offset + ticks - s.point.elapsed, now,
                         s.uncertainty)
          /\ started => s.boot = boot
          /\ s.point.physical + s.offset >= 0
      BY <2>1, <2>3 DEF AndroidInv, AndroidSaved
    <3>2. /\ boot \in Nat /\ ticks \in Nat /\ now \in Nat /\ s.offset \in Int
          /\ s.uncertainty \in Nat /\ s.point.physical \in Nat /\ s.point.elapsed \in Nat
      BY <2>1, <2>3, AndroidTypes
    <3>3. CASE boot' = boot + 1
      <4>1. started' = FALSE
        BY <1>2, <3>2, <3>3
      <4> QED
        BY <3>1, <3>2, <3>3, <4>1
    <3>4. CASE boot' = boot
      <4>1. counted = later /\ ticks' = ticks + counted
        BY <1>4, <1>6, <2>1, <3>2, <3>4 DEF Ages
      <4>2. s.boot = boot' => ticks' >= s.point.elapsed
        BY <3>1, <3>2, <3>4, <4>1
      <4>3. s.boot = boot' =>
              Within(s.point.physical + s.offset + ticks' - s.point.elapsed, now',
                     s.uncertainty)
        BY <1>4, <3>1, <3>2, <3>4, <4>1 DEF Within
      <4>4. started' => s.boot = boot'
        BY <1>2, <3>1, <3>4
      <4> QED
        BY <3>1, <3>4, <4>2, <4>3, <4>4
    <3> QED
      BY <1>4, <3>3, <3>4
  <2> QED
    BY <1>3, <2>2, <2>3 DEF AndroidSaved
<1>8. AndroidFresh'
  <2> DEFINE r == clock.request
  <2>1. SUFFICES ASSUME clock'.request # None
                 PROVE  AndroidFresh'
    BY DEF AndroidFresh
  <2>2. /\ boot' = boot /\ clock' = clock /\ r # None
        /\ Ages("fresh", later, counted)
    BY <1>1, <1>3, <2>1 DEF DeviceMoves, InUse, Slots, HasFresh
  <2>3. /\ r.physical + r.offset = r.server /\ ticks >= r.elapsed
        /\ Within(r.server + ticks - r.elapsed, now, r.uncertainty)
        /\ ~ past["fresh"].edited => Corrects(r)
    BY <2>2 DEF AndroidInv, AndroidFresh
  <2>4. counted = later /\ ticks' = ticks + counted
    BY <1>4, <2>2, AndroidTypes DEF Ages
  <2>5. /\ ticks' >= r.elapsed
        /\ Within(r.server + ticks' - r.elapsed, now', r.uncertainty)
    BY <1>4, <2>2, <2>3, <2>4, AndroidTypes DEF Within
  <2>6. ~ past'["fresh"].edited => Corrects(r)'
    <3>1. SUFFICES ASSUME ~ past'["fresh"].edited
                   PROVE  Corrects(r)'
      OBVIOUS
    <3>2. offset' = offset /\ Corrects(r)
      BY <1>5, <2>2, <2>3, <3>1, AndroidTypes DEF Ages, Flags
    <3> QED
      BY <2>2, <3>2 DEF Corrects
  <2> QED
    BY <2>2, <2>3, <2>5, <2>6 DEF AndroidFresh
<1>9. AndroidAnchor'
  <2> DEFINE a == clock.anchor
  <2> DEFINE s == clock.saved
  <2> DEFINE bound == Greater(s.uncertainty, past["saved"].lead)
  <2> DEFINE steady == a.server + ticks - a.elapsed
  <2>1. SUFFICES ASSUME clock'.anchor # None
                 PROVE  AndroidAnchor'
    BY DEF AndroidAnchor
  <2>2. /\ boot' = boot /\ clock' = clock /\ a # None /\ started' = started
    BY <1>3, <2>1
  <2>3. /\ started /\ s # None /\ ticks >= a.elapsed
        /\ \/ steady <= now + bound
           \/ s.point = None /\ past["saved"].edited /\ steady <= now + bound + Skew
        /\ s.point # None \/ ~ past["saved"].edited => steady >= now - s.uncertainty
    BY <2>2 DEF AndroidInv, AndroidAnchor
  <2>4. /\ counted = later /\ ticks' = ticks + counted
        /\ past'["saved"].lead = past["saved"].lead
        /\ past["saved"].edited => past'["saved"].edited
    BY <1>4, <1>6, <2>2, <2>3, AndroidTypes DEF Ages
  <2>5. /\ now \in Nat /\ ticks \in Nat /\ a.server \in Nat /\ a.elapsed \in Nat
        /\ s.uncertainty \in Nat /\ bound \in Nat /\ Skew \in Nat
    BY <2>2, <2>3, AndroidTypes DEF Greater, Flags
  <2> HIDE DEF bound
  <2>6. a.server + ticks' - a.elapsed = steady + later /\ now' = now + later
    BY <1>4, <2>4, <2>5
  <2>7. ticks' >= a.elapsed
    BY <2>3, <2>4, <2>5
  <2> HIDE DEF steady
  <2>8. steady \in Int
    BY <2>5 DEF steady
  <2>9. /\ steady <= now + bound => steady + later <= now' + bound
        /\ steady <= now + bound + Skew => steady + later <= now' + bound + Skew
        /\ steady >= now - s.uncertainty => steady + later >= now' - s.uncertainty
    BY <2>5, <2>6, <2>8
  <2>10. Greater(s.uncertainty, past'["saved"].lead) = bound
    BY <2>4 DEF bound
  <2> QED
    BY <2>2, <2>3, <2>4, <2>6, <2>7, <2>9, <2>10 DEF AndroidAnchor
<1> QED
  BY <1>3, <1>7, <1>8, <1>9 DEF AndroidInv

\* A saved sample and its anchor stay, and so does what happened to them.
LEMMA AndroidSavedStays ==
  ASSUME AndroidSaved, UNCHANGED <<now, offset, ticks, boot, started>>,
         clock'.saved = clock.saved, past'["saved"] = past["saved"]
  PROVE  AndroidSaved'
  BY DEF AndroidSaved, Corrects

LEMMA AndroidAnchorStays ==
  ASSUME AndroidAnchor, UNCHANGED <<now, offset, ticks, boot, started>>,
         clock'.saved = clock.saved, clock'.anchor = clock.anchor,
         past'["saved"] = past["saved"]
  PROVE  AndroidAnchor'
  BY DEF AndroidAnchor

LEMMA AndroidFreshStays ==
  ASSUME AndroidFresh, UNCHANGED <<now, offset, ticks, boot, started>>,
         clock'.request = clock.request, past'["fresh"] = past["fresh"]
  PROVE  AndroidFresh'
  BY DEF AndroidFresh, Corrects

\* Restoring takes the point away from a sample of another boot.
LEMMA AndroidRestores ==
  ASSUME TypeOK, now >= Start, profile = "android", AndroidInv, Restore
  PROVE  clock' \in AndroidClocks /\ AndroidInv'
<1> DEFINE s == clock.saved
<1>1. /\ ~ started /\ started' = TRUE /\ past' = past
      /\ UNCHANGED <<profile, now, offset, ticks, boot>>
  BY DEF Restore, device
<1>2. PICK bootId \in {boot, None} :
        clock' = IF \/ s = None \/ s.point = None
                    \/ /\ s.boot # None /\ s.boot = bootId
                       /\ ticks >= s.point.elapsed
                 THEN clock
                 ELSE [clock EXCEPT !.saved.point = None, !.saved.boot = None]
  BY DEF Restore, RestoreAndroid, RestoreDesktop
<1>3. clock.anchor = None
  BY <1>1 DEF AndroidInv, AndroidAnchor
<1>4. CASE clock' = clock /\ (s = None \/ s.point = None \/ s.boot = boot)
  <2>1. AndroidSaved'
    BY <1>1, <1>4 DEF AndroidInv, AndroidSaved, Corrects
  <2>2. AndroidAnchor'
    BY <1>3, <1>4 DEF AndroidAnchor
  <2>3. AndroidFresh'
    BY <1>1, <1>4 DEF AndroidInv, AndroidFresh, Corrects
  <2> QED
    BY <1>4, <2>1, <2>2, <2>3, ClockIs DEF AndroidInv
<1>5. CASE s # None /\ clock' = [clock EXCEPT !.saved = [s EXCEPT !.point = None, !.boot = None]]
  <2>1. /\ clock' \in AndroidClocks
        /\ clock'.saved.point = None /\ clock'.saved.offset = s.offset
        /\ clock'.saved.uncertainty = s.uncertainty
        /\ clock'.anchor = None /\ clock'.request = clock.request
    BY <1>3, <1>5, AndroidTypes DEF AndroidClocks
  <2>2. AndroidSaved'
    BY <1>1, <1>5, <2>1 DEF AndroidInv, AndroidSaved, Corrects
  <2>3. AndroidAnchor'
    BY <2>1 DEF AndroidAnchor
  <2>4. AndroidFresh'
    BY <1>1, <2>1 DEF AndroidInv, AndroidFresh, Corrects
  <2> QED
    BY <2>1, <2>2, <2>3, <2>4 DEF AndroidInv
<1> QED
  BY <1>2, <1>4, <1>5

\* The sample of a response, and of a second one.
LEMMA AndroidReceives ==
  ASSUME TypeOK, now >= Start, profile = "android", ExchangeInv, AndroidInv,
         Receive \/ ReceiveLater
  PROVE  /\ clock' \in AndroidClocks /\ AndroidInv'
         /\ ReceiveLater => clock'.request # None
<1>1. UNCHANGED <<profile, now, offset, ticks, boot, started>>
  BY DEF Receive, ReceiveLater, device
<1>2. /\ exchange.wall \in Nat /\ exchange.ticks \in Nat /\ exchange.stamp \in Nat
      /\ ~ past["exchange"].slept
  BY ResponseTells, AndroidTypes DEF Receive, ReceiveLater, ExchangeInv, Flags
<1>3. PICK sent \in Nat, half \in Nat, rest \in Nat : RoundTrip(sent, half, rest)
  BY ResponseTells DEF Receive, ReceiveLater
<1>4. PICK gap \in Nat : gap = Gap(WallTrip, Trip)
  <2>1. WallTrip \in Int /\ Trip \in Int
    BY <1>2, AndroidTypes DEF WallTrip, Trip
  <2> QED
    BY <2>1, Gaps
<1>5. PICK midpoint \in Nat :
        /\ midpoint = exchange.wall + Half(WallTrip)
        /\ ~ past["exchange"].edited => midpoint = exchange.wall + half
  <2>1. PICK w \in Int : w = WallTrip /\ exchange.wall + w >= 0
    <3>1. /\ WallTrip = Wall - exchange.wall /\ Wall \in Nat /\ exchange.wall \in Nat
      BY <1>2, AndroidTypes DEF WallTrip
    <3> QED
      BY <3>1
  <2>2. /\ Half(w) \in Int
        /\ w >= 0 => 0 <= Half(w) /\ Half(w) <= w
        /\ w < 0 => w <= Half(w) /\ Half(w) <= 0
    BY HalvesOfInt
  <2>3. exchange.wall + Half(w) \in Nat
    BY <1>2, <2>1, <2>2
  <2>4. ASSUME ~ past["exchange"].edited
        PROVE  Half(w) = half
    <3>1. w = Trip /\ half = Trip \div 2 /\ Trip = half + rest
      <4>1. /\ WallTrip = now - sent /\ sent + (half + rest) = now /\ Trip = half + rest
            /\ half = Trip \div 2
        BY <1>2, <1>3, <2>4 DEF RoundTrip
      <4>2. now - sent = half + rest
        BY <4>1, AndroidTypes
      <4> QED
        BY <2>1, <4>1, <4>2
    <3> QED
      BY <2>1, <3>1 DEF Half
  <2> QED
    BY <2>1, <2>3, <2>4
<1>6. AndroidSample = [offset |-> exchange.stamp - midpoint, uncertainty |-> rest + gap,
                       server |-> exchange.stamp, physical |-> midpoint,
                       elapsed |-> exchange.ticks + half]
  BY <1>3, <1>4, <1>5 DEF AndroidSample, RoundTrip
<1>7. Sampled = AndroidSample
  BY DEF Sampled
<1>8. ASSUME NEW lead, Acceptable(lead)
      PROVE  rest + gap \in Certain
  BY <1>6, <1>7, <1>8, ClockAssumption DEF Acceptable, Certain
<1>9. CASE clock' = clock /\ past' = [past EXCEPT !["exchange"] = Calm]
  BY <1>1, <1>9, AndroidTypes, AndroidSavedStays, AndroidAnchorStays, AndroidFreshStays
  DEF AndroidInv, Slots, ReceiveLater, HasFresh
<1>10. CASE Receive /\ ~ (clock' = clock /\ past' = [past EXCEPT !["exchange"] = Calm])
  <2>1. /\ clock' = Installed(Sampled)
        /\ past' = [past EXCEPT !["fresh"] = past["exchange"], !["exchange"] = Calm]
        /\ rest + gap \in Certain
    BY <1>8, <1>10 DEF Receive
  <2>2. clock' = [clock EXCEPT !.request = AndroidSample]
    BY <1>7, <2>1 DEF Installed
  <2>3. /\ past'["saved"] = past["saved"]
        /\ past'["fresh"] = past["exchange"]
    BY <2>1, AndroidTypes DEF Slots
  <2>4. AndroidSample \in [offset : Int, uncertainty : Certain, server : Nat,
                           physical : Nat, elapsed : Nat]
    BY <1>2, <1>6, <2>1
  <2>5. /\ clock' \in AndroidClocks /\ clock'.saved = clock.saved
        /\ clock'.anchor = clock.anchor /\ clock'.request = AndroidSample
    BY <2>2, <2>4, AndroidTypes DEF AndroidClocks
  <2>6. /\ ticks = (exchange.ticks + half) + rest
        /\ sent + (half + rest) = now
        /\ sent <= exchange.stamp /\ exchange.stamp <= now /\ half <= rest
    <3>1. ticks = exchange.ticks + (half + rest)
      BY <1>3 DEF RoundTrip
    <3> QED
      BY <1>2, <1>3, <3>1 DEF RoundTrip
  <2>7. ticks >= exchange.ticks + half
    BY <1>2, <2>6
  <2>8. Within(exchange.stamp + ticks - (exchange.ticks + half), now, rest + gap)
    <3>1. exchange.stamp + ticks - (exchange.ticks + half) = exchange.stamp + rest
      BY <1>2, <2>6
    <3>2. exchange.stamp + rest <= now + (rest + gap)
      BY <1>2, <2>6, AndroidTypes
    <3>3. exchange.stamp + rest >= now - (rest + gap)
      BY <1>2, <2>6, AndroidTypes
    <3> QED
      BY <3>1, <3>2, <3>3 DEF Within
  <2>9. ASSUME ~ past["exchange"].edited
        PROVE  Within(offset + (exchange.stamp - midpoint), 0, rest + gap)
    <3>1. exchange.wall = offset + sent /\ midpoint = exchange.wall + half
      BY <1>3, <1>5, <2>9 DEF RoundTrip
    <3> QED
      BY <1>2, <2>6, <3>1, AndroidTypes DEF Within
  <2>10. midpoint + (exchange.stamp - midpoint) = exchange.stamp
    BY <1>2
  <2>11. AndroidFresh'
    BY <1>1, <1>6, <2>3, <2>5, <2>7, <2>8, <2>9, <2>10 DEF AndroidFresh, Corrects
  <2>12. AndroidSample \in [offset : Int, uncertainty : Int, server : Int,
                            physical : Int, elapsed : Int]
    BY <1>2, <1>6
  <2> QED
    BY <1>1, <2>3, <2>5, <2>11, <2>12, ClockAssumption, AndroidSavedStays, AndroidAnchorStays
    DEF AndroidInv
<1>11. CASE ReceiveLater
  <2> DEFINE r == clock.request
  <2>1. /\ r # None /\ clock' = [clock EXCEPT !.request = AndroidAdvance]
        /\ past' = [past EXCEPT !["exchange"] = Calm]
        /\ rest + gap \in Certain
    BY <1>8, <1>11 DEF ReceiveLater, HasFresh
  <2>2. past'["saved"] = past["saved"] /\ past'["fresh"] = past["fresh"]
    BY <2>1, AndroidTypes DEF Slots
  <2>3. /\ r.server \in Nat /\ r.elapsed \in Nat /\ r.uncertainty \in Certain
        /\ r.uncertainty \in Nat /\ ticks \in Nat /\ Wall \in Nat /\ now \in Nat
        /\ offset \in Int
    BY <2>1, AndroidTypes
  <2>4. /\ ticks >= r.elapsed /\ Within(r.server + ticks - r.elapsed, now, r.uncertainty)
    BY <2>1 DEF AndroidInv, AndroidFresh
  <2>5. PICK advanced \in Nat : /\ advanced = r.server + ticks - r.elapsed
                               /\ Within(advanced, now, r.uncertainty)
    BY <2>3, <2>4
  <2>6. PICK u \in Nat : /\ u = Greater(r.uncertainty, rest + gap)
                        /\ u \in Certain /\ r.uncertainty <= u
    BY <2>1, <2>3 DEF Greater
  <2>7. AndroidAdvance = [offset |-> advanced - Wall, uncertainty |-> u,
                          server |-> advanced, physical |-> Wall, elapsed |-> ticks]
    BY <1>6, <2>5, <2>6 DEF AndroidAdvance
  <2>8. AndroidAdvance \in [offset : Int, uncertainty : Certain, server : Nat,
                            physical : Nat, elapsed : Nat]
    BY <2>3, <2>6, <2>7
  <2>9. /\ clock' \in AndroidClocks /\ clock'.saved = clock.saved
        /\ clock'.anchor = clock.anchor /\ clock'.request = AndroidAdvance
    BY <2>1, <2>8, AndroidTypes DEF AndroidClocks
  <2>10. Within(advanced, now, u)
    BY <2>3, <2>5, <2>6 DEF Within
  <2>11. Wall + (advanced - Wall) = advanced /\ advanced + ticks - ticks = advanced
    BY <2>3
  <2>12. Within(offset + (advanced - Wall), 0, u)
    BY <2>3, <2>10 DEF Within, Wall
  <2>13. Wall' = Wall
    BY <1>1 DEF Wall
  <2>14. AndroidFresh'
    BY <1>1, <2>3, <2>7, <2>9, <2>10, <2>11, <2>12, <2>13 DEF AndroidFresh, Corrects
  <2>15. AndroidAdvance \in [offset : Int, uncertainty : Int, server : Int,
                             physical : Int, elapsed : Int]
    BY <2>3, <2>6, <2>7
  <2> QED
    BY <1>1, <2>2, <2>9, <2>14, <2>15, ClockAssumption, AndroidSavedStays, AndroidAnchorStays
    DEF AndroidInv
<1> QED
  BY <1>9, <1>10, <1>11

\* Saving the sample of the request gives up the anchor.
LEMMA AndroidInstalls ==
  ASSUME TypeOK, now >= Start, profile = "android", AndroidInv, Install
  PROVE  clock' \in AndroidClocks /\ AndroidInv'
<1> DEFINE r == clock.request
<1>1. UNCHANGED <<profile, now, offset, ticks, boot, started>>
  BY DEF Install, device
<1> DEFINE saved == [offset |-> r.offset, uncertainty |-> r.uncertainty,
                     point |-> [physical |-> r.physical, elapsed |-> r.elapsed],
                     boot |-> boot]
<1>2. /\ r # None
      /\ clock' = [clock EXCEPT !.saved = saved, !.anchor = None, !.request = None]
      /\ past' = [past EXCEPT !["saved"] = past["fresh"], !["fresh"] = Calm]
  BY DEF Install, HasFresh
<1>3. saved \in [offset : Int, uncertainty : Certain,
                 point : {None} \cup [physical : Nat, elapsed : Nat], boot : Nat \cup {None}]
  BY <1>2, AndroidTypes
<1>4. /\ clock' \in AndroidClocks /\ clock'.saved = saved
      /\ clock'.anchor = None /\ clock'.request = None
  BY <1>2, <1>3, AndroidTypes DEF AndroidClocks
<1>5. past'["saved"] = past["fresh"]
  BY <1>2, AndroidTypes DEF Slots
<1>6. /\ r.physical + r.offset = r.server
      /\ ticks >= r.elapsed
      /\ Within(r.server + ticks - r.elapsed, now, r.uncertainty)
      /\ ~ past["fresh"].edited => Corrects(r)
      /\ r.server \in Nat /\ r.physical \in Nat /\ r.offset \in Int /\ r.elapsed \in Nat
      /\ ticks \in Nat /\ boot \in Nat
  BY <1>2, AndroidTypes DEF AndroidInv, AndroidFresh
<1>7. r.physical + r.offset + ticks - r.elapsed = r.server + ticks - r.elapsed
  BY <1>6
<1>8. AndroidSaved'
  BY <1>1, <1>4, <1>5, <1>6, <1>7 DEF AndroidSaved, Corrects
<1> QED
  BY <1>4, <1>8 DEF AndroidInv, AndroidAnchor, AndroidFresh

\* What a time rests on, and the anchor it leaves.
AndroidFreshTime(reading) ==
  LET r == clock.request
  IN  /\ r # None /\ ticks >= r.elapsed
      /\ reading = Reading(r.server + ticks - r.elapsed, "steady", clock)

AndroidAnchorTime(reading) ==
  LET a == clock.anchor
  IN  /\ clock.request = None /\ a # None /\ ticks >= a.elapsed
      /\ reading = Reading(a.server + ticks - a.elapsed, "steady", clock)

AndroidLocalTime(reading) ==
  /\ clock.request = None /\ clock.saved = None
  /\ reading = Reading(Wall, "local", clock)

AndroidPointTime(reading) ==
  LET s == clock.saved
  IN  /\ clock.request = None /\ clock.anchor = None /\ s # None
      /\ s.point # None /\ ticks >= s.point.elapsed
      /\ reading = Anchoring(s.point.physical + s.offset + ticks - s.point.elapsed, "steady")

AndroidWallTime(reading) ==
  LET s == clock.saved
  IN  /\ clock.request = None /\ clock.anchor = None /\ s # None /\ s.point = None
      /\ Wall + s.offset >= 1
      /\ Wall + s.offset <= clock.retained + Skew - s.uncertainty
      /\ reading = Anchoring(Greater(Wall + s.offset, clock.retained), "wall")

\* Every reading rests on one of these.
LEMMA AndroidReads ==
  ASSUME TypeOK, now >= Start, profile = "android", AndroidInv, started,
         NEW reading \in AndroidReadings
  PROVE  /\ \/ AndroidFreshTime(reading) \/ AndroidAnchorTime(reading)
            \/ AndroidLocalTime(reading) \/ AndroidPointTime(reading)
            \/ AndroidWallTime(reading)
         /\ reading.value \in Nat
<1> DEFINE s == clock.saved
<1>1. clock.anchor # None => ticks >= clock.anchor.elapsed
  BY DEF AndroidInv, AndroidAnchor
<1>2. s # None /\ s.point # None =>
        ticks >= s.point.elapsed /\ s.point.physical + s.offset >= 0
  BY DEF AndroidInv, AndroidSaved
<1>3. CASE clock.request # None
  <2>1. AndroidFreshTime(reading)
    BY <1>3 DEF AndroidReadings, If, AndroidFreshTime
  <2>2. clock.request.server + ticks - clock.request.elapsed \in Nat
    BY <1>3, <2>1, AndroidTypes DEF AndroidFreshTime
  <2> QED
    BY <2>1, <2>2 DEF AndroidFreshTime, Reading
<1>4. CASE clock.request = None /\ clock.anchor # None
  <2>1. AndroidAnchorTime(reading)
    BY <1>1, <1>4 DEF AndroidReadings, AndroidAnchorTime
  <2>2. clock.anchor.server + ticks - clock.anchor.elapsed \in Nat
    BY <1>1, <1>4, AndroidTypes
  <2> QED
    BY <2>1, <2>2 DEF AndroidAnchorTime, Reading
<1>5. CASE clock.request = None /\ clock.anchor = None /\ s = None
  <2>1. AndroidLocalTime(reading)
    BY <1>5 DEF AndroidReadings, AndroidLocalTime
  <2> QED
    BY <2>1, AndroidTypes DEF AndroidLocalTime, Reading
<1>6. CASE clock.request = None /\ clock.anchor = None /\ s # None /\ s.point # None
  <2>1. AndroidPointTime(reading)
    BY <1>2, <1>6 DEF AndroidReadings, AndroidPointTime
  <2>2. s.point.physical + s.offset + ticks - s.point.elapsed \in Nat
    BY <1>2, <1>6, AndroidTypes
  <2> QED
    BY <2>1, <2>2 DEF AndroidPointTime, Anchoring, Reading
<1>7. CASE clock.request = None /\ clock.anchor = None /\ s # None /\ s.point = None
  <2>1. AndroidWallTime(reading)
    BY <1>7 DEF AndroidReadings, AndroidWallTime, If
  <2>2. Greater(Wall + s.offset, clock.retained) \in Nat
    BY <1>7, <2>1, AndroidTypes DEF AndroidWallTime, Greater
  <2> QED
    BY <2>1, <2>2 DEF AndroidWallTime, Anchoring, Reading
<1> QED
  BY <1>3, <1>4, <1>5, <1>6, <1>7

\* A time of a saved sample is near to the server's during its boot.
LEMMA AndroidPointIsNear ==
  ASSUME TypeOK, now >= Start, profile = "android", AndroidInv, started,
         clock.saved # None, clock.saved.point # None
  PROVE  Within(clock.saved.point.physical + clock.saved.offset + ticks
                  - clock.saved.point.elapsed, now, clock.saved.uncertainty)
  BY DEF AndroidInv, AndroidSaved

\* A time of the wall clock is, unless that was edited, and it is never ahead
\* of the lower bound by more than SKEW.
LEMMA AndroidWallIsNear ==
  ASSUME TypeOK, now >= Start, profile = "android", AndroidInv,
         NEW reading, AndroidWallTime(reading), NEW lead \in Nat, lead >= Floor(clock) - now
  PROVE  /\ reading.value \in Nat
         /\ reading.value <= now + Greater(clock.saved.uncertainty, lead) + Skew
         /\ ~ past["saved"].edited =>
              /\ reading.value <= now + Greater(clock.saved.uncertainty, lead)
              /\ reading.value >= now - clock.saved.uncertainty
<1> DEFINE s == clock.saved
<1>1. /\ s # None /\ now \in Nat /\ offset \in Int /\ Skew \in Nat
      /\ s.offset \in Int /\ s.uncertainty \in Nat /\ clock.retained \in Nat
      /\ Floor(clock) = clock.retained
  BY AndroidTypes, FloorIs DEF AndroidWallTime
<1>2. PICK recovered \in Int : recovered = Wall + s.offset
  BY <1>1 DEF Wall
<1>3. PICK value \in Nat : /\ value = Greater(recovered, clock.retained)
                          /\ value = reading.value
  BY <1>1, <1>2 DEF AndroidWallTime, Anchoring, Reading, Greater
<1>4. recovered <= clock.retained + Skew - s.uncertainty
  BY <1>2 DEF AndroidWallTime
<1>5. clock.retained <= now + lead
  BY <1>1
<1>6. PICK bound \in Nat : /\ bound = Greater(s.uncertainty, lead)
                          /\ lead <= bound /\ s.uncertainty <= bound
  BY <1>1 DEF Greater
<1>7. value = recovered \/ value = clock.retained
  BY <1>3 DEF Greater
<1>8. value >= recovered
  BY <1>1, <1>3 DEF Greater
<1>9. value <= now + bound + Skew
  BY <1>1, <1>4, <1>5, <1>6, <1>7
<1>10. ASSUME ~ past["saved"].edited
       PROVE  value <= now + bound /\ value >= now - s.uncertainty
  <2>1. Within(offset + s.offset, 0, s.uncertainty)
    BY <1>1, <1>10 DEF AndroidInv, AndroidSaved, Corrects
  <2>2. recovered <= now + s.uncertainty /\ recovered >= now - s.uncertainty
    BY <1>1, <1>2, <2>1 DEF Within, Wall
  <2> QED
    BY <1>1, <1>5, <1>6, <1>7, <1>8, <2>2
<1> QED
  BY <1>3, <1>6, <1>9, <1>10

\* A read only adds an anchor, or raises the lower bound.
LEMMA AndroidReadKeeps ==
  ASSUME TypeOK, now >= Start, profile = "android", AndroidInv, Read
  PROVE  clock' \in AndroidClocks /\ AndroidInv'
<1>1. UNCHANGED <<profile, now, offset, ticks, boot, started>>
  BY DEF Read, device
<1>2. PICK reading \in Readings, retain \in BOOLEAN :
        /\ clock' = IF retain THEN Retained(reading.next, reading.value) ELSE reading.next
        /\ past' = Left(reading)
  BY DEF Read
<1>3. started /\ reading \in AndroidReadings
  <2>1. started
    BY <1>2 DEF Readings
  <2>2. Readings = AndroidReadings
    BY <2>1 DEF Readings
  <2> QED
    BY <1>2, <2>1, <2>2
<1>4. Retained(reading.next, reading.value)
        = [reading.next EXCEPT !.retained = Greater(@, reading.value)]
  BY DEF Retained
<1> DEFINE anchored == [clock EXCEPT !.anchor = [server |-> reading.value, elapsed |-> ticks]]
<1>5. /\ reading.value \in Nat
      /\ reading.next = clock \/ reading.next = anchored
  BY <1>3, AndroidReads
  DEF AndroidFreshTime, AndroidAnchorTime, AndroidLocalTime, AndroidPointTime,
      AndroidWallTime, Anchoring, Reading
<1>6. /\ reading.next \in AndroidClocks
      /\ reading.next.saved = clock.saved /\ reading.next.request = clock.request
      /\ reading.next = clock
         \/ reading.next.anchor = [server |-> reading.value, elapsed |-> ticks]
  BY <1>5, AndroidTypes DEF AndroidClocks
<1>7. /\ clock' \in AndroidClocks /\ clock'.saved = clock.saved
      /\ clock'.request = clock.request /\ clock'.anchor = reading.next.anchor
  BY <1>2, <1>4, <1>5, <1>6 DEF AndroidClocks, Greater
<1>8. /\ past'["fresh"] = past["fresh"]
      /\ past'["saved"].edited = past["saved"].edited
  <2>1. /\ Left(reading)["fresh"] = past["fresh"]
        /\ \/ Left(reading)["saved"] = past["saved"]
           \/ Left(reading)["saved"] = [past["saved"] EXCEPT !.lead = Lead]
    BY LeftIs
  <2>2. past["saved"] \in Flags
    BY AndroidTypes
  <2>3. [past["saved"] EXCEPT !.lead = Lead].edited = past["saved"].edited
    BY <2>2 DEF Flags
  <2> QED
    BY <1>2, <2>1, <2>3
<1>9. AndroidSaved'
  BY <1>1, <1>7, <1>8 DEF AndroidInv, AndroidSaved, Corrects
<1>10. AndroidFresh'
  BY <1>1, <1>7, <1>8, AndroidFreshStays DEF AndroidInv
<1>11. AndroidAnchor'
  <2> DEFINE s == clock.saved
  <2>1. CASE reading.next = clock
    BY <1>1, <1>2, <1>7, <2>1, LeftIs, AndroidAnchorStays DEF AndroidInv
  <2>2. ASSUME NEW bound \in Nat, bound = Greater(s.uncertainty, past'["saved"].lead),
               reading.next # clock, s # None,
               \/ reading.value <= now + bound
               \/ /\ s.point = None /\ past["saved"].edited
                  /\ reading.value <= now + bound + Skew,
               s.point # None \/ ~ past["saved"].edited => reading.value >= now - s.uncertainty
        PROVE  AndroidAnchor'
    <3>1. /\ clock'.anchor = [server |-> reading.value, elapsed |-> ticks]
          /\ reading.value + ticks - ticks = reading.value
      BY <1>5, <1>6, <1>7, <2>2, AndroidTypes
    <3> QED
      BY <1>1, <1>3, <1>7, <1>8, <2>2, <3>1, AndroidTypes DEF AndroidAnchor
  <2>3. CASE reading.next # clock /\ AndroidPointTime(reading)
    <3>1. /\ s # None /\ s.point # None /\ s.uncertainty \in Nat /\ now \in Nat
          /\ past' = past /\ past["saved"].lead \in Nat
          /\ Within(reading.value, now, s.uncertainty)
      <4>1. /\ reading.basis = "steady"
            /\ reading.value = s.point.physical + s.offset + ticks - s.point.elapsed
        BY <2>3 DEF AndroidPointTime, Anchoring, Reading
      <4> QED
        BY <1>2, <1>3, <2>3, <4>1, LeftIs, AndroidTypes, AndroidPointIsNear
        DEF AndroidPointTime, Flags
    <3>2. PICK bound \in Nat : /\ bound = Greater(s.uncertainty, past'["saved"].lead)
                              /\ s.uncertainty <= bound
      BY <3>1 DEF Greater
    <3>3. reading.value <= now + bound /\ reading.value >= now - s.uncertainty
      BY <1>5, <3>1, <3>2 DEF Within
    <3> QED
      BY <2>2, <2>3, <3>1, <3>2, <3>3
  <2>4. CASE reading.next # clock /\ AndroidWallTime(reading)
    <3>1. reading.basis = "wall" /\ s # None /\ s.point = None
      BY <2>4 DEF AndroidWallTime, Anchoring, Reading
    <3>2. past'["saved"] = [past["saved"] EXCEPT !.lead = Lead]
      BY <1>2, <2>4, <3>1, LeftIs
    <3>3. past'["saved"].lead = Lead
      BY <3>2, AndroidTypes DEF Flags
    <3>4. Lead \in Nat /\ Lead >= Floor(clock) - now
      BY LeftIs
    <3>5. PICK bound \in Nat : bound = Greater(s.uncertainty, Lead)
      BY <3>1, <3>4, AndroidTypes DEF Greater
    <3>6. /\ reading.value <= now + bound + Skew
          /\ ~ past["saved"].edited => /\ reading.value <= now + bound
                                       /\ reading.value >= now - s.uncertainty
      BY <2>4, <3>4, <3>5, AndroidWallIsNear
    <3> QED
      BY <2>2, <2>4, <3>1, <3>3, <3>5, <3>6, AndroidTypes DEF Flags
  <2> QED
    BY <1>3, <2>1, <2>3, <2>4, AndroidReads
    DEF AndroidFreshTime, AndroidAnchorTime, AndroidLocalTime, Reading
<1> QED
  BY <1>7, <1>9, <1>10, <1>11 DEF AndroidInv

\* Every step keeps Android's part of the invariant.
LEMMA AndroidKept ==
  ASSUME TypeOK, now >= Start, profile = "android", ExchangeInv, AndroidInv, Next
  PROVE  clock' \in AndroidClocks /\ AndroidInv'
<1>1. CASE DeviceStep
  BY <1>1, AndroidMoves
<1>2. CASE Send \/ Serve \/ Lose
  <2>1. /\ clock' = clock /\ past'["saved"] = past["saved"] /\ past'["fresh"] = past["fresh"]
        /\ UNCHANGED <<now, offset, ticks, boot, started>>
    BY <1>2, AndroidTypes DEF Send, Serve, Lose, device, Slots
  <2> QED
    BY <2>1, ClockIs, AndroidSavedStays, AndroidAnchorStays, AndroidFreshStays DEF AndroidInv
<1> QED
  BY <1>1, <1>2, Kinds, AndroidRestores, AndroidReceives, AndroidInstalls, AndroidReadKeeps
  DEF QuietStep

-----------------------------------------------------------------------------
(* The invariant is inductive.                                             *)

\* All of the type but the clock's.
LEMMA TypesKept ==
  ASSUME TypeOK, now >= Start, ExchangeInv, Next
  PROVE  /\ profile' = profile /\ now' \in Nat /\ now' >= now
         /\ offset' \in Offsets /\ ticks' \in Nat /\ boot' \in Nat
         /\ upsets' \in 0 .. MaxUpsets /\ started' \in BOOLEAN
         /\ past' \in [Slots -> Flags]
<1>1. /\ now \in Nat /\ offset \in Offsets /\ ticks \in Nat /\ boot \in Nat
      /\ upsets \in 0 .. MaxUpsets /\ started \in BOOLEAN
      /\ past \in [Slots -> Flags]
  BY DEF TypeOK
<1>2. CASE DeviceStep
  <2>1. PICK later \in Nat, counted \in Nat : DeviceMoves(later, counted)
    BY <1>2, DeviceStepMoves
  <2>2. started' \in BOOLEAN
    BY <1>1, <2>1 DEF DeviceMoves, LivesOn, Ends
  <2> QED
    BY <1>1, <2>1, <2>2 DEF DeviceMoves
<1>3. CASE QuietStep
  <2>1. /\ profile' = profile /\ now' = now /\ offset' = offset /\ ticks' = ticks
        /\ boot' = boot /\ upsets' = upsets
    BY <1>3, QuietKeepsDevice
  <2>2. started' \in BOOLEAN
    BY <1>1, <1>3 DEF QuietStep, Restore, Send, Serve, Lose, Receive, ReceiveLater, Install, Read
  <2>3. /\ Calm \in Flags /\ "exchange" \in Slots /\ "fresh" \in Slots /\ "saved" \in Slots
    BY DEF Calm, Flags, Slots
  <2>4. past' \in [Slots -> Flags]
    <3>1. CASE Restore \/ Serve
      BY <1>1, <3>1 DEF Restore, Serve
    <3>2. CASE Send \/ Lose \/ ReceiveLater
      BY <1>1, <2>3, <3>2 DEF Send, Lose, ReceiveLater
    <3>3. CASE Receive
      BY <1>1, <2>3, <3>3 DEF Receive
    <3>4. CASE Install
      BY <1>1, <2>3, <3>4 DEF Install
    <3>5. CASE Read
      BY <3>5, LeftIs DEF Read
    <3> QED
      BY <1>3, <3>1, <3>2, <3>3, <3>4, <3>5 DEF QuietStep
  <2> QED
    BY <1>1, <2>1, <2>2, <2>4
<1> QED
  BY <1>2, <1>3, Kinds

LEMMA ClockOKIs ==
  ASSUME \/ profile = "apple" /\ clock \in AppleClocks
         \/ profile = "android" /\ clock \in AndroidClocks
         \/ profile = "desktop" /\ clock \in DesktopClocks
         \/ profile = "pwa" /\ clock \in PwaClocks
  PROVE  ClockOK
<1>1. CASE profile = "apple" /\ clock \in AppleClocks
  BY <1>1 DEF ClockOK
<1>2. CASE profile = "android" /\ clock \in AndroidClocks
  BY <1>2 DEF ClockOK
<1>3. CASE profile = "desktop" /\ clock \in DesktopClocks
  BY <1>3 DEF ClockOK
<1>4. CASE profile = "pwa" /\ clock \in PwaClocks
  BY <1>4 DEF ClockOK
<1> QED
  BY <1>1, <1>2, <1>3, <1>4

LEMMA Initially ==
  ASSUME Init
  PROVE  IInv
<1>1. /\ profile \in Profiles /\ now = Start /\ offset \in Offsets /\ ticks = 0 /\ boot = 1
      /\ upsets = 0 /\ started = (profile \notin Restores) /\ exchange = None
      /\ past = [slot \in Slots |-> Calm] /\ clock = InitialClock(profile)
  BY DEF Init
<1>2. profile \in {"apple", "android", "desktop", "pwa"}
  BY <1>1, ClockAssumption
<1>3. profile = "apple" => clock = [sample |-> None, last |-> 0]
  BY <1>1 DEF InitialClock
<1>4. profile = "android" => clock = [saved |-> None, retained |-> 0,
                                      anchor |-> None, request |-> None]
  BY <1>1 DEF InitialClock
<1>5. profile = "desktop" => clock = [sample |-> None, anchor |-> None]
  BY <1>1 DEF InitialClock
<1>6. profile = "pwa" => clock = [sample |-> None, minimum |-> 0, runtime |-> None]
  BY <1>1 DEF InitialClock
<1>7. ClockOK
  BY <1>2, <1>3, <1>4, <1>5, <1>6, ClockOKIs
  DEF AppleClocks, AndroidClocks, DesktopClocks, DesktopSamples, PwaClocks
<1>8. Calm \in Flags
  BY DEF Calm, Flags
<1>9. TypeOK
  BY <1>1, <1>7, <1>8, ClockAssumption DEF TypeOK
<1>10. AppleInv
  BY <1>3 DEF AppleInv
<1>11. AndroidInv
  BY <1>4 DEF AndroidInv, AndroidSaved, AndroidFresh, AndroidAnchor
<1>12. DesktopInv
  BY <1>5 DEF DesktopInv
<1>13. PwaInv
  BY <1>6 DEF PwaInv, PwaSaved, PwaRuntime
<1> QED
  BY <1>1, <1>9, <1>10, <1>11, <1>12, <1>13, ClockAssumption DEF IInv, ExchangeInv

LEMMA StepKeeps ==
  ASSUME IInv, Next
  PROVE  IInv'
<1> USE DEF IInv
<1>1. /\ profile' = profile /\ now' \in Nat /\ now' >= now
      /\ offset' \in Offsets /\ ticks' \in Nat /\ boot' \in Nat
      /\ upsets' \in 0 .. MaxUpsets /\ started' \in BOOLEAN
      /\ past' \in [Slots -> Flags]
  BY TypesKept
<1>2. ExchangeInv'
  BY ExchangeKept
<1>3. profile \in {"apple", "android", "desktop", "pwa"}
  BY ClockIs
<1>4. /\ profile = "apple" => clock' \in AppleClocks /\ AppleInv'
      /\ profile = "android" => clock' \in AndroidClocks /\ AndroidInv'
      /\ profile = "desktop" => clock' \in DesktopClocks /\ DesktopInv'
      /\ profile = "pwa" => clock' \in PwaClocks /\ PwaInv'
  BY AppleKept, AndroidKept, DesktopKept, PwaKept
<1>5. ClockOK'
  <2>1. CASE profile = "apple"
    BY <1>1, <1>4, <2>1 DEF ClockOK
  <2>2. CASE profile = "android"
    BY <1>1, <1>4, <2>2 DEF ClockOK
  <2>3. CASE profile = "desktop"
    BY <1>1, <1>4, <2>3 DEF ClockOK
  <2>4. CASE profile = "pwa"
    BY <1>1, <1>4, <2>4 DEF ClockOK
  <2> QED
    BY <1>3, <2>1, <2>2, <2>3, <2>4
<1>6. AppleInv' /\ AndroidInv' /\ DesktopInv' /\ PwaInv'
  BY <1>1, <1>3, <1>4 DEF AppleInv, AndroidInv, DesktopInv, PwaInv
<1>7. exchange' = None \/ exchange'.stamp \in Nat \cup {None}
  BY <1>2 DEF ExchangeInv
<1>8. TypeOK'
  BY <1>1, <1>5, <1>7 DEF TypeOK
<1>9. now' >= Start
  BY <1>1, ClockAssumption DEF TypeOK
<1> QED
  BY <1>2, <1>6, <1>8, <1>9

LEMMA StutterKeeps ==
  ASSUME IInv, UNCHANGED vars
  PROVE  IInv'
<1>1. /\ profile' = profile /\ now' = now /\ offset' = offset /\ ticks' = ticks
      /\ boot' = boot /\ upsets' = upsets /\ started' = started
      /\ exchange' = exchange /\ clock' = clock /\ past' = past
  BY DEF vars, device
<1>2. TypeOK'
  <2>1. ClockOK'
    BY <1>1 DEF IInv, TypeOK, ClockOK
  <2> QED
    BY <1>1, <2>1 DEF IInv, TypeOK
<1>3. ExchangeInv'
  BY <1>1 DEF IInv, ExchangeInv, Journey, Trip, WallTrip, Wall
<1>4. AppleInv'
  BY <1>1 DEF IInv, AppleInv
<1>5. AndroidInv'
  BY <1>1 DEF IInv, AndroidInv, AndroidSaved, AndroidFresh, AndroidAnchor, Corrects
<1>6. DesktopInv'
  BY <1>1 DEF IInv, DesktopInv, Projected, Corrects, Wall
<1>7. PwaInv'
  BY <1>1 DEF IInv, PwaInv, PwaSaved, PwaRuntime, Corrects
<1> QED
  BY <1>1, <1>2, <1>3, <1>4, <1>5, <1>6, <1>7 DEF IInv

\* Every reachable state satisfies the inductive invariant.
LEMMA Inductive == Spec => []IInv
<1>1. IInv /\ [Next]_vars => IInv'
  BY StepKeeps, StutterKeeps
<1> QED
  BY <1>1, Initially, PTL DEF Spec

(* Each client's clock state stays one that its kernel accepts: no sample  *)
(* is less certain than required, no time or reading is negative.          *)
THEOREM TypeCorrect == Spec => []TypeOK
<1>1. IInv => TypeOK
  BY DEF IInv
<1> QED
  BY <1>1, Inductive, PTL

-----------------------------------------------------------------------------
(* A time is as near to the server's as its sample says.                   *)

\* The readings of the client of this behaviour.
LEMMA ReadingsAre ==
  ASSUME NEW reading \in Readings
  PROVE  /\ started
         /\ profile = "apple" => \E a \in BOOLEAN : reading \in AppleReadings(a)
         /\ profile = "android" => reading \in AndroidReadings
         /\ profile = "desktop" => \E m \in Modes : reading \in DesktopReadings(m)
         /\ profile = "pwa" => \E m \in BOOLEAN : reading \in PwaReadings(m)
<1>1. started
  BY DEF Readings
<1>2. profile = "apple" => \E a \in BOOLEAN : reading \in AppleReadings(a)
  <2>1. profile = "apple" => Readings = UNION {AppleReadings(a) : a \in BOOLEAN}
    BY <1>1 DEF Readings
  <2> QED
    BY <2>1
<1>3. profile = "android" => reading \in AndroidReadings
  <2>1. profile = "android" => Readings = AndroidReadings
    BY <1>1 DEF Readings
  <2> QED
    BY <2>1
<1>4. profile = "desktop" => \E m \in Modes : reading \in DesktopReadings(m)
  <2>1. profile = "desktop" => Readings = UNION {DesktopReadings(m) : m \in Modes}
    BY <1>1 DEF Readings
  <2> QED
    BY <2>1
<1>5. profile = "pwa" => \E m \in BOOLEAN : reading \in PwaReadings(m)
  <2>1. profile = "pwa" => Readings = UNION {PwaReadings(m) : m \in BOOLEAN}
    BY <1>1 DEF Readings
  <2> QED
    BY <2>1
<1> QED
  BY <1>1, <1>2, <1>3, <1>4, <1>5

\* The sample in force, the past of it and its uncertainty.
LEMMA ForceIs ==
  ASSUME TypeOK, NEW reading
  PROVE  /\ profile \in {"apple", "desktop"} =>
              /\ Since(reading) = past["saved"]
              /\ InUncertainty = clock.sample.uncertainty
              /\ RestsOnWall(reading) = (reading.basis = "wall")
         /\ profile = "android" /\ clock.request # None =>
              /\ Since(reading) = past["fresh"]
              /\ InUncertainty = clock.request.uncertainty
              /\ ~ RestsOnWall(reading)
         /\ profile = "android" /\ clock.request = None =>
              /\ Since(reading) = past["saved"]
              /\ InUncertainty = clock.saved.uncertainty
              /\ RestsOnWall(reading) = (clock.saved.point = None)
         /\ profile = "pwa" =>
              /\ Since(reading) = IF reading.basis = "steady" THEN past["runtime"]
                                  ELSE past["saved"]
              /\ InUncertainty = clock.sample.uncertainty
              /\ RestsOnWall(reading)
<1>1. /\ profile \in {"apple", "desktop"} => Since(reading) = past["saved"]
      /\ profile = "android" /\ clock.request # None => Since(reading) = past["fresh"]
      /\ profile = "android" /\ clock.request = None => Since(reading) = past["saved"]
      /\ profile = "pwa" => Since(reading) = IF reading.basis = "steady" THEN past["runtime"]
                                             ELSE past["saved"]
  BY DEF Since, InForce, HasFresh
<1>2. /\ profile \in {"apple", "desktop", "pwa"} => InUncertainty = clock.sample.uncertainty
      /\ profile = "android" /\ clock.request # None =>
           InUncertainty = clock.request.uncertainty
      /\ profile = "android" /\ clock.request = None =>
           InUncertainty = clock.saved.uncertainty
  BY DEF InUncertainty, HasFresh
<1>3. /\ profile \in {"apple", "desktop"} => RestsOnWall(reading) = (reading.basis = "wall")
      /\ profile = "android" /\ clock.request # None => ~ RestsOnWall(reading)
      /\ profile = "android" /\ clock.request = None =>
           RestsOnWall(reading) = (clock.saved.point = None)
      /\ profile = "pwa" => RestsOnWall(reading)
  BY DEF RestsOnWall, HasFresh
<1> QED
  BY <1>1, <1>2, <1>3

\* What is allowed covers the uncertainty and the lower bound, then and now.
LEMMA AllowedCovers ==
  ASSUME TypeOK, NEW reading, InUncertainty \in Nat
  PROVE  /\ Allowed(reading) \in Nat
         /\ Allowed(reading) >= InUncertainty
         /\ Since(reading).lead \in Nat /\ Allowed(reading) >= Since(reading).lead
         /\ Allowed(reading) >= Floor(clock) - now
<1>1. Since(reading).lead \in Nat
  BY DEF TypeOK, Since, InForce, Slots, Flags
<1> QED
  BY <1>1, FloorIs DEF TypeOK, Allowed, Greater

\* The readings of each client, against the server's time.
LEMMA AppleIsNear ==
  ASSUME IInv, profile = "apple", NEW reading \in Trusted
  PROVE  /\ \/ reading.value <= now + Allowed(reading)
            \/ /\ RestsOnWall(reading) /\ (Since(reading).edited \/ Since(reading).stretched)
               /\ reading.value <= now + Allowed(reading) + Skew
         /\ ~ Since(reading).slept /\ ~ Since(reading).rebooted =>
              reading.value >= now - InUncertainty
<1> USE DEF IInv
<1> DEFINE s == clock.sample
<1>1. PICK a \in BOOLEAN : reading \in AppleReadings(a)
  BY ReadingsAre DEF Trusted
<1> DEFINE candidate == IF s = None THEN Wall
                        ELSE IF ticks >= s.uptime THEN s.anchor + ticks - s.uptime
                        ELSE Wall + s.offset
<1>2. /\ candidate \in Int
      /\ \/ reading.value = candidate /\ (clock.last > 0 => candidate > clock.last)
         \/ /\ reading.value = clock.last + 1
            /\ clock.last > 0 /\ clock.last >= candidate
      /\ reading.basis = IF s = None THEN "local"
                         ELSE IF ticks >= s.uptime THEN "steady" ELSE "wall"
      /\ reading.basis = "wall" => candidate <= Greater(s.anchor, clock.last) + Skew
      /\ reading.value \in Nat
  BY <1>1, AppleReads
<1>3. s # None
  BY <1>2 DEF Trusted
<1>4. /\ s.offset \in Int /\ s.uncertainty \in Nat /\ s.anchor \in Nat /\ s.uptime \in Nat
      /\ clock.last \in Nat /\ now \in Nat /\ ticks \in Nat /\ offset \in Int /\ Skew \in Nat
      /\ Floor(clock) = clock.last + 1
      /\ past["saved"] \in Flags
  BY <1>3, ClockIs, FloorIs, WallIsTime, ClockAssumption
  DEF TypeOK, AppleClocks, Certain, Slots
<1>5. /\ Since(reading) = past["saved"] /\ InUncertainty = s.uncertainty
      /\ RestsOnWall(reading) = (reading.basis = "wall")
  BY ForceIs
<1>6. PICK allowed \in Nat : /\ allowed = Allowed(reading) /\ allowed >= s.uncertainty
                            /\ allowed >= (clock.last + 1) - now
  BY <1>4, <1>5, AllowedCovers
<1>7. /\ s.anchor + ticks - s.uptime <= now + s.uncertainty
      /\ s.anchor <= now + s.uncertainty
      /\ ~ past["saved"].rebooted => ticks >= s.uptime
      /\ ~ past["saved"].slept /\ ~ past["saved"].rebooted =>
           s.anchor + ticks - s.uptime >= now - s.uncertainty
      /\ ~ past["saved"].edited /\ ~ past["saved"].stretched =>
           offset + s.offset <= s.uncertainty
  BY <1>3 DEF AppleInv
<1>8. reading.value = clock.last + 1 => reading.value <= now + allowed
  BY <1>4, <1>6
<1>9. reading.value >= candidate
  BY <1>2, <1>4
<1>10. CASE ticks >= s.uptime
  <2>1. candidate = s.anchor + ticks - s.uptime
    BY <1>3, <1>10
  <2>2. candidate <= now + allowed
    BY <1>2, <1>4, <1>6, <1>7, <2>1
  <2>3. ~ past["saved"].slept /\ ~ past["saved"].rebooted => candidate >= now - s.uncertainty
    BY <1>7, <2>1
  <2> HIDE DEF candidate
  <2> QED
    BY <1>2, <1>4, <1>5, <1>6, <1>8, <1>9, <2>2, <2>3
<1>11. CASE ~ (ticks >= s.uptime)
  <2>1. candidate = Wall + s.offset /\ reading.basis = "wall"
    BY <1>2, <1>3, <1>11
  <2>2. ~ past["saved"].edited /\ ~ past["saved"].stretched => candidate <= now + allowed
    BY <1>4, <1>6, <1>7, <2>1 DEF Wall
  <2>3. candidate <= now + allowed + Skew
    <3>1. candidate <= Greater(s.anchor, clock.last) + Skew
      BY <1>2, <2>1
    <3>2. s.anchor <= now + allowed /\ clock.last <= now + allowed
      BY <1>4, <1>6, <1>7
    <3> HIDE DEF candidate
    <3> QED
      BY <1>2, <1>4, <3>1, <3>2 DEF Greater
  <2>4. past["saved"].rebooted
    BY <1>4, <1>7, <1>11 DEF Flags
  <2> HIDE DEF candidate
  <2> QED
    BY <1>2, <1>4, <1>5, <1>6, <1>8, <2>1, <2>2, <2>3, <2>4
<1> QED
  BY <1>10, <1>11

LEMMA AndroidIsNear ==
  ASSUME IInv, profile = "android", NEW reading \in Trusted
  PROVE  /\ \/ reading.value <= now + Allowed(reading)
            \/ /\ RestsOnWall(reading) /\ Since(reading).edited
               /\ reading.value <= now + Allowed(reading) + Skew
         /\ (RestsOnWall(reading) => ~ Since(reading).edited) =>
              reading.value >= now - InUncertainty
<1> USE DEF IInv
<1> DEFINE s == clock.saved
<1> DEFINE r == clock.request
<1> DEFINE a == clock.anchor
<1>1. started /\ reading \in AndroidReadings
  BY ReadingsAre DEF Trusted
<1>2. now \in Nat /\ Skew \in Nat
  BY AndroidTypes
<1>3. ASSUME AndroidFreshTime(reading)
      PROVE  /\ reading.value <= now + Allowed(reading)
             /\ reading.value >= now - InUncertainty
  <2>1. /\ r # None /\ reading.value = r.server + ticks - r.elapsed
        /\ r.uncertainty \in Nat /\ r.server \in Nat /\ r.elapsed \in Nat /\ ticks \in Nat
    BY <1>3, AndroidTypes DEF AndroidFreshTime, Reading
  <2>2. InUncertainty = r.uncertainty
    BY <2>1, ForceIs
  <2>3. Allowed(reading) \in Nat /\ Allowed(reading) >= r.uncertainty
    BY <2>1, <2>2, AllowedCovers
  <2>4. PICK value \in Int : value = reading.value /\ Within(value, now, r.uncertainty)
    BY <2>1 DEF AndroidInv, AndroidFresh
  <2> QED
    BY <1>2, <2>1, <2>2, <2>3, <2>4 DEF Within
<1>4. ASSUME r = None, s # None
      PROVE  /\ s.uncertainty \in Nat /\ InUncertainty = s.uncertainty
             /\ Since(reading) = past["saved"] /\ Since(reading).lead \in Nat
             /\ RestsOnWall(reading) = (s.point = None)
             /\ Allowed(reading) \in Nat
             /\ Allowed(reading) >= s.uncertainty
             /\ Allowed(reading) >= past["saved"].lead
             /\ Allowed(reading) >= Floor(clock) - now
  BY <1>4, AndroidTypes, ForceIs, AllowedCovers
<1>5. CASE AndroidAnchorTime(reading)
  <2>1. /\ r = None /\ a # None /\ reading.value = a.server + ticks - a.elapsed
        /\ s # None
    BY <1>5 DEF AndroidAnchorTime, Reading, AndroidInv, AndroidAnchor
  <2>2. PICK value \in Int : value = reading.value
    BY <2>1, AndroidTypes
  <2>3. PICK bound \in Nat : /\ bound = Greater(s.uncertainty, past["saved"].lead)
                            /\ bound <= Allowed(reading)
    BY <1>4, <2>1 DEF Greater
  <2>4. /\ \/ value <= now + bound
           \/ s.point = None /\ past["saved"].edited /\ value <= now + bound + Skew
        /\ s.point # None \/ ~ past["saved"].edited => value >= now - s.uncertainty
    BY <2>1, <2>2, <2>3 DEF AndroidInv, AndroidAnchor
  <2>5. PICK allowed \in Nat : allowed = Allowed(reading) /\ bound <= allowed
    BY <1>4, <2>1, <2>3
  <2>6. /\ value <= now + bound => value <= now + allowed
        /\ value <= now + bound + Skew => value <= now + allowed + Skew
    BY <1>2, <2>2, <2>3, <2>5
  <2>7. \/ value <= now + allowed
        \/ s.point = None /\ past["saved"].edited /\ value <= now + allowed + Skew
    BY <2>4, <2>6
  <2>8. /\ Since(reading) = past["saved"] /\ InUncertainty = s.uncertainty
        /\ RestsOnWall(reading) = (s.point = None)
    BY <1>4, <2>1
  <2> QED
    BY <2>2, <2>4, <2>5, <2>7, <2>8
<1>6. CASE AndroidPointTime(reading)
  <2>1. /\ r = None /\ s # None /\ s.point # None
        /\ reading.value = s.point.physical + s.offset + ticks - s.point.elapsed
    BY <1>6 DEF AndroidPointTime, Anchoring, Reading
  <2>2. PICK value \in Int : value = reading.value /\ Within(value, now, s.uncertainty)
    BY <1>1, <2>1, AndroidTypes, AndroidPointIsNear
  <2>3. value <= now + Allowed(reading) /\ value >= now - s.uncertainty
    BY <1>2, <1>4, <2>1, <2>2 DEF Within
  <2> QED
    BY <1>4, <2>1, <2>2, <2>3
<1>7. CASE AndroidWallTime(reading)
  <2>1. r = None /\ s # None /\ s.point = None
    BY <1>7 DEF AndroidWallTime
  <2>2. PICK lead \in Nat : lead = Allowed(reading)
    BY <1>4, <2>1
  <2>3. Greater(s.uncertainty, lead) = lead
    BY <1>4, <2>1, <2>2 DEF Greater
  <2>4. lead >= Floor(clock) - now
    BY <1>4, <2>1, <2>2
  <2>5. /\ reading.value <= now + lead + Skew
        /\ ~ past["saved"].edited => /\ reading.value <= now + lead
                                     /\ reading.value >= now - s.uncertainty
    BY <1>7, <2>3, <2>4, AndroidWallIsNear
  <2> QED
    BY <1>4, <2>1, <2>2, <2>5, AndroidTypes DEF Flags
<1>8. ~ AndroidLocalTime(reading)
  BY DEF AndroidLocalTime, Reading, Trusted
<1> QED
  <2>1. \/ AndroidFreshTime(reading) \/ AndroidAnchorTime(reading)
        \/ AndroidPointTime(reading) \/ AndroidWallTime(reading)
    BY <1>1, <1>8, AndroidReads
  <2> QED
    BY <1>3, <1>5, <1>6, <1>7, <2>1

LEMMA DesktopIsNear ==
  ASSUME IInv, profile = "desktop", NEW reading \in Trusted
  PROVE  /\ \/ reading.value <= now + Allowed(reading)
            \/ RestsOnWall(reading) /\ Since(reading).edited
         /\ /\ ~ Since(reading).slept
            /\ Since(reading).rebooted \/ RestsOnWall(reading) => ~ Since(reading).edited
            => reading.value >= now - InUncertainty - IF Since(reading).rebooted
                                                      THEN Drift ELSE 0
<1> USE DEF IInv
<1> DEFINE s == clock.sample
<1> DEFINE happened == past["saved"]
<1>1. PICK m \in Modes : reading \in DesktopReadings(m)
  BY ReadingsAre DEF Trusted
<1>2. \/ reading.basis = "wall" /\ s # None /\ reading.value = Wall + s.offset
      \/ /\ reading.basis = "steady" /\ s # None /\ reading.value = Projected(s)
         /\ clock.anchor = s \/ Agree(s)
  BY <1>1, DesktopReads DEF Trusted
<1>3. /\ now \in Nat /\ ticks \in Nat /\ offset \in Int /\ Drift \in Nat
      /\ s \in [offset : Int, uncertainty : Certain, wall : Nat, ticks : Nat, trusted : Nat]
      /\ s.offset \in Int /\ s.uncertainty \in Nat /\ s.wall \in Nat /\ s.ticks \in Nat
      /\ s.trusted \in Nat /\ happened \in Flags
  BY <1>2, ClockIs, WallIsTime, ClockAssumption
  DEF TypeOK, DesktopClocks, DesktopSamples, Certain, Slots
<1>4. /\ Since(reading) = happened /\ InUncertainty = s.uncertainty
      /\ RestsOnWall(reading) = (reading.basis = "wall")
  BY ForceIs
<1>5. PICK allowed \in Nat : allowed = Allowed(reading) /\ allowed >= s.uncertainty
  BY <1>3, <1>4, AllowedCovers
<1>6. /\ Projected(s) <= now + s.uncertainty
      /\ ~ happened.slept /\ ~ happened.rebooted => Projected(s) >= now - s.uncertainty
      /\ ~ happened.edited => Corrects(s)
      /\ ~ happened.slept /\ ~ happened.edited =>
           /\ s.trusted + Wall - s.wall >= now - s.uncertainty
           /\ clock.anchor = s => Projected(s) >= now - s.uncertainty - Drift
  BY <1>2 DEF DesktopInv
<1>7. CASE reading.basis = "wall"
  <2>1. PICK value \in Int : value = reading.value /\ value = Wall + s.offset
    BY <1>2, <1>3, <1>7 DEF Wall
  <2>2. ~ happened.edited => value <= now + s.uncertainty /\ value >= now - s.uncertainty
    BY <1>3, <1>6, <2>1 DEF Corrects, Within, Wall
  <2> QED
    BY <1>3, <1>4, <1>5, <1>7, <2>1, <2>2 DEF Flags
<1>8. CASE reading.basis = "steady"
  <2>1. PICK value \in Int : value = reading.value /\ value = Projected(s)
    BY <1>2, <1>3, <1>8 DEF Projected
  <2>2. value <= now + allowed
    BY <1>3, <1>5, <1>6, <2>1
  <2>3. ~ happened.slept /\ ~ happened.rebooted => value >= now - s.uncertainty
    BY <1>6, <2>1
  <2>4. ~ happened.slept /\ ~ happened.edited => value >= now - s.uncertainty - Drift
    BY <1>2, <1>3, <1>6, <1>8, <2>1, AgreementTells
  <2> QED
    BY <1>3, <1>4, <1>5, <1>8, <2>1, <2>2, <2>3, <2>4 DEF Flags
<1> QED
  BY <1>2, <1>7, <1>8

LEMMA PwaIsNear ==
  ASSUME IInv, profile = "pwa", NEW reading \in Trusted
  PROVE  /\ \/ reading.value <= now + Allowed(reading)
            \/ RestsOnWall(reading) /\ Since(reading).edited
         /\ ~ Since(reading).slept /\ ~ Since(reading).edited =>
              reading.value >= now - InUncertainty
<1> USE DEF IInv
<1> DEFINE s == clock.sample
<1> DEFINE r == clock.runtime
<1>1. PICK m \in BOOLEAN : reading \in PwaReadings(m)
  BY ReadingsAre DEF Trusted
<1>2. /\ s # None
      /\ \/ reading.value = PwaWall /\ reading.basis = "wall"
         \/ /\ reading.value = Greater(r.wall + ticks - r.ticks, clock.minimum)
            /\ reading.basis = "steady"
            /\ r # None /\ r.identity = Identity(s) /\ ticks >= r.ticks
      /\ reading.value \in Nat
  BY <1>1, PwaReads DEF Trusted
<1>3. /\ now \in Nat /\ ticks \in Nat /\ s.uncertainty \in Nat /\ clock.minimum \in Nat
      /\ s \in [offset : Int, uncertainty : Certain, sampledAt : Nat]
      /\ r # None => r.wall \in Nat /\ r.ticks \in Nat
      /\ Floor(clock) = clock.minimum
  BY <1>2, ClockIs, FloorIs, ClockAssumption DEF TypeOK, PwaClocks, Certain
<1>4. /\ Since(reading) = IF reading.basis = "steady" THEN past["runtime"] ELSE past["saved"]
      /\ InUncertainty = s.uncertainty
      /\ RestsOnWall(reading)
  BY ForceIs
<1>5. PICK allowed \in Nat : /\ allowed = Allowed(reading) /\ allowed >= s.uncertainty
                            /\ allowed >= clock.minimum - now
                            /\ Since(reading).lead \in Nat /\ allowed >= Since(reading).lead
  BY <1>3, <1>4, AllowedCovers
<1>6. CASE reading.basis = "wall"
  <2>1. SUFFICES ASSUME ~ past["saved"].edited
                 PROVE  reading.value <= now + allowed /\ reading.value >= now - s.uncertainty
    BY <1>4, <1>5, <1>6
  <2>2. /\ PwaWall <= now + Greater(s.uncertainty, clock.minimum - now)
        /\ PwaWall >= now - s.uncertainty
    BY <1>2, <1>3, <2>1, PwaWallIsNear DEF PwaInv
  <2> QED
    BY <1>2, <1>3, <1>5, <1>6, <2>2 DEF Greater
<1>7. CASE reading.basis = "steady"
  <2>1. SUFFICES ASSUME ~ past["runtime"].edited
                 PROVE  /\ reading.value <= now + allowed
                        /\ ~ past["runtime"].slept => reading.value >= now - s.uncertainty
    BY <1>4, <1>5, <1>7
  <2>2. /\ r # None /\ r.identity # None /\ r.identity[2] = s.uncertainty
    BY <1>2, <1>3, <1>7, IdentityIs
  <2>3. /\ r.wall + ticks - r.ticks <= now + Greater(s.uncertainty, past["runtime"].lead)
        /\ ~ past["runtime"].slept => r.wall + ticks - r.ticks >= now - s.uncertainty
    BY <2>1, <2>2 DEF PwaInv, PwaRuntime
  <2>4. PICK steady \in Int : steady = r.wall + ticks - r.ticks
    BY <1>3, <2>2
  <2>5. past["runtime"].lead \in Nat /\ allowed >= past["runtime"].lead
    BY <1>4, <1>5, <1>7
  <2>6. steady <= now + allowed
    BY <1>3, <1>5, <2>3, <2>4, <2>5 DEF Greater
  <2>7. reading.value = Greater(steady, clock.minimum)
    BY <1>2, <1>7, <2>4
  <2> QED
    BY <1>2, <1>3, <1>5, <2>3, <2>4, <2>6, <2>7 DEF Greater
<1> QED
  BY <1>2, <1>6, <1>7

\* What a time of trust rests on has an uncertainty.
LEMMA UncertaintyIs ==
  ASSUME IInv, NEW reading \in Trusted
  PROVE  now \in Nat /\ InUncertainty \in Nat
<1> USE DEF IInv
<1>1. now \in Nat /\ Certain \subseteq Nat
  BY ClockAssumption DEF TypeOK, Certain
<1>2. CASE profile = "apple"
  <2>1. PICK a \in BOOLEAN : reading \in AppleReadings(a)
    BY <1>2, ReadingsAre DEF Trusted
  <2>2. clock.sample # None
    BY <1>2, <2>1, AppleReads DEF Trusted
  <2> QED
    BY <1>1, <1>2, <2>2, ForceIs, ClockIs DEF AppleClocks
<1>3. CASE profile = "android"
  <2>1. started /\ reading \in AndroidReadings
    BY <1>3, ReadingsAre DEF Trusted
  <2>2. clock.request # None \/ clock.saved # None
    BY <1>3, <2>1, AndroidReads
    DEF AndroidFreshTime, AndroidAnchorTime, AndroidLocalTime, AndroidPointTime,
        AndroidWallTime, Reading, Trusted, AndroidInv, AndroidAnchor
  <2> QED
    BY <1>1, <1>3, <2>2, ForceIs, AndroidTypes
<1>4. CASE profile = "desktop"
  <2>1. PICK m \in Modes : reading \in DesktopReadings(m)
    BY <1>4, ReadingsAre DEF Trusted
  <2>2. clock.sample # None
    BY <2>1, DesktopReads DEF Trusted
  <2> QED
    BY <1>1, <1>4, <2>2, ForceIs, ClockIs DEF DesktopClocks, DesktopSamples
<1>5. CASE profile = "pwa"
  <2>1. PICK m \in BOOLEAN : reading \in PwaReadings(m)
    BY <1>5, ReadingsAre DEF Trusted
  <2>2. clock.sample # None
    BY <1>5, <2>1, PwaReads DEF Trusted
  <2> QED
    BY <1>1, <1>5, <2>2, ForceIs, ClockIs DEF PwaClocks
<1> QED
  BY <1>2, <1>3, <1>4, <1>5, ClockIs

\* A time is ahead of the server's by no more than its sample or the client's
\* lower bound allows, and by no more than SKEW where an edited wall clock is
\* recovered from (continued, recovered).
THEOREM NeverAheadHolds == Spec => []NeverAhead
<1>1. IInv => NeverAhead
  <2>1. SUFFICES ASSUME IInv, NEW reading \in Trusted
                 PROVE  \/ reading.value <= now + Allowed(reading)
                        \/ /\ RestsOnWall(reading) /\ profile \in {"apple", "android"}
                           /\ Since(reading).edited \/ Since(reading).stretched
                           /\ reading.value <= now + Allowed(reading) + Skew
                        \/ /\ RestsOnWall(reading) /\ profile \in {"desktop", "pwa"}
                           /\ Since(reading).edited
    BY DEF NeverAhead
  <2>2. profile \in {"apple", "android", "desktop", "pwa"}
    BY <2>1, ClockIs DEF IInv
  <2>3. CASE profile = "apple"
    BY <2>1, <2>3, AppleIsNear
  <2>4. CASE profile = "android"
    BY <2>1, <2>4, AndroidIsNear
  <2>5. CASE profile = "desktop"
    BY <2>1, <2>5, DesktopIsNear
  <2>6. CASE profile = "pwa"
    BY <2>1, <2>6, PwaIsNear
  <2> QED
    BY <2>2, <2>3, <2>4, <2>5, <2>6
<1> QED
  BY <1>1, Inductive, PTL

\* And it is behind by no more as long as the clock it rests on was not
\* disturbed.
THEOREM NeverBehindHolds == Spec => []NeverBehind
<1>1. IInv => NeverBehind
  <2>1. SUFFICES ASSUME IInv, NEW reading \in Trusted, Undisturbed(reading)
                 PROVE  reading.value >= now - InUncertainty
                          - IF profile = "desktop" /\ Since(reading).rebooted
                            THEN Drift ELSE 0
    BY DEF NeverBehind
  <2>2. profile \in {"apple", "android", "desktop", "pwa"}
    BY <2>1, ClockIs DEF IInv
  <2>3. /\ profile = "apple" => ~ Since(reading).slept /\ ~ Since(reading).rebooted
        /\ profile = "android" => (RestsOnWall(reading) => ~ Since(reading).edited)
        /\ profile = "pwa" => ~ Since(reading).slept /\ ~ Since(reading).edited
    BY <2>1 DEF Undisturbed
  <2>4. profile = "desktop" => /\ ~ Since(reading).slept
                               /\ Since(reading).rebooted \/ RestsOnWall(reading)
                                    => ~ Since(reading).edited
    BY <2>1 DEF Undisturbed
  <2>5. ASSUME profile # "desktop", reading.value >= now - InUncertainty
        PROVE  reading.value >= now - InUncertainty
                 - IF profile = "desktop" /\ Since(reading).rebooted THEN Drift ELSE 0
    <3>1. now \in Int /\ InUncertainty \in Int
      BY <2>1, <2>2, <2>5, UncertaintyIs DEF IInv
    <3>2. now - InUncertainty - 0 = now - InUncertainty
      BY <3>1
    <3> QED
      BY <2>5, <3>2
  <2>6. CASE profile = "apple"
    BY <2>1, <2>3, <2>5, <2>6, AppleIsNear
  <2>7. CASE profile = "android"
    BY <2>1, <2>3, <2>5, <2>7, AndroidIsNear
  <2>8. CASE profile = "desktop"
    BY <2>1, <2>4, <2>8, DesktopIsNear
  <2>9. CASE profile = "pwa"
    BY <2>1, <2>3, <2>5, <2>9, PwaIsNear
  <2> QED
    BY <2>2, <2>6, <2>7, <2>8, <2>9
<1> QED
  BY <1>1, Inductive, PTL

-----------------------------------------------------------------------------
(* A steady time passes as the monotonic clock does.                       *)

AppleSteady(value) ==
  LET s == clock.sample
      candidate == s.anchor + ticks - s.uptime
  IN  /\ s # None /\ candidate \in Int
      /\ \/ value = candidate /\ (clock.last > 0 => candidate > clock.last)
         \/ value = clock.last + 1 /\ clock.last > 0 /\ clock.last >= candidate

AndroidSteady(value) ==
  LET s == clock.saved
      a == clock.anchor
      r == clock.request
  IN  \/ /\ r # None
         /\ value = r.server + ticks - r.elapsed
      \/ /\ r = None /\ a # None
         /\ value = a.server + ticks - a.elapsed
      \/ /\ r = None /\ a = None /\ s # None /\ s.point # None
         /\ value = s.point.physical + s.offset + ticks - s.point.elapsed

DesktopSteady(value) == clock.sample # None /\ value = Projected(clock.sample)

PwaSteady(value) ==
  LET r == clock.runtime
  IN  /\ r # None /\ r.identity = Identity(clock.sample) /\ ticks >= r.ticks
      /\ value = Greater(r.wall + ticks - r.ticks, clock.minimum)

SteadyIs ==
  \A reading \in Steady :
    /\ started /\ reading.value \in Int
    /\ profile = "apple" => AppleSteady(reading.value)
    /\ profile = "android" => AndroidSteady(reading.value)
    /\ profile = "desktop" => DesktopSteady(reading.value)
    /\ profile = "pwa" => PwaSteady(reading.value)

\* Every steady reading is of its client's form.
LEMMA SteadyIsSo ==
  ASSUME IInv
  PROVE  SteadyIs
<1> USE DEF IInv
<1>1. SUFFICES ASSUME NEW reading \in Steady
               PROVE  /\ started /\ reading.value \in Int
                      /\ profile = "apple" => AppleSteady(reading.value)
                      /\ profile = "android" => AndroidSteady(reading.value)
                      /\ profile = "desktop" => DesktopSteady(reading.value)
                      /\ profile = "pwa" => PwaSteady(reading.value)
  BY DEF SteadyIs
<1>2. reading \in Readings /\ reading.basis = "steady"
  BY DEF Steady
<1>3. started
  BY <1>2, ReadingsAre
<1>4. ASSUME profile = "apple"
      PROVE  AppleSteady(reading.value) /\ reading.value \in Int
  <2>1. PICK a \in BOOLEAN : reading \in AppleReadings(a)
    BY <1>2, <1>4, ReadingsAre
  <2>2. clock.sample # None /\ ticks >= clock.sample.uptime
    BY <1>2, <1>4, <2>1, AppleReads
  <2>3. AppleSteady(reading.value)
    BY <1>4, <2>1, <2>2, AppleReads DEF AppleSteady
  <2>4. clock.last \in Nat
    BY <1>4, ClockIs DEF AppleClocks
  <2>5. reading.value \in Int
    BY <2>3, <2>4 DEF AppleSteady
  <2> QED
    BY <2>3, <2>5
<1>5. ASSUME profile = "android"
      PROVE  AndroidSteady(reading.value) /\ reading.value \in Int
  <2>1. reading \in AndroidReadings
    BY <1>2, <1>5, ReadingsAre
  <2>2. AndroidFreshTime(reading) \/ AndroidAnchorTime(reading) \/ AndroidPointTime(reading)
    BY <1>2, <1>3, <1>5, <2>1, AndroidReads
    DEF AndroidLocalTime, AndroidWallTime, Anchoring, Reading
  <2>3. reading.value \in Int
    BY <1>3, <1>5, <2>1, AndroidReads
  <2> QED
    BY <2>2, <2>3 DEF AndroidFreshTime, AndroidAnchorTime, AndroidPointTime, Anchoring, Reading,
                AndroidSteady
<1>6. ASSUME profile = "desktop"
      PROVE  DesktopSteady(reading.value) /\ reading.value \in Int
  <2>1. PICK m \in Modes : reading \in DesktopReadings(m)
    BY <1>2, <1>6, ReadingsAre
  <2>2. DesktopSteady(reading.value)
    BY <1>2, <2>1, DesktopReads DEF DesktopSteady
  <2>3. Projected(clock.sample) \in Int
    BY <1>6, <2>2, ClockIs DEF DesktopSteady, DesktopClocks, DesktopSamples, Projected, TypeOK
  <2> QED
    BY <2>2, <2>3 DEF DesktopSteady
<1>7. ASSUME profile = "pwa"
      PROVE  PwaSteady(reading.value) /\ reading.value \in Int
  <2>1. PICK m \in BOOLEAN : reading \in PwaReadings(m)
    BY <1>2, <1>7, ReadingsAre
  <2> QED
    BY <1>2, <1>7, <2>1, PwaReads DEF PwaSteady
<1> QED
  BY <1>3, <1>4, <1>5, <1>6, <1>7, ClockIs

\* What a step that is neither a reboot nor a response leaves of the clocks.
LEMMA CountedOn ==
  ASSUME IInv, Next, boot' = boot
  PROVE  /\ profile' = profile /\ ticks \in Nat
         /\ \E counted \in Nat : ticks' = ticks + counted
         /\ DeviceStep => (clock' = clock /\ started' = started)
                          \/ (clock' = Reopened(clock) /\ started' = (profile \notin Restores))
         /\ QuietStep => ticks' = ticks
<1>1. ticks \in Nat /\ boot \in Nat
  BY DEF IInv, TypeOK
<1>2. CASE DeviceStep
  <2>1. PICK later \in Nat, counted \in Nat : DeviceMoves(later, counted)
    BY <1>2, DeviceStepMoves DEF IInv
  <2>2. ticks' = ticks + counted
    BY <1>1, <2>1 DEF DeviceMoves
  <2>3. /\ profile' = profile
        /\ (clock' = clock /\ started' = started)
           \/ (clock' = Reopened(clock) /\ started' = (profile \notin Restores))
    BY <2>1 DEF DeviceMoves, LivesOn, Ends
  <2>4. QuietStep => ticks' = ticks
    BY QuietKeepsDevice
  <2> QED
    BY <1>1, <2>2, <2>3, <2>4
<1>3. CASE QuietStep /\ ~ DeviceStep
  <2>1. profile' = profile /\ ticks' = ticks
    BY <1>3, QuietKeepsDevice
  <2>2. ticks' = ticks + 0
    BY <1>1, <2>1
  <2> QED
    BY <1>1, <1>3, <2>1, <2>2
<1> QED
  BY <1>2, <1>3, Kinds

\* The pace of two times: the later one is the earlier one and what the
\* monotonic clock counted, or the lower bound.
Pace(before, after) ==
  /\ after >= before
  /\ after <= Greater(before + ticks' - ticks, Floor(clock)')

LEMMA SamePace ==
  ASSUME NEW before \in Int, NEW after \in Int, NEW counted \in Nat,
         ticks \in Nat, ticks' = ticks + counted, Floor(clock)' \in Int,
         after >= before,
         after <= before + counted \/ after <= Floor(clock)'
  PROVE  Pace(before, after)
<1>1. before + ticks' - ticks = before + counted
  OBVIOUS
<1>2. PICK floor \in Int : floor = Floor(clock)'
  OBVIOUS
<1>3. after <= Greater(before + counted, floor)
  BY <1>2 DEF Greater
<1> QED
  BY <1>1, <1>2, <1>3 DEF Pace

\* On Apple a read may raise the last emission, never the sample.
LEMMA ApplePaces ==
  ASSUME IInv, IInv', Next, boot' = boot, ~ Receive, profile = "apple", profile' = profile,
         Floor(clock)' \in Int, Floor(clock)' = clock'.last + 1,
         NEW before \in Int, NEW after \in Int, AppleSteady(before), AppleSteady(after)'
  PROVE  Pace(before, after)
<1>1. PICK counted \in Nat : ticks' = ticks + counted
  BY CountedOn
<1>2. clock \in AppleClocks /\ clock'.sample = clock.sample /\ clock'.last \in Nat
      /\ clock'.last >= clock.last
  <2>1. clock \in AppleClocks
    BY ClockIs DEF IInv
  <2>2. CASE DeviceStep
    <3>1. Reopened(clock) = clock
      BY DEF Reopened
    <3> QED
      BY <2>1, <2>2, <3>1, CountedOn DEF AppleClocks
  <2>3. CASE Send \/ Serve \/ Lose
    BY <2>1, <2>3 DEF Send, Serve, Lose, AppleClocks
  <2>4. CASE Read
    BY <2>1, <2>4, AppleReadKeeps DEF IInv, AppleClocks
  <2> QED
    BY <2>2, <2>3, <2>4, Kinds
    DEF QuietStep, Restore, RestoreAndroid, RestoreDesktop, ReceiveLater, Install, HasFresh
<1> DEFINE s == clock.sample
<1>3. /\ s # None /\ s.anchor \in Nat /\ s.uptime \in Nat /\ ticks \in Nat
      /\ clock.last \in Nat
  BY <1>2, CountedOn DEF AppleSteady, AppleClocks
<1>4. PICK candidate \in Int : candidate = s.anchor + ticks - s.uptime
  BY <1>3
<1>5. PICK candidate2 \in Int : /\ candidate2 = s.anchor + ticks' - s.uptime
                               /\ candidate2 = candidate + counted
  BY <1>1, <1>3, <1>4
<1>6. \/ before = candidate /\ (clock.last > 0 => candidate > clock.last)
      \/ before = clock.last + 1 /\ clock.last > 0 /\ clock.last >= candidate
  BY <1>4 DEF AppleSteady
<1>7. PICK last \in Nat : last = clock'.last /\ last >= clock.last
  BY <1>2
<1>8. \/ after = candidate2 /\ (last > 0 => candidate2 > last)
      \/ after = last + 1 /\ last > 0 /\ last >= candidate2
  BY <1>2, <1>5, <1>7 DEF AppleSteady
<1>9. after >= before
  BY <1>3, <1>5, <1>6, <1>7, <1>8
<1>10. after <= before + counted \/ after <= last + 1
  BY <1>3, <1>5, <1>6, <1>8
<1> QED
  BY <1>1, <1>3, <1>7, <1>9, <1>10, SamePace

\* On the desktop a time is projected from one sample.
LEMMA DesktopPaces ==
  ASSUME IInv, IInv', Next, boot' = boot, ~ Receive, profile = "desktop", started, started',
         Floor(clock)' \in Int,
         NEW before \in Int, NEW after \in Int, DesktopSteady(before), DesktopSteady(after)'
  PROVE  Pace(before, after)
<1>1. PICK counted \in Nat : ticks' = ticks + counted
  BY CountedOn
<1>2. clock \in DesktopClocks
  BY ClockIs DEF IInv
<1>3. clock'.sample = clock.sample
  <2>1. CASE DeviceStep
    <3>1. Reopened(clock) = [clock EXCEPT !.anchor = None]
      BY DEF Reopened
    <3> QED
      BY <1>2, <2>1, <3>1, CountedOn DEF DesktopClocks
  <2>2. CASE Send \/ Serve \/ Lose
    BY <2>2 DEF Send, Serve, Lose
  <2>3. CASE Read
    <3>1. PICK reading \in Readings, retain \in BOOLEAN :
            clock' = IF retain THEN Retained(reading.next, reading.value) ELSE reading.next
      BY <2>3 DEF Read
    <3>2. clock' = reading.next
      BY <3>1 DEF Retained
    <3>3. PICK m \in Modes : reading \in DesktopReadings(m)
      BY <3>1, ReadingsAre
    <3> QED
      BY <1>2, <3>2, <3>3, DesktopReads DEF DesktopClocks
  <2> QED
    BY <2>1, <2>2, <2>3, Kinds DEF QuietStep, Restore, ReceiveLater, Install, HasFresh
<1> DEFINE s == clock.sample
<1>4. /\ s # None /\ s.trusted \in Nat /\ s.ticks \in Nat /\ ticks \in Nat
  BY <1>2, CountedOn DEF DesktopSteady, DesktopClocks, DesktopSamples
<1>5. before = s.trusted + ticks - s.ticks /\ after = s.trusted + ticks' - s.ticks
  BY <1>3 DEF DesktopSteady, Projected
<1>6. after = before + counted
  BY <1>1, <1>4, <1>5
<1> QED
  BY <1>1, <1>4, <1>6, SamePace

\* On the PWA a runtime stays until the process ends.
LEMMA PwaPaces ==
  ASSUME IInv, IInv', Next, boot' = boot, ~ Receive, profile = "pwa",
         Floor(clock)' \in Int, Floor(clock)' = clock'.minimum,
         NEW before \in Int, NEW after \in Int, PwaSteady(before), PwaSteady(after)'
  PROVE  Pace(before, after)
<1>1. PICK counted \in Nat : ticks' = ticks + counted
  BY CountedOn
<1>2. /\ clock \in PwaClocks /\ clock.minimum \in Nat
  BY ClockIs DEF IInv, PwaClocks
<1>3. /\ clock'.runtime = clock.runtime /\ clock'.minimum \in Nat
      /\ clock'.minimum >= clock.minimum
  <2>1. CASE DeviceStep
    <3>1. Reopened(clock) = [clock EXCEPT !.runtime = None]
      BY DEF Reopened
    <3>2. clock' = clock
      BY <1>2, <2>1, <3>1, CountedOn DEF PwaClocks, PwaSteady
    <3> QED
      BY <1>2, <3>2
  <2>2. CASE Send \/ Serve \/ Lose
    BY <1>2, <2>2 DEF Send, Serve, Lose
  <2>3. CASE Read
    <3>1. PICK reading \in Readings, retain \in BOOLEAN :
            clock' = IF retain THEN Retained(reading.next, reading.value) ELSE reading.next
      BY <2>3 DEF Read
    <3>2. Retained(reading.next, reading.value)
            = [reading.next EXCEPT !.minimum = Greater(@, reading.value)]
      BY DEF Retained
    <3>3. PICK m \in BOOLEAN : reading \in PwaReadings(m)
      BY <3>1, ReadingsAre
    <3>4. /\ reading.value \in Nat /\ reading.next = clock
      BY <3>3, PwaReads DEF IInv, PwaSteady
    <3> QED
      BY <1>2, <3>1, <3>2, <3>4 DEF PwaClocks, Greater
  <2> QED
    BY <2>1, <2>2, <2>3, Kinds
    DEF QuietStep, Restore, RestoreAndroid, RestoreDesktop, ReceiveLater, Install, HasFresh
<1> DEFINE r == clock.runtime
<1>4. r # None /\ r.wall \in Nat /\ r.ticks \in Nat /\ ticks \in Nat
  BY <1>2, CountedOn DEF PwaSteady, PwaClocks
<1>5. PICK steady \in Int : steady = r.wall + ticks - r.ticks
  BY <1>4
<1>6. r.wall + ticks' - r.ticks = steady + counted
  BY <1>1, <1>4, <1>5
<1>7. PICK minimum \in Nat : minimum = clock'.minimum /\ minimum >= clock.minimum
  BY <1>3
<1>8. before = Greater(steady, clock.minimum)
  BY <1>5 DEF PwaSteady
<1>9. after = Greater(steady + counted, minimum)
  BY <1>3, <1>6, <1>7 DEF PwaSteady
<1>10. after >= before /\ (after <= before + counted \/ after <= minimum)
  BY <1>2, <1>7, <1>8, <1>9 DEF Greater
<1> QED
  BY <1>1, <1>4, <1>7, <1>10, SamePace

\* On Android a time may come to rest on something else: on the sample that a
\* second response moved along, on the point that is saved of it, on an anchor.
LEMMA AndroidPaces ==
  ASSUME IInv, IInv', Next, boot' = boot, ~ Receive, profile = "android",
         profile' = profile, started, started', Floor(clock)' \in Int,
         NEW before \in Int, NEW after \in Int, AndroidSteady(before), AndroidSteady(after)'
  PROVE  Pace(before, after)
<1> DEFINE s == clock.saved
           a == clock.anchor
           r == clock.request
<1>1. PICK counted \in Nat : ticks' = ticks + counted
  BY CountedOn
<1>2. /\ clock \in AndroidClocks /\ ticks \in Nat
      /\ s # None => s.offset \in Int
      /\ s # None /\ s.point # None => s.point.physical \in Nat /\ s.point.elapsed \in Nat
      /\ a # None => a.server \in Nat /\ a.elapsed \in Nat
      /\ r # None => r.server \in Nat /\ r.elapsed \in Nat
  BY AndroidTypes DEF IInv
<1>3. ASSUME UNCHANGED <<clock.saved, clock.anchor, clock.request>>
      PROVE  after = before + counted
  <2>1. CASE r # None
    <3>1. before = r.server + ticks - r.elapsed /\ after = r.server + ticks' - r.elapsed
      BY <1>3, <2>1 DEF AndroidSteady
    <3> QED
      BY <1>1, <1>2, <2>1, <3>1
  <2>2. CASE r = None /\ a # None
    <3>1. before = a.server + ticks - a.elapsed /\ after = a.server + ticks' - a.elapsed
      BY <1>3, <2>2 DEF AndroidSteady
    <3> QED
      BY <1>1, <1>2, <2>2, <3>1
  <2>3. CASE r = None /\ a = None
    <3>1. /\ s # None /\ s.point # None
          /\ before = s.point.physical + s.offset + ticks - s.point.elapsed
          /\ after = s.point.physical + s.offset + ticks' - s.point.elapsed
      BY <1>3, <2>3 DEF AndroidSteady
    <3> QED
      BY <1>1, <1>2, <3>1
  <2> QED
    BY <2>1, <2>2, <2>3
<1>4. ASSUME QuietStep, after = before
      PROVE  after = before + counted
  <2>1. ticks' = ticks
    BY <1>4, CountedOn
  <2>2. counted = 0
    BY <1>1, <1>2, <2>1
  <2> QED
    BY <1>4, <2>2
<1>5. SUFFICES after = before + counted
  BY <1>1, <1>2, SamePace
<1>6. CASE DeviceStep
  BY <1>3, <1>6, CountedOn DEF Restores
<1>7. CASE Send \/ Serve \/ Lose
  BY <1>3, <1>7 DEF Send, Serve, Lose
<1>8. CASE ReceiveLater
  <2>1. /\ r # None /\ ticks' = ticks /\ clock' = [clock EXCEPT !.request = AndroidAdvance]
    BY <1>8, CountedOn DEF ReceiveLater, HasFresh, QuietStep
  <2>2. clock'.request # None
    BY <1>8, AndroidReceives DEF IInv
  <2>3. clock'.request = AndroidAdvance
    BY <1>2, <2>1 DEF AndroidClocks
  <2>4. PICK advanced \in Int : advanced = r.server + ticks - r.elapsed
    BY <1>2, <2>1
  <2>5. clock'.request.server = advanced /\ clock'.request.elapsed = ticks
    BY <2>3, <2>4 DEF AndroidAdvance
  <2>6. before = advanced
    BY <2>1, <2>4 DEF AndroidSteady
  <2>7. after = advanced + ticks - ticks
    BY <2>1, <2>2, <2>5 DEF AndroidSteady
  <2>8. after = before
    BY <1>2, <2>6, <2>7
  <2> QED
    BY <1>4, <1>8, <2>8 DEF QuietStep
<1>9. CASE Install
  <2> DEFINE saved == [offset |-> r.offset, uncertainty |-> r.uncertainty,
                       point |-> [physical |-> r.physical, elapsed |-> r.elapsed],
                       boot |-> boot]
  <2>1. /\ r # None /\ ticks' = ticks
        /\ clock' = [clock EXCEPT !.saved = saved, !.anchor = None, !.request = None]
    BY <1>9, CountedOn DEF Install, HasFresh, QuietStep
  <2>2. clock'.saved = saved /\ clock'.anchor = None /\ clock'.request = None
    BY <1>2, <2>1 DEF AndroidClocks
  <2>3. /\ r.physical + r.offset = r.server
        /\ r.physical \in Nat /\ r.offset \in Int
    BY <2>1, AndroidTypes DEF IInv, AndroidInv, AndroidFresh
  <2>4. before = r.server + ticks - r.elapsed
    BY <2>1 DEF AndroidSteady
  <2>5. after = r.physical + r.offset + ticks - r.elapsed
    BY <2>1, <2>2 DEF AndroidSteady
  <2>6. after = before
    BY <1>2, <2>1, <2>3, <2>4, <2>5
  <2> QED
    BY <1>4, <1>9, <2>6 DEF QuietStep
<1>10. CASE Read
  <2>1. PICK reading \in Readings, retain \in BOOLEAN :
          clock' = IF retain THEN Retained(reading.next, reading.value) ELSE reading.next
    BY <1>10 DEF Read
  <2>2. /\ reading \in AndroidReadings
        /\ reading.value \in Nat
        /\ \/ AndroidFreshTime(reading) \/ AndroidAnchorTime(reading)
           \/ AndroidLocalTime(reading) \/ AndroidPointTime(reading)
           \/ AndroidWallTime(reading)
    BY ReadingsAre, AndroidReads DEF IInv
  <2>3. Retained(reading.next, reading.value)
          = [reading.next EXCEPT !.retained = Greater(@, reading.value)]
    BY DEF Retained
  <2>4. CASE AndroidFreshTime(reading) \/ AndroidAnchorTime(reading) \/ AndroidLocalTime(reading)
    <3>1. reading.next = clock
      BY <2>4 DEF AndroidFreshTime, AndroidAnchorTime, AndroidLocalTime, Reading
    <3>2. UNCHANGED <<clock.saved, clock.anchor, clock.request>>
      BY <1>2, <2>1, <2>3, <3>1 DEF AndroidClocks
    <3> QED
      BY <1>3, <3>2
  <2>5. CASE AndroidPointTime(reading)
    <3>1. /\ r = None /\ a = None /\ s # None /\ s.point # None
          /\ reading.value = s.point.physical + s.offset + ticks - s.point.elapsed
          /\ reading.next = [clock EXCEPT !.anchor = [server |-> reading.value, elapsed |-> ticks]]
      BY <2>5 DEF AndroidPointTime, Anchoring, Reading
    <3>2. /\ clock'.request = None /\ clock'.saved = s
          /\ clock'.anchor = [server |-> reading.value, elapsed |-> ticks]
      BY <1>2, <2>1, <2>3, <3>1 DEF AndroidClocks
    <3>3. before = reading.value
      BY <3>1 DEF AndroidSteady
    <3>4. ticks' = ticks
      BY <1>10, CountedOn DEF QuietStep
    <3>5. \/ after = reading.value + ticks - ticks
          \/ after = s.point.physical + s.offset + ticks - s.point.elapsed
      BY <3>2, <3>4 DEF AndroidSteady
    <3>6. after = before
      BY <1>2, <2>2, <3>1, <3>3, <3>5
    <3> QED
      BY <1>4, <1>10, <3>6 DEF QuietStep
  <2>6. CASE AndroidWallTime(reading)
    BY <2>6 DEF AndroidWallTime, AndroidSteady
  <2> QED
    BY <2>2, <2>4, <2>5, <2>6
<1> QED
  BY <1>6, <1>7, <1>8, <1>9, <1>10, Kinds DEF QuietStep, Restore

\* What the pace of two readings needs to know of each of their states.
SteadyFacts ==
  /\ IInv /\ SteadyIs
  /\ profile \in {"apple", "android", "desktop", "pwa"}
  /\ Floor(clock) \in Int
  /\ profile = "apple" => Floor(clock) = clock.last + 1
  /\ profile = "pwa" => Floor(clock) = clock.minimum

(* As long as the device is not rebooted and no response replaces the      *)
(* sample, what a client reads of its monotonic clock passes as that clock *)
(* does, and no faster but for the client's own lower bound: no restart,   *)
(* edit of the wall clock, second response or saving of the sample shows   *)
(* (current of each profile; advance of Android).                          *)
THEOREM SteadyPaceHolds == Spec => SteadyPace
<1>1. IInv => SteadyFacts
  BY SteadyIsSo, FloorIs, ClockIs DEF SteadyFacts, IInv
<1>2. ASSUME SteadyFacts, SteadyFacts', Next, boot' = boot, ~ Receive
      PROVE  Paced
  <2>1. profile' = profile
    BY <1>2, CountedOn DEF SteadyFacts
  <2>2. SUFFICES ASSUME NEW before \in Steady, NEW after \in Steady'
                 PROVE  Pace(before.value, after.value)
    BY DEF Paced, Pace
  <2>3. /\ started /\ before.value \in Int
        /\ profile = "apple" => AppleSteady(before.value)
        /\ profile = "android" => AndroidSteady(before.value)
        /\ profile = "desktop" => DesktopSteady(before.value)
        /\ profile = "pwa" => PwaSteady(before.value)
    BY <1>2, <2>2 DEF SteadyFacts, SteadyIs
  <2>4. /\ started' /\ after.value \in Int
        /\ profile = "apple" => AppleSteady(after.value)'
        /\ profile = "android" => AndroidSteady(after.value)'
        /\ profile = "desktop" => DesktopSteady(after.value)'
        /\ profile = "pwa" => PwaSteady(after.value)'
    BY <1>2, <2>1, <2>2 DEF SteadyFacts, SteadyIs
  <2>5. /\ IInv /\ IInv' /\ profile \in {"apple", "android", "desktop", "pwa"}
        /\ Floor(clock)' \in Int
        /\ profile = "apple" => Floor(clock)' = clock'.last + 1
        /\ profile = "pwa" => Floor(clock)' = clock'.minimum
    BY <1>2, <2>1 DEF SteadyFacts
  <2>6. CASE profile = "apple"
    BY <1>2, <2>1, <2>3, <2>4, <2>5, <2>6, ApplePaces
  <2>7. CASE profile = "android"
    BY <1>2, <2>1, <2>3, <2>4, <2>5, <2>7, AndroidPaces
  <2>8. CASE profile = "desktop"
    BY <1>2, <2>1, <2>3, <2>4, <2>5, <2>8, DesktopPaces
  <2>9. CASE profile = "pwa"
    BY <1>2, <2>1, <2>3, <2>4, <2>5, <2>9, PwaPaces
  <2> QED
    BY <2>5, <2>6, <2>7, <2>8, <2>9
<1>3. SteadyFacts /\ SteadyFacts' /\ [Next]_vars => [boot' = boot /\ ~ Receive => Paced]_vars
  BY <1>2
<1> QED
  BY <1>1, <1>3, Inductive, PTL DEF Spec, SteadyPace
=============================================================================
