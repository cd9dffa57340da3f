--------------------------- MODULE PgStreamingProofs ---------------------------
(***************************************************************************)
(* Theorems about the PostgreSQL source (PgStreaming): what its checkpoint *)
(* covers, and that no start leaves a row out, for every log whose         *)
(* transactions lie one after the other.  First come lemmas about          *)
(* positions in such a log: how they are ordered, what lies at or before   *)
(* one, and what the server sends for a record.  There, w is a log, n how  *)
(* much of it is written, l an LSN, s a setup.                             *)
(***************************************************************************)
EXTENDS PgStreaming, FiniteSetTheorems, TLAPS

-----------------------------------------------------------------------------
(* The logs and the configurations.                                         *)

\* Transactions do not overlap, end once, and share no LSN; a record begins where the
\* end of the one before it is, or later, and a row behind the end of a transaction
\* strictly later (next_serial counts on from a commit that ends at the LSN of the next
\* row, and does not on replay).
Apart(w) ==
    /\ \A i \in DOMAIN w : w[i].xid = 0 <=> w[i].kind = "message"
    /\ \A i, j \in DOMAIN w : i < j =>
        /\ w[i].kind # "change" => w[i].end <= w[j].lsn /\ (w[j].kind = "change" => w[i].end < w[j].lsn)
        /\ w[i].kind \in {"commit", "abort"} => w[j].xid # w[i].xid
        /\ w[i].kind = "change" /\ w[j].kind = "change" /\ w[i].lsn = w[j].lsn => w[i].xid = w[j].xid
        /\ w[i].kind = "change" /\ w[i].xid = w[j].xid => \A k \in i .. j : w[k].xid = w[i].xid

Serially(w) == IsWal(w) /\ Apart(w)

\* Transactions are sent when they commit, no recovery snapshots, no driver feedback.
Ordinary(s) ==
    /\ Apart(s.wal) /\ s.streamed = {}
    /\ s.mode \in {"Initial", "Never"} /\ s.flush \in {"Connector", "Manual"}

-----------------------------------------------------------------------------
(* Records of the log and their positions.                                  *)

\* The LSN a record's event is placed at, and the serial it has there.
Place(w, i) == IF w[i].kind = "change" THEN w[i].lsn ELSE w[i].end

Twins(w, i) == {k \in 1 .. i : w[k].kind = "change" /\ w[k].lsn = w[i].lsn}

Nth(w, i) == IF w[i].kind = "change" THEN Cardinality(Twins(w, i)) ELSE 1

Positions == [lsn : Nat, commit : Nat, xid : Nat, serial : Nat, snap : BOOLEAN]

PositionOf(w, i) ==
    [lsn |-> Place(w, i), commit |-> IF w[i].kind = "change" THEN 0 ELSE Place(w, i),
     xid |-> w[i].xid, serial |-> Nth(w, i), snap |-> FALSE]

\* Record u is the one whose decoding sends the event of record i.
Unit(w, i, u) ==
    /\ i \in DOMAIN w /\ u \in DOMAIN w
    /\ \/ w[i].kind \in {"message", "commit"} /\ u = i
       \/ w[i].kind = "change" /\ w[u].kind = "commit" /\ w[u].xid = w[i].xid

\* A row or message that is to be delivered when the slot was created at l: what was
\* written before is if a snapshot reads it.
Due(s, l, i) ==
    /\ s.wal[i].kind # "commit"
    /\ \E u \in DOMAIN s.wal :
        /\ Unit(s.wal, i, u)
        /\ l <= s.wal[u].lsn \/ (s.wal[i].kind = "change" /\ s.mode # "Never")

\* The LSN behind the first k records, which no transaction is open at.
Closed(w, k) == k = 0 \/ w[k].kind # "change"
Edge(w, k) == IF k = 0 THEN 1 ELSE w[k].end

\* The positions of snapshots and of starts, which belong to no record.
Start(p) == p.commit = p.lsn /\ (p.snap \/ p.serial = 0)

\* Position p has the first k records at or before it.
At(w, k, p) ==
    \/ k \in DOMAIN w /\ p = PositionOf(w, k)
    \/ k \in 0 .. Len(w) /\ Closed(w, k) /\ p \in Positions /\ Start(p) /\ p.lsn = Edge(w, k)

Reached(w, n, p) == \E k \in 0 .. n : At(w, k, p)

Below(w, i, p) == \E k \in 0 .. Len(w) : At(w, k, p) /\ i <= k

\* What is due up to position p is in S.
Covered(s, l, p, S) == \A i \in DOMAIN s.wal : Due(s, l, i) /\ Below(s.wal, i, p) => i \in S

\* What the server sends of transactions that have committed.
Events == [kind : {"Begin", "Change", "Commit", "Message"}, i : Nat]

-----------------------------------------------------------------------------
(* The order of positions.                                                  *)

\* Any two positions are ordered one way, unless they agree in LSN, kind and serial.
LEMMA OrderFacts ==
    /\ \A p \in Positions : ~IsAfter(p, p)
    /\ \A p, q \in Positions : IsAfter(p, q) => ~IsAfter(q, p) /\ q.lsn <= p.lsn
    /\ \A p, q, r \in Positions : IsAfter(p, q) /\ IsAfter(q, r) => IsAfter(p, r)
    /\ \A p, q, r \in Positions : IsAtOrBefore(p, q) /\ IsAtOrBefore(q, r) => IsAtOrBefore(p, r)
    /\ \A p, q, r \in Positions : IsAtOrBefore(p, q) /\ IsAfter(r, q) => IsAfter(r, p)
    /\ \A p, q \in Positions : IsAtOrBefore(p, q) => p.lsn <= q.lsn
BY DEF IsAfter, IsAtOrBefore, Positions

-----------------------------------------------------------------------------
(* The log (lemmas).                                                        *)

\* The records of a log and their fields.
LEMMA LogRecords ==
    ASSUME NEW w, IsWal(w), NEW i \in DOMAIN w
    PROVE  /\ i \in Nat /\ i >= 1 /\ Len(w) \in Nat /\ i <= Len(w) /\ DOMAIN w = 1 .. Len(w)
           /\ w[i].kind \in WalKinds /\ w[i].lsn \in Nat /\ w[i].lsn >= 1
           /\ w[i].end \in Nat /\ w[i].xid \in Nat /\ w[i].lsn < w[i].end
           /\ \A j \in DOMAIN w : i < j => w[i].lsn <= w[j].lsn
<1>1. w \in Seq(WalRecord) /\ w[i] \in WalRecord
  BY DEF IsWal
<1>2. i \in Nat /\ i >= 1 /\ Len(w) \in Nat /\ i <= Len(w) /\ DOMAIN w = 1 .. Len(w)
  BY <1>1
<1>3. w[i].kind \in WalKinds /\ w[i].lsn \in Nat /\ w[i].lsn >= 1 /\ w[i].end \in Nat /\ w[i].xid \in Nat
  BY <1>1 DEF WalRecord
<1>4. w[i].lsn < w[i].end /\ \A j \in DOMAIN w : i < j => w[i].lsn <= w[j].lsn
  BY DEF IsWal
<1> QED BY <1>2, <1>3, <1>4

\* The number of changes at an LSN up to a record.
LEMMA TwinFacts ==
    ASSUME NEW w, IsWal(w), NEW i \in DOMAIN w
    PROVE  /\ Nth(w, i) \in Nat /\ Nth(w, i) >= 1
           /\ \A j \in DOMAIN w :
                i < j /\ w[i].lsn = w[j].lsn /\ w[i].kind = "change" /\ w[j].kind = "change" => Nth(w, i) < Nth(w, j)
<1>0. i \in Nat /\ i >= 1
  BY LogRecords
<1>1. ASSUME NEW k \in DOMAIN w
      PROVE  IsFiniteSet(Twins(w, k)) /\ Cardinality(Twins(w, k)) \in Nat
  <2>1. k \in Nat
    BY LogRecords
  <2>2. Twins(w, k) \in SUBSET (1 .. k) /\ IsFiniteSet(1 .. k)
    BY <2>1, FS_Interval DEF Twins
  <2>3. IsFiniteSet(Twins(w, k))
    BY <2>2, FS_Subset
  <2> QED BY <2>3, FS_CardinalityType
<1>2. ASSUME w[i].kind = "change" PROVE Cardinality(Twins(w, i)) >= 1
  <2>1. i \in Twins(w, i)
    BY <1>2, <1>0 DEF Twins
  <2>2. Cardinality(Twins(w, i)) # 0
    BY <2>1, <1>1, FS_EmptySet
  <2> QED BY <2>2, <1>1
<1>3. ASSUME NEW j \in DOMAIN w, i < j, w[i].lsn = w[j].lsn, w[i].kind = "change", w[j].kind = "change"
      PROVE  Cardinality(Twins(w, i)) < Cardinality(Twins(w, j))
  <2>0. j \in Nat /\ j >= 1
    BY LogRecords
  <2>1. Twins(w, i) \in SUBSET Twins(w, j)
    BY <1>0, <1>3, <2>0 DEF Twins
  <2>2. j \in Twins(w, j) /\ j \notin Twins(w, i)
    BY <1>0, <1>3, <2>0 DEF Twins
  <2>3. /\ Cardinality(Twins(w, i)) <= Cardinality(Twins(w, j))
        /\ Cardinality(Twins(w, j)) = Cardinality(Twins(w, i)) => Twins(w, j) = Twins(w, i)
    BY <1>1, <2>1, FS_Subset
  <2> QED BY <2>2, <2>3, <1>1
<1>4. \A k \in DOMAIN w : w[k].kind = "change" => Nth(w, k) = Cardinality(Twins(w, k))
  BY DEF Nth
<1>5. w[i].kind # "change" => Nth(w, i) = 1
  BY DEF Nth
<1>6. Nth(w, i) \in Nat /\ Nth(w, i) >= 1
  BY <1>1, <1>2, <1>4, <1>5
<1>7. \A j \in DOMAIN w :
        i < j /\ w[i].lsn = w[j].lsn /\ w[i].kind = "change" /\ w[j].kind = "change" => Nth(w, i) < Nth(w, j)
  BY <1>3, <1>4
<1> QED BY <1>6, <1>7

\* A record next to a change in the same LSN has the next serial there; the first change at
\* its LSN has serial 1.
LEMMA NextTwin ==
    ASSUME NEW w, IsWal(w), NEW i \in DOMAIN w, i + 1 \in DOMAIN w,
           w[i].kind = "change", w[i + 1].kind = "change"
    PROVE  Nth(w, i + 1) = IF w[i].lsn = w[i + 1].lsn THEN Nth(w, i) + 1 ELSE 1
<1>0. i \in Nat /\ i >= 1 /\ \A k \in 1 .. i : k \in DOMAIN w
  BY LogRecords
<1>1. Nth(w, i) = Cardinality(Twins(w, i)) /\ Nth(w, i + 1) = Cardinality(Twins(w, i + 1))
  BY DEF Nth
<1>2. IsFiniteSet(Twins(w, i)) /\ Cardinality(Twins(w, i)) \in Nat
  <2>1. Twins(w, i) \in SUBSET (1 .. i) /\ IsFiniteSet(1 .. i)
    BY <1>0, FS_Interval DEF Twins
  <2> QED BY <2>1, FS_Subset, FS_CardinalityType
<1>3. CASE w[i].lsn = w[i + 1].lsn
  <2>1. Twins(w, i + 1) = Twins(w, i) \cup {i + 1}
    BY <1>0, <1>3 DEF Twins
  <2>2. i + 1 \notin Twins(w, i)
    BY <1>0 DEF Twins
  <2>3. Cardinality(Twins(w, i) \cup {i + 1}) = Cardinality(Twins(w, i)) + 1
    BY <1>2, <2>2, FS_AddElement
  <2> QED BY <1>1, <1>3, <2>1, <2>3
<1>4. CASE w[i].lsn # w[i + 1].lsn
  <2>1. ASSUME NEW k \in 1 .. i PROVE w[k].lsn # w[i + 1].lsn
    <3>1. /\ k \in DOMAIN w /\ k < i + 1 /\ w[k].lsn \in Nat /\ w[i].lsn \in Nat /\ w[i + 1].lsn \in Nat
          /\ w[k].lsn <= w[i].lsn /\ w[i].lsn <= w[i + 1].lsn
      <4>1. k \in DOMAIN w /\ k \in Nat /\ k <= i
        BY <1>0, <2>1
      <4>2. w[i].lsn <= w[i + 1].lsn /\ w[i].lsn \in Nat /\ w[i + 1].lsn \in Nat
        BY <1>0, LogRecords
      <4>3. w[k].lsn \in Nat /\ (k < i => w[k].lsn <= w[i].lsn)
        BY <4>1, LogRecords
      <4> QED BY <1>0, <4>1, <4>2, <4>3
    <3> QED BY <3>1, <1>4
  <2>2. Twins(w, i + 1) = {i + 1}
    BY <1>0, <2>1 DEF Twins
  <2> QED BY <1>1, <1>4, <2>2, FS_Singleton
<1> QED BY <1>3, <1>4

\* A change that no change before it shares the LSN with has serial 1 there.
LEMMA FirstTwin ==
    ASSUME NEW w, IsWal(w), NEW i \in DOMAIN w, w[i].kind = "change",
           \A k \in DOMAIN w : k < i /\ w[k].kind = "change" => w[k].lsn # w[i].lsn
    PROVE  Nth(w, i) = 1
<1>1. i \in Nat /\ i >= 1 /\ \A k \in 1 .. i : k \in DOMAIN w
  BY LogRecords
<1>2. Twins(w, i) = {i}
  BY <1>1 DEF Twins
<1> QED BY <1>2, FS_Singleton DEF Nth

\* The positions of records are positions, and ordered as the records.
LEMMA PlaceFacts ==
    ASSUME NEW w, Serially(w), NEW i \in DOMAIN w
    PROVE  /\ Place(w, i) \in Nat /\ Place(w, i) >= 1 /\ w[i].lsn <= Place(w, i)
           /\ PositionOf(w, i) \in Positions /\ ~Start(PositionOf(w, i))
           /\ PositionOf(w, i).lsn = Place(w, i)
           /\ \A j \in DOMAIN w : i < j => /\ Place(w, i) <= w[j].lsn
                                           /\ Place(w, i) < Place(w, j) \/ (/\ Place(w, i) = Place(w, j)
                                                                           /\ w[i].kind = "change" /\ w[j].kind = "change"
                                                                           /\ w[i].xid = w[j].xid
                                                                           /\ w[i].lsn = w[j].lsn /\ Nth(w, i) < Nth(w, j))
<1>0. IsWal(w) /\ Apart(w)
  BY DEF Serially
<1>1. /\ w[i].lsn \in Nat /\ w[i].end \in Nat /\ w[i].lsn >= 1 /\ w[i].lsn < w[i].end /\ w[i].xid \in Nat
      /\ Nth(w, i) \in Nat /\ Nth(w, i) >= 1
  BY <1>0, LogRecords, TwinFacts
<1>2. Place(w, i) \in Nat /\ Place(w, i) >= 1 /\ w[i].lsn <= Place(w, i)
  BY <1>1 DEF Place
<1>3. PositionOf(w, i) \in Positions /\ ~Start(PositionOf(w, i)) /\ PositionOf(w, i).lsn = Place(w, i)
  BY <1>1, <1>2 DEF PositionOf, Positions, Start
<1>4. ASSUME NEW j \in DOMAIN w, i < j
      PROVE  /\ Place(w, i) <= w[j].lsn
             /\ Place(w, i) < Place(w, j) \/ (/\ Place(w, i) = Place(w, j)
                                             /\ w[i].kind = "change" /\ w[j].kind = "change"
                                             /\ w[i].xid = w[j].xid
                                             /\ w[i].lsn = w[j].lsn /\ Nth(w, i) < Nth(w, j))
  <2>1. w[j].lsn \in Nat /\ w[j].end \in Nat /\ w[j].lsn < w[j].end /\ w[i].lsn <= w[j].lsn
    BY <1>0, <1>4, LogRecords
  <2>2. /\ w[i].kind # "change" => w[i].end <= w[j].lsn /\ (w[j].kind = "change" => w[i].end < w[j].lsn)
        /\ w[i].kind = "change" /\ w[j].kind = "change" /\ w[i].lsn = w[j].lsn => w[i].xid = w[j].xid
    BY <1>0, <1>4 DEF Apart
  <2>3. w[i].lsn = w[j].lsn /\ w[i].kind = "change" /\ w[j].kind = "change" => Nth(w, i) < Nth(w, j)
    BY <1>0, <1>4, TwinFacts
  <2> QED BY <1>1, <2>1, <2>2, <2>3 DEF Place
<1> QED BY <1>2, <1>3, <1>4

-----------------------------------------------------------------------------
(* Positions of the log (lemmas).                                           *)

\* A position of the log is one, and the slot is acknowledged at its LSN.
LEMMA AtFacts ==
    ASSUME NEW w, Serially(w), NEW k, NEW p, At(w, k, p)
    PROVE  /\ p \in Positions /\ k \in 0 .. Len(w) /\ k \in Nat
           /\ p.lsn >= 1 /\ p # None /\ FlushLsn(p) = p.lsn
           /\ k \in DOMAIN w => p.lsn = Place(w, k)
           /\ k \notin DOMAIN w => k = 0 /\ p.lsn = 1 /\ Start(p)
           /\ k \in DOMAIN w /\ w[k].kind = "change" => p = PositionOf(w, k)
<1>1. CASE k \in DOMAIN w /\ p = PositionOf(w, k)
  <2>1. p \in Positions /\ p.lsn = Place(w, k) /\ Place(w, k) \in Nat /\ Place(w, k) >= 1
    BY <1>1, PlaceFacts
  <2>2. k \in Nat /\ k \in 0 .. Len(w)
    BY <1>1, LogRecords DEF Serially
  <2>3. p.commit = 0 \/ p.commit = p.lsn
    BY <1>1, <2>1 DEF PositionOf
  <2>4. FlushLsn(p) = p.lsn /\ p # None
    BY <2>1, <2>3 DEF FlushLsn, None
  <2> QED BY <1>1, <2>1, <2>2, <2>4
<1>2. CASE k \in 0 .. Len(w) /\ Closed(w, k) /\ p \in Positions /\ Start(p) /\ p.lsn = Edge(w, k)
  <2>0. Len(w) \in Nat /\ k \in Nat
    <3>1. w \in Seq(WalRecord)
      BY DEF Serially, IsWal
    <3> QED BY <3>1, <1>2
  <2>1. CASE k = 0
    <3>1. p.lsn = 1
      BY <1>2, <2>1 DEF Edge
    <3>2. 0 \notin DOMAIN w
      BY LogRecords DEF Serially
    <3>3. FlushLsn(p) = p.lsn /\ p # None
      BY <1>2, <3>1 DEF FlushLsn, None, Start, Positions
    <3> QED BY <1>2, <2>0, <2>1, <3>1, <3>2, <3>3
  <2>2. CASE k # 0
    <3>1. k \in DOMAIN w
      <4>1. w \in Seq(WalRecord)
        BY DEF Serially, IsWal
      <4> QED BY <4>1, <1>2, <2>0, <2>2
    <3>2. w[k].kind # "change" /\ p.lsn = w[k].end
      BY <1>2, <2>2 DEF Closed, Edge
    <3>3. p.lsn = Place(w, k) /\ Place(w, k) \in Nat /\ Place(w, k) >= 1
      BY <3>1, <3>2, PlaceFacts DEF Place
    <3>4. FlushLsn(p) = p.lsn /\ p # None
      BY <1>2, <3>3 DEF FlushLsn, None, Start, Positions
    <3> QED BY <1>2, <2>0, <3>1, <3>2, <3>3, <3>4
  <2> QED BY <2>1, <2>2
<1> QED BY <1>1, <1>2 DEF At

\* Positions are ordered as the number of records at or before them.
LEMMA AtOrder ==
    ASSUME NEW w, Serially(w), NEW k, NEW p, At(w, k, p), NEW m, NEW q, At(w, m, q), k < m
    PROVE  IsAfter(q, p)
<1>1. /\ k \in Nat /\ m \in 1 .. Len(w) /\ p \in Positions /\ q \in Positions
      /\ m \in DOMAIN w
  <2>1. k \in Nat /\ m \in Nat /\ m \in 0 .. Len(w) /\ p \in Positions /\ q \in Positions
    BY AtFacts
  <2>2. w \in Seq(WalRecord)
    BY DEF Serially, IsWal
  <2> QED BY <2>1, <2>2
<1>2. q.lsn = Place(w, m) /\ Place(w, m) \in Nat /\ w[m].lsn \in Nat /\ w[m].lsn <= Place(w, m) /\ w[m].lsn >= 1
  <2>1. q.lsn = Place(w, m)
    BY <1>1, AtFacts
  <2>2. w[m].lsn \in Nat /\ w[m].lsn >= 1
    BY <1>1, LogRecords DEF Serially
  <2> QED BY <1>1, <2>1, <2>2, PlaceFacts
<1>3. q = PositionOf(w, m) => ~q.snap /\ q.serial = Nth(w, m) /\ Nth(w, m) \in Nat /\ Nth(w, m) >= 1
  <2>1. Nth(w, m) \in Nat /\ Nth(w, m) >= 1
    BY <1>1, TwinFacts DEF Serially
  <2> QED BY <2>1 DEF PositionOf
<1>4. CASE k \in DOMAIN w
  <2>1. p.lsn = Place(w, k)
    BY <1>4, AtFacts
  <2>2. /\ Place(w, k) \in Nat
        /\ Place(w, k) < Place(w, m) \/ (/\ Place(w, k) = Place(w, m)
                                         /\ w[k].kind = "change" /\ w[m].kind = "change"
                                         /\ Nth(w, k) < Nth(w, m))
    BY <1>1, <1>4, PlaceFacts
  <2>3. CASE Place(w, k) < Place(w, m)
    BY <1>2, <2>1, <2>2, <2>3 DEF IsAfter
  <2>4. CASE Place(w, k) = Place(w, m) /\ w[k].kind = "change" /\ w[m].kind = "change" /\ Nth(w, k) < Nth(w, m)
    <3>1. p = PositionOf(w, k) /\ q = PositionOf(w, m)
      BY <1>1, <1>4, <2>4, AtFacts
    <3>2. p.snap = FALSE /\ p.serial = Nth(w, k) /\ q.snap = FALSE /\ q.serial = Nth(w, m)
      BY <3>1 DEF PositionOf
    <3>3. Nth(w, k) \in Nat /\ Nth(w, m) \in Nat
      BY <1>1, <1>4, TwinFacts DEF Serially
    <3> QED BY <1>2, <2>1, <2>4, <3>2, <3>3 DEF IsAfter
  <2> QED BY <2>2, <2>3, <2>4
<1>5. CASE k \notin DOMAIN w
  <2>1. k = 0 /\ p.lsn = 1 /\ Start(p)
    BY <1>5, AtFacts
  <2>2. CASE w[m].kind = "change"
    <3>1. q = PositionOf(w, m)
      BY <1>1, <2>2, AtFacts
    <3> QED BY <1>1, <1>2, <1>3, <2>1, <3>1 DEF IsAfter, Start, Positions
  <2>3. CASE w[m].kind # "change"
    <3>1. w[m].lsn < w[m].end /\ w[m].end \in Nat
      BY <1>1, LogRecords DEF Serially
    <3> QED BY <1>2, <2>1, <2>3, <3>1 DEF IsAfter, Place
  <2> QED BY <2>2, <2>3
<1> QED BY <1>4, <1>5

\* A position has one place in the log.
LEMMA AtOnce ==
    ASSUME NEW w, Serially(w), NEW k, NEW m, NEW p, At(w, k, p), At(w, m, p)
    PROVE  k = m
<1>1. k \in Nat /\ m \in Nat /\ p \in Positions
  BY AtFacts
<1>2. ~IsAfter(p, p)
  BY <1>1, OrderFacts
<1>3. ~(k < m) /\ ~(m < k)
  BY <1>2, AtOrder
<1> QED BY <1>1, <1>3

\* What is at or before a position, by its place.
LEMMA BelowAt ==
    ASSUME NEW w, Serially(w), NEW k, NEW p, At(w, k, p), NEW i \in DOMAIN w
    PROVE  Below(w, i, p) <=> i <= k
<1>1. k \in 0 .. Len(w)
  BY AtFacts
<1>2. ASSUME NEW m \in 0 .. Len(w), At(w, m, p), i <= m PROVE i <= k
  BY <1>2, AtOnce
<1> QED BY <1>1, <1>2 DEF Below

\* The facts about positions that the steps need, without their places.
LEMMA ReachedFacts ==
    ASSUME NEW w, Serially(w), NEW n \in 0 .. Len(w), NEW p, Reached(w, n, p)
    PROVE  /\ p \in Positions /\ p.lsn >= 1 /\ p # None /\ FlushLsn(p) = p.lsn
           /\ \A m \in n .. Len(w) : Reached(w, m, p)
           /\ \A i \in DOMAIN w : Below(w, i, p) => i <= n
           /\ \A i \in DOMAIN w : ~Below(w, i, p) => IsAfter(PositionOf(w, i), p)
           /\ \A i \in DOMAIN w : IsAtOrBefore(PositionOf(w, i), p) => Below(w, i, p)
           /\ p.lsn <= Edge(w, n)
<1>0. PICK k \in 0 .. n : At(w, k, p)
  BY DEF Reached
<1>1. p \in Positions /\ p.lsn >= 1 /\ p # None /\ FlushLsn(p) = p.lsn /\ k \in Nat /\ k \in 0 .. Len(w)
  BY <1>0, AtFacts
<1>2. Len(w) \in Nat /\ n \in Nat /\ DOMAIN w = 1 .. Len(w)
  <2>1. w \in Seq(WalRecord)
    BY DEF Serially, IsWal
  <2> QED BY <2>1
<1>3. \A m \in n .. Len(w) : Reached(w, m, p)
  BY <1>0, <1>2 DEF Reached
<1>4. ASSUME NEW i \in DOMAIN w
      PROVE  /\ Below(w, i, p) => i <= n
             /\ ~Below(w, i, p) => IsAfter(PositionOf(w, i), p)
             /\ IsAtOrBefore(PositionOf(w, i), p) => Below(w, i, p)
  <2>1. Below(w, i, p) <=> i <= k
    BY <1>0, BelowAt
  <2>2. i \in Nat /\ PositionOf(w, i) \in Positions /\ At(w, i, PositionOf(w, i))
    BY <1>2, PlaceFacts DEF At
  <2>3. k < i => IsAfter(PositionOf(w, i), p)
    BY <1>0, <2>2, AtOrder
  <2>4. k < i => ~IsAtOrBefore(PositionOf(w, i), p)
    <3>1. IsAfter(PositionOf(w, i), p) => ~IsAfter(p, PositionOf(w, i))
      BY <1>1, <2>2, OrderFacts
    <3>2. PositionOf(w, i) = p => ~IsAfter(PositionOf(w, i), p)
      BY <1>1, <2>2, OrderFacts
    <3> QED BY <2>3, <3>1, <3>2 DEF IsAtOrBefore
  <2> QED BY <1>0, <1>1, <1>2, <2>1, <2>2, <2>3, <2>4
<1>5. p.lsn <= Edge(w, n)
  <2>1. CASE k = 0
    <3>1. p.lsn = 1
      <4>1. 0 \notin DOMAIN w
        BY <1>2
      <4> QED BY <1>0, <2>1, <4>1, AtFacts
    <3>2. n # 0 => w[n].end \in Nat /\ w[n].end >= 1
      BY <1>2, LogRecords DEF Serially
    <3> QED BY <3>1, <3>2 DEF Edge
  <2>2. CASE k # 0
    <3>1. k \in DOMAIN w /\ n \in DOMAIN w /\ n # 0
      BY <1>0, <1>1, <1>2, <2>2
    <3>2. p.lsn = Place(w, k)
      BY <1>0, <3>1, AtFacts
    <3>3. w[n].end \in Nat /\ w[n].lsn \in Nat /\ w[n].lsn < w[n].end
      BY <3>1, LogRecords DEF Serially
    <3>4. k < n => Place(w, k) <= w[n].lsn
      BY <3>1, PlaceFacts
    <3>5. Place(w, k) \in Nat /\ (k = n => Place(w, k) <= w[n].end)
      BY <3>1, <3>3, PlaceFacts DEF Place
    <3> QED BY <1>0, <1>2, <3>1, <3>2, <3>3, <3>4, <3>5 DEF Edge
  <2> QED BY <2>1, <2>2
<1> QED BY <1>1, <1>3, <1>4, <1>5

\* A later position has no less at or before it.
LEMMA BelowGrows ==
    ASSUME NEW w, Serially(w), NEW n \in 0 .. Len(w), NEW p, NEW q, Reached(w, n, p), Reached(w, n, q),
           IsAtOrBefore(p, q), NEW i \in DOMAIN w, Below(w, i, p)
    PROVE  Below(w, i, q)
<1>1. PICK k \in 0 .. n : At(w, k, p)
  BY DEF Reached
<1>2. PICK m \in 0 .. n : At(w, m, q)
  BY DEF Reached
<1>3. k \in Nat /\ m \in Nat /\ i \in Nat /\ p \in Positions /\ q \in Positions
  BY <1>1, <1>2, AtFacts, LogRecords DEF Serially
<1>4. ~(m < k)
  <2>1. ASSUME m < k PROVE IsAfter(p, q)
    BY <2>1, <1>1, <1>2, AtOrder
  <2>2. IsAfter(p, q) => ~IsAtOrBefore(p, q)
    BY <1>3, OrderFacts DEF IsAtOrBefore
  <2> QED BY <2>1, <2>2
<1>5. i <= k
  BY <1>1, BelowAt
<1> QED BY <1>2, <1>3, <1>4, <1>5, BelowAt

\* The records at or before a record.
LEMMA BelowRecord ==
    ASSUME NEW w, Serially(w), NEW j \in DOMAIN w
    PROVE  /\ At(w, j, PositionOf(w, j))
           /\ \A n \in j .. Len(w) : Reached(w, n, PositionOf(w, j))
           /\ \A i \in DOMAIN w : Below(w, i, PositionOf(w, j)) <=> i <= j
<1>1. At(w, j, PositionOf(w, j))
  BY DEF At
<1>2. \A i \in DOMAIN w : Below(w, i, PositionOf(w, j)) <=> i <= j
  BY <1>1, BelowAt
<1>3. \A n \in j .. Len(w) : Reached(w, n, PositionOf(w, j))
  <2>1. j \in Nat /\ j >= 1 /\ Len(w) \in Nat
    BY LogRecords DEF Serially
  <2> QED BY <1>1, <2>1 DEF Reached
<1> QED BY <1>1, <1>2, <1>3

\* A record's event is sent once, with its transaction; units do not overlap.
LEMMA UnitFacts ==
    ASSUME NEW w, Serially(w), NEW i, NEW u, Unit(w, i, u)
    PROVE  /\ i \in DOMAIN w /\ u \in DOMAIN w /\ i <= u /\ w[u].kind \in {"message", "commit"}
           /\ w[i].lsn <= w[u].lsn /\ w[i].kind # "abort" /\ w[i].xid = w[u].xid
           /\ \A v : Unit(w, i, v) => v = u
           /\ \A k, v : Unit(w, k, v) /\ u < v => u < k /\ i < k /\ Place(w, i) < Place(w, k)
<1>0. IsWal(w) /\ Apart(w) /\ i \in DOMAIN w /\ u \in DOMAIN w
  BY DEF Serially, Unit
<1>1. DOMAIN w = 1 .. Len(w) /\ Len(w) \in Nat
  BY <1>0, LogRecords
<1>2. ASSUME NEW k, NEW v, Unit(w, k, v)
      PROVE  /\ k \in DOMAIN w /\ v \in DOMAIN w /\ k <= v /\ w[v].kind \in {"message", "commit"}
             /\ w[k].xid = w[v].xid
  <2>1. k \in DOMAIN w /\ v \in DOMAIN w
    BY <1>2 DEF Unit
  <2>2. CASE w[k].kind \in {"message", "commit"} /\ v = k
    BY <1>1, <2>1, <2>2
  <2>3. CASE w[k].kind = "change" /\ w[v].kind = "commit" /\ w[v].xid = w[k].xid
    <3>1. v < k => w[k].xid # w[v].xid
      BY <1>0, <2>1, <2>3 DEF Apart
    <3> QED BY <1>1, <2>1, <2>3, <3>1
  <2> QED BY <1>2, <2>2, <2>3 DEF Unit
<1>3. w[i].lsn <= w[u].lsn /\ w[i].kind # "abort"
  <2>1. i <= u /\ i \in Nat /\ u \in Nat /\ w[i].lsn \in Nat
    BY <1>0, <1>1, <1>2, LogRecords
  <2>2. i < u => w[i].lsn <= w[u].lsn
    BY <1>0, LogRecords
  <2>3. w[i].kind # "abort"
    BY DEF Unit
  <2> QED BY <2>1, <2>2, <2>3
<1>4. ASSUME NEW v, Unit(w, i, v) PROVE v = u
  <2>1. v \in DOMAIN w
    BY <1>2, <1>4
  <2>2. CASE w[i].kind = "change"
    <3>1. w[u].kind = "commit" /\ w[v].kind = "commit" /\ w[u].xid = w[v].xid
      BY <1>4, <2>2 DEF Unit
    <3>2. ~(u < v) /\ ~(v < u)
      BY <1>0, <2>1, <3>1 DEF Apart
    <3> QED BY <1>0, <1>1, <2>1, <3>2
  <2>3. CASE w[i].kind # "change"
    BY <1>4, <2>3 DEF Unit
  <2> QED BY <2>2, <2>3
<1>5. ASSUME NEW k, NEW v, Unit(w, k, v), u < v
      PROVE  u < k /\ i < k /\ Place(w, i) < Place(w, k)
  <2>1. /\ k \in DOMAIN w /\ v \in DOMAIN w /\ k <= v /\ i <= u
        /\ w[u].kind \in {"message", "commit"} /\ w[k].xid = w[v].xid
        /\ w[i].xid = w[u].xid
    BY <1>2, <1>5
  <2>2. u < k
    <3>1. CASE k = v
      BY <3>1, <1>5
    <3>2. CASE k # v
      <4>1. w[k].kind = "change" /\ w[v].kind = "commit" /\ w[v].xid = w[k].xid
        BY <1>5, <3>2 DEF Unit
      <4>2. k < v
        BY <1>1, <2>1, <3>2
      <4>3. \A m \in k .. v : w[m].xid = w[k].xid
        BY <1>0, <2>1, <4>1, <4>2 DEF Apart
      <4>4. ASSUME k <= u PROVE FALSE
        <5>1. w[u].xid = w[v].xid
          BY <1>0, <1>1, <1>5, <2>1, <4>1, <4>3, <4>4
        <5>2. w[u].kind = "commit" => w[v].xid # w[u].xid
          BY <1>0, <1>5, <2>1 DEF Apart
        <5>3. w[u].kind = "message" => w[u].xid = 0
          BY <1>0 DEF Apart
        <5>4. w[v].xid # 0
          BY <1>0, <2>1, <4>1 DEF Apart
        <5> QED BY <2>1, <5>1, <5>2, <5>3, <5>4
      <4> QED BY <1>0, <1>1, <2>1, <4>4
    <3> QED BY <3>1, <3>2
  <2>3. i < k
    BY <1>0, <1>1, <2>1, <2>2
  <2>4. Place(w, i) < Place(w, k)
    <3>1. Place(w, i) < Place(w, k) \/ (w[i].kind = "change" /\ w[k].kind = "change" /\ w[i].xid = w[k].xid)
      BY <1>0, <2>1, <2>3, PlaceFacts
    <3>2. ASSUME w[i].kind = "change", w[i].xid = w[k].xid PROVE FALSE
      <4>1. w[u].kind = "commit"
        BY <3>2 DEF Unit
      <4>2. w[k].xid # w[u].xid
        BY <1>0, <2>1, <2>2, <4>1 DEF Apart
      <4> QED BY <2>1, <3>2, <4>2
    <3> QED BY <3>1, <3>2
  <2> QED BY <2>2, <2>3, <2>4
<1> QED BY <1>0, <1>2, <1>3, <1>4, <1>5

\* A transaction that ended before a position's LSN lies at or before the position.
LEMMA UnitBelow ==
    ASSUME NEW w, Serially(w), NEW n \in 0 .. Len(w), NEW p, Reached(w, n, p),
           NEW i, NEW u, Unit(w, i, u), w[u].lsn < p.lsn
    PROVE  Below(w, i, p)
<1>1. PICK k \in 0 .. n : At(w, k, p)
  BY DEF Reached
<1>2. /\ i \in DOMAIN w /\ i \in Nat /\ k \in Nat /\ w[i].lsn <= w[u].lsn /\ w[i].lsn \in Nat /\ w[i].lsn >= 1
      /\ w[u].lsn \in Nat /\ p \in Positions
  BY <1>1, UnitFacts, AtFacts, LogRecords DEF Serially
<1>3. ASSUME k < i PROVE p.lsn <= w[i].lsn
  <2>1. CASE k \in DOMAIN w
    BY <1>1, <1>2, <1>3, <2>1, AtFacts, PlaceFacts
  <2>2. CASE k \notin DOMAIN w
    BY <1>1, <1>2, <2>2, AtFacts
  <2> QED BY <2>1, <2>2
<1>4. p.lsn \in Nat
  BY <1>2 DEF Positions
<1>5. i <= k
  BY <1>2, <1>3, <1>4
<1> QED BY <1>1, <1>2, <1>5, BelowAt

\* A transaction that ends at the LSN of a start or later lies behind the start.
LEMMA StartBelow ==
    ASSUME NEW w, Serially(w), NEW n \in 0 .. Len(w), NEW p, Reached(w, n, p), Start(p),
           NEW i, NEW u, Unit(w, i, u), p.lsn <= w[u].lsn
    PROVE  ~Below(w, i, p)
<1>0. IsWal(w) /\ Apart(w)
  BY DEF Serially
<1>1. PICK k \in 0 .. n : At(w, k, p)
  BY DEF Reached
<1>2. /\ i \in DOMAIN w /\ u \in DOMAIN w /\ i \in Nat /\ i >= 1 /\ u \in Nat /\ k \in Nat /\ i <= u
      /\ w[i].lsn <= w[u].lsn /\ w[i].xid = w[u].xid /\ w[u].lsn \in Nat
  BY <1>0, <1>1, UnitFacts, AtFacts, LogRecords
<1>3. SUFFICES ASSUME i <= k PROVE FALSE
  BY <1>1, <1>2, BelowAt
<1>4. k \in DOMAIN w /\ w[k].kind # "change" /\ p.lsn = w[k].end /\ w[k].lsn < w[k].end /\ w[k].end \in Nat /\ w[k].lsn \in Nat
  <2>1. k \in DOMAIN w
    <3>1. k # 0 /\ k \in 0 .. Len(w)
      BY <1>1, <1>2, <1>3, AtFacts
    <3>2. w \in Seq(WalRecord)
      BY <1>0 DEF IsWal
    <3> QED BY <3>1, <3>2
  <2>2. p # PositionOf(w, k)
    BY <2>1, PlaceFacts
  <2>3. Closed(w, k) /\ p.lsn = Edge(w, k) /\ k # 0
    BY <1>1, <1>2, <1>3, <2>2 DEF At
  <2> QED BY <1>0, <2>1, <2>3, LogRecords DEF Closed, Edge
<1>5. k < u
  <2>1. u < k => w[u].lsn <= w[k].lsn
    BY <1>0, <1>2, <1>4, LogRecords
  <2> QED BY <1>2, <1>4, <2>1
<1>6. w[i].kind = "change" /\ w[u].kind = "commit"
  BY <1>2, <1>3, <1>5 DEF Unit
<1>7. w[k].xid = w[i].xid /\ w[i].xid # 0
  <2>1. \A m \in i .. u : w[m].xid = w[i].xid
    BY <1>0, <1>2, <1>3, <1>5, <1>6 DEF Apart
  <2>2. k \in i .. u
    BY <1>2, <1>3, <1>5
  <2>3. w[i].xid # 0
    BY <1>0, <1>2, <1>6 DEF Apart
  <2> QED BY <2>1, <2>2, <2>3
<1>8. w[k].kind \in WalKinds
  BY <1>0, <1>4, LogRecords
<1>9. w[k].kind \in {"commit", "abort"} => w[u].xid # w[k].xid
  BY <1>0, <1>2, <1>4, <1>5 DEF Apart
<1>10. w[k].kind = "message" => w[k].xid = 0
  BY <1>0, <1>4 DEF Apart
<1> QED BY <1>2, <1>4, <1>7, <1>8, <1>9, <1>10 DEF WalKinds

\* Starts at the same LSN are the same place.
LEMMA SameStart ==
    ASSUME NEW w, Serially(w), NEW n \in 0 .. Len(w), NEW p, Reached(w, n, p), Start(p),
           NEW q \in Positions, Start(q), q.lsn = p.lsn
    PROVE  /\ Reached(w, n, q)
           /\ \A i \in DOMAIN w : Below(w, i, q) <=> Below(w, i, p)
<1>1. PICK k \in 0 .. n : At(w, k, p)
  BY DEF Reached
<1>2. k \in 0 .. Len(w)
  BY <1>1, AtFacts
<1>3. At(w, k, q)
  <2>1. k \in DOMAIN w => p # PositionOf(w, k)
    BY PlaceFacts
  <2> QED BY <1>1, <1>2, <2>1 DEF At
<1>4. \A i \in DOMAIN w : Below(w, i, q) <=> Below(w, i, p)
  BY <1>1, <1>3, BelowAt
<1> QED BY <1>1, <1>3, <1>4 DEF Reached

\* The end of the log, while no transaction is open, is a start.
LEMMA EdgeStart ==
    ASSUME NEW w, Serially(w), NEW n \in 0 .. Len(w), Closed(w, n)
    PROVE  /\ Edge(w, n) \in Nat /\ Edge(w, n) >= 1
           /\ StreamingPosition(Edge(w, n)) \in Positions /\ Start(StreamingPosition(Edge(w, n)))
           /\ At(w, n, StreamingPosition(Edge(w, n))) /\ Reached(w, n, StreamingPosition(Edge(w, n)))
<1>1. Edge(w, n) \in Nat /\ Edge(w, n) >= 1 /\ n \in Nat
  <2>1. w \in Seq(WalRecord)
    BY DEF Serially, IsWal
  <2>2. n # 0 => n \in DOMAIN w
    BY <2>1
  <2>3. n # 0 => w[n].end \in Nat /\ w[n].end >= 1
    BY <2>2, LogRecords DEF Serially
  <2> QED BY <2>1, <2>3 DEF Edge
<1>2. LET p == StreamingPosition(Edge(w, n)) IN p \in Positions /\ Start(p) /\ p.lsn = Edge(w, n)
  BY <1>1 DEF StreamingPosition, None, Positions, Start
<1>3. At(w, n, StreamingPosition(Edge(w, n)))
  BY <1>2 DEF At
<1> QED BY <1>1, <1>2, <1>3 DEF Reached

-----------------------------------------------------------------------------
(* Sequences and sets (lemmas).                                             *)

\* InLogOrder enumerates its set in ascending order.
LEMMA LogOrder ==
    ASSUME NEW S, IsFiniteSet(S), S \subseteq Nat
    PROVE  /\ InLogOrder(S) \in Seq(S)
           /\ \A n, m \in DOMAIN InLogOrder(S) : n < m => InLogOrder(S)[n] < InLogOrder(S)[m]
           /\ \A i \in S : \E n \in DOMAIN InLogOrder(S) : InLogOrder(S)[n] = i
<1> DEFINE R(i) == {j \in S : j <= i}
           N == Cardinality(S)
           f == [i \in S |-> Cardinality(R(i))]
<1>0. N \in Nat
  BY FS_CardinalityType
<1>n. \A i \in S : i \in Nat
  OBVIOUS
<1>1. ASSUME NEW i \in S
      PROVE  IsFiniteSet(R(i)) /\ Cardinality(R(i)) \in 1 .. N
  <2>1. R(i) \in SUBSET S /\ i \in R(i)
    OBVIOUS
  <2>2. IsFiniteSet(R(i)) /\ Cardinality(R(i)) <= N
    BY <2>1, FS_Subset
  <2>3. Cardinality(R(i)) \in Nat /\ Cardinality(R(i)) # 0
    BY <2>1, <2>2, FS_CardinalityType, FS_EmptySet
  <2> HIDE DEF R, N
  <2> QED BY <1>0, <2>2, <2>3
<1>2. ASSUME NEW i \in S, NEW k \in S, i < k
      PROVE  Cardinality(R(i)) < Cardinality(R(k))
  <2>1. R(i) \in SUBSET R(k) /\ k \in R(k) /\ k \notin R(i)
    <3>1. i \in Nat /\ k \in Nat
      BY <1>n
    <3>2. \A j \in S : j <= i => j <= k
      BY <1>n, <1>2, <3>1
    <3>3. R(i) \in SUBSET R(k)
      BY <3>2
    <3>4. k \in R(k)
      BY <3>1
    <3>5. k \notin R(i)
      BY <1>2, <3>1
    <3> QED BY <3>3, <3>4, <3>5
  <2>2. /\ Cardinality(R(i)) <= Cardinality(R(k))
        /\ Cardinality(R(k)) = Cardinality(R(i)) => R(k) = R(i)
    BY <1>1, <2>1, FS_Subset
  <2>3. Cardinality(R(i)) \in Nat /\ Cardinality(R(k)) \in Nat
    BY <1>1
  <2> HIDE DEF R
  <2> QED BY <2>1, <2>2, <2>3
<1>3. \A n \in 1 .. N : \E i \in S : Cardinality(R(i)) = n
  <2>1. f \in [S -> 1 .. N]
    BY <1>1
  <2>2. \A i, k \in S : i # k => f[i] # f[k]
    <3>1. SUFFICES ASSUME NEW i \in S, NEW k \in S, i # k PROVE Cardinality(R(i)) # Cardinality(R(k))
      OBVIOUS
    <3>2. i < k \/ k < i
      BY <3>1
    <3>3. Cardinality(R(i)) \in Nat /\ Cardinality(R(k)) \in Nat
      BY <1>1
    <3>4. i < k => Cardinality(R(i)) < Cardinality(R(k))
      BY <1>2
    <3>5. k < i => Cardinality(R(k)) < Cardinality(R(i))
      BY <1>2
    <3> HIDE DEF R
    <3> QED BY <3>2, <3>3, <3>4, <3>5
  <2>3. f \in Injection(S, 1 .. N)
    BY <2>1, <2>2 DEF Injection, IsInjective
  <2>4. IsFiniteSet(1 .. N) /\ Cardinality(1 .. N) = Cardinality(S)
    BY <1>0, FS_Interval
  <2>5. f \in Surjection(S, 1 .. N)
    BY <2>3, <2>4, FS_Injection
  <2> QED BY <2>5 DEF Surjection
<1>4. ASSUME NEW n \in 1 .. N
      PROVE  InLogOrder(S)[n] \in S /\ Cardinality(R(InLogOrder(S)[n])) = n
  <2>1. InLogOrder(S)[n] = CHOOSE i \in S : Cardinality(R(i)) = n
    BY DEF InLogOrder
  <2>2. \E i \in S : Cardinality(R(i)) = n
    BY <1>3
  <2> HIDE DEF R
  <2> QED BY <2>1, <2>2
<1>5. DOMAIN InLogOrder(S) = 1 .. N
  BY DEF InLogOrder
<1>6. InLogOrder(S) \in Seq(S)
  <2>1. \A n \in 1 .. N : InLogOrder(S)[n] \in S
    BY <1>4
  <2>2. InLogOrder(S) \in [1 .. N -> S]
    <3> DEFINE e(n) == CHOOSE i \in S : Cardinality({j \in S : j <= i}) = n
    <3>1. InLogOrder(S) = [n \in 1 .. N |-> e(n)]
      BY DEF InLogOrder
    <3> HIDE DEF e, N
    <3> QED BY <2>1, <3>1
  <2> HIDE DEF N
  <2> QED BY <1>0, <2>2
<1>7. ASSUME NEW n \in 1 .. N, NEW m \in 1 .. N, n < m
      PROVE  InLogOrder(S)[n] < InLogOrder(S)[m]
  <2> DEFINE a == InLogOrder(S)[n]
             b == InLogOrder(S)[m]
  <2>1. a \in S /\ b \in S /\ Cardinality(R(a)) = n /\ Cardinality(R(b)) = m
    BY <1>4
  <2>2. b < a => Cardinality(R(b)) < Cardinality(R(a))
    BY <1>2, <2>1
  <2>3. a \in Nat /\ b \in Nat /\ a # b
    <3>1. a = b => n = m
      BY <2>1
    <3>2. n \in Nat /\ m \in Nat
      BY <1>0
    <3> HIDE DEF a, b, N
    <3> QED BY <1>n, <1>7, <2>1, <3>1, <3>2
  <2> HIDE DEF a, b, R
  <2>4. a < b
    BY <1>0, <1>7, <2>1, <2>2, <2>3
  <2> QED BY <2>4 DEF a, b
<1>8. ASSUME NEW i \in S PROVE \E n \in 1 .. N : InLogOrder(S)[n] = i
  <2> DEFINE n == Cardinality(R(i))
  <2>1. n \in 1 .. N
    BY <1>1
  <2>2. InLogOrder(S)[n] \in S /\ Cardinality(R(InLogOrder(S)[n])) = n
    BY <1>4, <2>1
  <2>3. InLogOrder(S)[n] = i
    <3>1. InLogOrder(S)[n] < i => Cardinality(R(InLogOrder(S)[n])) < n
      BY <1>2, <2>2
    <3>2. i < InLogOrder(S)[n] => n < Cardinality(R(InLogOrder(S)[n]))
      BY <1>2, <2>2
    <3>3. i \in Nat /\ InLogOrder(S)[n] \in Nat
      BY <1>n, <2>2
    <3>4. Cardinality(R(i)) \in Nat
      BY <1>0, <1>1
    <3> HIDE DEF R
    <3> QED BY <2>2, <3>1, <3>2, <3>3, <3>4
  <2> QED BY <2>1, <2>3
<1> QED BY <1>5, <1>6, <1>7, <1>8

\* More is covered by more.
LEMMA CoveredGrows ==
    ASSUME NEW s, NEW l, NEW p, NEW S, NEW T, Covered(s, l, p, S), \A i \in DOMAIN s.wal : i \in S => i \in T
    PROVE  Covered(s, l, p, T)
BY DEF Covered

\* A sequence that gets longer by one, and one that loses its head.
LEMMA Longer ==
    ASSUME NEW T, NEW f \in Seq(T), NEW e \in T
    PROVE  /\ Append(f, e) \in Seq(T) /\ Len(f) \in Nat /\ Len(Append(f, e)) = Len(f) + 1
           /\ DOMAIN f = 1 .. Len(f) /\ DOMAIN Append(f, e) = 1 .. Len(f) + 1
           /\ \A n \in DOMAIN f : n \in DOMAIN Append(f, e) /\ Append(f, e)[n] = f[n]
           /\ Append(f, e)[Len(f) + 1] = e
           /\ \A n \in DOMAIN Append(f, e) : n \in DOMAIN f \/ n = Len(f) + 1
OBVIOUS

LEMMA Shorter ==
    ASSUME NEW T, NEW f \in Seq(T), f # <<>>
    PROVE  /\ Tail(f) \in Seq(T) /\ Head(f) = f[1] /\ 1 \in DOMAIN f /\ Len(f) \in Nat /\ Len(f) >= 1
           /\ Head(f) \in T /\ Len(Tail(f)) = Len(f) - 1
           /\ DOMAIN f = 1 .. Len(f) /\ DOMAIN Tail(f) = 1 .. Len(f) - 1
           /\ \A n \in DOMAIN Tail(f) : n + 1 \in DOMAIN f /\ Tail(f)[n] = f[n + 1] /\ n \in Nat /\ n >= 1
           /\ \A n \in DOMAIN f : n = 1 \/ (n - 1 \in DOMAIN Tail(f) /\ Tail(f)[n - 1] = f[n])
OBVIOUS

\* What an ordinary setup is.
LEMMA SetupFacts ==
    ASSUME NEW s \in Setups, Ordinary(s)
    PROVE  /\ Serially(s.wal) /\ s.streamed = {} /\ Len(s.wal) \in Nat /\ DOMAIN s.wal = 1 .. Len(s.wal)
           /\ s.mode \in {"Initial", "Never"} /\ s.flush \in {"Connector", "Manual"}
           /\ s.strategy \in {"NoValidation", "TrustOffset", "TrustSlot", "TrustGreaterLsn"}
           /\ s.drop \in BOOLEAN
<1>1. /\ IsWal(s.wal) /\ s.drop \in BOOLEAN
      /\ s.strategy \in {"NoValidation", "TrustOffset", "TrustSlot", "TrustGreaterLsn"}
  BY PgAssumption
<1>2. Apart(s.wal) /\ s.streamed = {} /\ s.mode \in {"Initial", "Never"} /\ s.flush \in {"Connector", "Manual"}
  BY DEF Ordinary
<1>3. Len(s.wal) \in Nat /\ DOMAIN s.wal = 1 .. Len(s.wal)
  <2>1. s.wal \in Seq(WalRecord)
    BY <1>1 DEF IsWal
  <2> QED BY <2>1
<1> QED BY <1>1, <1>2, <1>3 DEF Serially

\* A sequence between two elements.
LEMMA Framed ==
    ASSUME NEW T, NEW C \in Seq(T), NEW a \in T, NEW b \in T, NEW L, L = <<a>> \o C \o <<b>>
    PROVE  /\ L \in Seq(T) /\ Len(C) \in Nat /\ Len(L) = Len(C) + 2 /\ DOMAIN L = 1 .. Len(C) + 2
           /\ L[1] = a /\ L[Len(C) + 2] = b
           /\ \A n \in 2 .. Len(C) + 1 : n - 1 \in DOMAIN C /\ L[n] = C[n - 1]
           /\ \A n \in DOMAIN C : n + 1 \in DOMAIN L /\ L[n + 1] = C[n]
           /\ \A n \in DOMAIN L : n = 1 \/ n \in 2 .. Len(C) + 1 \/ n = Len(C) + 2
<1>1. <<a>> \o C \in Seq(T) /\ Len(C) \in Nat /\ Len(<<a>> \o C) = Len(C) + 1 /\ DOMAIN C = 1 .. Len(C)
  OBVIOUS
<1>2. (<<a>> \o C)[1] = a /\ \A n \in 2 .. Len(C) + 1 : (<<a>> \o C)[n] = C[n - 1]
  OBVIOUS
<1> DEFINE M == <<a>> \o C
<1>3. M \in Seq(T) /\ Len(M) = Len(C) + 1 /\ L = M \o <<b>>
  BY <1>1
<1>4. M[1] = a /\ \A n \in 2 .. Len(C) + 1 : M[n] = C[n - 1]
  BY <1>2
<1> HIDE DEF M
<1>5. /\ L \in Seq(T) /\ Len(L) = Len(C) + 2 /\ L[Len(C) + 2] = b
      /\ \A n \in 1 .. Len(C) + 1 : L[n] = M[n]
  BY <1>1, <1>3
<1>6. DOMAIN L = 1 .. Len(C) + 2
  BY <1>1, <1>5
<1> QED BY <1>1, <1>4, <1>5, <1>6

\* L is what the server sends for record d, from LSN l on: a message, or a transaction in
\* log order; the first row at its LSN, a commit and a message have serial 1.
Sends(w, d, l, L) ==
    /\ L \in Seq(Events)
    /\ \A n \in DOMAIN L :
        /\ L[n].kind \in {"Begin", "Change", "Commit", "Message"}
        /\ L[n].kind = "Begin" => n = 1 /\ L[n].i = d
        /\ L[n].kind # "Begin" => Unit(w, L[n].i, d) /\ l <= w[d].lsn
        /\ L[n].kind = "Change" => w[L[n].i].kind = "change"
        /\ L[n].kind = "Message" => w[L[n].i].kind = "message"
        /\ L[n].kind = "Commit" => w[L[n].i].kind = "commit"
    /\ \A n, m \in DOMAIN L : n < m /\ L[n].kind # "Begin" => L[n].i < L[m].i
    /\ \A n \in DOMAIN L :
        n + 1 \in DOMAIN L /\ L[n].kind = "Change" /\ L[n + 1].kind = "Change" => L[n + 1].i = L[n].i + 1
    /\ L # <<>> => /\ L[1].kind \notin {"Change", "Commit"}
                   /\ L[1].kind # "Begin" => Nth(w, L[1].i) = 1
                   /\ L[1].kind = "Begin" => 2 \in DOMAIN L /\ L[2].kind # "Begin" /\ Nth(w, L[2].i) = 1
    /\ \A k : Unit(w, k, d) /\ l <= w[d].lsn => \E n \in DOMAIN L : L[n].kind # "Begin" /\ L[n].i = k

\* What the server sends for one record is that.
LEMMA DecodeFacts ==
    ASSUME NEW s \in Setups, Ordinary(s), setup = s, NEW d \in DOMAIN s.wal, NEW start \in Nat,
           NEW L, L = Decode(d, start)
    PROVE  Sends(s.wal, d, start, L)
<1> DEFINE w == s.wal
           T == Events
<1>0. /\ Serially(w) /\ IsWal(w) /\ Apart(w) /\ Len(w) \in Nat /\ DOMAIN w = 1 .. Len(w) /\ s.streamed = {}
      /\ d \in Nat /\ d >= 1 /\ w[d].kind \in WalKinds /\ w[d].lsn \in Nat
  BY SetupFacts, LogRecords DEF Serially
<1>1. /\ w[d].lsn < start => L = <<>>
      /\ w[d].lsn >= start /\ w[d].kind = "message" => L = <<Event("Message", d)>>
      /\ w[d].lsn >= start /\ w[d].kind \in {"change", "abort"} => L = <<>>
      /\ w[d].lsn >= start /\ w[d].kind = "commit" =>
            L = <<Event("Begin", d)>> \o Changes(w[d].xid, 1 .. d) \o <<Event("Commit", d)>>
  <2>1. ASSUME w[d].lsn < start PROVE L = <<>>
    BY <2>1 DEF Decode, Wal
  <2>2. ASSUME ~(w[d].lsn < start), w[d].kind = "message" PROVE L = <<Event("Message", d)>>
    BY <1>0, <2>2 DEF Decode, Wal
  <2>3. w[d].xid \notin Streamed /\ Wal = w
    BY <1>0 DEF Streamed, Wal
  <2>4. ASSUME ~(w[d].lsn < start), w[d].kind \in {"change", "abort"} PROVE L = <<>>
    BY <1>0, <2>3, <2>4 DEF Decode
  <2>5. ASSUME ~(w[d].lsn < start), w[d].kind = "commit"
        PROVE  L = <<Event("Begin", d)>> \o Changes(w[d].xid, 1 .. d) \o <<Event("Commit", d)>>
    BY <1>0, <2>3, <2>5 DEF Decode
  <2>6. w[d].lsn >= start => ~(w[d].lsn < start)
    BY <1>0
  <2> QED BY <2>1, <2>2, <2>4, <2>5, <2>6
<1>2. \A k \in Nat : /\ Event("Begin", k) \in T /\ Event("Change", k) \in T /\ Event("Commit", k) \in T
                     /\ Event("Message", k) \in T
  BY DEF Event, Events
<1>3. CASE L = <<>> /\ (w[d].lsn < start \/ w[d].kind \in {"change", "abort"})
  <2>1. \A k : Unit(w, k, d) => w[d].kind \notin {"change", "abort"}
    BY DEF Unit
  <2>2. DOMAIN L = {}
    BY <1>3
  <2>3. L \in Seq(Events)
    BY <1>3
  <2>4. \A k : ~(Unit(w, k, d) /\ start <= w[d].lsn)
    BY <1>0, <1>3, <2>1
  <2> QED BY <1>3, <2>2, <2>3, <2>4 DEF Sends
<1>4. CASE w[d].lsn >= start /\ w[d].kind = "message"
  <2>1. L = <<Event("Message", d)>>
    BY <1>1, <1>4
  <2>2. Unit(w, d, d) /\ \A k : Unit(w, k, d) => k = d
    BY <1>4 DEF Unit
  <2>3. Nth(w, d) = 1
    BY <1>4 DEF Nth
  <2>4. L \in Seq(T) /\ DOMAIN L = {1} /\ L[1].kind = "Message" /\ L[1].i = d
    <3>1. Event("Message", d) \in T /\ Event("Message", d).kind = "Message" /\ Event("Message", d).i = d
      BY <1>0, <1>2 DEF Event
    <3>2. \A e \in T : <<e>> \in Seq(T) /\ DOMAIN <<e>> = {1} /\ <<e>>[1] = e
      OBVIOUS
    <3> QED BY <2>1, <3>1, <3>2
  <2> QED BY <1>0, <1>4, <2>2, <2>3, <2>4 DEF Sends
<1>5. CASE w[d].lsn >= start /\ w[d].kind = "commit"
  <2> DEFINE x == w[d].xid
             S == {k \in 1 .. d : w[k].kind = "change" /\ w[k].xid = x}
             c == InLogOrder(S)
             C == [n \in DOMAIN c |-> Event("Change", c[n])]
  <2>1. /\ c \in Seq(S)
        /\ \A n, m \in DOMAIN c : n < m => c[n] < c[m]
        /\ \A k \in S : \E n \in DOMAIN c : c[n] = k
    <3>1. S \in SUBSET (1 .. d) /\ IsFiniteSet(1 .. d) /\ S \subseteq Nat
      <4>1. S \in SUBSET (1 .. d) /\ S \subseteq Nat
        OBVIOUS
      <4>2. IsFiniteSet(1 .. d)
        <5>1. d \in Int /\ 1 \in Int
          BY <1>0
        <5> HIDE DEF S, w
        <5> QED BY <5>1, FS_Interval
      <4> QED BY <4>1, <4>2
    <3>2. IsFiniteSet(S)
      BY <3>1, FS_Subset
    <3> HIDE DEF S
    <3> QED BY <3>1, <3>2, LogOrder
  <2>2. L = <<Event("Begin", d)>> \o C \o <<Event("Commit", d)>>
    <3>1. Changes(x, 1 .. d) = C
      BY DEF Changes, ChangesOf, Wal
    <3> QED BY <1>1, <1>5, <3>1
  <2>3. \A n \in DOMAIN c : c[n] \in Nat /\ c[n] \in DOMAIN w /\ c[n] <= d /\ c[n] # d /\ w[c[n]].kind = "change" /\ w[c[n]].xid = x
    <3>1. \A n \in DOMAIN c : c[n] \in S
      <4> HIDE DEF c, S
      <4> QED BY <2>1
    <3>2. \A k \in S : k \in Nat /\ k \in DOMAIN w /\ k <= d /\ k # d /\ w[k].kind = "change" /\ w[k].xid = x
      BY <1>0, <1>5
    <3> HIDE DEF c, S
    <3> QED BY <3>1, <3>2
  <2>4. C \in Seq(T) /\ DOMAIN C = DOMAIN c /\ DOMAIN c = 1 .. Len(c) /\ Len(C) = Len(c) /\ Len(c) \in Nat
    <3>1. DOMAIN c = 1 .. Len(c) /\ Len(c) \in Nat
      <4> HIDE DEF c, S
      <4> QED BY <2>1
    <3>2. \A n \in DOMAIN c : Event("Change", c[n]) \in T
      <4> HIDE DEF c, S, T
      <4> QED BY <1>2, <2>3
    <3>3. C \in [1 .. Len(c) -> T]
      <4> HIDE DEF c, S, T
      <4> QED BY <3>1, <3>2
    <3> HIDE DEF C, c, S, T
    <3>4. C \in Seq(T)
      BY <3>1, <3>3
    <3> QED BY <3>1, <3>3, <3>4
  <2>5. \A n \in DOMAIN c : C[n].kind = "Change" /\ C[n].i = c[n]
    BY DEF Event
  <2>6. /\ L \in Seq(T) /\ Len(L) = Len(c) + 2 /\ DOMAIN L = 1 .. Len(c) + 2
        /\ L[1] = Event("Begin", d) /\ L[Len(c) + 2] = Event("Commit", d)
        /\ \A n \in 2 .. Len(c) + 1 : n - 1 \in DOMAIN C /\ L[n] = C[n - 1]
        /\ \A n \in DOMAIN C : n + 1 \in DOMAIN L /\ L[n + 1] = C[n]
        /\ \A n \in DOMAIN L : n = 1 \/ n \in 2 .. Len(c) + 1 \/ n = Len(c) + 2
    <3>1. Event("Begin", d) \in T /\ Event("Commit", d) \in T
      BY <1>0, <1>2
    <3> HIDE DEF C, c, S, T
    <3> QED BY <2>2, <2>4, <3>1, Framed
  <2>7. L[1].kind = "Begin" /\ L[1].i = d /\ L[Len(c) + 2].kind = "Commit" /\ L[Len(c) + 2].i = d
    BY <2>6 DEF Event
  <2>8. \A n \in 2 .. Len(c) + 1 : n - 1 \in DOMAIN c /\ L[n].kind = "Change" /\ L[n].i = c[n - 1]
    <3>1. SUFFICES ASSUME NEW n \in 2 .. Len(c) + 1
                   PROVE  n - 1 \in DOMAIN c /\ L[n].kind = "Change" /\ L[n].i = c[n - 1]
      OBVIOUS
    <3> HIDE DEF C, c, S, T
    <3>2. n - 1 \in DOMAIN c /\ L[n] = C[n - 1]
      BY <2>4, <2>6
    <3> QED BY <2>5, <3>2
  <2>9. Unit(w, d, d) /\ (\A n \in DOMAIN c : Unit(w, c[n], d)) /\ \A k : Unit(w, k, d) => k = d \/ k \in S
    <3>1. Unit(w, d, d)
      BY <1>5 DEF Unit
    <3>2. \A n \in DOMAIN c : Unit(w, c[n], d)
      <4> HIDE DEF c, S
      <4> QED BY <1>5, <2>3 DEF Unit
    <3>3. ASSUME NEW k, Unit(w, k, d), k # d PROVE k \in S
      <4>1. k \in DOMAIN w /\ k <= d
        BY <1>0, <3>3, UnitFacts
      <4>2. w[k].kind = "change" /\ w[k].xid = x
        BY <3>3 DEF Unit
      <4> QED BY <1>0, <4>1, <4>2
    <3> QED BY <3>1, <3>2, <3>3
  <2>10. \A n \in DOMAIN c : n + 1 \in DOMAIN c => c[n + 1] = c[n] + 1
    <3>1. SUFFICES ASSUME NEW n \in DOMAIN c, n + 1 \in DOMAIN c, c[n + 1] # c[n] + 1 PROVE FALSE
      OBVIOUS
    <3>2. n \in Nat /\ c[n] < c[n + 1] /\ c[n] \in Nat /\ c[n + 1] \in Nat /\ c[n + 1] <= d
      <4> HIDE DEF c, S
      <4> QED BY <2>1, <2>3, <2>4, <3>1
    <3> DEFINE k == c[n] + 1
    <3>3. k \in Nat /\ c[n] < k /\ k < c[n + 1] /\ k <= d /\ k >= 1 /\ k < d
      <4> HIDE DEF c, S
      <4> QED BY <1>0, <3>1, <3>2
    <3>4. k \in DOMAIN w
      <4> HIDE DEF k, c
      <4> QED BY <1>0, <3>3
    <3>5. w[k].xid = x /\ x # 0
      <4>1. \A j \in c[n] .. d : w[j].xid = w[c[n]].xid
        <5>1. c[n] \in DOMAIN w /\ c[n] < d /\ w[c[n]].kind = "change" /\ w[c[n]].xid = w[d].xid
          <6> HIDE DEF c, S
          <6> QED BY <1>0, <2>3
        <5> HIDE DEF c, S
        <5> QED BY <1>0, <5>1 DEF Apart
      <4>2. k \in c[n] .. d
        <5> HIDE DEF k, c, S
        <5> QED BY <1>0, <3>2, <3>3
      <4>3. x # 0
        BY <1>0, <1>5 DEF Apart
      <4>4. w[c[n]].xid = x
        <5> HIDE DEF c, S
        <5> QED BY <2>3
      <4> HIDE DEF k, c, S
      <4> QED BY <4>1, <4>2, <4>3, <4>4
    <3>6. w[k].kind = "change"
      <4> HIDE DEF k, c, S
      <4>1. w[k].kind \in WalKinds
        BY <1>0, <3>4, LogRecords
      <4>2. w[k].kind \in {"commit", "abort"} => w[d].xid # w[k].xid
        BY <1>0, <3>3, <3>4 DEF Apart
      <4>3. w[k].kind = "message" => w[k].xid = 0
        BY <1>0, <3>4 DEF Apart
      <4> QED BY <3>5, <4>1, <4>2, <4>3 DEF WalKinds
    <3>7. k \in S
      <4>1. k \in 1 .. d
        <5> HIDE DEF k
        <5> QED BY <1>0, <3>3
      <4> HIDE DEF k, c
      <4> QED BY <3>5, <3>6, <4>1
    <3>8. PICK m \in DOMAIN c : c[m] = k
      <4> HIDE DEF k, c, S
      <4> QED BY <2>1, <3>7
    <3>9. m \in Nat /\ (m < n => k < c[n]) /\ (n + 1 < m => c[n + 1] < k) /\ m # n /\ m # n + 1
      <4> HIDE DEF k, c, S
      <4> QED BY <2>1, <2>4, <3>1, <3>2, <3>3, <3>8
    <3> HIDE DEF k, c, S
    <3> QED BY <3>2, <3>3, <3>9
  <2>11. c # <<>> => Nth(w, c[1]) = 1
    <3>1. SUFFICES ASSUME c # <<>> PROVE Nth(w, c[1]) = 1
      OBVIOUS
    <3>2. 1 \in DOMAIN c
      <4> HIDE DEF c, S
      <4> QED BY <2>1, <3>1
    <3>3. c[1] \in DOMAIN w /\ w[c[1]].kind = "change" /\ w[c[1]].xid = x /\ c[1] <= d /\ c[1] \in Nat
      <4> HIDE DEF c, S
      <4> QED BY <2>3, <3>2
    <3>4. ASSUME NEW k \in DOMAIN w, k < c[1], w[k].kind = "change" PROVE w[k].lsn # w[c[1]].lsn
      <4>1. SUFFICES ASSUME w[k].lsn = w[c[1]].lsn PROVE FALSE
        OBVIOUS
      <4>2. w[k].xid = x
        <5> HIDE DEF c, S
        <5> QED BY <1>0, <3>3, <3>4, <4>1 DEF Apart
      <4>3. k \in S
        <5>1. k \in 1 .. d
          <6> HIDE DEF c
          <6> QED BY <1>0, <3>3, <3>4
        <5> HIDE DEF c
        <5> QED BY <3>4, <4>2, <5>1
      <4>4. PICK m \in DOMAIN c : c[m] = k
        <5> HIDE DEF c, S
        <5> QED BY <2>1, <4>3
      <4>5. m = 1 \/ 1 < m
        <5> HIDE DEF c, S
        <5> QED BY <2>4
      <4>6. c[1] <= k
        <5>1. 1 < m => c[1] < c[m]
          <6> HIDE DEF c, S
          <6> QED BY <2>1, <3>2
        <5>2. k \in Nat
          BY <1>0
        <5> HIDE DEF c, S
        <5> QED BY <3>3, <4>4, <4>5, <5>1, <5>2
      <4>7. k \in Nat
        BY <1>0
      <4> HIDE DEF c, S
      <4> QED BY <3>3, <3>4, <4>6, <4>7
    <3> HIDE DEF c, S
    <3> QED BY <1>0, <3>3, <3>4, FirstTwin
  <2> HIDE DEF C, c, S, T
  <2>12. \A n \in DOMAIN L :
                /\ L[n].kind \in {"Begin", "Change", "Commit", "Message"}
                /\ L[n].kind = "Begin" => n = 1 /\ L[n].i = d
                /\ L[n].kind # "Begin" => Unit(w, L[n].i, d) /\ start <= w[d].lsn
                /\ L[n].kind = "Change" => w[L[n].i].kind = "change"
                /\ L[n].kind = "Message" => w[L[n].i].kind = "message"
                /\ L[n].kind = "Commit" => w[L[n].i].kind = "commit"
    BY <1>0, <1>5, <2>3, <2>6, <2>7, <2>8, <2>9
  <2>13. \A n, m \in DOMAIN L : n < m /\ L[n].kind # "Begin" => L[n].i < L[m].i
    <3>1. SUFFICES ASSUME NEW n \in DOMAIN L, NEW m \in DOMAIN L, n < m, L[n].kind # "Begin" PROVE L[n].i < L[m].i
      OBVIOUS
    <3>2. n \in 2 .. Len(c) + 1 /\ (m \in 2 .. Len(c) + 1 \/ m = Len(c) + 2)
      BY <2>4, <2>6, <2>7, <3>1
    <3>3. L[n].i = c[n - 1] /\ n - 1 \in DOMAIN c
      BY <2>8, <3>2
    <3>4. CASE m \in 2 .. Len(c) + 1
      <4>1. L[m].i = c[m - 1] /\ m - 1 \in DOMAIN c /\ n - 1 < m - 1
        BY <2>4, <2>8, <3>1, <3>2, <3>4
      <4> QED BY <2>1, <3>3, <4>1
    <3>5. CASE m = Len(c) + 2
      <4>1. L[m].i = d
        BY <2>7, <3>5
      <4>2. c[n - 1] \in Nat /\ c[n - 1] <= d /\ c[n - 1] # d
        BY <2>3, <3>3
      <4> QED BY <1>0, <3>3, <4>1, <4>2
    <3> QED BY <3>2, <3>4, <3>5
  <2>14. \A n \in DOMAIN L : n + 1 \in DOMAIN L /\ L[n].kind = "Change" /\ L[n + 1].kind = "Change" =>
                L[n + 1].i = L[n].i + 1
    <3>1. SUFFICES ASSUME NEW n \in DOMAIN L, n + 1 \in DOMAIN L, L[n].kind = "Change", L[n + 1].kind = "Change"
                   PROVE  L[n + 1].i = L[n].i + 1
      OBVIOUS
    <3>2. n \in 2 .. Len(c) + 1 /\ n + 1 \in 2 .. Len(c) + 1
      BY <2>4, <2>6, <2>7, <3>1
    <3>3. L[n].i = c[n - 1] /\ n - 1 \in DOMAIN c /\ L[n + 1].i = c[(n - 1) + 1] /\ (n - 1) + 1 \in DOMAIN c
      <4>1. (n + 1) - 1 = (n - 1) + 1
        BY <2>4, <3>2
      <4> QED BY <2>8, <3>2, <4>1
    <3> QED BY <2>10, <3>3
  <2>15. L[1].kind = "Begin" /\ 2 \in DOMAIN L /\ L[2].kind # "Begin" /\ Nth(w, L[2].i) = 1
    <3>1. 2 \in DOMAIN L
      BY <2>4, <2>6
    <3>2. CASE Len(c) = 0
      <4>1. L[2].kind = "Commit" /\ L[2].i = d
        BY <2>7, <3>2
      <4>2. Nth(w, d) = 1
        BY <1>5 DEF Nth
      <4> QED BY <2>7, <3>1, <4>1, <4>2
    <3>3. CASE Len(c) # 0
      <4>1. 2 \in 2 .. Len(c) + 1 /\ c # <<>>
        BY <2>4, <3>3
      <4>2. L[2].kind = "Change" /\ L[2].i = c[1]
        BY <2>8, <4>1
      <4> QED BY <2>7, <2>11, <3>1, <4>1, <4>2
    <3> QED BY <3>2, <3>3
  <2>16. \A k : Unit(w, k, d) => \E n \in DOMAIN L : L[n].kind # "Begin" /\ L[n].i = k
    <3>1. SUFFICES ASSUME NEW k, Unit(w, k, d) PROVE \E n \in DOMAIN L : L[n].kind # "Begin" /\ L[n].i = k
      OBVIOUS
    <3>2. CASE k = d
      BY <2>4, <2>6, <2>7, <3>2
    <3>3. CASE k \in S
      <4>1. PICK m \in DOMAIN c : c[m] = k
        BY <2>1, <3>3
      <4>2. m + 1 \in 2 .. Len(c) + 1 /\ (m + 1) - 1 = m /\ m + 1 \in DOMAIN L
        BY <2>4, <2>6
      <4>3. L[m + 1].kind = "Change" /\ L[m + 1].i = k
        BY <2>8, <4>1, <4>2
      <4> QED BY <4>2, <4>3
    <3> QED BY <2>9, <3>1, <3>2, <3>3
  <2>17. L \in Seq(Events)
    BY <2>6 DEF T
  <2> QED BY <2>12, <2>13, <2>14, <2>15, <2>16, <2>17 DEF Sends
<1> QED BY <1>0, <1>1, <1>3, <1>4, <1>5 DEF WalKinds

\* The position of a stream that starts at an LSN.
LEMMA StreamingFacts ==
    ASSUME NEW l \in Nat
    PROVE  LET q == StreamingPosition(l) IN
            q \in Positions /\ Start(q) /\ q.lsn = l /\ q.snap = FALSE /\ (l >= 1 => q # None)
<1> DEFINE q == StreamingPosition(l)
<1>1. q.lsn = l /\ q.commit = l /\ q.serial = 0 /\ q.snap = FALSE /\ q \in Positions
  BY DEF StreamingPosition, None, Positions
<1>2. None.lsn = 0
  BY DEF None
<1> HIDE DEF q
<1> QED BY <1>1, <1>2 DEF Start, q

\* A stream that starts at the LSN of a position p, from the safe position q there: what lies
\* before it ended before p, and what is sent lies behind q, or is not behind the position of
\* a record.
LEMMA ResumeFacts ==
    ASSUME NEW w, Serially(w), NEW n \in 0 .. Len(w), NEW p, Reached(w, n, p),
           NEW q, q = IF p.snap THEN StreamingPosition(p.lsn) ELSE p
    PROVE  /\ q \in Positions /\ Reached(w, n, q) /\ q # None /\ ~q.snap /\ q.lsn = p.lsn /\ IsAtOrBefore(p, q)
           /\ \A i \in DOMAIN w : Below(w, i, q) <=> Below(w, i, p)
           /\ \A i, u : Unit(w, i, u) /\ w[u].lsn < p.lsn => Below(w, i, p)
           /\ \A i, u : Unit(w, i, u) /\ p.lsn <= w[u].lsn /\ Below(w, i, q) => IsAtOrBefore(PositionOf(w, i), p)
           /\ \A i, u : Unit(w, i, u) /\ p.lsn <= w[u].lsn /\ Start(p) => ~Below(w, i, q)
<1>1. PICK k \in 0 .. n : At(w, k, p)
  BY DEF Reached
<1>2. p \in Positions /\ p # None /\ p.lsn \in Nat /\ p.lsn >= 1 /\ p.snap \in BOOLEAN /\ k \in Nat
  BY <1>1, AtFacts DEF Positions
<1>3. ASSUME ~Start(p) PROVE k \in DOMAIN w /\ p = PositionOf(w, k) /\ p.snap = FALSE
  <2>1. k \in DOMAIN w /\ p = PositionOf(w, k)
    BY <1>1, <1>3 DEF At
  <2> QED BY <2>1 DEF PositionOf
<1>4. p.snap => Start(p)
  BY <1>3
<1>5. CASE p.snap
  <2>1. Start(p) /\ q = StreamingPosition(p.lsn)
    BY <1>4, <1>5
  <2>2. q \in Positions /\ Start(q) /\ q.lsn = p.lsn /\ q.snap = FALSE
    BY <1>2, <2>1, StreamingFacts
  <2>3. Reached(w, n, q) /\ \A i \in DOMAIN w : Below(w, i, q) <=> Below(w, i, p)
    BY <2>1, <2>2, SameStart
  <2>4. q # None /\ IsAtOrBefore(p, q)
    <3>1. q # None
      BY <1>2, <2>1, StreamingFacts
    <3>2. IsAfter(q, p)
      BY <1>2, <1>5, <2>2 DEF IsAfter
    <3> QED BY <3>1, <3>2 DEF IsAtOrBefore
  <2>5. \A i, u : Unit(w, i, u) /\ p.lsn <= w[u].lsn => ~Below(w, i, q)
    BY <2>2, <2>3, StartBelow
  <2>6. \A i, u : Unit(w, i, u) /\ w[u].lsn < p.lsn => Below(w, i, p)
    BY UnitBelow
  <2> QED BY <2>2, <2>3, <2>4, <2>5, <2>6
<1>6. CASE ~p.snap
  <2>1. q = p /\ IsAtOrBefore(p, q)
    BY <1>6 DEF IsAtOrBefore
  <2>2. Start(p) => \A i, u : Unit(w, i, u) /\ p.lsn <= w[u].lsn => ~Below(w, i, p)
    BY StartBelow
  <2>3. ASSUME ~Start(p), NEW i, NEW u, Unit(w, i, u), Below(w, i, p) PROVE IsAtOrBefore(PositionOf(w, i), p)
    <3>1. i \in DOMAIN w /\ i \in Nat /\ At(w, i, PositionOf(w, i))
      BY <2>3, UnitFacts, LogRecords DEF Serially, At
    <3>2. i <= k
      BY <1>1, <2>3, <3>1, BelowAt
    <3>3. i < k => IsAfter(p, PositionOf(w, i))
      BY <1>1, <3>1, AtOrder
    <3>4. i = k => p = PositionOf(w, i)
      BY <1>3, <2>3
    <3> QED BY <1>2, <3>1, <3>2, <3>3, <3>4 DEF IsAtOrBefore
  <2>4. \A i, u : Unit(w, i, u) /\ w[u].lsn < p.lsn => Below(w, i, p)
    BY UnitBelow
  <2>5. \A i, u : Unit(w, i, u) /\ p.lsn <= w[u].lsn /\ Below(w, i, q) => IsAtOrBefore(PositionOf(w, i), p)
    BY <2>1, <2>2, <2>3
  <2> QED BY <1>2, <1>6, <2>1, <2>2, <2>4, <2>5
<1> QED BY <1>2, <1>5, <1>6

\* While no transaction is in progress, the end of the log is a start, and a snapshot reads
\* every row due up to it.
LEMMA QuietFacts ==
    ASSUME NEW s \in Setups, Ordinary(s), setup = s, walEnd \in 0 .. Len(s.wal), ~InProgress
    PROVE  /\ Closed(s.wal, walEnd) /\ WalLsn = Edge(s.wal, walEnd)
           /\ InLogOrder(RowsBy(walEnd)) \in Seq(Nat)
           /\ \A l, i : i \in 1 .. walEnd /\ s.wal[i].kind = "change" /\ Due(s, l, i) =>
                \E n \in DOMAIN InLogOrder(RowsBy(walEnd)) : InLogOrder(RowsBy(walEnd))[n] = i
<1> DEFINE w == s.wal
           S == RowsBy(walEnd)
<1>0. /\ Serially(w) /\ IsWal(w) /\ Apart(w) /\ Len(w) \in Nat /\ DOMAIN w = 1 .. Len(w) /\ Wal = w
      /\ walEnd \in Nat /\ walEnd <= Len(w)
  BY SetupFacts DEF Serially, Wal
<1>1. \A i \in 1 .. walEnd : i \in DOMAIN w /\ i \in Nat /\ w[i].kind \in WalKinds
  <2>1. \A i \in 1 .. walEnd : i \in DOMAIN w /\ i \in Nat
    BY <1>0
  <2> QED BY <1>0, <2>1, LogRecords
<1>2. ASSUME NEW i \in 1 .. walEnd, w[i].kind = "change"
      PROVE  \E j \in 1 .. walEnd : w[j].kind \in {"commit", "abort"} /\ w[j].xid = w[i].xid
  BY <1>0, <1>2 DEF InProgress, Written
<1>3. Closed(w, walEnd)
  <2>1. SUFFICES ASSUME walEnd # 0, w[walEnd].kind = "change" PROVE FALSE
    BY DEF Closed
  <2>2. walEnd \in 1 .. walEnd
    BY <1>0, <2>1
  <2>3. PICK j \in 1 .. walEnd : w[j].kind \in {"commit", "abort"} /\ w[j].xid = w[walEnd].xid
    BY <1>2, <2>1, <2>2
  <2>4. j \in DOMAIN w /\ walEnd \in DOMAIN w /\ j < walEnd
    <3>1. j # walEnd
      BY <2>1, <2>3
    <3> QED BY <1>0, <1>1, <2>2, <3>1
  <2> QED BY <1>0, <2>3, <2>4 DEF Apart
<1>4. WalLsn = Edge(w, walEnd)
  BY <1>0 DEF WalLsn, Edge
<1>5. S \in SUBSET (1 .. walEnd) /\ S \subseteq Nat /\ IsFiniteSet(S)
  <2>1. S \in SUBSET (1 .. walEnd) /\ S \subseteq Nat
    BY <1>0 DEF RowsBy, CommittedBy
  <2>2. IsFiniteSet(1 .. walEnd)
    BY <1>0, FS_Interval
  <2> HIDE DEF S
  <2> QED BY <2>1, <2>2, FS_Subset
<1>6. /\ InLogOrder(S) \in Seq(S)
      /\ \A i \in S : \E n \in DOMAIN InLogOrder(S) : InLogOrder(S)[n] = i
  <2> HIDE DEF S
  <2> QED BY <1>5, LogOrder
<1>7. InLogOrder(S) \in Seq(Nat)
  <2> HIDE DEF S
  <2>1. PICK f : f = InLogOrder(S)
    OBVIOUS
  <2>2. f \in Seq(S) /\ S \subseteq Nat
    BY <1>5, <1>6, <2>1
  <2>3. Len(f) \in Nat /\ DOMAIN f = 1 .. Len(f) /\ f \in [1 .. Len(f) -> S]
    BY <2>2
  <2>4. f \in [1 .. Len(f) -> Nat]
    BY <2>2, <2>3
  <2>5. f \in Seq(Nat)
    BY <2>3, <2>4
  <2> QED BY <2>1, <2>5
<1>8. ASSUME NEW l, NEW i \in 1 .. walEnd, w[i].kind = "change", Due(s, l, i) PROVE i \in S
  <2>1. PICK u \in DOMAIN w : Unit(w, i, u)
    BY <1>8 DEF Due
  <2>2. w[u].kind = "commit" /\ w[u].xid = w[i].xid
    BY <1>8, <2>1 DEF Unit
  <2>3. PICK j \in 1 .. walEnd : w[j].kind \in {"commit", "abort"} /\ w[j].xid = w[i].xid
    BY <1>2, <1>8
  <2>4. j \in DOMAIN w /\ j \in Nat /\ u \in Nat
    BY <1>0, <1>1
  <2>5. ~(j < u) /\ ~(u < j)
    BY <1>0, <2>2, <2>3, <2>4 DEF Apart
  <2>6. u = j
    BY <2>4, <2>5
  <2>7. u \in CommitOf(w[i].xid) /\ u <= walEnd
    BY <1>0, <2>2, <2>3, <2>6 DEF CommitOf
  <2> QED BY <1>0, <1>8, <2>7 DEF RowsBy, CommittedBy, Committed
<1> HIDE DEF S
<1>9. \A l, i : i \in 1 .. walEnd /\ w[i].kind = "change" /\ Due(s, l, i) =>
        \E n \in DOMAIN InLogOrder(S) : InLogOrder(S)[n] = i
  BY <1>6, <1>8
<1> QED BY <1>3, <1>4, <1>7, <1>9 DEF S


-----------------------------------------------------------------------------
(* The inductive invariant.                                                 *)

Sent == {flight[m].i : m \in DOMAIN flight}

SentBy(f, n) == {f[m].i : m \in 1 .. n}

Somewhere == delivered \cup batch \cup Sent

Boundaries == {"Data", "TransactionCommit", "SnapshotComplete", "Heartbeat"}

ServerType(s) ==
    /\ setup = s
    /\ walEnd \in 0 .. Len(s.wal)
    /\ slot \in [exists : BOOLEAN, confirmed : Nat] /\ since \in Nat

CheckpointType(s) ==
    /\ ckpt \in [pos : Positions, snap : BOOLEAN, state : BOOLEAN]
    /\ ckpt = NoCheckpoint \/ Reached(s.wal, walEnd, ckpt.pos)

TaskType(s) ==
    /\ phase \in {"down", "failed", "prepared", "snapshot", "attached", "streaming"}
    /\ resume = None \/ Reached(s.wal, walEnd, resume)
    /\ lastSafe = None \/ Reached(s.wal, walEnd, lastSafe)
    /\ previousLsn \in Nat /\ eventSerial \in Nat /\ dirty \in BOOLEAN

ConnType ==
    /\ from \in Nat /\ decoded \in Nat /\ snapLsn \in Nat
    /\ wire \in Seq(Events) /\ snapRows \in Seq(Nat)

Records == [pos : Positions, boundary : Boundaries, i : Nat, state : BOOLEAN]

PipelineType(s) ==
    /\ rtSnap \in BOOLEAN /\ rtState \in BOOLEAN
    /\ highest = None \/ Reached(s.wal, walEnd, highest)
    /\ flight \in Seq(Records)
    /\ \A n \in DOMAIN flight : Reached(s.wal, walEnd, flight[n].pos)

PgType(s) == ServerType(s) /\ CheckpointType(s) /\ TaskType(s) /\ ConnType /\ PipelineType(s)

\* Between processes, and while one starts, nothing is under way.
Idles ==
    /\ phase \in {"down", "failed", "prepared"} => flight = <<>> /\ highest = None
    /\ highest = None => batch = {}
    /\ phase # "down" => acked = ckpt.pos
    /\ reason # "backwards"

\* A checkpoint that a start goes on from: there is one, and it is not one of a
\* snapshot that did not complete.
Resumable(c) == c.pos # None /\ (c.snap \/ ~c.pos.snap)

\* Everything such a checkpoint covers is delivered, and the slot is not ahead of it.
CheckpointCovers(s) ==
    /\ Resumable(ckpt) => /\ Covered(s, since, ckpt.pos, delivered)
                          /\ slot.exists => slot.confirmed <= ckpt.pos.lsn
    /\ s.mode = "Never" => ~ckpt.snap /\ ~ckpt.pos.snap
    /\ s.mode = "Initial" /\ ~ckpt.snap /\ ckpt.pos # None => ckpt.pos.snap
    /\ ckpt = NoCheckpoint /\ slot.exists /\ s.mode = "Never" =>
        slot.confirmed = since /\ Reached(s.wal, walEnd, StreamingPosition(since))

\* The snapshot is complete once the first n records in transit are consumed.
Complete(n) == rtSnap \/ \E m \in 1 .. n : flight[m].boundary = "SnapshotComplete"

\* What in the pipeline belongs to the snapshot.
SnapshotFirst(s) ==
    /\ s.mode = "Never" => /\ ~rtSnap /\ (highest # None => ~highest.snap)
                           /\ \A n \in DOMAIN flight : ~flight[n].pos.snap /\ flight[n].boundary # "SnapshotComplete"
    /\ s.mode = "Initial" => /\ highest # None => highest.snap = ~rtSnap
                             /\ \A n \in DOMAIN flight : flight[n].pos.snap = ~Complete(n - 1)
                             /\ phase # "down" /\ ckpt.snap => rtSnap
                             /\ phase \in {"attached", "streaming"} => Complete(Len(flight))
                             /\ phase \in {"snapshot", "prepared"} => ~Complete(Len(flight))
    /\ phase \in {"prepared", "snapshot"} => s.mode = "Initial"

\* The pipeline is in order, and a streamed row strictly so; the slot confirms nothing in it.
Row(r) == r.i # 0 /\ ~r.pos.snap

PipelineOrdered ==
    /\ \A n, m \in DOMAIN flight : n < m =>
        /\ IsAtOrBefore(flight[n].pos, flight[m].pos)
        /\ Row(flight[m]) => IsAfter(flight[m].pos, flight[n].pos)
    /\ \A n \in DOMAIN flight :
        /\ highest # None => /\ IsAtOrBefore(highest, flight[n].pos)
                             /\ Row(flight[n]) => IsAfter(flight[n].pos, highest)
        /\ acked.lsn <= flight[n].pos.lsn
        /\ Row(flight[n]) => IsAfter(flight[n].pos, acked)
        /\ slot.exists => slot.confirmed <= flight[n].pos.lsn
    /\ highest # None => acked.lsn <= highest.lsn /\ (slot.exists => slot.confirmed <= highest.lsn)

\* A position in the pipeline covers what is delivered, in the batch or sent up to it.
PipelineCovers(s) ==
    /\ \A n \in DOMAIN flight :
        ~flight[n].pos.snap \/ flight[n].boundary = "SnapshotComplete" =>
            Covered(s, since, flight[n].pos, delivered \cup batch \cup SentBy(flight, n))
    /\ highest # None /\ ~highest.snap => Covered(s, since, highest, delivered \cup batch)

\* The snapshot in progress: what its slot will not send is sent or still to be sent.
InSnapshot(s) ==
    phase = "snapshot" =>
        /\ slot.exists /\ slot.confirmed = snapLsn
        /\ Reached(s.wal, walEnd, StreamingPosition(snapLsn))
        /\ Covered(s, since, StreamingPosition(snapLsn), Somewhere \cup Range(snapRows))
        /\ \A n \in DOMAIN flight : /\ flight[n].pos.snap /\ flight[n].pos.lsn = snapLsn
                                    /\ flight[n].pos.serial <= eventSerial
        /\ highest # None => highest.snap /\ highest.lsn = snapLsn /\ highest.serial <= eventSerial
        /\ acked # None => acked.snap /\ acked.lsn <= snapLsn

\* Without snapshot and checkpoint: the slot says where capture begins.
AtSlot(s) ==
    /\ s.mode = "Never" /\ ckpt = NoCheckpoint /\ resume = None
    /\ flight = <<>> /\ highest = None

Attached(s) ==
    phase = "attached" =>
        /\ decoded = 0 /\ wire = <<>> /\ previousLsn = 0 /\ eventSerial = 0
        /\ from = 0 => AtSlot(s)
        /\ from # 0 => slot.confirmed <= from

\* The start of the stream is known.
Flows == phase = "streaming" \/ (phase = "attached" /\ from # 0)

\* The event of record i is on the wire, or will be.
OnWire(i) == \E n \in DOMAIN wire : wire[n].kind # "Begin" /\ wire[n].i = i

Ahead(w, i) == OnWire(i) \/ \E u \in DOMAIN w : Unit(w, i, u) /\ decoded < u /\ from <= w[u].lsn

\* The wire holds the events of one record, in order.
WireOrdered(w) ==
    /\ decoded <= walEnd
    /\ \A n \in DOMAIN wire :
        /\ wire[n].kind \in {"Begin", "Change", "Commit", "Message"}
        /\ wire[n].kind = "Begin" => n = 1 /\ wire[n].i = decoded /\ decoded \in DOMAIN w
        /\ wire[n].kind # "Begin" => Unit(w, wire[n].i, decoded) /\ from <= w[decoded].lsn
        /\ wire[n].kind = "Change" => w[wire[n].i].kind = "change"
        /\ wire[n].kind = "Message" => w[wire[n].i].kind = "message"
        /\ wire[n].kind = "Commit" => w[wire[n].i].kind = "commit"
    /\ \A n, m \in DOMAIN wire : n < m /\ wire[n].kind # "Begin" => wire[n].i < wire[m].i
    /\ \A n \in DOMAIN wire :
        n + 1 \in DOMAIN wire /\ wire[n].kind = "Change" /\ wire[n + 1].kind = "Change" =>
            wire[n + 1].i = wire[n].i + 1

\* The next event gets the serial it has in the log.
Ready(w, i) ==
    \/ previousLsn = Place(w, i) /\ eventSerial + 1 = Nth(w, i)
    \/ previousLsn < Place(w, i) /\ Nth(w, i) = 1

SerialsExact(w) ==
    /\ wire # <<>> /\ wire[1].kind # "Begin" => Ready(w, wire[1].i)
    /\ wire # <<>> /\ wire[1].kind = "Begin" /\ Len(wire) > 1 => Ready(w, wire[2].i)
    /\ wire # <<>> /\ wire[1].kind \in {"Change", "Commit"} => txn = w[decoded].xid
    /\ \A i, u \in DOMAIN w : Unit(w, i, u) /\ decoded < u => previousLsn < Place(w, i)

\* The replay filter drops the event of record i.
Skipped(w, i) == resume # None /\ IsAtOrBefore(PositionOf(w, i), resume)

\* The stream: nothing is left out between what is somewhere and what is ahead.
StreamComplete(s) ==
    Flows => \A i \in DOMAIN s.wal : Due(s, since, i) => i \in Somewhere \/ Ahead(s.wal, i)

StreamExact(s) == Flows => WireOrdered(s.wal) /\ SerialsExact(s.wal)

\* The last safe position covers what is somewhere; what is ahead lies behind it, or at
\* or before the checkpoint the connection resumes from.
StreamSafe(s) ==
    Flows =>
        /\ slot.exists /\ slot.confirmed <= lastSafe.lsn
        /\ lastSafe # None /\ ~lastSafe.snap
        /\ Covered(s, since, lastSafe, Somewhere)
        /\ resume # None => Covered(s, since, resume, delivered)
        /\ \A i \in DOMAIN s.wal : Ahead(s.wal, i) => ~Below(s.wal, i, lastSafe) \/ Skipped(s.wal, i)
        /\ \A n \in DOMAIN flight : IsAtOrBefore(flight[n].pos, lastSafe)
        /\ highest # None => IsAtOrBefore(highest, lastSafe)
        /\ acked # None => IsAtOrBefore(acked, lastSafe)

PgKept(s) ==
    /\ PgType(s) /\ Idles /\ CheckpointCovers(s) /\ SnapshotFirst(s) /\ PipelineOrdered /\ PipelineCovers(s)
    /\ InSnapshot(s) /\ Attached(s) /\ StreamComplete(s) /\ StreamExact(s) /\ StreamSafe(s)

StreamKept == \E s \in Setups : setup = s /\ (Ordinary(s) => PgKept(s))

-----------------------------------------------------------------------------
(* Steps (lemmas).                                                          *)

\* A part of the invariant stays as it is while its variables do.
LEMMA PartsStay ==
    ASSUME NEW s
    PROVE  /\ CheckpointCovers(s) /\ UNCHANGED <<ckpt, since, delivered, slot, walEnd>> => CheckpointCovers(s)'
           /\ SnapshotFirst(s) /\ UNCHANGED <<rtSnap, highest, flight, phase, ckpt>> => SnapshotFirst(s)'
           /\ PipelineOrdered /\ UNCHANGED <<flight, highest, acked, slot>> => PipelineOrdered'
           /\ PipelineCovers(s) /\ UNCHANGED <<flight, since, delivered, batch, highest>> => PipelineCovers(s)'
           /\ StreamComplete(s) /\ UNCHANGED <<phase, from, since, delivered, batch, flight, wire, decoded>>
                => StreamComplete(s)'
           /\ StreamExact(s) /\ UNCHANGED <<phase, from, decoded, walEnd, wire, previousLsn, eventSerial, txn>>
                => StreamExact(s)'
<1>1. CheckpointCovers(s) /\ UNCHANGED <<ckpt, since, delivered, slot, walEnd>> => CheckpointCovers(s)'
  BY DEF CheckpointCovers
<1>2. SnapshotFirst(s) /\ UNCHANGED <<rtSnap, highest, flight, phase, ckpt>> => SnapshotFirst(s)'
  BY DEF SnapshotFirst, Complete
<1>3. PipelineOrdered /\ UNCHANGED <<flight, highest, acked, slot>> => PipelineOrdered'
  BY DEF PipelineOrdered
<1>4. PipelineCovers(s) /\ UNCHANGED <<flight, since, delivered, batch, highest>> => PipelineCovers(s)'
  BY DEF PipelineCovers
<1>5. StreamComplete(s) /\ UNCHANGED <<phase, from, since, delivered, batch, flight, wire, decoded>> => StreamComplete(s)'
  BY DEF StreamComplete, Flows, Somewhere, Sent, Ahead, OnWire
<1>6. StreamExact(s) /\ UNCHANGED <<phase, from, decoded, walEnd, wire, previousLsn, eventSerial, txn>> => StreamExact(s)'
  BY DEF StreamExact, Flows, WireOrdered, SerialsExact, Ready
<1> QED BY <1>1, <1>2, <1>3, <1>4, <1>5, <1>6

\* A stop leaves what survives it.
LEMMA StopKeeps ==
    ASSUME NEW s \in Setups, Ordinary(s), PgKept(s), StopsNow, UNCHANGED <<setup, walEnd, since>>,
           slot' \in [exists : BOOLEAN, confirmed : Nat], CheckpointType(s)', CheckpointCovers(s)'
    PROVE  PgKept(s)'
<1>1. PgType(s)'
  <2>1. ServerType(s)'
    BY DEF PgKept, PgType, ServerType
  <2>2. TaskType(s)'
    BY DEF StopsNow, TaskType
  <2>3. ConnType'
    <3>1. from' = 0 /\ decoded' = 0 /\ snapLsn' = 0 /\ wire' = <<>> /\ snapRows' = <<>>
      BY DEF StopsNow, idleConn
    <3> QED BY <3>1 DEF ConnType
  <2>4. PipelineType(s)'
    <3>1. flight' = <<>> /\ highest' = None /\ rtSnap' = FALSE /\ rtState' = FALSE
      BY DEF StopsNow
    <3>2. flight' \in Seq(Records) /\ DOMAIN flight' = {}
      BY <3>1
    <3> QED BY <3>1, <3>2 DEF PipelineType
  <2> QED BY <2>1, <2>2, <2>3, <2>4 DEF PgType
<1>2. flight' = <<>> /\ highest' = None /\ batch' = {} /\ phase' = "down" /\ reason' = "none" /\ rtSnap' = FALSE
  BY DEF StopsNow
<1>3. Idles'
  BY <1>2 DEF Idles
<1>4. SnapshotFirst(s)'
  BY <1>2 DEF SnapshotFirst
<1>5. PipelineOrdered'
  BY <1>2 DEF PipelineOrdered
<1>6. PipelineCovers(s)'
  BY <1>2 DEF PipelineCovers
<1>7. InSnapshot(s)' /\ Attached(s)' /\ StreamComplete(s)' /\ StreamExact(s)' /\ StreamSafe(s)'
  BY <1>2 DEF InSnapshot, Attached, StreamComplete, StreamExact, StreamSafe, Flows
<1> QED BY <1>1, <1>3, <1>4, <1>5, <1>6, <1>7 DEF PgKept

\* The log grows.
LEMMA WriteKeeps ==
    ASSUME NEW s \in Setups, Ordinary(s), PgKept(s), Write
    PROVE  PgKept(s)'
<1>0. Serially(s.wal) /\ Len(s.wal) \in Nat /\ setup = s /\ walEnd \in 0 .. Len(s.wal)
  BY SetupFacts DEF PgKept, PgType, ServerType
<1>1. walEnd' = walEnd + 1 /\ walEnd' \in 0 .. Len(s.wal) /\ walEnd' \in walEnd .. Len(s.wal)
  BY <1>0 DEF Write, Wal
<1>2. \A p : Reached(s.wal, walEnd, p) => Reached(s.wal, walEnd', p)
  BY <1>0, <1>1, ReachedFacts
<1>3. UNCHANGED <<slot, since, durable, connector, conn, snapshot, runtime, bounds>>
  BY DEF Write
<1>4. PgType(s)'
  <2>1. ServerType(s)' /\ CheckpointType(s)'
    BY <1>1, <1>2, <1>3 DEF PgKept, PgType, ServerType, CheckpointType, durable, bounds
  <2>2. TaskType(s)' /\ ConnType'
    BY <1>2, <1>3 DEF PgKept, PgType, TaskType, ConnType, connector, conn, snapshot
  <2>3. PipelineType(s)'
    BY <1>2, <1>3 DEF PgKept, PgType, PipelineType, runtime
  <2> QED BY <2>1, <2>2, <2>3 DEF PgType
<1>5. Idles'
  BY <1>3 DEF PgKept, Idles, durable, connector, conn, snapshot, runtime, bounds
<1>6. CheckpointCovers(s)'
  BY <1>2, <1>3 DEF PgKept, CheckpointCovers, durable
<1>7. SnapshotFirst(s)' /\ PipelineOrdered' /\ PipelineCovers(s)' /\ StreamComplete(s)'
  BY <1>3, PartsStay DEF PgKept, durable, connector, conn, runtime
<1>8. InSnapshot(s)'
  BY <1>2, <1>3 DEF PgKept, InSnapshot, Somewhere, Sent, durable, connector, snapshot, runtime
<1>9. Attached(s)'
  BY <1>3 DEF PgKept, Attached, AtSlot, durable, connector, conn, runtime
<1>10. StreamExact(s)'
  <2>1. SUFFICES ASSUME Flows' PROVE WireOrdered(s.wal)' /\ SerialsExact(s.wal)'
    BY DEF StreamExact
  <2>2. Flows
    BY <1>3, <2>1 DEF Flows, connector, conn
  <2>3. WireOrdered(s.wal) /\ SerialsExact(s.wal)
    BY <2>2 DEF PgKept, StreamExact
  <2>4. SerialsExact(s.wal)'
    BY <1>3, <2>3 DEF SerialsExact, Ready, connector, conn
  <2>5. decoded' <= walEnd'
    <3>1. decoded <= walEnd /\ decoded \in Nat
      BY <2>3 DEF WireOrdered, PgKept, PgType, ConnType
    <3> QED BY <1>0, <1>1, <1>3, <3>1 DEF conn
  <2>6. WireOrdered(s.wal)'
    BY <1>3, <2>3, <2>5 DEF WireOrdered, conn
  <2> QED BY <2>4, <2>6
<1>11. StreamSafe(s)'
  BY <1>3 DEF PgKept, StreamSafe, Flows, Somewhere, Sent, Ahead, OnWire, Skipped, durable, connector, conn, runtime
<1> QED BY <1>4, <1>5, <1>6, <1>7, <1>8, <1>9, <1>10, <1>11 DEF PgKept

\* A checkpoint has a position of the log, and so has the acknowledged position.
LEMMA CheckpointFacts ==
    ASSUME NEW s \in Setups, Ordinary(s), PgKept(s)
    PROVE  /\ ckpt.pos \in Positions /\ FlushLsn(ckpt.pos) = ckpt.pos.lsn /\ ckpt.pos.lsn \in Nat
           /\ ckpt.pos = None <=> ckpt = NoCheckpoint
           /\ ckpt.pos # None => Reached(s.wal, walEnd, ckpt.pos)
           /\ ckpt.pos # None => ckpt.pos.lsn >= 1
           /\ ckpt.pos = None => ckpt.pos.lsn = 0
           /\ phase # "down" => acked = ckpt.pos
<1>1. CheckpointType(s) /\ walEnd \in 0 .. Len(s.wal) /\ Serially(s.wal)
  BY SetupFacts DEF PgKept, PgType, ServerType
<1>2. CASE ckpt = NoCheckpoint
  <2>1. ckpt.pos = None
    BY <1>2 DEF NoCheckpoint
  <2>2. None \in Positions /\ FlushLsn(None) = 0 /\ None.lsn = 0
    BY DEF None, Positions, FlushLsn
  <2> QED BY <1>2, <2>1, <2>2 DEF PgKept, Idles
<1>3. CASE ckpt # NoCheckpoint
  <2>1. Reached(s.wal, walEnd, ckpt.pos)
    BY <1>1, <1>3 DEF CheckpointType
  <2>2. ckpt.pos \in Positions /\ ckpt.pos # None /\ FlushLsn(ckpt.pos) = ckpt.pos.lsn /\ ckpt.pos.lsn >= 1
    BY <1>1, <2>1, ReachedFacts
  <2>3. ckpt.pos.lsn \in Nat
    BY <2>2 DEF Positions
  <2> QED BY <1>3, <2>1, <2>2, <2>3 DEF PgKept, Idles
<1> QED BY <1>2, <1>3

\* The slot is lost.
LEMMA LoseKeeps ==
    ASSUME NEW s \in Setups, Ordinary(s), PgKept(s), LoseSlot
    PROVE  PgKept(s)'
<1>1. /\ phase = "down" /\ UNCHANGED <<walEnd, since, durable, connector, conn, snapshot, runtime, setup>>
      /\ slot' = [slot EXCEPT !.exists = FALSE]
  BY DEF LoseSlot
<1>2. flight = <<>> /\ highest = None
  BY <1>1 DEF PgKept, Idles
<1>3. slot' \in [exists : BOOLEAN, confirmed : Nat] /\ ~slot'.exists
  BY <1>1 DEF PgKept, PgType, ServerType
<1>4. PgType(s)'
  <2>1. ServerType(s)' /\ CheckpointType(s)'
    BY <1>1, <1>3 DEF PgKept, PgType, ServerType, CheckpointType, durable
  <2>2. TaskType(s)' /\ ConnType'
    BY <1>1 DEF PgKept, PgType, TaskType, ConnType, connector, conn, snapshot
  <2>3. PipelineType(s)'
    BY <1>1 DEF PgKept, PgType, PipelineType, runtime
  <2> QED BY <2>1, <2>2, <2>3 DEF PgType
<1>5. Idles'
  BY <1>1 DEF PgKept, Idles, durable, connector, runtime
<1>6. CheckpointCovers(s)'
  BY <1>1, <1>3 DEF PgKept, CheckpointCovers, durable
<1>7. SnapshotFirst(s)' /\ PipelineCovers(s)'
  BY <1>1, PartsStay DEF PgKept, durable, connector, runtime
<1>8. PipelineOrdered'
  BY <1>1, <1>2 DEF PipelineOrdered, runtime
<1>9. InSnapshot(s)' /\ Attached(s)' /\ StreamComplete(s)' /\ StreamExact(s)' /\ StreamSafe(s)'
  BY <1>1 DEF InSnapshot, Attached, StreamComplete, StreamExact, StreamSafe, Flows, connector
<1> QED BY <1>4, <1>5, <1>6, <1>7, <1>8, <1>9 DEF PgKept

\* The connector process ends, and the slot stays as it is.
LEMMA CrashKeeps ==
    ASSUME NEW s \in Setups, Ordinary(s), PgKept(s), Crash \/ Restart
    PROVE  PgKept(s)'
<1>1. /\ StopsNow /\ UNCHANGED <<setup, walEnd, since, slot, ckpt>>
      /\ \A i : i \in delivered => i \in delivered'
  BY DEF Crash, Restart, server, durable
<1>2. slot' \in [exists : BOOLEAN, confirmed : Nat] /\ CheckpointType(s)'
  BY <1>1 DEF PgKept, PgType, ServerType, CheckpointType
<1>3. CheckpointCovers(s)'
  <2>1. CheckpointCovers(s)
    BY DEF PgKept
  <2>2. Covered(s, since, ckpt.pos, delivered) => Covered(s, since, ckpt.pos, delivered')
    BY <1>1 DEF Covered
  <2> QED BY <1>1, <2>1, <2>2 DEF CheckpointCovers
<1> QED BY <1>1, <1>2, <1>3, StopKeeps

\* The connector stops in order, after the last feedback.
LEMMA OrderlyStopKeeps ==
    ASSUME NEW s \in Setups, Ordinary(s), PgKept(s), OrderlyStop
    PROVE  PgKept(s)'
<1>0. /\ s.drop \in BOOLEAN /\ s.mode \in {"Initial", "Never"} /\ setup = s /\ Serially(s.wal) /\ walEnd \in 0 .. Len(s.wal)
      /\ slot \in [exists : BOOLEAN, confirmed : Nat] /\ PipelineType(s)
  BY SetupFacts DEF PgKept, PgType, ServerType
<1>1. /\ StopsNow /\ phase = "streaming" /\ UNCHANGED <<walEnd, since, setup>>
      /\ \/ slot'.confirmed = slot.confirmed
         \/ slot'.confirmed = FlushLsn(acked) /\ FlushLsn(acked) > slot.confirmed
      /\ slot' \in [exists : BOOLEAN, confirmed : {slot.confirmed, FlushLsn(acked)}]
  <2>1. /\ StopsNow /\ phase = "streaming" /\ UNCHANGED <<walEnd, since, setup>>
        /\ slot' = [exists |-> ~s.drop,
                    confirmed |-> IF s.flush = "Connector" /\ FlushLsn(acked) > slot.confirmed
                                  THEN FlushLsn(acked) ELSE slot.confirmed]
    BY <1>0 DEF OrderlyStop, FlushMode, DropSlotOnStop
  <2> QED BY <1>0, <2>1
<1>2. FlushLsn(acked) = acked.lsn /\ acked.lsn \in Nat /\ acked = ckpt.pos /\ (ckpt = NoCheckpoint => acked.lsn = 0)
  BY <1>1, CheckpointFacts
<1>3. slot' \in [exists : BOOLEAN, confirmed : Nat]
  BY <1>0, <1>1, <1>2
<1>4. slot.exists /\ CheckpointCovers(s)
  BY <1>1 DEF PgKept, StreamSafe, Flows
<1>5. CASE UNCHANGED durable
  <2>1. CheckpointType(s)'
    BY <1>1, <1>5 DEF PgKept, PgType, CheckpointType, durable
  <2>2. Resumable(ckpt) => slot'.confirmed <= ckpt.pos.lsn
    BY <1>0, <1>1, <1>2, <1>4 DEF CheckpointCovers
  <2>3. ckpt = NoCheckpoint => slot'.confirmed = slot.confirmed
    BY <1>0, <1>1, <1>2
  <2>4. CheckpointCovers(s)'
    BY <1>1, <1>4, <1>5, <2>2, <2>3 DEF CheckpointCovers, durable
  <2> QED BY <1>1, <1>3, <2>1, <2>4, StopKeeps
<1>6. CASE /\ highest # None /\ delivered' = delivered \cup batch
           /\ ckpt' = [pos |-> highest, snap |-> rtSnap, state |-> rtState]
  <2>1. Reached(s.wal, walEnd, highest)
    BY <1>0, <1>6 DEF PipelineType
  <2>2. highest \in Positions /\ highest.lsn \in Nat
    BY <1>0, <2>1, ReachedFacts DEF Positions
  <2>3. CheckpointType(s)'
    BY <1>0, <1>1, <1>6, <2>1, <2>2 DEF CheckpointType, PipelineType
  <2>4. slot'.confirmed <= highest.lsn
    <3>1. acked.lsn <= highest.lsn /\ slot.confirmed <= highest.lsn
      BY <1>4, <1>6 DEF PgKept, PipelineOrdered
    <3> QED BY <1>0, <1>1, <1>2, <2>2, <3>1
  <2>5. /\ s.mode = "Never" => ~rtSnap /\ ~highest.snap
        /\ s.mode = "Initial" => highest.snap = ~rtSnap
    BY <1>6 DEF PgKept, SnapshotFirst
  <2>6. ~highest.snap => Covered(s, since, highest, delivered')
    BY <1>6 DEF PgKept, PipelineCovers
  <2>7. ckpt' # NoCheckpoint
    BY <1>6 DEF NoCheckpoint
  <2>8. ckpt'.pos = highest /\ ckpt'.snap = rtSnap /\ highest.snap \in BOOLEAN /\ rtSnap \in BOOLEAN
    BY <1>0, <1>6, <2>2 DEF PipelineType, Positions
  <2>9. Resumable(ckpt)' => ~highest.snap
    BY <1>0, <2>5, <2>8 DEF Resumable
  <2>10. CheckpointCovers(s)'
    BY <1>0, <1>1, <1>4, <2>4, <2>5, <2>6, <2>7, <2>8, <2>9 DEF CheckpointCovers
  <2> QED BY <1>1, <1>3, <2>3, <2>10, StopKeeps
<1> QED BY <1>5, <1>6 DEF OrderlyStop

\* The slot confirms the acknowledged position.
LEMMA FeedbackKeeps ==
    ASSUME NEW s \in Setups, Ordinary(s), PgKept(s), Feedback
    PROVE  PgKept(s)'
<1>0. s.flush \in {"Connector", "Manual"} /\ setup = s /\ slot \in [exists : BOOLEAN, confirmed : Nat]
      /\ Serially(s.wal) /\ walEnd \in 0 .. Len(s.wal)
  BY SetupFacts DEF PgKept, PgType, ServerType
<1>1. /\ phase = "streaming" /\ FlushLsn(acked) > slot.confirmed
      /\ slot' = [slot EXCEPT !.confirmed = FlushLsn(acked)]
      /\ UNCHANGED <<walEnd, since, durable, connector, conn, snapshot, runtime, bounds>>
  BY <1>0 DEF Feedback, Confirm, FlushMode
<1>2. /\ FlushLsn(acked) = acked.lsn /\ acked.lsn \in Nat /\ acked = ckpt.pos /\ acked \in Positions
      /\ acked = None => acked.lsn = 0
  BY <1>1, CheckpointFacts
<1>3. slot' \in [exists : BOOLEAN, confirmed : Nat] /\ slot'.exists = slot.exists /\ slot'.confirmed = acked.lsn
  BY <1>0, <1>1, <1>2
<1>4. acked # None /\ ckpt # NoCheckpoint
  BY <1>0, <1>1, <1>2 DEF NoCheckpoint
<1>5. PgType(s)'
  <2>1. ServerType(s)' /\ CheckpointType(s)'
    BY <1>1, <1>3 DEF PgKept, PgType, ServerType, CheckpointType, durable, bounds
  <2>2. TaskType(s)' /\ ConnType'
    BY <1>1 DEF PgKept, PgType, TaskType, ConnType, connector, conn, snapshot
  <2>3. PipelineType(s)'
    BY <1>1 DEF PgKept, PgType, PipelineType, runtime
  <2> QED BY <2>1, <2>2, <2>3 DEF PgType
<1>6. Idles'
  BY <1>1 DEF PgKept, Idles, durable, connector, runtime
<1>7. CheckpointCovers(s)'
  <2>1. CheckpointCovers(s)
    BY DEF PgKept
  <2>2. slot'.confirmed <= ckpt.pos.lsn
    BY <1>2, <1>3
  <2> QED BY <1>1, <1>4, <2>1, <2>2 DEF CheckpointCovers, durable
<1>8. SnapshotFirst(s)' /\ PipelineCovers(s)' /\ StreamComplete(s)' /\ StreamExact(s)'
  BY <1>1, PartsStay DEF PgKept, durable, connector, conn, runtime
<1>9. PipelineOrdered'
  <2>1. PipelineOrdered
    BY DEF PgKept
  <2> QED BY <1>1, <1>3, <2>1 DEF PipelineOrdered, runtime
<1>10. InSnapshot(s)' /\ Attached(s)'
  BY <1>1 DEF InSnapshot, Attached, connector
<1>11. StreamSafe(s)'
  <2>1. Flows /\ StreamSafe(s)
    BY <1>1 DEF PgKept, Flows
  <2>2. slot'.confirmed <= lastSafe.lsn
    <3>1. IsAtOrBefore(acked, lastSafe) /\ lastSafe # None
      BY <1>4, <2>1 DEF StreamSafe
    <3>2. lastSafe \in Positions
      BY <1>0, <3>1, ReachedFacts DEF PgKept, PgType, TaskType
    <3> QED BY <1>2, <1>3, <3>1, <3>2, OrderFacts
  <2> QED BY <1>1, <1>3, <2>1, <2>2
        DEF StreamSafe, Flows, Somewhere, Sent, Ahead, OnWire, Skipped, durable, connector, conn, runtime
<1> QED BY <1>5, <1>6, <1>7, <1>8, <1>9, <1>10, <1>11 DEF PgKept

\* A record at or behind the last safe position is sent.
LEMMA EmitKeeps ==
    ASSUME NEW s \in Setups, Ordinary(s), PgKept(s), phase = "streaming", NEW r \in Records,
           flight' = Append(flight, r),
           UNCHANGED <<setup, walEnd, slot, since, delivered, ckpt, phase, batch, highest, rtSnap, rtState, acked>>,
           Reached(s.wal, walEnd, r.pos), ~r.pos.snap, r.boundary # "SnapshotComplete",
           IsAtOrBefore(lastSafe, r.pos), Row(r) => IsAfter(r.pos, lastSafe),
           Covered(s, since, r.pos, Somewhere \cup {r.i})
    PROVE  /\ PipelineType(s)' /\ SnapshotFirst(s)' /\ PipelineOrdered' /\ PipelineCovers(s)'
           /\ Somewhere' = Somewhere \cup {r.i}
           /\ slot.confirmed <= r.pos.lsn
           /\ \A n \in DOMAIN flight' : IsAtOrBefore(flight'[n].pos, r.pos)
           /\ highest # None => IsAtOrBefore(highest, r.pos)
           /\ acked # None => IsAtOrBefore(acked, r.pos)
<1>0. /\ Serially(s.wal) /\ walEnd \in 0 .. Len(s.wal) /\ slot \in [exists : BOOLEAN, confirmed : Nat]
      /\ PipelineType(s) /\ TaskType(s) /\ s.mode \in {"Initial", "Never"}
  BY SetupFacts DEF PgKept, PgType, ServerType
<1>1. StreamSafe(s) /\ Flows
  BY DEF PgKept, Flows
<1>2. lastSafe \in Positions /\ lastSafe # None
  <2>1. lastSafe # None
    BY <1>1 DEF StreamSafe
  <2> QED BY <1>0, <2>1, ReachedFacts DEF TaskType
<1>3. r.pos \in Positions /\ r.pos.lsn >= 1 /\ lastSafe.lsn <= r.pos.lsn /\ lastSafe.lsn \in Nat /\ r.pos.lsn \in Nat
  BY <1>0, <1>2, ReachedFacts, OrderFacts DEF Positions
<1>4. /\ flight \in Seq(Records) /\ flight' \in Seq(Records) /\ Len(flight) \in Nat /\ Len(flight') = Len(flight) + 1
      /\ DOMAIN flight = 1 .. Len(flight) /\ DOMAIN flight' = 1 .. Len(flight) + 1
      /\ \A n \in DOMAIN flight : n \in DOMAIN flight' /\ flight'[n] = flight[n]
      /\ flight'[Len(flight) + 1] = r
      /\ \A n \in DOMAIN flight' : n \in DOMAIN flight \/ n = Len(flight) + 1
  <2>1. flight \in Seq(Records)
    BY <1>0 DEF PipelineType
  <2> QED BY <2>1, Longer
<1>5. \A n \in DOMAIN flight : flight[n].pos \in Positions /\ flight[n].pos.lsn \in Nat
  <2>1. \A n \in DOMAIN flight : flight[n] \in Records
    BY <1>4
  <2>2. \A n \in DOMAIN flight : flight[n].pos \in Positions
    BY <2>1 DEF Records
  <2> QED BY <2>2 DEF Positions
<1>6. PipelineType(s)'
  BY <1>0, <1>4 DEF PipelineType
<1>7. Somewhere' = Somewhere \cup {r.i}
  <2>1. Sent' = Sent \cup {r.i}
    BY <1>4 DEF Sent
  <2> QED BY <2>1 DEF Somewhere
<1>8. \A n \in DOMAIN flight : IsAtOrBefore(flight[n].pos, r.pos)
  BY <1>1, <1>2, <1>3, <1>5, OrderFacts DEF StreamSafe
<1>9. IsAtOrBefore(r.pos, r.pos)
  BY DEF IsAtOrBefore
<1>10. \A n \in DOMAIN flight' : IsAtOrBefore(flight'[n].pos, r.pos)
  BY <1>4, <1>8, <1>9
<1>11. highest # None => highest \in Positions /\ IsAtOrBefore(highest, lastSafe)
  BY <1>0, <1>1, ReachedFacts DEF PipelineType, StreamSafe
<1>12. highest # None => IsAtOrBefore(highest, r.pos)
  BY <1>2, <1>3, <1>11, OrderFacts
<1>13. acked \in Positions /\ acked.lsn \in Nat /\ (acked # None => IsAtOrBefore(acked, lastSafe))
  BY <1>1, CheckpointFacts DEF StreamSafe
<1>14. acked # None => IsAtOrBefore(acked, r.pos)
  BY <1>2, <1>3, <1>13, OrderFacts
<1>15. acked.lsn <= r.pos.lsn /\ (Row(r) => IsAfter(r.pos, acked))
  <2>1. CASE acked = None
    <3>1. acked.lsn = 0
      BY <2>1 DEF None
    <3> QED BY <1>3, <3>1 DEF IsAfter
  <2>2. CASE acked # None
    BY <1>2, <1>3, <1>13, <1>14, <2>2, OrderFacts
  <2> QED BY <2>1, <2>2
<1>16. slot.confirmed <= r.pos.lsn
  BY <1>0, <1>1, <1>3 DEF StreamSafe
<1>17. PipelineOrdered'
  <2>1. PipelineOrdered
    BY DEF PgKept
  <2>2. \A n \in DOMAIN flight : IsAtOrBefore(flight[n].pos, r.pos) /\ (Row(r) => IsAfter(r.pos, flight[n].pos))
    <3>1. \A n \in DOMAIN flight : IsAtOrBefore(flight[n].pos, lastSafe)
      BY <1>1 DEF StreamSafe
    <3> QED BY <1>2, <1>3, <1>5, <1>8, <3>1, OrderFacts
  <2>3. highest # None => IsAtOrBefore(highest, r.pos) /\ (Row(r) => IsAfter(r.pos, highest))
    BY <1>2, <1>3, <1>11, <1>12, OrderFacts
  <2>4. \A n, m \in DOMAIN flight' : n < m =>
            IsAtOrBefore(flight'[n].pos, flight'[m].pos) /\ (Row(flight'[m]) => IsAfter(flight'[m].pos, flight'[n].pos))
    <3>1. SUFFICES ASSUME NEW n \in DOMAIN flight', NEW m \in DOMAIN flight', n < m
                   PROVE  IsAtOrBefore(flight'[n].pos, flight'[m].pos)
                          /\ (Row(flight'[m]) => IsAfter(flight'[m].pos, flight'[n].pos))
      OBVIOUS
    <3>2. n \in DOMAIN flight
      BY <1>4, <3>1
    <3>3. CASE m \in DOMAIN flight
      <4>1. flight'[n] = flight[n] /\ flight'[m] = flight[m]
        BY <1>4, <3>2, <3>3
      <4> QED BY <2>1, <3>1, <3>2, <3>3, <4>1 DEF PipelineOrdered
    <3>4. CASE m = Len(flight) + 1
      <4>1. flight'[n] = flight[n] /\ flight'[m] = r
        BY <1>4, <3>2, <3>4
      <4> QED BY <2>2, <3>2, <4>1
    <3> QED BY <1>4, <3>3, <3>4
  <2>5. \A n \in DOMAIN flight' :
            /\ highest # None => /\ IsAtOrBefore(highest, flight'[n].pos)
                                 /\ Row(flight'[n]) => IsAfter(flight'[n].pos, highest)
            /\ acked.lsn <= flight'[n].pos.lsn
            /\ Row(flight'[n]) => IsAfter(flight'[n].pos, acked)
            /\ slot.exists => slot.confirmed <= flight'[n].pos.lsn
    <3>1. SUFFICES ASSUME NEW n \in DOMAIN flight'
                   PROVE  /\ highest # None => /\ IsAtOrBefore(highest, flight'[n].pos)
                                               /\ Row(flight'[n]) => IsAfter(flight'[n].pos, highest)
                          /\ acked.lsn <= flight'[n].pos.lsn
                          /\ Row(flight'[n]) => IsAfter(flight'[n].pos, acked)
                          /\ slot.exists => slot.confirmed <= flight'[n].pos.lsn
      OBVIOUS
    <3>2. CASE n \in DOMAIN flight
      <4>1. flight'[n] = flight[n]
        BY <1>4, <3>2
      <4> QED BY <2>1, <3>2, <4>1 DEF PipelineOrdered
    <3>3. CASE n = Len(flight) + 1
      <4>1. flight'[n] = r
        BY <1>4, <3>3
      <4> QED BY <1>15, <1>16, <2>3, <4>1
    <3> QED BY <1>4, <3>2, <3>3
  <2>6. highest # None => acked.lsn <= highest.lsn /\ (slot.exists => slot.confirmed <= highest.lsn)
    BY <2>1 DEF PipelineOrdered
  <2> QED BY <2>4, <2>5, <2>6 DEF PipelineOrdered
<1>18. PipelineCovers(s)'
  <2>1. PipelineCovers(s)
    BY DEF PgKept
  <2>2. \A n \in DOMAIN flight' :
            ~flight'[n].pos.snap \/ flight'[n].boundary = "SnapshotComplete" =>
                Covered(s, since, flight'[n].pos, delivered \cup batch \cup SentBy(flight', n))
    <3>1. SUFFICES ASSUME NEW n \in DOMAIN flight',
                          ~flight'[n].pos.snap \/ flight'[n].boundary = "SnapshotComplete"
                   PROVE  Covered(s, since, flight'[n].pos, delivered \cup batch \cup SentBy(flight', n))
      OBVIOUS
    <3>2. CASE n \in DOMAIN flight
      <4>1. flight'[n] = flight[n]
        BY <1>4, <3>2
      <4>2. SentBy(flight', n) = SentBy(flight, n)
        <5>1. \A m \in 1 .. n : flight'[m] = flight[m]
          BY <1>4, <3>2
        <5> QED BY <5>1 DEF SentBy
      <4> QED BY <2>1, <3>1, <3>2, <4>1, <4>2 DEF PipelineCovers
    <3>3. CASE n = Len(flight) + 1
      <4>1. flight'[n] = r
        BY <1>4, <3>3
      <4>2. SentBy(flight', n) = Sent \cup {r.i}
        <5>1. SentBy(flight', n) = {flight'[m].i : m \in DOMAIN flight'}
          BY <1>4, <3>3 DEF SentBy
        <5> QED BY <1>4, <5>1 DEF Sent
      <4>3. delivered \cup batch \cup SentBy(flight', n) = Somewhere \cup {r.i}
        BY <4>2 DEF Somewhere
      <4> QED BY <4>1, <4>3
    <3> QED BY <1>4, <3>2, <3>3
  <2> QED BY <2>1, <2>2 DEF PipelineCovers
<1>19. SnapshotFirst(s)'
  <2>1. SnapshotFirst(s)
    BY DEF PgKept
  <2>2. \A n \in 0 .. Len(flight) : Complete(n)' <=> Complete(n)
    <3>1. \A n \in 0 .. Len(flight) : \A m \in 1 .. n : flight'[m] = flight[m]
      BY <1>4
    <3> QED BY <3>1 DEF Complete
  <2>3. s.mode = "Initial" => Complete(Len(flight))
    BY <2>1 DEF SnapshotFirst
  <2>4. s.mode = "Initial" => Complete(Len(flight))'
    <3>1. \A m \in 1 .. Len(flight) : m \in 1 .. Len(flight') /\ flight'[m] = flight[m]
      BY <1>4
    <3> QED BY <2>3, <3>1 DEF Complete
  <2>5. ASSUME s.mode = "Initial", NEW n \in DOMAIN flight'
        PROVE  flight'[n].pos.snap = ~Complete(n - 1)'
    <3>1. CASE n \in DOMAIN flight
      <4>1. flight'[n] = flight[n] /\ n - 1 \in 0 .. Len(flight)
        BY <1>4, <3>1
      <4>2. flight[n].pos.snap = ~Complete(n - 1)
        BY <2>1, <2>5, <3>1 DEF SnapshotFirst
      <4> QED BY <2>2, <4>1, <4>2
    <3>2. CASE n = Len(flight) + 1
      <4>1. flight'[n] = r /\ n - 1 = Len(flight) /\ Len(flight) \in 0 .. Len(flight)
        BY <1>4, <3>2
      <4>2. Complete(n - 1)'
        BY <2>2, <2>3, <2>5, <4>1
      <4>3. r.pos.snap = FALSE
        BY <1>3 DEF Positions
      <4> QED BY <4>1, <4>2, <4>3
    <3> QED BY <1>4, <3>1, <3>2
  <2>6. s.mode = "Never" => \A n \in DOMAIN flight' :
            ~flight'[n].pos.snap /\ flight'[n].boundary # "SnapshotComplete"
    BY <1>4, <2>1 DEF SnapshotFirst
  <2> QED BY <1>4, <2>1, <2>4, <2>5, <2>6 DEF SnapshotFirst
<1> QED BY <1>6, <1>7, <1>10, <1>12, <1>14, <1>16, <1>17, <1>18, <1>19

\* The head of the wire is the next record of the stream: nothing before it is ahead, and it
\* has the serial of the log.
LEMMA HeadFacts ==
    ASSUME NEW s \in Setups, Ordinary(s), PgKept(s), phase = "streaming", wire # <<>>, Head(wire).kind # "Begin",
           NEW i, i = Head(wire).i
    PROVE  /\ Unit(s.wal, i, decoded) /\ from <= s.wal[decoded].lsn
           /\ i \in DOMAIN s.wal /\ i \in Nat /\ i >= 1 /\ i <= decoded /\ decoded \in Nat
           /\ decoded <= walEnd /\ walEnd \in 0 .. Len(s.wal) /\ Ready(s.wal, i) /\ Ahead(s.wal, i)
           /\ \A k \in DOMAIN s.wal : Ahead(s.wal, k) => i <= k
           /\ wire' = Tail(wire) /\ UNCHANGED <<from, decoded>> =>
                \A k \in DOMAIN s.wal : /\ Ahead(s.wal, k)' => Ahead(s.wal, k) /\ i < k
                                        /\ Ahead(s.wal, k) /\ k # i => Ahead(s.wal, k)'
<1> DEFINE w == s.wal
<1>0. Serially(w) /\ IsWal(w) /\ walEnd \in 0 .. Len(w) /\ Len(w) \in Nat /\ DOMAIN w = 1 .. Len(w)
  BY SetupFacts DEF PgKept, PgType, ServerType, Serially
<1>1. WireOrdered(w) /\ SerialsExact(w) /\ ConnType
  BY DEF PgKept, StreamExact, Flows, PgType
<1>2. /\ Head(wire) = wire[1] /\ 1 \in DOMAIN wire /\ Len(wire) \in Nat
      /\ DOMAIN wire = 1 .. Len(wire) /\ DOMAIN Tail(wire) = 1 .. Len(wire) - 1
      /\ \A n \in DOMAIN Tail(wire) : n + 1 \in DOMAIN wire /\ Tail(wire)[n] = wire[n + 1] /\ n \in Nat /\ n >= 1
      /\ \A n \in DOMAIN wire : n = 1 \/ (n - 1 \in DOMAIN Tail(wire) /\ Tail(wire)[n - 1] = wire[n])
  <2>1. wire \in Seq(Events)
    BY <1>1 DEF ConnType
  <2> QED BY <2>1, Shorter
<1>3. Unit(w, i, decoded) /\ from <= w[decoded].lsn /\ Ready(w, i) /\ decoded <= walEnd
  BY <1>1, <1>2 DEF WireOrdered, SerialsExact
<1>4. i \in DOMAIN w /\ i \in Nat /\ i >= 1 /\ decoded \in Nat /\ i <= decoded
  BY <1>0, <1>1, <1>3, UnitFacts DEF ConnType
<1>5. Ahead(w, i)
  BY <1>2 DEF Ahead, OnWire
<1>6. \A n \in DOMAIN wire : wire[n].kind # "Begin" /\ n # 1 => i < wire[n].i
  <2>1. \A n \in DOMAIN wire : n # 1 => 1 < n
    BY <1>2
  <2> QED BY <1>1, <1>2, <2>1 DEF WireOrdered
<1>7. \A k, u : Unit(w, k, u) /\ decoded < u => i < k
  BY <1>0, <1>3, UnitFacts
<1>8. \A k \in DOMAIN w : Ahead(w, k) => i <= k
  <2>1. ASSUME NEW k \in DOMAIN w, OnWire(k) PROVE i <= k
    <3>1. PICK n \in DOMAIN wire : wire[n].kind # "Begin" /\ wire[n].i = k
      BY <2>1 DEF OnWire
    <3>2. k \in Nat
      BY <1>0
    <3> QED BY <1>2, <1>4, <1>6, <3>1, <3>2
  <2>2. ASSUME NEW k \in DOMAIN w, NEW u \in DOMAIN w, Unit(w, k, u), decoded < u PROVE i <= k
    <3>1. i < k /\ k \in Nat
      BY <1>0, <1>7, <2>2
    <3> QED BY <1>4, <3>1
  <2> QED BY <2>1, <2>2 DEF Ahead
<1>9. ASSUME wire' = Tail(wire), UNCHANGED <<from, decoded>>, NEW k \in DOMAIN w
      PROVE  /\ Ahead(w, k)' => Ahead(w, k) /\ i < k
             /\ Ahead(w, k) /\ k # i => Ahead(w, k)'
  <2>1. OnWire(k)' => OnWire(k) /\ i < k
    <3>1. SUFFICES ASSUME NEW n \in DOMAIN Tail(wire), Tail(wire)[n].kind # "Begin", Tail(wire)[n].i = k
                   PROVE  OnWire(k) /\ i < k
      BY <1>9 DEF OnWire
    <3>2. n + 1 \in DOMAIN wire /\ wire[n + 1] = Tail(wire)[n] /\ n + 1 # 1
      BY <1>2
    <3> QED BY <1>6, <3>1, <3>2 DEF OnWire
  <2>2. OnWire(k) /\ k # i => OnWire(k)'
    <3>1. SUFFICES ASSUME NEW n \in DOMAIN wire, wire[n].kind # "Begin", wire[n].i = k, k # i
                   PROVE  \E m \in DOMAIN Tail(wire) : Tail(wire)[m].kind # "Begin" /\ Tail(wire)[m].i = k
      BY <1>9 DEF OnWire
    <3>2. n # 1
      BY <1>2, <3>1
    <3>3. n - 1 \in DOMAIN Tail(wire) /\ Tail(wire)[n - 1] = wire[n]
      BY <1>2, <3>2
    <3> QED BY <3>1, <3>3
  <2>3. (\E u \in DOMAIN w : Unit(w, k, u) /\ decoded < u /\ from <= w[u].lsn)' <=>
            \E u \in DOMAIN w : Unit(w, k, u) /\ decoded < u /\ from <= w[u].lsn
    BY <1>9
  <2>4. (\E u \in DOMAIN w : Unit(w, k, u) /\ decoded < u /\ from <= w[u].lsn) => i < k
    BY <1>7
  <2> QED BY <2>1, <2>2, <2>3, <2>4 DEF Ahead
<1> QED BY <1>0, <1>3, <1>4, <1>5, <1>8, <1>9

\* A record of the wire leaves the wire in order, and the next one ready.
LEMMA WireMoves ==
    ASSUME NEW s \in Setups, Ordinary(s), PgKept(s), phase = "streaming", wire # <<>>, Head(wire).kind # "Begin",
           NEW i, i = Head(wire).i, wire' = Tail(wire), UNCHANGED <<from, decoded, walEnd>>,
           NextSerial(Place(s.wal, i)), Head(wire).kind = "Change" => txn' = txn
    PROVE  /\ previousLsn' = Place(s.wal, i) /\ eventSerial' = Nth(s.wal, i)
           /\ previousLsn' \in Nat /\ eventSerial' \in Nat
           /\ ConnType => wire' \in Seq(Events)
           /\ WireOrdered(s.wal)' /\ SerialsExact(s.wal)'
<1> DEFINE w == s.wal
<1>0. Serially(w) /\ IsWal(w) /\ Len(w) \in Nat /\ DOMAIN w = 1 .. Len(w)
  BY SetupFacts DEF Serially
<1>1. WireOrdered(w) /\ SerialsExact(w) /\ ConnType /\ previousLsn \in Nat /\ eventSerial \in Nat
  BY DEF PgKept, StreamExact, Flows, PgType, TaskType
<1>2. /\ Unit(w, i, decoded) /\ i \in DOMAIN w /\ i \in Nat /\ i <= decoded /\ decoded \in Nat /\ Ready(w, i)
  BY HeadFacts
<1>3. /\ Head(wire) = wire[1] /\ 1 \in DOMAIN wire /\ Len(wire) \in Nat
      /\ Tail(wire) \in Seq(Events) /\ Len(Tail(wire)) = Len(wire) - 1
      /\ DOMAIN wire = 1 .. Len(wire) /\ DOMAIN Tail(wire) = 1 .. Len(wire) - 1
      /\ \A n \in DOMAIN Tail(wire) : n + 1 \in DOMAIN wire /\ Tail(wire)[n] = wire[n + 1] /\ n \in Nat /\ n >= 1
  <2>1. wire \in Seq(Events)
    BY <1>1 DEF ConnType
  <2> QED BY <2>1, Shorter
<1>4. /\ Place(w, i) \in Nat /\ Nth(w, i) \in Nat
      /\ \A j \in DOMAIN w : i < j => Place(w, i) < Place(w, j) \/ (w[i].kind = "change" /\ w[j].kind = "change")
  BY <1>0, <1>2, PlaceFacts, TwinFacts
<1>5. previousLsn' = Place(w, i) /\ eventSerial' = Nth(w, i)
  BY <1>1, <1>2, <1>4 DEF NextSerial, Ready
<1>6. WireOrdered(w)'
  <2>1. decoded' <= walEnd'
    BY <1>1 DEF WireOrdered
  <2>2. ASSUME NEW n \in DOMAIN Tail(wire)
        PROVE  /\ Tail(wire)[n].kind \in {"Begin", "Change", "Commit", "Message"}
               /\ Tail(wire)[n].kind # "Begin"
               /\ Unit(w, Tail(wire)[n].i, decoded) /\ from <= w[decoded].lsn
               /\ Tail(wire)[n].kind = "Change" => w[Tail(wire)[n].i].kind = "change"
               /\ Tail(wire)[n].kind = "Message" => w[Tail(wire)[n].i].kind = "message"
               /\ Tail(wire)[n].kind = "Commit" => w[Tail(wire)[n].i].kind = "commit"
    <3>1. n + 1 \in DOMAIN wire /\ Tail(wire)[n] = wire[n + 1] /\ n + 1 # 1
      BY <1>3
    <3> QED BY <1>1, <3>1 DEF WireOrdered
  <2>3. ASSUME NEW n \in DOMAIN Tail(wire), NEW m \in DOMAIN Tail(wire), n < m
        PROVE  Tail(wire)[n].i < Tail(wire)[m].i
    <3>1. /\ n + 1 \in DOMAIN wire /\ Tail(wire)[n] = wire[n + 1] /\ m + 1 \in DOMAIN wire
          /\ Tail(wire)[m] = wire[m + 1] /\ n + 1 < m + 1
      BY <1>3, <2>3
    <3> QED BY <1>1, <2>2, <3>1 DEF WireOrdered
  <2>4. ASSUME NEW n \in DOMAIN Tail(wire), n + 1 \in DOMAIN Tail(wire),
               Tail(wire)[n].kind = "Change", Tail(wire)[n + 1].kind = "Change"
        PROVE  Tail(wire)[n + 1].i = Tail(wire)[n].i + 1
    <3>1. /\ n + 1 \in DOMAIN wire /\ Tail(wire)[n] = wire[n + 1] /\ (n + 1) + 1 \in DOMAIN wire
          /\ Tail(wire)[n + 1] = wire[(n + 1) + 1]
      BY <1>3, <2>4
    <3> QED BY <1>1, <2>4, <3>1 DEF WireOrdered
  <2> QED BY <2>1, <2>2, <2>3, <2>4 DEF WireOrdered
<1>7. SerialsExact(w)'
  <2>1. ASSUME wire' # <<>>
        PROVE  wire'[1].kind # "Begin" /\ Ready(w, wire[1].i)' /\ Head(wire).kind = "Change"
    <3>1. 1 \in DOMAIN Tail(wire) /\ 1 + 1 \in DOMAIN wire /\ wire'[1] = wire[1 + 1]
      <4>1. Tail(wire) # <<>> => 1 \in DOMAIN Tail(wire)
        BY <1>3
      <4> QED BY <1>3, <2>1, <4>1
    <3> DEFINE e == wire[1 + 1]
    <3>2. e.kind \in {"Change", "Commit", "Message"} /\ Unit(w, e.i, decoded) /\ i < e.i
      BY <1>1, <1>3, <3>1 DEF WireOrdered
    <3>3. e.i \in DOMAIN w /\ e.i <= decoded /\ e.i \in Nat
      BY <1>0, <3>2, UnitFacts
    <3>4. w[i].kind = "change" /\ Head(wire).kind = "Change"
      <4>1. i # decoded
        BY <1>2, <3>2, <3>3
      <4>2. w[i].kind = "change"
        BY <1>2, <4>1 DEF Unit
      <4> QED BY <1>1, <1>3, <4>2 DEF WireOrdered
    <3>5. CASE e.kind = "Change"
      <4>1. e.i = i + 1 /\ w[e.i].kind = "change" /\ wire[1].kind = "Change"
        BY <1>1, <1>3, <3>1, <3>4, <3>5 DEF WireOrdered
      <4>2. Nth(w, i + 1) = IF w[i].lsn = w[i + 1].lsn THEN Nth(w, i) + 1 ELSE 1
        BY <1>0, <1>2, <3>3, <3>4, <4>1, NextTwin
      <4>3. Place(w, i) = w[i].lsn /\ Place(w, i + 1) = w[i + 1].lsn
        BY <3>4, <4>1 DEF Place
      <4>4. w[i].lsn <= w[i + 1].lsn /\ w[i].lsn \in Nat /\ w[i + 1].lsn \in Nat
        BY <1>0, <1>2, <3>2, <3>3, <4>1, LogRecords
      <4>5. \/ previousLsn' = Place(w, i + 1) /\ eventSerial' + 1 = Nth(w, i + 1)
            \/ previousLsn' < Place(w, i + 1) /\ Nth(w, i + 1) = 1
        BY <1>5, <4>2, <4>3, <4>4
      <4> QED BY <3>1, <3>2, <3>4, <4>1, <4>5 DEF Ready
    <3>6. CASE e.kind # "Change"
      <4>1. w[e.i].kind # "change"
        BY <1>1, <3>1, <3>2, <3>6 DEF WireOrdered
      <4>2. Nth(w, e.i) = 1 /\ Place(w, i) < Place(w, e.i)
        BY <1>4, <3>2, <3>3, <4>1 DEF Nth
      <4> QED BY <1>5, <3>1, <3>2, <3>4, <4>2 DEF Ready
    <3> QED BY <3>5, <3>6
  <2>2. ASSUME NEW k \in DOMAIN w, NEW u \in DOMAIN w, Unit(w, k, u), decoded' < u
        PROVE  previousLsn' < Place(w, k)
    BY <1>0, <1>2, <1>5, <2>2, UnitFacts
  <2>3. wire' # <<>> => txn' = w[decoded'].xid
    <3>1. ASSUME wire' # <<>> PROVE txn = w[decoded].xid
      <4>1. Head(wire).kind = "Change"
        BY <2>1, <3>1
      <4> QED BY <1>1, <1>3, <4>1 DEF SerialsExact
    <3> QED BY <2>1, <3>1
  <2> QED BY <2>1, <2>2, <2>3 DEF SerialsExact
<1> QED BY <1>3, <1>4, <1>5, <1>6, <1>7

\* An event of the stream that the replay filter drops, or that becomes a record.
LEMMA RecordKeeps ==
    ASSUME NEW s \in Setups, Ordinary(s), PgKept(s), phase = "streaming", wire # <<>>, Head(wire).kind # "Begin",
           NEW i, i = Head(wire).i, wire' = Tail(wire), Rest,
           NextSerial(Place(s.wal, i)), Head(wire).kind = "Change" => txn' = txn,
           NEW b \in {"Data", "TransactionCommit"}, NEW row \in {0, i}, row = 0 => s.wal[i].kind = "commit",
           Record(PositionOf(s.wal, i), b, row)
    PROVE  PgKept(s)'
<1> DEFINE w == s.wal
           p == PositionOf(w, i)
<1>0. Serially(w) /\ walEnd \in 0 .. Len(w) /\ Len(w) \in Nat /\ DOMAIN w = 1 .. Len(w)
  BY SetupFacts DEF PgKept, PgType, ServerType
<1>1. UNCHANGED <<walEnd, slot, since, delivered, ckpt, phase, reason, from, decoded, snapRows, snapLsn, setup>>
  BY DEF Rest, server, durable, snapshot, bounds
<1>2. /\ Unit(w, i, decoded) /\ from <= w[decoded].lsn /\ i \in DOMAIN w /\ i \in Nat /\ i >= 1
      /\ i <= decoded /\ decoded <= walEnd /\ decoded \in Nat /\ Ahead(w, i)
      /\ \A k \in DOMAIN w : Ahead(w, k) => i <= k
      /\ \A k \in DOMAIN w : Ahead(w, k)' => Ahead(w, k) /\ i < k
      /\ \A k \in DOMAIN w : Ahead(w, k) /\ k # i => Ahead(w, k)'
  BY <1>1, HeadFacts
<1>3. /\ previousLsn' \in Nat /\ eventSerial' \in Nat /\ wire' \in Seq(Events)
      /\ WireOrdered(w)' /\ SerialsExact(w)'
  BY <1>1, WireMoves DEF PgKept, PgType
<1>4. Flows /\ Flows' /\ phase' = "streaming"
  BY <1>1 DEF Flows
<1>5. /\ ServerType(s) /\ CheckpointType(s) /\ TaskType(s) /\ ConnType /\ PipelineType(s) /\ Idles
      /\ CheckpointCovers(s) /\ StreamComplete(s) /\ StreamSafe(s)
  BY DEF PgKept, PgType
<1>6. p \in Positions /\ Reached(w, walEnd, p) /\ p.snap = FALSE /\ \A k \in DOMAIN w : Below(w, k, p) <=> k <= i
  <2>1. walEnd \in i .. Len(w)
    BY <1>0, <1>2
  <2> QED BY <1>0, <1>2, <2>1, PlaceFacts, BelowRecord DEF PositionOf
<1>7. /\ ServerType(s)' /\ CheckpointType(s)' /\ ConnType' /\ CheckpointCovers(s)' /\ InSnapshot(s)' /\ Attached(s)'
      /\ StreamExact(s)'
  <2>1. ServerType(s)' /\ CheckpointType(s)'
    BY <1>1, <1>5 DEF ServerType, CheckpointType
  <2>2. ConnType'
    BY <1>1, <1>3, <1>5 DEF ConnType
  <2>3. CheckpointCovers(s)'
    BY <1>1, <1>5, PartsStay
  <2>4. InSnapshot(s)' /\ Attached(s)' /\ StreamExact(s)'
    BY <1>3, <1>4 DEF InSnapshot, Attached, StreamExact
  <2> QED BY <2>1, <2>2, <2>3, <2>4
<1>8. CASE ShouldSkip(p) /\ UNCHANGED <<resume, lastSafe, dirty, runtime>>
  <2>1. UNCHANGED <<flight, batch, highest, rtSnap, rtState, acked, resume, lastSafe, dirty>>
    BY <1>8 DEF runtime
  <2>2. TaskType(s)' /\ PipelineType(s)'
    BY <1>1, <1>3, <1>5, <2>1 DEF TaskType, PipelineType
  <2>3. Idles'
    BY <1>1, <1>5, <2>1 DEF Idles
  <2>4. SnapshotFirst(s)' /\ PipelineOrdered' /\ PipelineCovers(s)'
    BY <1>1, <2>1, PartsStay DEF PgKept
  <2>5. Somewhere' = Somewhere /\ \A i_1 : i_1 \in delivered => i_1 \in Somewhere
    BY <1>1, <2>1 DEF Somewhere, Sent
  <2>6. Due(s, since, i) => i \in Somewhere
    <3>1. resume # None /\ IsAtOrBefore(p, resume)
      BY <1>8 DEF ShouldSkip
    <3>2. Reached(w, walEnd, resume)
      BY <1>5, <3>1 DEF TaskType
    <3>3. Below(w, i, resume)
      BY <1>0, <1>2, <3>1, <3>2, ReachedFacts
    <3>4. Covered(s, since, resume, delivered)
      BY <1>4, <1>5, <3>1 DEF StreamSafe
    <3> QED BY <1>2, <2>5, <3>3, <3>4 DEF Covered
  <2>7. StreamComplete(s)'
    <3>1. \A k \in DOMAIN w : Due(s, since, k) => k \in Somewhere \/ Ahead(w, k)
      BY <1>4, <1>5 DEF StreamComplete
    <3>2. \A k \in DOMAIN w : Due(s, since, k) => k \in Somewhere \/ Ahead(w, k)'
      BY <1>2, <2>6, <3>1
    <3> QED BY <1>1, <2>5, <3>2 DEF StreamComplete
  <2>8. StreamSafe(s)'
    <3>1. \A k \in DOMAIN w : Ahead(w, k)' => ~Below(w, k, lastSafe) \/ Skipped(w, k)
      BY <1>2, <1>4, <1>5 DEF StreamSafe
    <3>2. \A k \in DOMAIN w : Skipped(w, k)' <=> Skipped(w, k)
      BY <2>1 DEF Skipped
    <3> QED BY <1>1, <1>4, <1>5, <2>1, <2>5, <3>1, <3>2 DEF StreamSafe
  <2> QED BY <1>7, <2>2, <2>3, <2>4, <2>7, <2>8 DEF PgKept, PgType
<1>9. CASE ~ShouldSkip(p) /\ resume' = None /\ lastSafe' = p /\ dirty' = FALSE /\ Emit(p, b, row, dirty)
  <2> DEFINE r == [pos |-> p, boundary |-> b, i |-> row, state |-> dirty]
  <2>1. flight' = Append(flight, r) /\ UNCHANGED <<batch, highest, rtSnap, rtState, acked>>
    BY <1>9 DEF Emit
  <2>2. r \in Records /\ r.pos = p /\ r.boundary = b /\ r.i = row
    <3>1. b \in Boundaries /\ row \in Nat /\ dirty \in BOOLEAN
      BY <1>2, <1>5 DEF Boundaries, TaskType
    <3> HIDE DEF p
    <3> QED BY <1>6, <3>1 DEF Records
  <2>3. lastSafe # None /\ lastSafe \in Positions /\ Reached(w, walEnd, lastSafe)
    <3>1. lastSafe # None
      BY <1>4, <1>5 DEF StreamSafe
    <3>2. Reached(w, walEnd, lastSafe)
      BY <1>5, <3>1 DEF TaskType
    <3> QED BY <1>0, <3>1, <3>2, ReachedFacts
  <2>4. IsAfter(p, lastSafe)
    <3>1. ~Skipped(w, i)
      BY <1>9 DEF Skipped, ShouldSkip
    <3>2. ~Below(w, i, lastSafe)
      BY <1>2, <1>4, <1>5, <3>1 DEF StreamSafe
    <3> QED BY <1>0, <1>2, <2>3, <3>2, ReachedFacts
  <2>5. Covered(s, since, p, Somewhere \cup {row})
    <3>1. SUFFICES ASSUME NEW k \in DOMAIN w, Due(s, since, k), Below(w, k, p)
                   PROVE  k \in Somewhere \cup {row}
      BY DEF Covered
    <3>2. k <= i /\ k \in Nat
      BY <1>0, <1>6, <3>1
    <3>3. k \in Somewhere \/ Ahead(w, k)
      BY <1>4, <1>5, <3>1 DEF StreamComplete
    <3>4. Ahead(w, k) => k = i
      BY <1>2, <3>2
    <3>5. k = i => row = i
      BY <3>1 DEF Due
    <3> QED BY <3>3, <3>4, <3>5
  <2>6. IsAtOrBefore(lastSafe, p)
    BY <2>4 DEF IsAtOrBefore
  <2>7. /\ PipelineType(s)' /\ SnapshotFirst(s)' /\ PipelineOrdered' /\ PipelineCovers(s)'
        /\ Somewhere' = Somewhere \cup {row}
        /\ slot.confirmed <= p.lsn
        /\ \A n \in DOMAIN flight' : IsAtOrBefore(flight'[n].pos, p)
        /\ highest # None => IsAtOrBefore(highest, p)
        /\ acked # None => IsAtOrBefore(acked, p)
    <3> HIDE DEF r, p
    <3>1. r.boundary # "SnapshotComplete"
      BY <2>2
    <3> QED BY <1>1, <1>6, <2>1, <2>2, <2>4, <2>5, <2>6, <3>1, EmitKeeps
  <2>8. TaskType(s)'
    BY <1>1, <1>3, <1>5, <1>6, <1>9 DEF TaskType
  <2>9. Idles'
    BY <1>1, <1>4, <1>5, <2>1 DEF Idles
  <2>10. StreamComplete(s)'
    <3>1. \A k \in DOMAIN w : Due(s, since, k) => k \in Somewhere \/ Ahead(w, k)
      BY <1>4, <1>5 DEF StreamComplete
    <3>2. Due(s, since, i) => row = i
      BY DEF Due
    <3>3. \A k \in DOMAIN w : Due(s, since, k) => k \in Somewhere \cup {row} \/ Ahead(w, k)'
      BY <1>2, <3>1, <3>2
    <3> QED BY <1>1, <2>7, <3>3 DEF StreamComplete
  <2>11. StreamSafe(s)'
    <3>1. \A k \in DOMAIN w : Ahead(w, k)' => ~Below(w, k, p)
      BY <1>0, <1>2, <1>6
    <3>2. p # None
      BY <1>0, <1>6, ReachedFacts
    <3>3. slot.exists
      BY <1>4, <1>5 DEF StreamSafe
    <3> HIDE DEF p
    <3> QED BY <1>1, <1>6, <1>9, <2>1, <2>5, <2>7, <3>1, <3>2, <3>3 DEF StreamSafe
  <2> QED BY <1>7, <2>7, <2>8, <2>9, <2>10, <2>11 DEF PgKept, PgType
<1> QED BY <1>8, <1>9 DEF Record

\* What the head of the wire can be.
LEMMA TakeFacts ==
    ASSUME NEW s \in Setups, Ordinary(s), PgKept(s), NEW kind, Take(kind)
    PROVE  /\ phase = "streaming" /\ wire # <<>> /\ Head(wire).kind = kind /\ wire' = Tail(wire) /\ setup = s
           /\ Head(wire) = wire[1] /\ 1 \in DOMAIN wire /\ WireOrdered(s.wal) /\ SerialsExact(s.wal)
           /\ kind \in {"Begin", "Change", "Commit", "Message"}
           /\ kind = "Change" => s.wal[wire[1].i].kind = "change"
           /\ kind = "Message" => s.wal[wire[1].i].kind = "message"
           /\ kind = "Commit" => s.wal[wire[1].i].kind = "commit"
           /\ kind \in {"Change", "Commit"} => txn = s.wal[wire[1].i].xid
<1>1. phase = "streaming" /\ wire # <<>> /\ Head(wire).kind = kind /\ wire' = Tail(wire) /\ setup = s
  BY DEF Take, PgKept, PgType, ServerType
<1>2. Head(wire) = wire[1] /\ 1 \in DOMAIN wire
  <2>1. wire \in Seq(Events)
    BY DEF PgKept, PgType, ConnType
  <2> QED BY <1>1, <2>1, Shorter
<1>3. WireOrdered(s.wal) /\ SerialsExact(s.wal)
  BY <1>1 DEF PgKept, StreamExact, Flows
<1>4. /\ kind \in {"Begin", "Change", "Commit", "Message"}
      /\ kind # "Begin" => Unit(s.wal, wire[1].i, decoded)
      /\ kind = "Change" => s.wal[wire[1].i].kind = "change"
      /\ kind = "Message" => s.wal[wire[1].i].kind = "message"
      /\ kind = "Commit" => s.wal[wire[1].i].kind = "commit"
  BY <1>1, <1>2, <1>3 DEF WireOrdered
<1>5. kind \in {"Change", "Commit"} => txn = s.wal[wire[1].i].xid
  <2>1. kind \in {"Change", "Commit"} => txn = s.wal[decoded].xid
    BY <1>1, <1>2, <1>3 DEF SerialsExact
  <2>2. kind # "Begin" => s.wal[wire[1].i].xid = s.wal[decoded].xid
    BY <1>4, SetupFacts, UnitFacts
  <2> QED BY <2>1, <2>2
<1> QED BY <1>1, <1>2, <1>3, <1>4, <1>5

\* Rows, commits and messages of the stream.
LEMMA DataRecordKeeps ==
    ASSUME NEW s \in Setups, Ordinary(s), PgKept(s), DataRecord
    PROVE  PgKept(s)'
<1>1. Take("Change") /\ Rest /\ txn' = txn
  BY DEF DataRecord
<1>2. PICK i : i = Head(wire).i
  OBVIOUS
<1>3. /\ phase = "streaming" /\ wire # <<>> /\ Head(wire).kind = "Change" /\ wire' = Tail(wire) /\ setup = s
      /\ s.wal[i].kind = "change" /\ txn = s.wal[i].xid
  BY <1>1, <1>2, TakeFacts
<1>4. NextSerial(s.wal[i].lsn) /\ s.wal[i].lsn = Place(s.wal, i)
  BY <1>2, <1>3 DEF DataRecord, Wal, Place
<1>5. eventSerial' = Nth(s.wal, i)
  <2>1. UNCHANGED <<from, decoded, walEnd>>
    BY <1>1 DEF Rest, server
  <2> QED BY <1>1, <1>2, <1>3, <1>4, <2>1, WireMoves
<1>6. Record(PositionOf(s.wal, i), "Data", i)
  <2>1. Record([lsn |-> s.wal[i].lsn, commit |-> 0, xid |-> txn, serial |-> eventSerial', snap |-> FALSE], "Data", i)
    BY <1>2, <1>3 DEF DataRecord, Wal
  <2>2. PositionOf(s.wal, i) = [lsn |-> s.wal[i].lsn, commit |-> 0, xid |-> txn, serial |-> eventSerial', snap |-> FALSE]
    BY <1>3, <1>4, <1>5 DEF PositionOf
  <2> QED BY <2>1, <2>2
<1>7. i # 0
  BY <1>2, <1>3, HeadFacts
<1> QED BY <1>1, <1>2, <1>3, <1>4, <1>6, <1>7, RecordKeeps

LEMMA CommitRecordKeeps ==
    ASSUME NEW s \in Setups, Ordinary(s), PgKept(s), CommitRecord
    PROVE  PgKept(s)'
<1>1. Take("Commit") /\ Rest
  BY TakeFacts DEF CommitRecord
<1>2. PICK i : i = Head(wire).i
  OBVIOUS
<1>3. /\ phase = "streaming" /\ wire # <<>> /\ Head(wire).kind = "Commit" /\ wire' = Tail(wire) /\ setup = s
      /\ s.wal[i].kind = "commit" /\ txn = s.wal[i].xid
  BY <1>1, <1>2, TakeFacts
<1>4. NextSerial(s.wal[i].end) /\ s.wal[i].end = Place(s.wal, i)
  BY <1>2, <1>3 DEF CommitRecord, Wal, Place
<1>5. eventSerial' = Nth(s.wal, i)
  <2>1. UNCHANGED <<from, decoded, walEnd>>
    BY <1>1 DEF Rest, server
  <2> QED BY <1>1, <1>2, <1>3, <1>4, <2>1, WireMoves
<1>6. Record(PositionOf(s.wal, i), "TransactionCommit", 0)
  <2> DEFINE q == [lsn |-> s.wal[i].end, commit |-> s.wal[i].end, xid |-> s.wal[i].xid, serial |-> eventSerial',
                   snap |-> FALSE]
  <2>1. Record(q, "TransactionCommit", 0)
    BY <1>2, <1>3 DEF CommitRecord, Wal
  <2>2. PositionOf(s.wal, i) = q
    BY <1>3, <1>4, <1>5 DEF PositionOf
  <2> QED BY <2>1, <2>2
<1> QED BY <1>1, <1>2, <1>3, <1>4, <1>6, RecordKeeps

LEMMA MessageRecordKeeps ==
    ASSUME NEW s \in Setups, Ordinary(s), PgKept(s), MessageRecord
    PROVE  PgKept(s)'
<1>1. Take("Message") /\ Rest
  BY DEF MessageRecord
<1>2. PICK i : i = Head(wire).i
  OBVIOUS
<1>3. /\ phase = "streaming" /\ wire # <<>> /\ Head(wire).kind = "Message" /\ wire' = Tail(wire) /\ setup = s
      /\ s.wal[i].kind = "message"
  BY <1>1, <1>2, TakeFacts
<1>4. NextSerial(s.wal[i].end) /\ s.wal[i].end = Place(s.wal, i)
  BY <1>2, <1>3 DEF MessageRecord, Wal, Place
<1>5. eventSerial' = Nth(s.wal, i)
  <2>1. UNCHANGED <<from, decoded, walEnd>>
    BY <1>1 DEF Rest, server
  <2> QED BY <1>1, <1>2, <1>3, <1>4, <2>1, WireMoves
<1>6. s.wal[i].xid = 0 /\ i # 0
  <2>1. i \in DOMAIN s.wal /\ i # 0
    BY <1>2, <1>3, HeadFacts
  <2> QED BY <1>3, <2>1 DEF Ordinary, Apart
<1>7. Record(PositionOf(s.wal, i), "TransactionCommit", i)
  <2> DEFINE q == [lsn |-> s.wal[i].end, commit |-> s.wal[i].end, xid |-> 0, serial |-> eventSerial', snap |-> FALSE]
  <2>1. Record(q, "TransactionCommit", i)
    BY <1>2, <1>3 DEF MessageRecord, Wal
  <2>2. PositionOf(s.wal, i) = q
    BY <1>3, <1>4, <1>5, <1>6 DEF PositionOf
  <2> QED BY <2>1, <2>2
<1> QED BY <1>1, <1>2, <1>3, <1>4, <1>6, <1>7, RecordKeeps

\* The begin of a transaction opens it.
LEMMA BeginKeeps ==
    ASSUME NEW s \in Setups, Ordinary(s), PgKept(s), Begin
    PROVE  PgKept(s)'
<1> DEFINE w == s.wal
<1>1. /\ Take("Begin") /\ txn' = Wal[Head(wire).i].xid
      /\ UNCHANGED <<walEnd, slot, since, delivered, ckpt, phase, reason, from, decoded, snapRows, snapLsn, setup,
                     resume, lastSafe, dirty, previousLsn, eventSerial, flight, batch, highest, rtSnap, rtState, acked>>
  BY DEF Begin, Rest, NoRecord, server, durable, snapshot, bounds, runtime
<1>2. /\ phase = "streaming" /\ wire # <<>> /\ wire[1].kind = "Begin" /\ wire' = Tail(wire) /\ setup = s
      /\ Head(wire) = wire[1] /\ 1 \in DOMAIN wire /\ WireOrdered(w) /\ SerialsExact(w)
  BY <1>1, TakeFacts
<1>3. /\ Len(wire) \in Nat /\ Tail(wire) \in Seq(Events) /\ Len(Tail(wire)) = Len(wire) - 1
      /\ DOMAIN wire = 1 .. Len(wire) /\ DOMAIN Tail(wire) = 1 .. Len(wire) - 1
      /\ \A n \in DOMAIN Tail(wire) : n + 1 \in DOMAIN wire /\ Tail(wire)[n] = wire[n + 1] /\ n \in Nat /\ n >= 1
      /\ \A n \in DOMAIN wire : n = 1 \/ (n - 1 \in DOMAIN Tail(wire) /\ Tail(wire)[n - 1] = wire[n])
  <2>1. wire \in Seq(Events)
    BY DEF PgKept, PgType, ConnType
  <2> QED BY <1>2, <2>1, Shorter
<1>4. PgType(s)'
  <2>1. ServerType(s)' /\ CheckpointType(s)' /\ TaskType(s)' /\ PipelineType(s)'
    BY <1>1 DEF PgKept, PgType, ServerType, CheckpointType, TaskType, PipelineType
  <2>2. ConnType'
    BY <1>1, <1>2, <1>3 DEF PgKept, PgType, ConnType
  <2> QED BY <2>1, <2>2 DEF PgType
<1>5. Idles'
  BY <1>1 DEF PgKept, Idles
<1>6. CheckpointCovers(s)' /\ SnapshotFirst(s)' /\ PipelineOrdered' /\ PipelineCovers(s)'
  BY <1>1, PartsStay DEF PgKept
<1>7. InSnapshot(s)' /\ Attached(s)'
  BY <1>1, <1>2 DEF InSnapshot, Attached
<1>8. \A k \in DOMAIN w : Ahead(w, k)' <=> Ahead(w, k)
  <2>1. ASSUME NEW k \in DOMAIN w PROVE OnWire(k)' <=> OnWire(k)
    <3>1. ASSUME NEW n \in DOMAIN wire, wire[n].kind # "Begin", wire[n].i = k
          PROVE  \E m \in DOMAIN Tail(wire) : Tail(wire)[m].kind # "Begin" /\ Tail(wire)[m].i = k
      <4>1. n # 1
        BY <1>2, <3>1
      <4>2. n - 1 \in DOMAIN Tail(wire) /\ Tail(wire)[n - 1] = wire[n]
        BY <1>3, <4>1
      <4> QED BY <3>1, <4>2
    <3>2. ASSUME NEW n \in DOMAIN Tail(wire), Tail(wire)[n].kind # "Begin", Tail(wire)[n].i = k
          PROVE  \E m \in DOMAIN wire : wire[m].kind # "Begin" /\ wire[m].i = k
      BY <1>3, <3>2
    <3> QED BY <1>2, <3>1, <3>2 DEF OnWire
  <2> QED BY <1>1, <2>1 DEF Ahead
<1>9. Somewhere' = Somewhere /\ (Flows' <=> Flows)
  BY <1>1 DEF Somewhere, Sent, Flows
<1>10. StreamComplete(s)'
  BY <1>1, <1>8, <1>9 DEF PgKept, StreamComplete
<1>11. StreamSafe(s)'
  <2>1. \A k \in DOMAIN w : Skipped(w, k)' <=> Skipped(w, k)
    BY <1>1 DEF Skipped
  <2> QED BY <1>1, <1>8, <1>9, <2>1 DEF PgKept, StreamSafe
<1>12. WireOrdered(w)'
  <2>1. decoded' <= walEnd'
    BY <1>1, <1>2 DEF WireOrdered
  <2>2. ASSUME NEW n \in DOMAIN Tail(wire)
        PROVE  /\ Tail(wire)[n].kind \in {"Begin", "Change", "Commit", "Message"}
               /\ Tail(wire)[n].kind # "Begin"
               /\ Unit(w, Tail(wire)[n].i, decoded) /\ from <= w[decoded].lsn
               /\ Tail(wire)[n].kind = "Change" => w[Tail(wire)[n].i].kind = "change"
               /\ Tail(wire)[n].kind = "Message" => w[Tail(wire)[n].i].kind = "message"
               /\ Tail(wire)[n].kind = "Commit" => w[Tail(wire)[n].i].kind = "commit"
    <3>1. n + 1 \in DOMAIN wire /\ Tail(wire)[n] = wire[n + 1] /\ n + 1 # 1
      BY <1>3
    <3> QED BY <1>2, <3>1 DEF WireOrdered
  <2>3. ASSUME NEW n \in DOMAIN Tail(wire), NEW m \in DOMAIN Tail(wire), n < m
        PROVE  Tail(wire)[n].i < Tail(wire)[m].i
    <3>1. /\ n + 1 \in DOMAIN wire /\ Tail(wire)[n] = wire[n + 1] /\ m + 1 \in DOMAIN wire
          /\ Tail(wire)[m] = wire[m + 1] /\ n + 1 < m + 1
      BY <1>3, <2>3
    <3> QED BY <1>2, <2>2, <3>1 DEF WireOrdered
  <2>4. ASSUME NEW n \in DOMAIN Tail(wire), n + 1 \in DOMAIN Tail(wire),
               Tail(wire)[n].kind = "Change", Tail(wire)[n + 1].kind = "Change"
        PROVE  Tail(wire)[n + 1].i = Tail(wire)[n].i + 1
    <3>1. /\ n + 1 \in DOMAIN wire /\ Tail(wire)[n] = wire[n + 1] /\ (n + 1) + 1 \in DOMAIN wire
          /\ Tail(wire)[n + 1] = wire[(n + 1) + 1]
      BY <1>3, <2>4
    <3> QED BY <1>2, <2>4, <3>1 DEF WireOrdered
  <2> QED BY <1>1, <1>2, <2>1, <2>2, <2>3, <2>4 DEF WireOrdered
<1>13. SerialsExact(w)'
  <2>1. ASSUME wire' # <<>> PROVE wire'[1].kind # "Begin" /\ Ready(w, wire[2].i) /\ wire'[1] = wire[2]
    <3>1. 1 \in DOMAIN Tail(wire) /\ 2 \in DOMAIN wire /\ wire'[1] = wire[2] /\ Len(wire) > 1
      <4>1. Tail(wire) # <<>> => 1 \in DOMAIN Tail(wire)
        BY <1>3
      <4>2. 1 \in DOMAIN Tail(wire)
        BY <1>2, <2>1, <4>1
      <4>3. 1 + 1 \in DOMAIN wire /\ Tail(wire)[1] = wire[1 + 1]
        BY <1>3, <4>2
      <4> QED BY <1>2, <1>3, <4>2, <4>3
    <3> QED BY <1>2, <3>1 DEF WireOrdered, SerialsExact
  <2>2. txn' = w[decoded].xid
    BY <1>1, <1>2 DEF WireOrdered, Wal
  <2>3. wire' # <<>> => Ready(w, wire[1].i)'
    BY <1>1, <2>1 DEF Ready
  <2> QED BY <1>1, <1>2, <2>1, <2>2, <2>3 DEF SerialsExact
<1> QED BY <1>4, <1>5, <1>6, <1>7, <1>10, <1>11, <1>12, <1>13 DEF PgKept, StreamExact

\* A heartbeat at the last safe position.
LEMMA HeartbeatKeeps ==
    ASSUME NEW s \in Setups, Ordinary(s), PgKept(s), Heartbeat
    PROVE  PgKept(s)'
<1> DEFINE w == s.wal
           r == [pos |-> lastSafe, boundary |-> "Heartbeat", i |-> 0, state |-> FALSE]
<1>0. Serially(w) /\ walEnd \in 0 .. Len(w)
  BY SetupFacts DEF PgKept, PgType, ServerType
<1>1. /\ phase = "streaming" /\ lastSafe # None /\ flight' = Append(flight, r)
      /\ UNCHANGED <<walEnd, slot, since, delivered, ckpt, phase, reason, resume, lastSafe, txn, previousLsn, eventSerial,
                     dirty, from, decoded, wire, snapRows, snapLsn, setup, batch, highest, rtSnap, rtState, acked>>
  BY DEF Heartbeat, Emit, server, durable, connector, conn, snapshot, bounds
<1>2. Flows /\ Flows' /\ StreamSafe(s) /\ StreamComplete(s) /\ PgType(s)
  BY <1>1 DEF PgKept, Flows
<1>3. Reached(w, walEnd, lastSafe) /\ lastSafe \in Positions /\ ~lastSafe.snap
  <2>1. Reached(w, walEnd, lastSafe)
    BY <1>1, <1>2 DEF PgType, TaskType
  <2> QED BY <1>0, <1>2, <2>1, ReachedFacts DEF StreamSafe
<1>4. r \in Records /\ r.pos = lastSafe /\ r.boundary = "Heartbeat" /\ r.i = 0
  BY <1>3 DEF Records, Boundaries
<1>5. Covered(s, since, lastSafe, Somewhere \cup {0})
  <2>1. Covered(s, since, lastSafe, Somewhere)
    BY <1>2 DEF StreamSafe
  <2> QED BY <2>1 DEF Covered
<1>6. /\ PipelineType(s)' /\ SnapshotFirst(s)' /\ PipelineOrdered' /\ PipelineCovers(s)'
      /\ Somewhere' = Somewhere \cup {0}
      /\ slot.confirmed <= lastSafe.lsn
      /\ \A n \in DOMAIN flight' : IsAtOrBefore(flight'[n].pos, lastSafe)
  <2>1. IsAtOrBefore(lastSafe, lastSafe) /\ ~Row(r) /\ r.boundary # "SnapshotComplete"
    BY <1>4 DEF IsAtOrBefore, Row
  <2> HIDE DEF r
  <2> QED BY <1>1, <1>3, <1>4, <1>5, <2>1, EmitKeeps
<1>7. PgType(s)'
  <2>1. ServerType(s)' /\ CheckpointType(s)' /\ TaskType(s)' /\ ConnType'
    BY <1>1, <1>2 DEF PgType, ServerType, CheckpointType, TaskType, ConnType
  <2> QED BY <1>6, <2>1 DEF PgType
<1>8. Idles' /\ InSnapshot(s)' /\ Attached(s)'
  BY <1>1 DEF PgKept, Idles, InSnapshot, Attached
<1>9. CheckpointCovers(s)' /\ StreamExact(s)'
  BY <1>1, PartsStay DEF PgKept
<1>10. \A k \in DOMAIN w : (Ahead(w, k)' <=> Ahead(w, k)) /\ (Skipped(w, k)' <=> Skipped(w, k))
  BY <1>1 DEF Ahead, OnWire, Skipped
<1>11. StreamComplete(s)'
  BY <1>1, <1>2, <1>6, <1>10 DEF StreamComplete
<1>12. StreamSafe(s)'
  <2>1. Covered(s, since, lastSafe, Somewhere')
    BY <1>5, <1>6
  <2> QED BY <1>1, <1>2, <1>6, <1>10, <2>1 DEF StreamSafe
<1> QED BY <1>6, <1>7, <1>8, <1>9, <1>11, <1>12 DEF PgKept

\* The server sends the events of the next record of the log.
LEMMA SendKeeps ==
    ASSUME NEW s \in Setups, Ordinary(s), PgKept(s), Send
    PROVE  PgKept(s)'
<1> DEFINE w == s.wal
<1>a. PICK d : d = decoded + 1
  OBVIOUS
<1>b. PICK L : L = Decode(d, from)
  OBVIOUS
<1>1. /\ phase = "streaming" /\ wire = <<>> /\ decoded < walEnd /\ wire' = L /\ decoded' = d
      /\ UNCHANGED <<walEnd, slot, since, delivered, ckpt, phase, reason, resume, lastSafe, txn, previousLsn, eventSerial,
                     dirty, from, snapRows, snapLsn, flight, batch, highest, rtSnap, rtState, acked, setup>>
  BY <1>a, <1>b DEF Send, server, durable, connector, snapshot, runtime, bounds
<1>2. /\ Serially(w) /\ setup = s /\ walEnd \in 0 .. Len(w) /\ Len(w) \in Nat /\ DOMAIN w = 1 .. Len(w)
      /\ decoded \in Nat /\ from \in Nat /\ previousLsn \in Nat
  BY SetupFacts DEF PgKept, PgType, ServerType, ConnType, TaskType
<1>3. d \in DOMAIN w /\ d <= walEnd /\ d \in Nat /\ decoded < d
  BY <1>1, <1>2, <1>a
<1>4. Sends(w, d, from, L)
  BY <1>2, <1>3, <1>b, DecodeFacts
<1>5. WireOrdered(w) /\ SerialsExact(w) /\ Flows /\ (Flows' <=> Flows)
  BY <1>1 DEF PgKept, StreamExact, Flows
<1>6. ASSUME NEW k \in DOMAIN w PROVE Ahead(w, k)' <=> Ahead(w, k)
  <2>1. OnWire(k)' <=> \E n \in DOMAIN L : L[n].kind # "Begin" /\ L[n].i = k
    BY <1>1 DEF OnWire
  <2>2. ~OnWire(k)
    BY <1>1 DEF OnWire
  <2>3. OnWire(k)' <=> Unit(w, k, d) /\ from <= w[d].lsn
    BY <1>4, <2>1 DEF Sends
  <2>4. Ahead(w, k)' <=> OnWire(k)' \/ \E u \in DOMAIN w : Unit(w, k, u) /\ d < u /\ from <= w[u].lsn
    BY <1>1 DEF Ahead
  <2>5. Ahead(w, k) <=> \E u \in DOMAIN w : Unit(w, k, u) /\ decoded < u /\ from <= w[u].lsn
    BY <2>2 DEF Ahead
  <2>6. \A u \in DOMAIN w : decoded < u <=> u = d \/ d < u
    BY <1>2, <1>a
  <2> QED BY <1>3, <2>3, <2>4, <2>5, <2>6
<1>7. WireOrdered(w)'
  <2>1. wire' = L /\ decoded' = d /\ d <= walEnd' /\ UNCHANGED from
    BY <1>1, <1>3
  <2> QED BY <1>3, <1>4, <2>1 DEF WireOrdered, Sends
<1>8. SerialsExact(w)'
  <2>1. ASSUME NEW k, Unit(w, k, d), Nth(w, k) = 1 PROVE Ready(w, k)'
    <3>1. k \in DOMAIN w
      BY <2>1 DEF Unit
    <3>2. previousLsn < Place(w, k)
      BY <1>3, <1>5, <2>1, <3>1 DEF SerialsExact
    <3> QED BY <1>1, <2>1, <3>2 DEF Ready
  <2>2. L # <<>> => 1 \in DOMAIN L
    BY <1>4 DEF Sends
  <2>3. L # <<>> /\ L[1].kind # "Begin" => Ready(w, L[1].i)'
    BY <1>4, <2>1, <2>2 DEF Sends
  <2>4. L # <<>> /\ L[1].kind = "Begin" => Ready(w, L[2].i)'
    BY <1>4, <2>1 DEF Sends
  <2>5. ASSUME NEW k \in DOMAIN w, NEW u \in DOMAIN w, Unit(w, k, u), d < u PROVE previousLsn < Place(w, k)
    <3>1. decoded < u
      BY <1>2, <1>3, <2>5
    <3> QED BY <1>5, <2>5, <3>1 DEF SerialsExact
  <2>6. Ready(w, wire[1].i)' <=> Ready(w, L[1].i)'
    BY <1>1 DEF Ready
  <2>7. Ready(w, wire[2].i)' <=> Ready(w, L[2].i)'
    BY <1>1 DEF Ready
  <2> QED BY <1>1, <1>4, <2>3, <2>4, <2>5, <2>6, <2>7 DEF SerialsExact, Sends
<1>9. PgType(s)'
  <2>1. ServerType(s)' /\ CheckpointType(s)' /\ TaskType(s)' /\ PipelineType(s)'
    BY <1>1 DEF PgKept, PgType, ServerType, CheckpointType, TaskType, PipelineType
  <2>2. ConnType'
    BY <1>1, <1>3, <1>4 DEF PgKept, PgType, ConnType, Sends
  <2> QED BY <2>1, <2>2 DEF PgType
<1>10. Idles'
  BY <1>1 DEF PgKept, Idles
<1>11. CheckpointCovers(s)' /\ SnapshotFirst(s)' /\ PipelineOrdered' /\ PipelineCovers(s)'
  BY <1>1, PartsStay DEF PgKept
<1>12. InSnapshot(s)' /\ Attached(s)'
  BY <1>1 DEF InSnapshot, Attached
<1>13. Somewhere' = Somewhere
  BY <1>1 DEF Somewhere, Sent
<1>14. StreamComplete(s)'
  BY <1>1, <1>5, <1>6, <1>13 DEF PgKept, StreamComplete
<1>15. StreamSafe(s)'
  <2>1. \A k \in DOMAIN w : Skipped(w, k)' <=> Skipped(w, k)
    BY <1>1 DEF Skipped
  <2> QED BY <1>1, <1>5, <1>6, <1>13, <2>1 DEF PgKept, StreamSafe
<1> QED BY <1>7, <1>8, <1>9, <1>10, <1>11, <1>12, <1>14, <1>15 DEF PgKept, StreamExact

\* The batch is flushed.
LEMMA FlushKeeps ==
    ASSUME NEW s \in Setups, Ordinary(s), PgKept(s), Flush
    PROVE  PgKept(s)'
<1> DEFINE w == s.wal
<1>0. /\ s.mode \in {"Initial", "Never"} /\ Serially(w) /\ walEnd \in 0 .. Len(w)
      /\ ServerType(s) /\ CheckpointType(s) /\ TaskType(s) /\ ConnType /\ PipelineType(s)
  BY SetupFacts DEF PgKept, PgType, ServerType
<1>1. /\ highest # None /\ delivered' = delivered \cup batch
      /\ ckpt' = [pos |-> highest, snap |-> rtSnap, state |-> rtState]
      /\ acked' = highest /\ batch' = {} /\ highest' = None
      /\ UNCHANGED <<phase, reason, flight, rtSnap, rtState, walEnd, slot, since, resume, lastSafe, txn, previousLsn,
                     eventSerial, dirty, from, decoded, wire, snapRows, snapLsn, setup>>
  BY DEF Flush, rtRest, server, conn, snapshot, bounds
<1>2. Reached(w, walEnd, highest) /\ highest \in Positions /\ highest.snap \in BOOLEAN /\ rtSnap \in BOOLEAN
  <2>1. Reached(w, walEnd, highest)
    BY <1>0, <1>1 DEF PipelineType
  <2> QED BY <1>0, <2>1, ReachedFacts DEF PipelineType, Positions
<1>3. ckpt'.pos = highest /\ ckpt'.snap = rtSnap /\ ckpt' # NoCheckpoint
  BY <1>1 DEF NoCheckpoint
<1>4. PgType(s)'
  <2>1. ServerType(s)' /\ TaskType(s)' /\ ConnType'
    BY <1>0, <1>1 DEF ServerType, TaskType, ConnType
  <2>2. CheckpointType(s)'
    BY <1>0, <1>1, <1>2 DEF CheckpointType, PipelineType
  <2>3. PipelineType(s)'
    BY <1>0, <1>1 DEF PipelineType
  <2> QED BY <2>1, <2>2, <2>3 DEF PgType
<1>5. Idles' /\ phase \notin {"down", "failed", "prepared"}
  BY <1>1, <1>3 DEF PgKept, Idles
<1>6. CheckpointCovers(s)'
  <2>1. CheckpointCovers(s)
    BY DEF PgKept
  <2>2. slot.exists => slot.confirmed <= highest.lsn
    BY <1>1 DEF PgKept, PipelineOrdered
  <2>3. /\ s.mode = "Never" => ~rtSnap /\ ~highest.snap
        /\ s.mode = "Initial" => highest.snap = ~rtSnap
    BY <1>1 DEF PgKept, SnapshotFirst
  <2>4. ~highest.snap => Covered(s, since, highest, delivered')
    BY <1>1 DEF PgKept, PipelineCovers
  <2>5. Resumable(ckpt)' => ~highest.snap
    BY <1>0, <1>2, <1>3, <2>3 DEF Resumable
  <2> QED BY <1>0, <1>1, <1>2, <1>3, <2>1, <2>2, <2>3, <2>4, <2>5 DEF CheckpointCovers
<1>7. SnapshotFirst(s)'
  BY <1>1, <1>3 DEF PgKept, SnapshotFirst, Complete
<1>8. PipelineOrdered'
  <2>1. PipelineOrdered
    BY DEF PgKept
  <2>2. \A n \in DOMAIN flight : highest.lsn <= flight[n].pos.lsn
    <3>1. ASSUME NEW n \in DOMAIN flight PROVE highest.lsn <= flight[n].pos.lsn
      <4>1. IsAtOrBefore(highest, flight[n].pos)
        BY <1>1, <2>1 DEF PipelineOrdered
      <4>2. Reached(w, walEnd, flight[n].pos)
        BY <1>0 DEF PipelineType
      <4>3. flight[n].pos \in Positions
        BY <1>0, <4>2, ReachedFacts
      <4> QED BY <1>2, <4>1, <4>3, OrderFacts
    <3> QED BY <3>1
  <2> QED BY <1>1, <2>1, <2>2 DEF PipelineOrdered
<1>9. PipelineCovers(s)'
  BY <1>1 DEF PgKept, PipelineCovers
<1>10. Somewhere' = Somewhere
  BY <1>1 DEF Somewhere, Sent
<1>11. InSnapshot(s)'
  <2>1. SUFFICES ASSUME phase = "snapshot" PROVE InSnapshot(s)'
    BY <1>1 DEF InSnapshot
  <2>2. highest.snap /\ highest.lsn = snapLsn
    BY <1>1, <2>1 DEF PgKept, InSnapshot
  <2>3. highest.lsn <= snapLsn
    BY <1>0, <2>2 DEF ConnType
  <2> QED BY <1>1, <1>10, <2>1, <2>2, <2>3 DEF PgKept, InSnapshot
<1>12. Attached(s)'
  <2>1. phase = "attached" => from # 0
    BY <1>1 DEF PgKept, Attached, AtSlot
  <2> QED BY <1>1, <2>1 DEF PgKept, Attached
<1>13. StreamComplete(s)' /\ StreamExact(s)'
  <2>1. StreamExact(s)'
    BY <1>1, PartsStay DEF PgKept
  <2>2. StreamComplete(s)'
    BY <1>1, <1>10 DEF PgKept, StreamComplete, Flows, Ahead, OnWire
  <2> QED BY <2>1, <2>2
<1>14. StreamSafe(s)'
  <2>1. resume # None /\ Covered(s, since, resume, delivered) => Covered(s, since, resume, delivered')
    BY <1>1 DEF Covered
  <2>2. \A k \in DOMAIN w : (Ahead(w, k)' <=> Ahead(w, k)) /\ (Skipped(w, k)' <=> Skipped(w, k))
    BY <1>1 DEF Ahead, OnWire, Skipped
  <2> QED BY <1>1, <1>10, <2>1, <2>2 DEF PgKept, StreamSafe, Flows
<1> QED BY <1>4, <1>5, <1>6, <1>7, <1>8, <1>9, <1>11, <1>12, <1>13, <1>14 DEF PgKept

\* The runtime takes a record into its batch, and may write and checkpoint it.
LEMMA ConsumeKeeps ==
    ASSUME NEW s \in Setups, Ordinary(s), PgKept(s), Consume
    PROVE  PgKept(s)'
<1> DEFINE w == s.wal
<1>a. PICK r : r = Head(flight)
  OBVIOUS
<1>b. PICK ids : ids = batch \cup ({r.i} \ {0})
  OBVIOUS
<1>0. /\ s.mode \in {"Initial", "Never"} /\ Serially(w) /\ walEnd \in 0 .. Len(w) /\ DOMAIN w = 1 .. Len(w)
      /\ ServerType(s) /\ CheckpointType(s) /\ TaskType(s) /\ ConnType /\ PipelineType(s)
  BY SetupFacts DEF PgKept, PgType, ServerType
<1>1. /\ flight # <<>> /\ flight' = Tail(flight)
      /\ rtSnap' = (rtSnap \/ r.boundary = "SnapshotComplete") /\ rtState' = (rtState \/ r.state)
      /\ UNCHANGED <<phase, reason, walEnd, slot, since, resume, lastSafe, txn, previousLsn,
                     eventSerial, dirty, from, decoded, wire, snapRows, snapLsn, setup>>
  BY <1>a DEF Consume, rtRest, server, conn, snapshot, bounds
<1> DEFINE Saved == /\ delivered' = delivered \cup ids
                    /\ ckpt' = [pos |-> r.pos, snap |-> rtSnap', state |-> rtState']
                    /\ acked' = r.pos /\ batch' = {} /\ highest' = None
           Batched == /\ r.boundary \in {"Data", "Heartbeat"}
                      /\ batch' = ids /\ highest' = r.pos
                      /\ UNCHANGED <<delivered, ckpt, acked>>
<1>2. Saved \/ Batched
  BY <1>a, <1>b DEF Consume, durable
<1>3. /\ r = flight[1] /\ 1 \in DOMAIN flight /\ flight \in Seq(Records) /\ flight' \in Seq(Records) /\ r \in Records
      /\ Len(flight) \in Nat /\ Len(flight) >= 1 /\ Len(flight') = Len(flight) - 1
      /\ DOMAIN flight = 1 .. Len(flight) /\ DOMAIN flight' = 1 .. Len(flight) - 1
      /\ \A n \in DOMAIN flight' : n + 1 \in DOMAIN flight /\ flight'[n] = flight[n + 1] /\ n \in Nat /\ n >= 1
      /\ \A n \in DOMAIN flight : n = 1 \/ (n - 1 \in DOMAIN flight' /\ flight'[n - 1] = flight[n])
  <2>1. flight \in Seq(Records)
    BY <1>0 DEF PipelineType
  <2> QED BY <1>1, <1>a, <2>1, Shorter
<1>4. \A n \in DOMAIN flight : /\ Reached(w, walEnd, flight[n].pos) /\ flight[n].pos \in Positions
                               /\ flight[n].pos # None
  <2>1. \A n \in DOMAIN flight : Reached(w, walEnd, flight[n].pos)
    BY <1>0 DEF PipelineType
  <2> QED BY <1>0, <2>1, ReachedFacts
<1>5. /\ Reached(w, walEnd, r.pos) /\ r.pos \in Positions /\ r.pos # None /\ r.pos.snap \in BOOLEAN
      /\ rtSnap \in BOOLEAN /\ rtSnap' \in BOOLEAN /\ rtState' \in BOOLEAN
  <2>1. r.state \in BOOLEAN
    BY <1>3 DEF Records
  <2> QED BY <1>0, <1>1, <1>3, <1>4, <2>1 DEF PipelineType, Positions
<1>6. phase \notin {"down", "failed", "prepared"} /\ (phase = "attached" => from # 0)
  BY <1>1 DEF PgKept, Idles, Attached, AtSlot
<1>7. \A n \in 0 .. Len(flight) - 1 : Complete(n)' <=> Complete(n + 1)
  <2>1. SUFFICES ASSUME NEW n \in 0 .. Len(flight) - 1 PROVE Complete(n)' <=> Complete(n + 1)
    OBVIOUS
  <2>2. Complete(n)' <=> rtSnap' \/ \E m \in 1 .. n : flight'[m].boundary = "SnapshotComplete"
    BY DEF Complete
  <2>3. ASSUME NEW m \in 1 .. n, flight'[m].boundary = "SnapshotComplete" PROVE Complete(n + 1)
    <3>1. m + 1 \in 1 .. n + 1 /\ m \in DOMAIN flight'
      <4>1. n \in Nat /\ m \in Nat /\ m >= 1 /\ m <= n /\ n <= Len(flight) - 1
        BY <1>3
      <4>2. m \in 1 .. Len(flight) - 1 /\ m + 1 \in 1 .. n + 1
        BY <1>3, <4>1
      <4> QED BY <1>3, <4>2
    <3>2. flight'[m] = flight[m + 1]
      BY <1>3, <3>1
    <3> QED BY <2>3, <3>1, <3>2 DEF Complete
  <2>4. ASSUME NEW m \in 1 .. n + 1, flight[m].boundary = "SnapshotComplete" PROVE Complete(n)'
    <3>1. CASE m = 1
      BY <1>1, <1>3, <2>2, <2>4, <3>1
    <3>2. CASE m # 1
      <4>1. m \in DOMAIN flight /\ m - 1 \in 1 .. n
        <5>1. n \in Nat /\ m \in Nat /\ m >= 1 /\ m <= n + 1 /\ n <= Len(flight) - 1
          BY <1>3
        <5>2. m \in 1 .. Len(flight) /\ m - 1 \in 1 .. n
          BY <1>3, <3>2, <5>1
        <5> QED BY <1>3, <5>2
      <4>2. flight'[m - 1] = flight[m]
        BY <1>3, <3>2, <4>1
      <4> QED BY <2>2, <2>4, <4>1, <4>2
    <3> QED BY <3>1, <3>2
  <2>5. rtSnap' => Complete(n + 1)
    <3>1. 1 \in 1 .. n + 1
      BY <2>1
    <3> QED BY <1>1, <1>3, <3>1 DEF Complete
  <2>6. rtSnap => Complete(n)'
    BY <1>1, <2>2
  <2>7. Complete(n + 1) <=> rtSnap \/ \E m \in 1 .. n + 1 : flight[m].boundary = "SnapshotComplete"
    BY DEF Complete
  <2> QED BY <2>2, <2>3, <2>4, <2>5, <2>6, <2>7
<1>8. ASSUME NEW n \in DOMAIN flight', NEW i \in DOMAIN w
      PROVE  i \in delivered \cup batch \cup SentBy(flight, n + 1) => i \in delivered' \cup batch' \cup SentBy(flight', n)
  <2>1. i # 0
    BY <1>0
  <2>2. i \in delivered \cup batch \/ i = r.i => i \in delivered' \cup batch'
    BY <1>2, <1>b, <2>1
  <2>3. ASSUME NEW m \in 1 .. n + 1, i = flight[m].i PROVE i = r.i \/ i \in SentBy(flight', n)
    <3>1. CASE m = 1
      BY <1>3, <2>3, <3>1
    <3>2. CASE m # 1
      <4>1. m \in DOMAIN flight /\ m - 1 \in 1 .. n
        <5>1. n \in Nat /\ m \in Nat /\ m >= 1 /\ m <= n + 1 /\ n <= Len(flight) - 1
          BY <1>3
        <5>2. m \in 1 .. Len(flight) /\ m - 1 \in 1 .. n
          BY <1>3, <3>2, <5>1
        <5> QED BY <1>3, <5>2
      <4>2. flight'[m - 1] = flight[m]
        BY <1>3, <3>2, <4>1
      <4> QED BY <2>3, <4>1, <4>2 DEF SentBy
    <3> QED BY <3>1, <3>2
  <2> QED BY <2>2, <2>3 DEF SentBy
<1>9. ASSUME NEW i \in DOMAIN w PROVE i \in Somewhere => i \in Somewhere'
  <2>1. i # 0
    BY <1>0
  <2>2. i \in delivered \cup batch \/ i = r.i => i \in delivered' \cup batch'
    BY <1>2, <1>b, <2>1
  <2>3. ASSUME NEW m \in DOMAIN flight, i = flight[m].i PROVE i = r.i \/ i \in Sent'
    BY <1>3, <2>3 DEF Sent
  <2> QED BY <2>2, <2>3 DEF Somewhere, Sent
<1>10. \A i \in DOMAIN w : i \in delivered \cup batch \cup SentBy(flight, 1) => i \in delivered' \cup batch'
  <2>1. SUFFICES ASSUME NEW i \in DOMAIN w PROVE i \in delivered \cup batch \cup SentBy(flight, 1) => i \in delivered' \cup batch'
    OBVIOUS
  <2>2. i # 0
    BY <1>0
  <2>3. i \in SentBy(flight, 1) => i = r.i
    BY <1>3 DEF SentBy
  <2> QED BY <1>2, <1>b, <2>2, <2>3
<1>11. /\ s.mode = "Never" => ~rtSnap' /\ ~r.pos.snap
       /\ s.mode = "Initial" => r.pos.snap = ~rtSnap
  <2>1. SnapshotFirst(s)
    BY DEF PgKept
  <2>2. Complete(0) <=> rtSnap
    BY DEF Complete
  <2>3. s.mode = "Initial" => r.pos.snap = ~Complete(1 - 1)
    BY <1>3, <2>1 DEF SnapshotFirst
  <2>4. s.mode = "Never" => ~rtSnap' /\ ~r.pos.snap
    BY <1>1, <1>3, <2>1 DEF SnapshotFirst
  <2> QED BY <1>5, <2>2, <2>3, <2>4
<1>12. PgType(s)'
  <2>1. ServerType(s)' /\ TaskType(s)' /\ ConnType'
    BY <1>0, <1>1 DEF ServerType, TaskType, ConnType
  <2>2. CheckpointType(s)'
    <3>1. CASE Saved
      BY <1>1, <1>5, <3>1 DEF CheckpointType
    <3>2. CASE Batched
      BY <1>0, <1>1, <3>2 DEF CheckpointType
    <3> QED BY <1>2, <3>1, <3>2
  <2>3. PipelineType(s)'
    <3>1. \A n \in DOMAIN flight' : Reached(w, walEnd', flight'[n].pos)
      BY <1>1, <1>3, <1>4
    <3>2. highest' = None \/ Reached(w, walEnd', highest')
      BY <1>1, <1>2, <1>5
    <3> QED BY <1>3, <1>5, <3>1, <3>2 DEF PipelineType
  <2> QED BY <2>1, <2>2, <2>3 DEF PgType
<1>13. Idles'
  <2>1. CASE Saved
    BY <1>1, <1>6, <2>1 DEF PgKept, Idles
  <2>2. CASE Batched
    BY <1>1, <1>5, <1>6, <2>2 DEF PgKept, Idles
  <2> QED BY <1>2, <2>1, <2>2
<1>14. CheckpointCovers(s)'
  <2>1. CASE Batched
    BY <1>1, <2>1, PartsStay DEF PgKept
  <2>2. CASE Saved
    <3>1. CheckpointCovers(s)
      BY DEF PgKept
    <3>2. ckpt'.pos = r.pos /\ ckpt'.snap = rtSnap' /\ ckpt' # NoCheckpoint
      BY <1>5, <2>2 DEF NoCheckpoint
    <3>3. slot.exists => slot.confirmed <= r.pos.lsn
      BY <1>3 DEF PgKept, PipelineOrdered
    <3>4. Resumable(ckpt)' => ~r.pos.snap \/ r.boundary = "SnapshotComplete"
      BY <1>0, <1>1, <1>5, <1>11, <3>2 DEF Resumable
    <3>5. Resumable(ckpt)' => Covered(s, since, r.pos, delivered')
      <4>1. Resumable(ckpt)' => Covered(s, since, r.pos, delivered \cup batch \cup SentBy(flight, 1))
        BY <1>3, <3>4 DEF PgKept, PipelineCovers
      <4> QED BY <1>10, <2>2, <4>1 DEF Covered
    <3> QED BY <1>0, <1>1, <1>5, <1>11, <3>1, <3>2, <3>3, <3>5 DEF CheckpointCovers
  <2> QED BY <1>2, <2>1, <2>2
<1>15. SnapshotFirst(s)'
  <2>1. SnapshotFirst(s)
    BY DEF PgKept
  <2>2. s.mode = "Initial" => \A n \in DOMAIN flight' : flight'[n].pos.snap = ~Complete(n - 1)'
    <3>1. SUFFICES ASSUME s.mode = "Initial", NEW n \in DOMAIN flight' PROVE flight'[n].pos.snap = ~Complete(n - 1)'
      OBVIOUS
    <3>2. n + 1 \in DOMAIN flight /\ flight'[n] = flight[n + 1] /\ n - 1 \in 0 .. Len(flight) - 1 /\ (n - 1) + 1 = (n + 1) - 1
      BY <1>3
    <3>3. flight[n + 1].pos.snap = ~Complete((n + 1) - 1)
      BY <2>1, <3>1, <3>2 DEF SnapshotFirst
    <3> QED BY <1>7, <3>2, <3>3
  <2>3. Complete(Len(flight))' <=> Complete(Len(flight))
    <3>1. PICK l : l = Len(flight) - 1
      OBVIOUS
    <3>2. l \in 0 .. Len(flight) - 1 /\ l + 1 = Len(flight) /\ Len(flight') = l
      BY <1>3, <3>1
    <3>3. Complete(l)' <=> Complete(Len(flight))
      BY <1>7, <3>2
    <3>4. Complete(Len(flight))' <=> Complete(l)'
      BY <3>2 DEF Complete
    <3> QED BY <3>3, <3>4
  <2>4. s.mode = "Never" => \A n \in DOMAIN flight' : ~flight'[n].pos.snap /\ flight'[n].boundary # "SnapshotComplete"
    BY <1>3, <2>1 DEF SnapshotFirst
  <2>5. /\ s.mode = "Never" => ~rtSnap' /\ (highest' # None => ~highest'.snap)
        /\ s.mode = "Initial" => (highest' # None => highest'.snap = ~rtSnap')
        /\ s.mode = "Initial" /\ phase' # "down" /\ ckpt'.snap => rtSnap'
    <3>1. CASE Saved
      BY <1>11, <3>1
    <3>2. CASE Batched
      BY <1>1, <1>11, <2>1, <3>2 DEF SnapshotFirst
    <3> QED BY <1>2, <3>1, <3>2
  <2> QED BY <1>1, <2>1, <2>2, <2>3, <2>4, <2>5 DEF SnapshotFirst
<1>16. PipelineOrdered'
  <2>1. PipelineOrdered
    BY DEF PgKept
  <2>2. \A n, m \in DOMAIN flight' : n < m =>
            IsAtOrBefore(flight'[n].pos, flight'[m].pos) /\ (Row(flight'[m]) => IsAfter(flight'[m].pos, flight'[n].pos))
    <3>1. SUFFICES ASSUME NEW n \in DOMAIN flight', NEW m \in DOMAIN flight', n < m
                   PROVE  IsAtOrBefore(flight'[n].pos, flight'[m].pos)
                          /\ (Row(flight'[m]) => IsAfter(flight'[m].pos, flight'[n].pos))
      OBVIOUS
    <3>2. /\ n + 1 \in DOMAIN flight /\ m + 1 \in DOMAIN flight /\ n + 1 < m + 1
          /\ flight'[n] = flight[n + 1] /\ flight'[m] = flight[m + 1]
      BY <1>3, <3>1
    <3> QED BY <2>1, <3>2 DEF PipelineOrdered
  <2>3. \A n \in DOMAIN flight' : /\ IsAtOrBefore(r.pos, flight'[n].pos)
                                  /\ Row(flight'[n]) => IsAfter(flight'[n].pos, r.pos)
                                  /\ r.pos.lsn <= flight'[n].pos.lsn
    <3>1. SUFFICES ASSUME NEW n \in DOMAIN flight'
                   PROVE  /\ IsAtOrBefore(r.pos, flight'[n].pos)
                          /\ Row(flight'[n]) => IsAfter(flight'[n].pos, r.pos)
                          /\ r.pos.lsn <= flight'[n].pos.lsn
      OBVIOUS
    <3>2. n + 1 \in DOMAIN flight /\ 1 < n + 1 /\ flight'[n] = flight[n + 1]
      BY <1>3, <3>1
    <3>3. IsAtOrBefore(r.pos, flight'[n].pos) /\ (Row(flight'[n]) => IsAfter(flight'[n].pos, r.pos))
      BY <1>3, <2>1, <3>2 DEF PipelineOrdered
    <3>4. flight'[n].pos \in Positions
      BY <1>4, <3>2
    <3> QED BY <1>5, <3>3, <3>4, OrderFacts
  <2>4. \A n \in DOMAIN flight' : /\ acked.lsn <= flight'[n].pos.lsn
                                  /\ Row(flight'[n]) => IsAfter(flight'[n].pos, acked)
                                  /\ slot.exists => slot.confirmed <= flight'[n].pos.lsn
    BY <1>3, <2>1 DEF PipelineOrdered
  <2>5. acked.lsn <= r.pos.lsn /\ (slot.exists => slot.confirmed <= r.pos.lsn)
    BY <1>3, <2>1 DEF PipelineOrdered
  <2>6. CASE Saved
    BY <1>1, <2>2, <2>3, <2>4, <2>6 DEF PipelineOrdered
  <2>7. CASE Batched
    BY <1>1, <2>2, <2>3, <2>4, <2>5, <2>7 DEF PipelineOrdered
  <2> QED BY <1>2, <2>6, <2>7
<1>17. PipelineCovers(s)'
  <2>1. PipelineCovers(s)
    BY DEF PgKept
  <2>2. \A n \in DOMAIN flight' :
            ~flight'[n].pos.snap \/ flight'[n].boundary = "SnapshotComplete" =>
                Covered(s, since, flight'[n].pos, delivered' \cup batch' \cup SentBy(flight', n))
    <3>1. SUFFICES ASSUME NEW n \in DOMAIN flight',
                          ~flight'[n].pos.snap \/ flight'[n].boundary = "SnapshotComplete"
                   PROVE  Covered(s, since, flight'[n].pos, delivered' \cup batch' \cup SentBy(flight', n))
      OBVIOUS
    <3>2. n + 1 \in DOMAIN flight /\ flight'[n] = flight[n + 1]
      BY <1>3
    <3>3. Covered(s, since, flight'[n].pos, delivered \cup batch \cup SentBy(flight, n + 1))
      BY <2>1, <3>1, <3>2 DEF PipelineCovers
    <3> QED BY <1>8, <3>3 DEF Covered
  <2>3. highest' # None /\ ~highest'.snap => Covered(s, since, highest', delivered' \cup batch')
    <3>1. CASE Saved
      BY <3>1
    <3>2. CASE Batched
      <4>1. ~r.pos.snap => Covered(s, since, r.pos, delivered \cup batch \cup SentBy(flight, 1))
        BY <1>3, <2>1 DEF PipelineCovers
      <4> QED BY <1>10, <3>2, <4>1 DEF Covered
    <3> QED BY <1>2, <3>1, <3>2
  <2> QED BY <1>1, <2>2, <2>3 DEF PipelineCovers
<1>18. InSnapshot(s)'
  <2>1. SUFFICES ASSUME phase = "snapshot" PROVE InSnapshot(s)'
    BY <1>1 DEF InSnapshot
  <2>2. InSnapshot(s)
    BY DEF PgKept
  <2>3. \A n \in DOMAIN flight' : /\ flight'[n].pos.snap /\ flight'[n].pos.lsn = snapLsn
                                  /\ flight'[n].pos.serial <= eventSerial
    BY <1>3, <2>1, <2>2 DEF InSnapshot
  <2>4. r.pos.snap /\ r.pos.lsn = snapLsn /\ r.pos.serial <= eventSerial
    BY <1>3, <2>1, <2>2 DEF InSnapshot
  <2>5. r.pos.lsn <= snapLsn
    BY <1>0, <2>4 DEF ConnType
  <2>6. Covered(s, since, StreamingPosition(snapLsn), Somewhere' \cup Range(snapRows))
    BY <1>9, <2>1, <2>2 DEF InSnapshot, Covered
  <2>7. /\ highest' # None => highest'.snap /\ highest'.lsn = snapLsn /\ highest'.serial <= eventSerial
        /\ acked' # None => acked'.snap /\ acked'.lsn <= snapLsn
    <3>1. CASE Saved
      BY <2>4, <2>5, <3>1
    <3>2. CASE Batched
      BY <2>1, <2>2, <2>4, <3>2 DEF InSnapshot
    <3> QED BY <1>2, <3>1, <3>2
  <2> QED BY <1>1, <2>1, <2>2, <2>3, <2>6, <2>7 DEF InSnapshot
<1>19. Attached(s)'
  BY <1>1, <1>6 DEF PgKept, Attached
<1>20. StreamExact(s)'
  BY <1>1, PartsStay DEF PgKept
<1>21. (\A k \in DOMAIN w : (Ahead(w, k)' <=> Ahead(w, k)) /\ (Skipped(w, k)' <=> Skipped(w, k))) /\ (Flows' <=> Flows)
  BY <1>1 DEF Ahead, OnWire, Skipped, Flows
<1>22. StreamComplete(s)'
  BY <1>1, <1>9, <1>21 DEF PgKept, StreamComplete
<1>23. StreamSafe(s)'
  <2>1. SUFFICES ASSUME Flows PROVE StreamSafe(s)'
    BY <1>21 DEF StreamSafe
  <2>2. StreamSafe(s)
    BY DEF PgKept
  <2>3. Covered(s, since, lastSafe, Somewhere')
    BY <1>9, <2>1, <2>2 DEF StreamSafe, Covered
  <2>4. resume # None => Covered(s, since, resume, delivered')
    <3>1. \A i : i \in delivered => i \in delivered'
      BY <1>2
    <3> QED BY <2>1, <2>2, <3>1 DEF StreamSafe, Covered
  <2>5. \A n \in DOMAIN flight' : IsAtOrBefore(flight'[n].pos, lastSafe)
    BY <1>3, <2>1, <2>2 DEF StreamSafe
  <2>6. IsAtOrBefore(r.pos, lastSafe)
    BY <1>3, <2>1, <2>2 DEF StreamSafe
  <2>7. /\ highest' # None => IsAtOrBefore(highest', lastSafe)
        /\ acked' # None => IsAtOrBefore(acked', lastSafe)
    <3>1. CASE Saved
      BY <2>6, <3>1
    <3>2. CASE Batched
      BY <2>1, <2>2, <2>6, <3>2 DEF StreamSafe
    <3> QED BY <1>2, <3>1, <3>2
  <2>8. \A k \in DOMAIN w : Ahead(w, k)' => ~Below(w, k, lastSafe) \/ Skipped(w, k)'
    BY <1>21, <2>1, <2>2 DEF StreamSafe
  <2> QED BY <1>1, <2>1, <2>2, <2>3, <2>4, <2>5, <2>7, <2>8 DEF StreamSafe
<1> QED BY <1>12, <1>13, <1>14, <1>15, <1>16, <1>17, <1>18, <1>19, <1>20, <1>22, <1>23 DEF PgKept

\* The runtime refuses no record.
LEMMA NoneRegresses ==
    ASSUME NEW s \in Setups, Ordinary(s), PgKept(s), ConsumeRegressed
    PROVE  FALSE
<1>1. flight \in Seq(Records) /\ flight # <<>> /\ Regresses(Head(flight).pos)
  BY DEF ConsumeRegressed, PgKept, PgType, PipelineType
<1>2. Head(flight) = flight[1] /\ 1 \in DOMAIN flight
  BY <1>1, Shorter
<1>3. highest # None => IsAtOrBefore(highest, flight[1].pos)
  BY <1>2 DEF PgKept, PipelineOrdered
<1> QED BY <1>1, <1>2, <1>3 DEF Regresses, IsAtOrBefore

\* A new process has nothing in its pipeline, and the acknowledged position is the checkpoint.
LEMMA StartsFacts ==
    ASSUME NEW s \in Setups, Ordinary(s), PgKept(s), Boot
    PROVE  /\ phase = "down" /\ setup = s /\ UNCHANGED <<walEnd, since, delivered, ckpt, setup>>
           /\ flight' = <<>> /\ batch' = {} /\ highest' = None /\ acked' = ckpt.pos /\ rtSnap' = ckpt.snap
           /\ CheckpointType(s)' /\ PipelineType(s)' /\ PipelineOrdered' /\ PipelineCovers(s)'
           /\ s.mode = "Never" => ~ckpt.snap
           /\ Complete(Len(flight))' <=> ckpt.snap
<1>1. /\ phase = "down" /\ UNCHANGED <<walEnd, since, delivered, ckpt, setup>> /\ setup = s
      /\ flight' = <<>> /\ batch' = {} /\ highest' = None /\ acked' = ckpt.pos /\ rtSnap' = ckpt.snap
      /\ rtState' = ckpt.state
  BY DEF Boot, RuntimeStarts, durable, bounds, PgKept, PgType, ServerType
<1>2. CheckpointType(s)'
  BY <1>1 DEF PgKept, PgType, CheckpointType
<1>3. PipelineType(s)'
  <2>1. ckpt.snap \in BOOLEAN /\ ckpt.state \in BOOLEAN
    BY DEF PgKept, PgType, CheckpointType
  <2>2. flight' \in Seq(Records) /\ DOMAIN flight' = {}
    BY <1>1
  <2> QED BY <1>1, <2>1, <2>2 DEF PipelineType
<1>4. DOMAIN flight' = {}
  BY <1>1
<1>5. PipelineOrdered'
  BY <1>1, <1>4 DEF PipelineOrdered
<1>6. PipelineCovers(s)'
  BY <1>1, <1>4 DEF PipelineCovers
<1>7. s.mode = "Never" => ~ckpt.snap
  BY DEF PgKept, CheckpointCovers
<1>8. Complete(Len(flight))' <=> ckpt.snap
  <2>1. 1 .. Len(flight') = {}
    BY <1>1
  <2> QED BY <1>1, <2>1 DEF Complete
<1> QED BY <1>1, <1>2, <1>3, <1>5, <1>6, <1>7, <1>8

\* A process that prepares a snapshot, or refuses to start.
LEMMA RefuseKeeps ==
    ASSUME NEW s \in Setups, Ordinary(s), PgKept(s), Boot, idleConn, phase' \in {"prepared", "failed"},
           reason' # "backwards", resume' \in {None, resume}, lastSafe' \in {None, lastSafe},
           UNCHANGED <<previousLsn, eventSerial>>, dirty' \in BOOLEAN,
           slot' \in {slot, [slot EXCEPT !.exists = FALSE]},
           phase' = "prepared" => s.mode = "Initial" /\ ~ckpt.snap
    PROVE  PgKept(s)'
<1>1. /\ phase = "down" /\ setup = s /\ UNCHANGED <<walEnd, since, delivered, ckpt, setup>>
      /\ flight' = <<>> /\ batch' = {} /\ highest' = None /\ acked' = ckpt.pos /\ rtSnap' = ckpt.snap
      /\ CheckpointType(s)' /\ PipelineType(s)' /\ PipelineOrdered' /\ PipelineCovers(s)'
      /\ s.mode = "Never" => ~ckpt.snap
      /\ Complete(Len(flight))' <=> ckpt.snap
  BY StartsFacts
<1>2. slot' \in [exists : BOOLEAN, confirmed : Nat] /\ slot'.confirmed = slot.confirmed /\ (slot'.exists => slot.exists)
  BY DEF PgKept, PgType, ServerType
<1>3. PgType(s)'
  <2>1. ServerType(s)'
    BY <1>1, <1>2 DEF PgKept, PgType, ServerType
  <2>2. TaskType(s)'
    BY <1>1 DEF PgKept, PgType, TaskType
  <2>3. ConnType'
    <3>1. from' = 0 /\ decoded' = 0 /\ snapLsn' = 0 /\ wire' = <<>> /\ snapRows' = <<>>
      BY DEF idleConn
    <3> QED BY <3>1 DEF ConnType
  <2> QED BY <1>1, <2>1, <2>2, <2>3 DEF PgType
<1>4. Idles'
  BY <1>1 DEF Idles
<1>5. CheckpointCovers(s)'
  BY <1>1, <1>2 DEF PgKept, CheckpointCovers
<1>6. SnapshotFirst(s)'
  <2>1. DOMAIN flight' = {}
    BY <1>1
  <2> QED BY <1>1, <2>1 DEF SnapshotFirst
<1>7. InSnapshot(s)' /\ Attached(s)' /\ StreamComplete(s)' /\ StreamExact(s)' /\ StreamSafe(s)'
  BY DEF InSnapshot, Attached, StreamComplete, StreamExact, StreamSafe, Flows
<1> QED BY <1>1, <1>3, <1>4, <1>5, <1>6, <1>7 DEF PgKept

\* A process resumes from its checkpoint, which the slot is not ahead of.
LEMMA ResumeKeeps ==
    ASSUME NEW s \in Setups, Ordinary(s), PgKept(s), Boot, Resumable(ckpt), s.mode = "Initial" => ckpt.snap,
           Attach(ckpt.pos.lsn, ckpt.pos, FALSE), slot.exists,
           slot' \in {slot, [slot EXCEPT !.confirmed = ckpt.pos.lsn]}
    PROVE  PgKept(s)'
<1> DEFINE w == s.wal
           p == ckpt.pos
<1>a. PICK q : q = IF p.snap THEN StreamingPosition(p.lsn) ELSE p
  OBVIOUS
<1>0. Serially(w) /\ walEnd \in 0 .. Len(w) /\ DOMAIN w = 1 .. Len(w) /\ slot \in [exists : BOOLEAN, confirmed : Nat]
      /\ s.mode \in {"Initial", "Never"} /\ Len(w) \in Nat
  BY SetupFacts DEF PgKept, PgType, ServerType
<1>1. /\ phase = "down" /\ setup = s /\ UNCHANGED <<walEnd, since, delivered, ckpt, setup>>
      /\ flight' = <<>> /\ batch' = {} /\ highest' = None /\ acked' = p /\ rtSnap' = ckpt.snap
      /\ CheckpointType(s)' /\ PipelineType(s)' /\ PipelineOrdered' /\ PipelineCovers(s)'
      /\ s.mode = "Never" => ~ckpt.snap
      /\ Complete(Len(flight))' <=> ckpt.snap
  BY StartsFacts
<1>2. p # None /\ Reached(w, walEnd, p) /\ p \in Positions /\ p.lsn \in Nat /\ p.lsn >= 1
  BY CheckpointFacts DEF Resumable
<1>3. /\ q \in Positions /\ Reached(w, walEnd, q) /\ q # None /\ ~q.snap /\ q.lsn = p.lsn /\ IsAtOrBefore(p, q)
      /\ \A i \in DOMAIN w : Below(w, i, q) <=> Below(w, i, p)
      /\ \A i, u : Unit(w, i, u) /\ w[u].lsn < p.lsn => Below(w, i, p)
      /\ \A i, u : Unit(w, i, u) /\ p.lsn <= w[u].lsn /\ Below(w, i, q) => IsAtOrBefore(PositionOf(w, i), p)
  <2> HIDE DEF p
  <2> QED BY <1>0, <1>2, <1>a, ResumeFacts
<1>4. Covered(s, since, p, delivered) /\ slot.confirmed <= p.lsn
  BY DEF PgKept, CheckpointCovers
<1>5. /\ slot' \in [exists : BOOLEAN, confirmed : Nat] /\ slot'.exists /\ slot'.confirmed <= p.lsn
  BY <1>0, <1>2, <1>4
<1>6. /\ phase' = "attached" /\ reason' = "none" /\ from' = p.lsn /\ decoded' = 0 /\ wire' = <<>>
      /\ snapRows' = <<>> /\ snapLsn' = 0 /\ resume' = p /\ lastSafe' = q
      /\ previousLsn' = 0 /\ eventSerial' = 0 /\ dirty' = FALSE
  BY <1>2, <1>a DEF Attach
<1>7. PgType(s)'
  <2>1. ServerType(s)'
    BY <1>1, <1>5 DEF PgKept, PgType, ServerType
  <2>2. TaskType(s)'
    BY <1>1, <1>2, <1>3, <1>6 DEF TaskType
  <2>3. ConnType'
    BY <1>2, <1>6 DEF ConnType
  <2> QED BY <1>1, <2>1, <2>2, <2>3 DEF PgType
<1>8. Idles'
  BY <1>1, <1>6 DEF Idles
<1>9. CheckpointCovers(s)'
  <2>1. ckpt # NoCheckpoint
    BY <1>2 DEF NoCheckpoint
  <2> QED BY <1>1, <1>5, <2>1 DEF PgKept, CheckpointCovers
<1>10. DOMAIN flight' = {} /\ DOMAIN wire' = {}
  BY <1>1, <1>6
<1>11. SnapshotFirst(s)'
  BY <1>1, <1>6, <1>10 DEF SnapshotFirst
<1>12. InSnapshot(s)'
  BY <1>6 DEF InSnapshot
<1>13. Attached(s)'
  BY <1>2, <1>5, <1>6 DEF Attached
<1>14. ASSUME NEW i \in DOMAIN w PROVE Ahead(w, i)' <=> \E u \in DOMAIN w : Unit(w, i, u) /\ p.lsn <= w[u].lsn
  <2>1. ~OnWire(i)'
    BY <1>10 DEF OnWire
  <2>2. Ahead(w, i)' <=> \E u \in DOMAIN w : Unit(w, i, u) /\ 0 < u /\ p.lsn <= w[u].lsn
    BY <1>6, <2>1 DEF Ahead
  <2>3. \A u \in DOMAIN w : 0 < u
    BY <1>0
  <2> QED BY <2>2, <2>3
<1>15. \A u \in DOMAIN w : w[u].lsn \in Nat
  BY LogRecords, <1>0 DEF Serially
<1>16. Flows' /\ \A i : i \in delivered => i \in Somewhere'
  BY <1>1, <1>2, <1>6 DEF Flows, Somewhere
<1>17. StreamComplete(s)'
  <2>1. SUFFICES ASSUME NEW i \in DOMAIN w, Due(s, since, i) PROVE i \in Somewhere' \/ Ahead(w, i)'
    BY <1>1 DEF StreamComplete
  <2>2. PICK u \in DOMAIN w : Unit(w, i, u)
    BY <2>1 DEF Due
  <2>3. CASE p.lsn <= w[u].lsn
    BY <1>14, <2>2, <2>3
  <2>4. CASE w[u].lsn < p.lsn
    <3>1. Below(w, i, p)
      BY <1>3, <2>2, <2>4
    <3> QED BY <1>4, <1>16, <2>1, <3>1 DEF Covered
  <2> QED BY <1>2, <1>15, <2>3, <2>4
<1>18. StreamExact(s)'
  <2>1. WireOrdered(w)'
    BY <1>0, <1>1, <1>6, <1>10 DEF WireOrdered
  <2>2. \A i, u \in DOMAIN w : Unit(w, i, u) => 0 < Place(w, i)
    BY <1>0, PlaceFacts
  <2>3. SerialsExact(w)'
    BY <1>6, <2>2 DEF SerialsExact
  <2> QED BY <2>1, <2>3 DEF StreamExact
<1>19. StreamSafe(s)'
  <2>1. Covered(s, since, q, Somewhere')
    BY <1>3, <1>4, <1>16 DEF Covered
  <2>2. \A i \in DOMAIN w : Ahead(w, i)' => ~Below(w, i, q) \/ Skipped(w, i)'
    <3>1. SUFFICES ASSUME NEW i \in DOMAIN w, Ahead(w, i)', Below(w, i, q) PROVE Skipped(w, i)'
      OBVIOUS
    <3>2. IsAtOrBefore(PositionOf(w, i), p)
      BY <1>3, <1>14, <3>1
    <3> QED BY <1>2, <1>6, <3>2 DEF Skipped
  <2> HIDE DEF p
  <2> QED BY <1>1, <1>3, <1>4, <1>5, <1>6, <1>10, <2>1, <2>2 DEF StreamSafe
<1> QED BY <1>1, <1>7, <1>8, <1>9, <1>11, <1>12, <1>13, <1>17, <1>18, <1>19 DEF PgKept

\* The start of the connector.
LEMMA BootKeeps ==
    ASSUME NEW s \in Setups, Ordinary(s), PgKept(s), Boot
    PROVE  PgKept(s)'
<1>0. /\ s.mode \in {"Initial", "Never"} /\ setup = s /\ SnapshotMode = s.mode /\ Strategy = s.strategy
      /\ s.strategy \in {"NoValidation", "TrustOffset", "TrustSlot", "TrustGreaterLsn"}
      /\ slot \in [exists : BOOLEAN, confirmed : Nat]
  BY SetupFacts DEF PgKept, PgType, ServerType, SnapshotMode, Strategy
<1>1. ckpt.pos = None <=> ~HasCheckpoint
  BY CheckpointFacts DEF HasCheckpoint
<1>2. CASE SnapshotNeeded /\ PrepareSnapshotSlot /\ idleConn
  <2>1. s.mode = "Initial" /\ ~ckpt.snap
    BY <1>0, <1>2 DEF SnapshotNeeded
  <2> QED BY <1>2, <2>1, RefuseKeeps DEF PrepareSnapshotSlot
<1>3. ASSUME NEW e \in {"noState", "noSlot", "mismatch"}, Unresumable(e) PROVE PgKept(s)'
  <2>1. idleConn /\ FailsWith(e) /\ UNCHANGED slot
    BY <1>0, <1>3 DEF Unresumable
  <2>2. /\ phase' = "failed" /\ reason' = e /\ UNCHANGED <<resume, lastSafe, previousLsn, eventSerial, dirty>>
        /\ dirty \in BOOLEAN
    BY <2>1 DEF FailsWith, PgKept, PgType, TaskType
  <2> QED BY <2>1, <2>2, RefuseKeeps
<1>4. CASE ~SnapshotNeeded /\ HasCheckpoint /\ slot.exists /\ Resume
  <2>1. ckpt.pos # None /\ FlushLsn(ckpt.pos) = ckpt.pos.lsn /\ ckpt.pos.lsn \in Nat
    BY <1>1, <1>4, CheckpointFacts
  <2>2. s.mode = "Initial" => ckpt.snap
    BY <1>0, <1>4 DEF SnapshotNeeded
  <2>3. Resumable(ckpt)
    BY <1>0, <2>1, <2>2 DEF Resumable, PgKept, CheckpointCovers
  <2>4. slot.confirmed <= ckpt.pos.lsn /\ slot.confirmed \in Nat
    BY <1>0, <1>4, <2>3 DEF PgKept, CheckpointCovers
  <2>5. Decision \in {"UseCheckpoint", "AdvanceSlot", "Refuse"}
    <3>1. FlushLsn(ckpt.pos) \in Nat /\ (FlushLsn(ckpt.pos) = slot.confirmed \/ FlushLsn(ckpt.pos) > slot.confirmed)
      BY <2>1, <2>4
    <3>2. CASE FlushLsn(ckpt.pos) = slot.confirmed \/ Strategy = "NoValidation"
      BY <1>0, <2>4, <3>1, <3>2 DEF Decision
    <3>3. CASE FlushLsn(ckpt.pos) > slot.confirmed /\ Strategy # "NoValidation"
      BY <1>0, <2>4, <3>1, <3>3 DEF Decision
    <3> QED BY <3>1, <3>2, <3>3
  <2>6. CASE Attach(ckpt.pos.lsn, ckpt.pos, FALSE) /\ UNCHANGED slot
    BY <1>4, <2>2, <2>3, <2>6, ResumeKeeps
  <2>7. CASE slot' = [slot EXCEPT !.confirmed = FlushLsn(ckpt.pos)] /\ Attach(ckpt.pos.lsn, ckpt.pos, FALSE)
    BY <1>4, <2>1, <2>2, <2>3, <2>7, ResumeKeeps
  <2>8. CASE Unresumable("mismatch")
    BY <1>3, <2>8
  <2> QED BY <1>4, <2>5, <2>6, <2>7, <2>8 DEF Resume
<1>5. CASE ~SnapshotNeeded /\ ~HasCheckpoint /\ Attach(0, None, TRUE) /\ UNCHANGED slot
  <2>1. /\ UNCHANGED <<walEnd, since, delivered, ckpt, setup>>
        /\ flight' = <<>> /\ batch' = {} /\ highest' = None /\ acked' = ckpt.pos /\ rtSnap' = ckpt.snap
        /\ CheckpointType(s)' /\ PipelineType(s)' /\ PipelineOrdered' /\ PipelineCovers(s)'
        /\ Complete(Len(flight))' <=> ckpt.snap
    BY StartsFacts
  <2>2. ckpt = NoCheckpoint /\ s.mode = "Never"
    <3>1. ckpt = NoCheckpoint
      BY <1>5 DEF HasCheckpoint
    <3>2. ~ckpt.snap
      BY <3>1 DEF NoCheckpoint
    <3> QED BY <1>0, <1>5, <3>1, <3>2 DEF SnapshotNeeded
  <2>3. /\ phase' = "attached" /\ reason' = "none" /\ from' = 0 /\ decoded' = 0 /\ wire' = <<>>
        /\ snapRows' = <<>> /\ snapLsn' = 0 /\ resume' = None /\ lastSafe' = StreamingPosition(0)
        /\ previousLsn' = 0 /\ eventSerial' = 0 /\ dirty' = TRUE
    BY <1>5 DEF Attach
  <2>4. lastSafe' = None
    BY <2>3 DEF StreamingPosition, None
  <2>5. DOMAIN flight' = {}
    BY <2>1
  <2>6. PgType(s)'
    <3>1. ServerType(s)' /\ TaskType(s)'
      BY <1>5, <2>1, <2>3, <2>4 DEF PgKept, PgType, ServerType, TaskType
    <3>2. ConnType'
      BY <2>3 DEF ConnType
    <3> QED BY <2>1, <3>1, <3>2 DEF PgType
  <2>7. Idles'
    BY <2>1, <2>3 DEF Idles
  <2>8. CheckpointCovers(s)'
    BY <1>5, <2>1, PartsStay DEF PgKept
  <2>9. SnapshotFirst(s)'
    BY <2>1, <2>2, <2>3, <2>5, StartsFacts DEF SnapshotFirst
  <2>10. InSnapshot(s)' /\ StreamComplete(s)' /\ StreamExact(s)' /\ StreamSafe(s)'
    BY <2>3 DEF InSnapshot, StreamComplete, StreamExact, StreamSafe, Flows
  <2>11. Attached(s)'
    BY <2>1, <2>2, <2>3 DEF Attached, AtSlot
  <2> QED BY <2>1, <2>6, <2>7, <2>8, <2>9, <2>10, <2>11 DEF PgKept
<1> QED BY <1>2, <1>3, <1>4, <1>5 DEF Boot

\* The stream starts: where the connector attached, or with the slot.
LEMMA StartStreamKeeps ==
    ASSUME NEW s \in Setups, Ordinary(s), PgKept(s), StartStream
    PROVE  PgKept(s)'
<1> DEFINE w == s.wal
<1>0. /\ Serially(w) /\ setup = s /\ walEnd \in 0 .. Len(w) /\ Len(w) \in Nat /\ DOMAIN w = 1 .. Len(w)
      /\ slot \in [exists : BOOLEAN, confirmed : Nat] /\ since \in Nat /\ from \in Nat
  BY SetupFacts DEF PgKept, PgType, ServerType, ConnType
<1>1. /\ phase = "attached" /\ phase' = "streaming"
      /\ UNCHANGED <<walEnd, delivered, ckpt, reason, resume, txn, previousLsn, eventSerial, dirty, decoded, wire,
                     snapRows, snapLsn, flight, batch, highest, rtSnap, rtState, acked, setup>>
  BY DEF StartStream, durable, snapshot, runtime, bounds
<1>2. /\ decoded = 0 /\ wire = <<>> /\ previousLsn = 0 /\ eventSerial = 0
      /\ from = 0 => AtSlot(s)
      /\ from # 0 => slot.confirmed <= from
  BY <1>1 DEF PgKept, Attached
<1>3. Idles' /\ SnapshotFirst(s)' /\ InSnapshot(s)' /\ Attached(s)'
  <2>1. Idles'
    BY <1>1 DEF PgKept, Idles
  <2>2. SnapshotFirst(s)'
    BY <1>1 DEF PgKept, SnapshotFirst, Complete
  <2> QED BY <1>1, <2>1, <2>2 DEF InSnapshot, Attached
<1>4. PipelineType(s)' /\ CheckpointType(s)'
  BY <1>1 DEF PgKept, PgType, PipelineType, CheckpointType
<1>5. CASE from # 0
  <2>1. Flows /\ slot.exists
    BY <1>1, <1>5 DEF PgKept, StreamSafe, Flows
  <2>2. UNCHANGED <<slot, since, lastSafe>>
    BY <1>5, <2>1 DEF StartStream
  <2>3. from' = from
    <3>1. from' = IF from > slot.confirmed THEN from ELSE slot.confirmed
      BY <1>5, <2>2 DEF StartStream
    <3>2. slot.confirmed \in Nat
      BY <1>0
    <3> QED BY <1>0, <1>2, <1>5, <3>1, <3>2
  <2>4. PgType(s)'
    BY <1>1, <1>4, <2>2, <2>3 DEF PgKept, PgType, ServerType, TaskType, ConnType
  <2>5. CheckpointCovers(s)' /\ PipelineOrdered' /\ PipelineCovers(s)'
    BY <1>1, <2>2, PartsStay DEF PgKept
  <2>6. Flows'
    BY <1>1 DEF Flows
  <2>7. Somewhere' = Somewhere /\ \A i \in DOMAIN w : (Ahead(w, i)' <=> Ahead(w, i)) /\ (Skipped(w, i)' <=> Skipped(w, i))
    BY <1>1, <2>3 DEF Somewhere, Sent, Ahead, OnWire, Skipped
  <2>8. StreamComplete(s)'
    BY <2>1, <2>2, <2>7 DEF PgKept, StreamComplete
  <2>9. StreamExact(s)'
    BY <1>1, <2>1, <2>3 DEF PgKept, StreamExact, WireOrdered, SerialsExact, Ready
  <2>10. StreamSafe(s)'
    BY <1>1, <2>1, <2>2, <2>7 DEF PgKept, StreamSafe
  <2> QED BY <1>3, <2>4, <2>5, <2>8, <2>9, <2>10 DEF PgKept
<1>6. CASE from = 0
  <2>1. /\ s.mode = "Never" /\ ckpt = NoCheckpoint /\ resume = None /\ flight = <<>> /\ highest = None
        /\ acked = ckpt.pos /\ ckpt.pos = None /\ ckpt.snap = FALSE /\ None.snap = FALSE
    BY <1>1, <1>2, <1>6 DEF PgKept, AtSlot, Idles, NoCheckpoint, None
  <2>a. PICK c : c = IF slot.exists THEN slot.confirmed ELSE WalLsn
    OBVIOUS
  <2>2. slot' = IF slot.exists THEN slot ELSE [exists |-> TRUE, confirmed |-> WalLsn]
    BY DEF StartStream
  <2>3. c \in Nat /\ c >= 1 /\ Reached(w, walEnd, StreamingPosition(c)) /\ (slot.exists => since = c)
    <3>1. CASE slot.exists
      <4>1. slot.confirmed = since /\ Reached(w, walEnd, StreamingPosition(since)) /\ c = since /\ since \in Nat
        BY <1>0, <2>1, <2>a, <3>1 DEF PgKept, CheckpointCovers
      <4>2. StreamingPosition(since).lsn >= 1
        BY <1>0, <4>1, ReachedFacts
      <4> QED BY <4>1, <4>2, StreamingFacts
    <3>2. CASE ~slot.exists
      <4>1. ~InProgress
        BY <3>2 DEF StartStream
      <4>2. Closed(w, walEnd) /\ c = Edge(w, walEnd)
        BY <1>0, <2>a, <3>2, <4>1, QuietFacts
      <4> QED BY <1>0, <3>2, <4>2, EdgeStart
    <3> QED BY <3>1, <3>2
  <2>4. /\ slot'.exists /\ slot'.confirmed = c /\ since' = c /\ from' = c /\ lastSafe' = StreamingPosition(c)
        /\ slot' \in [exists : BOOLEAN, confirmed : Nat]
    <3>1. slot'.exists /\ slot'.confirmed = c /\ slot' \in [exists : BOOLEAN, confirmed : Nat]
      <4>1. CASE slot.exists
        BY <1>0, <2>2, <2>a, <4>1
      <4>2. CASE ~slot.exists
        <5>1. slot' = [exists |-> TRUE, confirmed |-> c]
          BY <2>2, <2>a, <4>2
        <5> QED BY <2>3, <5>1
      <4> QED BY <4>1, <4>2
    <3>2. since' = c
      BY <2>3, <2>a DEF StartStream
    <3>3. from' = c /\ lastSafe' = StreamingPosition(c)
      BY <1>6, <2>1, <2>3, <3>1 DEF StartStream
    <3> QED BY <3>1, <3>2, <3>3
  <2>b. PICK q : q = StreamingPosition(c)
    OBVIOUS
  <2>5. q \in Positions /\ Start(q) /\ q.lsn = c /\ q.snap = FALSE /\ q # None /\ Reached(w, walEnd, q)
    BY <2>3, <2>b, StreamingFacts
  <2>6. \A i, u : Unit(w, i, u) /\ c <= w[u].lsn => ~Below(w, i, q)
    BY <1>0, <2>5, StartBelow
  <2>7. DOMAIN wire' = {} /\ DOMAIN flight' = {} /\ decoded' = 0
    BY <1>1, <1>2, <2>1
  <2>8. ASSUME NEW i \in DOMAIN w PROVE Ahead(w, i)' <=> \E u \in DOMAIN w : Unit(w, i, u) /\ c <= w[u].lsn
    <3>1. ~OnWire(i)'
      BY <2>7 DEF OnWire
    <3>2. Ahead(w, i)' <=> \E u \in DOMAIN w : Unit(w, i, u) /\ 0 < u /\ c <= w[u].lsn
      BY <2>4, <2>7, <3>1 DEF Ahead
    <3>3. \A u \in DOMAIN w : 0 < u
      BY <1>0
    <3> QED BY <3>2, <3>3
  <2>9. PgType(s)'
    <3>1. ServerType(s)'
      BY <1>0, <1>1, <2>3, <2>4 DEF ServerType
    <3>2. TaskType(s)'
      BY <1>1, <2>1, <2>4, <2>5, <2>b DEF PgKept, PgType, TaskType
    <3>3. ConnType'
      BY <1>1, <2>3, <2>4 DEF PgKept, PgType, ConnType
    <3> QED BY <1>4, <3>1, <3>2, <3>3 DEF PgType
  <2>10. CheckpointCovers(s)'
    <3>1. ckpt' = ckpt /\ ~Resumable(ckpt)
      BY <1>1, <2>1 DEF Resumable
    <3>2. Reached(w, walEnd, StreamingPosition(c)) /\ walEnd' = walEnd
      BY <1>1, <2>3
    <3> QED BY <2>1, <2>4, <3>1, <3>2 DEF CheckpointCovers
  <2>11. PipelineOrdered' /\ PipelineCovers(s)'
    BY <1>1, <2>1, <2>7 DEF PipelineOrdered, PipelineCovers
  <2>12. StreamComplete(s)'
    BY <2>1, <2>4, <2>8 DEF StreamComplete, Due
  <2>13. StreamExact(s)'
    <3>1. WireOrdered(w)'
      BY <1>0, <1>1, <2>7 DEF WireOrdered
    <3>2. \A i, u \in DOMAIN w : Unit(w, i, u) => 0 < Place(w, i)
      BY <1>0, PlaceFacts
    <3>3. SerialsExact(w)'
      BY <1>1, <1>2, <3>2 DEF SerialsExact
    <3> QED BY <3>1, <3>3 DEF StreamExact
  <2>14. StreamSafe(s)'
    <3>1. lastSafe' = q /\ resume' = None /\ highest' = None /\ acked' = None
      BY <1>1, <2>1, <2>4, <2>b
    <3>2. \A i \in DOMAIN w : Ahead(w, i)' => ~Below(w, i, q)
      BY <2>6, <2>8
    <3>3. Covered(s, c, q, Somewhere')
      BY <2>1, <2>6 DEF Covered, Due
    <3>4. slot'.confirmed <= q.lsn
      BY <2>3, <2>4, <2>5
    <3> QED BY <2>4, <2>5, <2>7, <3>1, <3>2, <3>3, <3>4 DEF StreamSafe
  <2> QED BY <1>3, <2>9, <2>10, <2>11, <2>12, <2>13, <2>14 DEF PgKept
<1> QED BY <1>5, <1>6

\* The slot of the snapshot is created: its rows are what the slot will not send.
LEMMA CreateSnapshotSlotKeeps ==
    ASSUME NEW s \in Setups, Ordinary(s), PgKept(s), CreateSnapshotSlot
    PROVE  PgKept(s)'
<1> DEFINE w == s.wal
<1>0. /\ Serially(w) /\ setup = s /\ walEnd \in 0 .. Len(w) /\ Len(w) \in Nat /\ DOMAIN w = 1 .. Len(w)
      /\ since \in Nat
  BY SetupFacts DEF PgKept, PgType, ServerType
<1>a. PICK c : c = WalLsn
  OBVIOUS
<1>b. PICK rows : rows = InLogOrder(RowsBy(walEnd))
  OBVIOUS
<1>1. /\ phase = "prepared" /\ phase' = "snapshot" /\ ~InProgress
      /\ slot' = [exists |-> TRUE, confirmed |-> c] /\ since' = c
      /\ snapRows' = rows /\ snapLsn' = c /\ eventSerial' = 0
      /\ UNCHANGED <<walEnd, delivered, ckpt, reason, resume, lastSafe, txn, previousLsn, dirty,
                     from, decoded, wire, flight, batch, highest, rtSnap, rtState, acked, setup>>
  BY <1>a, <1>b DEF CreateSnapshotSlot, durable, conn, runtime, bounds
<1>2. /\ Closed(w, walEnd) /\ c = Edge(w, walEnd) /\ rows \in Seq(Nat)
      /\ \A i : i \in 1 .. walEnd /\ w[i].kind = "change" /\ Due(s, c, i) => \E n \in DOMAIN rows : rows[n] = i
  BY <1>0, <1>1, <1>a, <1>b, QuietFacts
<1>3. c \in Nat /\ c >= 1 /\ Reached(w, walEnd, StreamingPosition(c))
  BY <1>0, <1>2, EdgeStart
<1>4. /\ flight = <<>> /\ highest = None /\ batch = {} /\ acked = ckpt.pos /\ s.mode = "Initial"
      /\ DOMAIN flight = {} /\ ~Complete(Len(flight)) /\ ~rtSnap /\ ~ckpt.snap
      /\ reason # "backwards"
  <2>1. flight = <<>> /\ highest = None /\ acked = ckpt.pos /\ reason # "backwards" /\ batch = {}
    BY <1>1 DEF PgKept, Idles
  <2>2. s.mode = "Initial" /\ ~Complete(Len(flight)) /\ (ckpt.snap => rtSnap)
    BY <1>1 DEF PgKept, SnapshotFirst
  <2>3. ~rtSnap
    BY <2>2 DEF Complete
  <2> QED BY <2>1, <2>2, <2>3
<1>5. PgType(s)'
  <2>1. ServerType(s)'
    BY <1>0, <1>1, <1>3 DEF ServerType
  <2>2. TaskType(s)'
    BY <1>1 DEF PgKept, PgType, TaskType
  <2>3. ConnType'
    BY <1>1, <1>2, <1>3 DEF PgKept, PgType, ConnType
  <2>4. PipelineType(s)' /\ CheckpointType(s)'
    BY <1>1 DEF PgKept, PgType, PipelineType, CheckpointType
  <2> QED BY <2>1, <2>2, <2>3, <2>4 DEF PgType
<1>6. Idles'
  BY <1>1, <1>4 DEF Idles
<1>7. CheckpointCovers(s)'
  <2>1. ~Resumable(ckpt)
    BY <1>4 DEF Resumable, PgKept, CheckpointCovers
  <2>2. ckpt.pos # None => ckpt.pos.snap
    BY <1>4 DEF PgKept, CheckpointCovers
  <2> QED BY <1>1, <1>4, <2>1, <2>2 DEF CheckpointCovers, Resumable
<1>8. SnapshotFirst(s)'
  <2>1. Complete(Len(flight))' <=> Complete(Len(flight))
    BY <1>1 DEF Complete
  <2> QED BY <1>1, <1>4, <2>1 DEF SnapshotFirst
<1>9. PipelineOrdered' /\ PipelineCovers(s)'
  BY <1>1, <1>4 DEF PipelineOrdered, PipelineCovers
<1>10. InSnapshot(s)'
  <2>a. PICK q : q = StreamingPosition(c)
    OBVIOUS
  <2>1. Covered(s, c, q, Somewhere' \cup Range(rows))
    <3>1. SUFFICES ASSUME NEW i \in DOMAIN w, Due(s, c, i), Below(w, i, q) PROVE i \in Range(rows)
      BY DEF Covered
    <3>2. i <= walEnd /\ i \in Nat /\ i >= 1
      BY <1>0, <1>3, <2>a, <3>1, ReachedFacts
    <3>3. i \in 1 .. walEnd
      BY <1>0, <3>2
    <3>4. \A u : Unit(w, i, u) /\ c <= w[u].lsn => ~Below(w, i, q)
      <4>1. q \in Positions /\ Start(q) /\ q.lsn = c
        BY <1>3, <2>a, StreamingFacts
      <4>2. Reached(w, walEnd, q)
        BY <1>3, <2>a
      <4> QED BY <1>0, <4>1, <4>2, StartBelow
    <3>5. w[i].kind = "change"
      BY <3>1, <3>4 DEF Due
    <3> QED BY <1>2, <3>1, <3>3, <3>5 DEF Range
  <2>2. ckpt.pos # None => ckpt.pos.snap /\ ckpt.pos.lsn <= c
    <3>1. ckpt.pos # None => Reached(w, walEnd, ckpt.pos)
      BY CheckpointFacts
    <3>2. ckpt.pos # None => ckpt.pos.snap
      BY <1>4 DEF PgKept, CheckpointCovers
    <3>3. ckpt.pos # None => ckpt.pos.lsn <= c
      BY <1>0, <1>2, <3>1, ReachedFacts
    <3> QED BY <3>2, <3>3
  <2> QED BY <1>1, <1>3, <1>4, <2>a, <2>1, <2>2 DEF InSnapshot
<1>11. Attached(s)' /\ StreamComplete(s)' /\ StreamExact(s)' /\ StreamSafe(s)'
  BY <1>1 DEF Attached, StreamComplete, StreamExact, StreamSafe, Flows
<1> QED BY <1>5, <1>6, <1>7, <1>8, <1>9, <1>10, <1>11 DEF PgKept

\* A record of the snapshot goes out: behind all others of the snapshot, and its last one
\* covers what the slot will not send.
LEMMA SnapshotRecordKeeps ==
    ASSUME NEW s \in Setups, Ordinary(s), PgKept(s), phase = "snapshot", NEW r \in Records,
           flight' = Append(flight, r), r.pos = SnapshotPosition(eventSerial + 1),
           UNCHANGED <<setup, walEnd, slot, since, delivered, ckpt, batch, highest, rtSnap, rtState, acked>>,
           \/ phase' = "snapshot" /\ r.boundary = "Data"
           \/ /\ phase' = "attached" /\ r.boundary = "SnapshotComplete"
              /\ Covered(s, since, StreamingPosition(snapLsn), Somewhere \cup {r.i})
    PROVE  /\ PipelineType(s)' /\ SnapshotFirst(s)' /\ PipelineOrdered' /\ PipelineCovers(s)'
           /\ Somewhere' = Somewhere \cup {r.i}
           /\ \A n \in DOMAIN flight' : /\ flight'[n].pos.snap /\ flight'[n].pos.lsn = snapLsn
                                        /\ flight'[n].pos.serial <= eventSerial + 1
<1> DEFINE w == s.wal
<1>0. /\ Serially(w) /\ walEnd \in 0 .. Len(w) /\ slot \in [exists : BOOLEAN, confirmed : Nat]
      /\ PipelineType(s) /\ snapLsn \in Nat /\ eventSerial \in Nat
  BY SetupFacts DEF PgKept, PgType, ServerType, ConnType, TaskType
<1>1. /\ slot.exists /\ slot.confirmed = snapLsn
      /\ Reached(w, walEnd, StreamingPosition(snapLsn))
      /\ \A n \in DOMAIN flight : /\ flight[n].pos.snap /\ flight[n].pos.lsn = snapLsn
                                  /\ flight[n].pos.serial <= eventSerial
      /\ highest # None => highest.snap /\ highest.lsn = snapLsn /\ highest.serial <= eventSerial
      /\ acked # None => acked.snap /\ acked.lsn <= snapLsn
  BY DEF PgKept, InSnapshot
<1>2. r.pos \in Positions /\ Start(r.pos) /\ r.pos.lsn = snapLsn /\ r.pos.snap /\ r.pos.serial = eventSerial + 1
  <2>1. r.pos = [lsn |-> snapLsn, commit |-> snapLsn, xid |-> 0, serial |-> eventSerial + 1, snap |-> TRUE]
    BY DEF SnapshotPosition
  <2>2. /\ r.pos.lsn = snapLsn /\ r.pos.commit = snapLsn /\ r.pos.xid = 0
        /\ r.pos.serial = eventSerial + 1 /\ r.pos.snap = TRUE
    BY <2>1
  <2>3. r.pos \in Positions
    <3>1. eventSerial + 1 \in Nat /\ snapLsn \in Nat
      BY <1>0
    <3>2. \A l, n \in Nat : [lsn |-> l, commit |-> l, xid |-> 0, serial |-> n, snap |-> TRUE] \in Positions
      BY DEF Positions
    <3> QED BY <2>1, <3>1, <3>2
  <2> QED BY <2>2, <2>3 DEF Start
<1>3. Reached(w, walEnd, r.pos) /\ \A i \in DOMAIN w : Below(w, i, r.pos) <=> Below(w, i, StreamingPosition(snapLsn))
  <2>1. Start(StreamingPosition(snapLsn)) /\ StreamingPosition(snapLsn).lsn = snapLsn
    BY <1>0, StreamingFacts
  <2> QED BY <1>0, <1>1, <1>2, <2>1, SameStart
<1>4. /\ flight \in Seq(Records) /\ flight' \in Seq(Records) /\ Len(flight) \in Nat /\ Len(flight') = Len(flight) + 1
      /\ DOMAIN flight = 1 .. Len(flight) /\ DOMAIN flight' = 1 .. Len(flight) + 1
      /\ \A n \in DOMAIN flight : n \in DOMAIN flight' /\ flight'[n] = flight[n]
      /\ flight'[Len(flight) + 1] = r
      /\ \A n \in DOMAIN flight' : n \in DOMAIN flight \/ n = Len(flight) + 1
  <2>1. flight \in Seq(Records)
    BY <1>0 DEF PipelineType
  <2> QED BY <2>1, Longer
<1>5. \A n \in DOMAIN flight : flight[n].pos \in Positions
  <2>1. \A n \in DOMAIN flight : flight[n] \in Records
    BY <1>4
  <2> QED BY <2>1 DEF Records
<1>6. highest # None => highest \in Positions
  BY <1>0, ReachedFacts DEF PipelineType
<1>7. PipelineType(s)'
  BY <1>0, <1>3, <1>4 DEF PipelineType
<1>8. Somewhere' = Somewhere \cup {r.i}
  <2>1. Sent' = Sent \cup {r.i}
    BY <1>4 DEF Sent
  <2> QED BY <2>1 DEF Somewhere
<1>9. ASSUME NEW p \in Positions, p.snap, p.lsn = snapLsn, p.serial <= eventSerial
      PROVE  IsAtOrBefore(p, r.pos)
  <2>1. p.serial \in Nat /\ p.snap = r.pos.snap
    BY <1>2, <1>9 DEF Positions
  <2>2. r.pos.serial > p.serial /\ r.pos.lsn = p.lsn
    BY <1>0, <1>2, <1>9, <2>1
  <2>3. IsAfter(r.pos, p)
    BY <2>1, <2>2 DEF IsAfter
  <2> QED BY <2>3 DEF IsAtOrBefore
<1>10. \A n \in DOMAIN flight : IsAtOrBefore(flight[n].pos, r.pos)
  BY <1>1, <1>5, <1>9
<1>11. highest # None => IsAtOrBefore(highest, r.pos)
  BY <1>1, <1>6, <1>9
<1>12. acked.lsn <= r.pos.lsn /\ slot.confirmed <= r.pos.lsn /\ ~Row(r)
  <2>1. acked = None => acked.lsn = 0
    BY DEF None
  <2> QED BY <1>0, <1>1, <1>2, <2>1 DEF Row
<1>13. PipelineOrdered'
  <2>1. PipelineOrdered
    BY DEF PgKept
  <2>2. \A n, m \in DOMAIN flight' : n < m =>
            IsAtOrBefore(flight'[n].pos, flight'[m].pos) /\ (Row(flight'[m]) => IsAfter(flight'[m].pos, flight'[n].pos))
    <3>1. SUFFICES ASSUME NEW n \in DOMAIN flight', NEW m \in DOMAIN flight', n < m
                   PROVE  IsAtOrBefore(flight'[n].pos, flight'[m].pos)
                          /\ (Row(flight'[m]) => IsAfter(flight'[m].pos, flight'[n].pos))
      OBVIOUS
    <3>2. n \in DOMAIN flight
      BY <1>4, <3>1
    <3>3. CASE m \in DOMAIN flight
      <4>1. flight'[n] = flight[n] /\ flight'[m] = flight[m]
        BY <1>4, <3>2, <3>3
      <4> QED BY <2>1, <3>1, <3>2, <3>3, <4>1 DEF PipelineOrdered
    <3>4. CASE m = Len(flight) + 1
      <4>1. flight'[n] = flight[n] /\ flight'[m] = r
        BY <1>4, <3>2, <3>4
      <4> QED BY <1>10, <1>12, <3>2, <4>1
    <3> QED BY <1>4, <3>3, <3>4
  <2>3. \A n \in DOMAIN flight' :
            /\ highest # None => /\ IsAtOrBefore(highest, flight'[n].pos)
                                 /\ Row(flight'[n]) => IsAfter(flight'[n].pos, highest)
            /\ acked.lsn <= flight'[n].pos.lsn
            /\ Row(flight'[n]) => IsAfter(flight'[n].pos, acked)
            /\ slot.exists => slot.confirmed <= flight'[n].pos.lsn
    <3>1. SUFFICES ASSUME NEW n \in DOMAIN flight'
                   PROVE  /\ highest # None => /\ IsAtOrBefore(highest, flight'[n].pos)
                                               /\ Row(flight'[n]) => IsAfter(flight'[n].pos, highest)
                          /\ acked.lsn <= flight'[n].pos.lsn
                          /\ Row(flight'[n]) => IsAfter(flight'[n].pos, acked)
                          /\ slot.exists => slot.confirmed <= flight'[n].pos.lsn
      OBVIOUS
    <3>2. CASE n \in DOMAIN flight
      <4>1. flight'[n] = flight[n]
        BY <1>4, <3>2
      <4> QED BY <2>1, <3>2, <4>1 DEF PipelineOrdered
    <3>3. CASE n = Len(flight) + 1
      <4>1. flight'[n] = r
        BY <1>4, <3>3
      <4> QED BY <1>11, <1>12, <4>1
    <3> QED BY <1>4, <3>2, <3>3
  <2>4. highest # None => acked.lsn <= highest.lsn /\ (slot.exists => slot.confirmed <= highest.lsn)
    BY <2>1 DEF PipelineOrdered
  <2> QED BY <2>2, <2>3, <2>4 DEF PipelineOrdered
<1>14. PipelineCovers(s)'
  <2>1. PipelineCovers(s)
    BY DEF PgKept
  <2>2. \A n \in DOMAIN flight' :
            ~flight'[n].pos.snap \/ flight'[n].boundary = "SnapshotComplete" =>
                Covered(s, since, flight'[n].pos, delivered \cup batch \cup SentBy(flight', n))
    <3>1. SUFFICES ASSUME NEW n \in DOMAIN flight',
                          ~flight'[n].pos.snap \/ flight'[n].boundary = "SnapshotComplete"
                   PROVE  Covered(s, since, flight'[n].pos, delivered \cup batch \cup SentBy(flight', n))
      OBVIOUS
    <3>2. CASE n \in DOMAIN flight
      <4>1. flight'[n] = flight[n]
        BY <1>4, <3>2
      <4>2. SentBy(flight', n) = SentBy(flight, n)
        <5>1. \A m \in 1 .. n : flight'[m] = flight[m]
          BY <1>4, <3>2
        <5> QED BY <5>1 DEF SentBy
      <4> QED BY <2>1, <3>1, <3>2, <4>1, <4>2 DEF PipelineCovers
    <3>3. CASE n = Len(flight) + 1
      <4>1. flight'[n] = r
        BY <1>4, <3>3
      <4>2. SentBy(flight', n) = Sent \cup {r.i}
        <5>1. SentBy(flight', n) = {flight'[m].i : m \in DOMAIN flight'}
          BY <1>4, <3>3 DEF SentBy
        <5> QED BY <1>4, <5>1 DEF Sent
      <4>3. delivered \cup batch \cup SentBy(flight', n) = Somewhere \cup {r.i}
        BY <4>2 DEF Somewhere
      <4>4. Covered(s, since, StreamingPosition(snapLsn), Somewhere \cup {r.i})
        BY <1>2, <3>1, <4>1
      <4>5. Covered(s, since, r.pos, Somewhere \cup {r.i})
        BY <1>3, <4>4 DEF Covered
      <4> QED BY <4>1, <4>3, <4>5
    <3> QED BY <1>4, <3>2, <3>3
  <2> QED BY <2>1, <2>2 DEF PipelineCovers
<1>15. SnapshotFirst(s)'
  <2>1. SnapshotFirst(s) /\ s.mode = "Initial" /\ ~Complete(Len(flight))
    BY DEF PgKept, SnapshotFirst
  <2>2. \A n \in 0 .. Len(flight) : Complete(n)' <=> Complete(n)
    <3>1. \A n \in 0 .. Len(flight) : \A m \in 1 .. n : flight'[m] = flight[m]
      BY <1>4
    <3> QED BY <3>1 DEF Complete
  <2>3. Complete(Len(flight))' <=> Complete(Len(flight)) \/ r.boundary = "SnapshotComplete"
    <3>1. \A m \in 1 .. Len(flight') : (m \in 1 .. Len(flight) /\ flight'[m] = flight[m]) \/ m = Len(flight')
      BY <1>4
    <3>2. Len(flight') \in 1 .. Len(flight') /\ flight'[Len(flight')] = r
      BY <1>4
    <3>3. \A m \in 1 .. Len(flight) : m \in 1 .. Len(flight') /\ flight'[m] = flight[m]
      BY <1>4
    <3> QED BY <3>1, <3>2, <3>3 DEF Complete
  <2>4. ASSUME NEW n \in DOMAIN flight' PROVE flight'[n].pos.snap = ~Complete(n - 1)'
    <3>1. CASE n \in DOMAIN flight
      <4>1. flight'[n] = flight[n] /\ n - 1 \in 0 .. Len(flight)
        BY <1>4, <3>1
      <4>2. flight[n].pos.snap = ~Complete(n - 1)
        BY <2>1, <3>1 DEF SnapshotFirst
      <4> QED BY <2>2, <4>1, <4>2
    <3>2. CASE n = Len(flight) + 1
      <4>1. flight'[n] = r /\ n - 1 = Len(flight) /\ Len(flight) \in 0 .. Len(flight)
        BY <1>4, <3>2
      <4>2. ~Complete(n - 1)'
        BY <2>1, <2>2, <4>1
      <4>3. r.pos.snap = TRUE
        BY <1>2 DEF Positions
      <4> QED BY <4>1, <4>2, <4>3
    <3> QED BY <1>4, <3>1, <3>2
  <2>5. ckpt.snap => rtSnap
    BY <2>1 DEF SnapshotFirst
  <2>6. highest # None => highest.snap = ~rtSnap
    BY <2>1 DEF SnapshotFirst
  <2> QED BY <2>1, <2>3, <2>4, <2>5, <2>6 DEF SnapshotFirst
<1>16. ASSUME NEW n \in DOMAIN flight'
       PROVE  flight'[n].pos.snap /\ flight'[n].pos.lsn = snapLsn /\ flight'[n].pos.serial <= eventSerial + 1
  <2>1. CASE n \in DOMAIN flight
    <3>1. flight[n].pos.serial \in Nat
      BY <1>5, <2>1 DEF Positions
    <3> QED BY <1>0, <1>1, <1>4, <2>1, <3>1
  <2>2. CASE n = Len(flight) + 1
    BY <1>0, <1>2, <1>4, <2>2
  <2> QED BY <1>4, <2>1, <2>2
<1> QED BY <1>7, <1>8, <1>13, <1>14, <1>15, <1>16

\* A row of the snapshot goes out.
LEMMA SendSnapshotRowKeeps ==
    ASSUME NEW s \in Setups, Ordinary(s), PgKept(s), SendSnapshotRow
    PROVE  PgKept(s)'
<1> DEFINE w == s.wal
<1>a. PICK r : r = [pos |-> SnapshotPosition(eventSerial + 1), boundary |-> "Data", i |-> Head(snapRows), state |-> FALSE]
  OBVIOUS
<1>1. /\ phase = "snapshot" /\ snapRows # <<>> /\ eventSerial' = eventSerial + 1 /\ snapRows' = Tail(snapRows)
      /\ flight' = Append(flight, r)
      /\ UNCHANGED <<walEnd, slot, since, delivered, ckpt, phase, reason, resume, lastSafe, txn, previousLsn, dirty,
                     from, decoded, wire, snapLsn, setup, batch, highest, rtSnap, rtState, acked>>
  BY <1>a DEF SendSnapshotRow, Emit, server, durable, conn, bounds
<1>0. /\ setup = s /\ snapLsn \in Nat /\ eventSerial \in Nat /\ snapRows \in Seq(Nat)
      /\ PgType(s) /\ InSnapshot(s)
  BY DEF PgKept, PgType, ServerType, ConnType, TaskType
<1>2. /\ Tail(snapRows) \in Seq(Nat) /\ Head(snapRows) \in Nat
      /\ \A i : i \in Range(snapRows) => i = Head(snapRows) \/ i \in Range(Tail(snapRows))
  <2>1. /\ Tail(snapRows) \in Seq(Nat) /\ Head(snapRows) \in Nat /\ Head(snapRows) = snapRows[1]
        /\ \A n \in DOMAIN snapRows : n = 1 \/ (n - 1 \in DOMAIN Tail(snapRows) /\ Tail(snapRows)[n - 1] = snapRows[n])
    BY <1>0, <1>1, Shorter
  <2> QED BY <2>1 DEF Range
<1>3. r.pos = SnapshotPosition(eventSerial + 1) /\ r.boundary = "Data" /\ r.i = Head(snapRows) /\ r.state = FALSE
  BY <1>a
<1>4. r \in Records
  <2>1. \A l, n \in Nat : [lsn |-> l, commit |-> l, xid |-> 0, serial |-> n, snap |-> TRUE] \in Positions
    BY DEF Positions
  <2>2. SnapshotPosition(eventSerial + 1) \in Positions
    BY <1>0, <2>1 DEF SnapshotPosition
  <2>3. \A p \in Positions, i \in Nat : [pos |-> p, boundary |-> "Data", i |-> i, state |-> FALSE] \in Records
    BY DEF Records, Boundaries
  <2> QED BY <1>2, <1>a, <2>2, <2>3
<1>5. /\ PipelineType(s)' /\ SnapshotFirst(s)' /\ PipelineOrdered' /\ PipelineCovers(s)'
      /\ Somewhere' = Somewhere \cup {r.i}
      /\ \A n \in DOMAIN flight' : /\ flight'[n].pos.snap /\ flight'[n].pos.lsn = snapLsn
                                   /\ flight'[n].pos.serial <= eventSerial + 1
  BY <1>1, <1>3, <1>4, SnapshotRecordKeeps
<1>6. PgType(s)'
  <2>1. ServerType(s)' /\ CheckpointType(s)'
    BY <1>0, <1>1 DEF PgType, ServerType, CheckpointType
  <2>2. TaskType(s)' /\ ConnType'
    BY <1>0, <1>1, <1>2 DEF PgType, TaskType, ConnType
  <2> QED BY <1>5, <2>1, <2>2 DEF PgType
<1>7. Idles' /\ Attached(s)' /\ StreamComplete(s)' /\ StreamExact(s)' /\ StreamSafe(s)'
  BY <1>1 DEF PgKept, Idles, Attached, StreamComplete, StreamExact, StreamSafe, Flows
<1>8. CheckpointCovers(s)'
  BY <1>1, PartsStay DEF PgKept
<1>9. InSnapshot(s)'
  <2>1. Covered(s, since, StreamingPosition(snapLsn), Somewhere' \cup Range(Tail(snapRows)))
    <3>1. Covered(s, since, StreamingPosition(snapLsn), Somewhere \cup Range(snapRows))
      BY <1>0, <1>1 DEF InSnapshot
    <3>2. \A i : i \in Somewhere \cup Range(snapRows) => i \in Somewhere' \cup Range(Tail(snapRows))
      BY <1>2, <1>3, <1>5
    <3> QED BY <3>1, <3>2, CoveredGrows
  <2>2. highest # None => highest.snap /\ highest.lsn = snapLsn /\ highest.serial <= eventSerial + 1
    <3>1. highest # None => highest.snap /\ highest.lsn = snapLsn /\ highest.serial <= eventSerial
      BY <1>0, <1>1 DEF InSnapshot
    <3>2. highest # None => highest \in Positions
      BY <1>0, SetupFacts, ReachedFacts DEF PgType, ServerType, PipelineType
    <3>3. highest # None => highest.serial \in Nat
      BY <3>2 DEF Positions
    <3> QED BY <1>0, <3>1, <3>3
  <2> QED BY <1>0, <1>1, <1>5, <2>1, <2>2 DEF InSnapshot
<1> QED BY <1>5, <1>6, <1>7, <1>8, <1>9 DEF PgKept

\* The snapshot is complete, and the stream takes over where its slot is.
LEMMA CompleteSnapshotKeeps ==
    ASSUME NEW s \in Setups, Ordinary(s), PgKept(s), CompleteSnapshot
    PROVE  PgKept(s)'
<1> DEFINE w == s.wal
<1>a. PICK r : r = [pos |-> SnapshotPosition(eventSerial + 1), boundary |-> "SnapshotComplete", i |-> 0, state |-> TRUE]
  OBVIOUS
<1>b. PICK q : q = StreamingPosition(snapLsn)
  OBVIOUS
<1>0. /\ Serially(w) /\ setup = s /\ walEnd \in 0 .. Len(w) /\ Len(w) \in Nat /\ DOMAIN w = 1 .. Len(w)
      /\ snapLsn \in Nat /\ eventSerial \in Nat /\ PgType(s) /\ since \in Nat
      /\ slot \in [exists : BOOLEAN, confirmed : Nat]
  BY SetupFacts DEF PgKept, PgType, ServerType, ConnType, TaskType
<1>1. /\ phase = "snapshot" /\ snapRows = <<>> /\ flight' = Append(flight, r)
      /\ UNCHANGED <<walEnd, slot, since, delivered, ckpt, setup, batch, highest, rtSnap, rtState, acked>>
      /\ phase' = "attached" /\ reason' = "none" /\ from' = snapLsn /\ decoded' = 0 /\ wire' = <<>>
      /\ snapRows' = <<>> /\ snapLsn' = 0 /\ resume' = None /\ lastSafe' = q
      /\ previousLsn' = 0 /\ eventSerial' = 0 /\ dirty' = FALSE
  BY <1>a, <1>b DEF CompleteSnapshot, Emit, Attach, server, durable, bounds
<1>2. /\ slot.exists /\ slot.confirmed = snapLsn /\ Reached(w, walEnd, q)
      /\ Covered(s, since, q, Somewhere)
      /\ \A n \in DOMAIN flight : flight[n].pos.snap /\ flight[n].pos.lsn = snapLsn
      /\ highest # None => highest.snap /\ highest.lsn = snapLsn
      /\ acked # None => acked.snap /\ acked.lsn <= snapLsn
  <2>1. Range(snapRows) = {}
    BY <1>1 DEF Range
  <2> QED BY <1>1, <1>b, <2>1 DEF PgKept, InSnapshot
<1>3. q \in Positions /\ Start(q) /\ q.lsn = snapLsn /\ q.snap = FALSE /\ q # None /\ snapLsn >= 1
  <2>1. q.lsn >= 1
    BY <1>0, <1>2, ReachedFacts
  <2> QED BY <1>0, <1>b, <2>1, StreamingFacts
<1>4. r.pos = SnapshotPosition(eventSerial + 1) /\ r.boundary = "SnapshotComplete" /\ r.i = 0 /\ r.state = TRUE
  BY <1>a
<1>5. r \in Records
  <2>1. \A l, n \in Nat : [lsn |-> l, commit |-> l, xid |-> 0, serial |-> n, snap |-> TRUE] \in Positions
    BY DEF Positions
  <2>2. SnapshotPosition(eventSerial + 1) \in Positions
    BY <1>0, <2>1 DEF SnapshotPosition
  <2>3. \A p \in Positions : [pos |-> p, boundary |-> "SnapshotComplete", i |-> 0, state |-> TRUE] \in Records
    BY DEF Records, Boundaries
  <2> QED BY <1>a, <2>2, <2>3
<1>6. /\ PipelineType(s)' /\ SnapshotFirst(s)' /\ PipelineOrdered' /\ PipelineCovers(s)'
      /\ Somewhere' = Somewhere \cup {0}
      /\ \A n \in DOMAIN flight' : flight'[n].pos.snap /\ flight'[n].pos.lsn = snapLsn
  <2>1. Covered(s, since, StreamingPosition(snapLsn), Somewhere \cup {0})
    BY <1>2, <1>b DEF Covered
  <2> QED BY <1>1, <1>4, <1>5, <2>1, SnapshotRecordKeeps
<1>7. PgType(s)'
  <2>1. ServerType(s)' /\ CheckpointType(s)'
    BY <1>0, <1>1 DEF PgType, ServerType, CheckpointType
  <2>2. TaskType(s)'
    BY <1>1, <1>2 DEF TaskType
  <2>3. ConnType'
    BY <1>0, <1>1 DEF ConnType
  <2> QED BY <1>6, <2>1, <2>2, <2>3 DEF PgType
<1>8. Idles' /\ InSnapshot(s)'
  BY <1>1 DEF PgKept, Idles, InSnapshot
<1>9. CheckpointCovers(s)'
  BY <1>1, PartsStay DEF PgKept
<1>10. Attached(s)'
  BY <1>0, <1>1, <1>2, <1>3 DEF Attached
<1>11. DOMAIN wire' = {} /\ Flows'
  BY <1>1, <1>3 DEF Flows
<1>12. ASSUME NEW i \in DOMAIN w PROVE Ahead(w, i)' <=> \E u \in DOMAIN w : Unit(w, i, u) /\ snapLsn <= w[u].lsn
  <2>1. ~OnWire(i)'
    BY <1>11 DEF OnWire
  <2>2. Ahead(w, i)' <=> \E u \in DOMAIN w : Unit(w, i, u) /\ 0 < u /\ snapLsn <= w[u].lsn
    BY <1>1, <2>1 DEF Ahead
  <2>3. \A u \in DOMAIN w : 0 < u
    BY <1>0
  <2> QED BY <2>2, <2>3
<1>13. StreamComplete(s)'
  <2>1. SUFFICES ASSUME NEW i \in DOMAIN w, Due(s, since, i) PROVE i \in Somewhere' \/ Ahead(w, i)'
    BY <1>1 DEF StreamComplete
  <2>2. PICK u \in DOMAIN w : Unit(w, i, u)
    BY <2>1 DEF Due
  <2>3. CASE snapLsn <= w[u].lsn
    BY <1>12, <2>2, <2>3
  <2>4. CASE w[u].lsn < snapLsn
    <3>1. Below(w, i, q)
      BY <1>0, <1>2, <1>3, <2>2, <2>4, UnitBelow
    <3> QED BY <1>2, <1>6, <2>1, <3>1 DEF Covered
  <2>5. w[u].lsn \in Nat
    BY <1>0, <2>2, LogRecords DEF Serially
  <2> QED BY <1>0, <2>3, <2>4, <2>5
<1>14. StreamExact(s)'
  <2>1. WireOrdered(w)'
    BY <1>0, <1>1, <1>11 DEF WireOrdered
  <2>2. \A i, u \in DOMAIN w : Unit(w, i, u) => 0 < Place(w, i)
    BY <1>0, PlaceFacts
  <2>3. SerialsExact(w)'
    BY <1>1, <2>2 DEF SerialsExact
  <2> QED BY <2>1, <2>3 DEF StreamExact
<1>15. StreamSafe(s)'
  <2>1. Covered(s, since, q, Somewhere')
    BY <1>2, <1>6 DEF Covered
  <2>2. \A i \in DOMAIN w : Ahead(w, i)' => ~Below(w, i, q)
    BY <1>0, <1>2, <1>3, <1>12, StartBelow
  <2>3. ASSUME NEW p \in Positions, p.snap, p.lsn <= snapLsn PROVE IsAtOrBefore(p, q)
    <3>1. p.lsn \in Nat /\ p.snap = TRUE
      BY <2>3 DEF Positions
    <3>2. (q.lsn > p.lsn \/ p.lsn = q.lsn) /\ ~q.snap
      BY <1>0, <1>3, <2>3, <3>1
    <3>3. IsAfter(q, p)
      BY <2>3, <3>2 DEF IsAfter
    <3> QED BY <3>3 DEF IsAtOrBefore
  <2>4. \A n \in DOMAIN flight' : IsAtOrBefore(flight'[n].pos, q)
    <3>1. \A n \in DOMAIN flight' : flight'[n].pos \in Positions
      <4>1. \A n \in DOMAIN flight' : flight'[n] \in Records
        BY <1>6 DEF PipelineType
      <4> QED BY <4>1 DEF Records
    <3> QED BY <1>0, <1>6, <2>3, <3>1
  <2>5. highest # None => IsAtOrBefore(highest, q)
    <3>1. highest # None => highest \in Positions
      BY <1>0, ReachedFacts DEF PgType, PipelineType
    <3> QED BY <1>0, <1>2, <2>3, <3>1
  <2>6. acked # None => IsAtOrBefore(acked, q)
    <3>1. acked \in Positions
      BY <1>1, CheckpointFacts
    <3> QED BY <1>2, <2>3, <3>1
  <2>7. slot.confirmed <= q.lsn
    BY <1>0, <1>2, <1>3
  <2> QED BY <1>1, <1>2, <1>3, <2>1, <2>2, <2>4, <2>5, <2>6, <2>7 DEF StreamSafe
<1> QED BY <1>6, <1>7, <1>8, <1>9, <1>10, <1>13, <1>14, <1>15 DEF PgKept

-----------------------------------------------------------------------------
(* The invariant (theorem).                                                 *)

\* Nothing is in the pipeline when the first process is about to start.
LEMMA InitKept ==
    ASSUME NEW s \in Setups, Ordinary(s), Init, setup = s
    PROVE  PgKept(s)
<1>0. s.mode \in {"Initial", "Never"} /\ Len(s.wal) \in Nat /\ None \in Positions /\ None.snap = FALSE
  BY SetupFacts DEF None, Positions
<1>1. /\ walEnd = 0 /\ slot = [exists |-> FALSE, confirmed |-> 0] /\ since = 0 /\ delivered = {} /\ ckpt = NoCheckpoint
      /\ phase = "down" /\ reason = "none" /\ resume = None /\ lastSafe = None
      /\ txn = 0 /\ previousLsn = 0 /\ eventSerial = 0 /\ dirty = FALSE
      /\ from = 0 /\ decoded = 0 /\ wire = <<>> /\ snapRows = <<>> /\ snapLsn = 0
      /\ flight = <<>> /\ batch = {} /\ highest = None
      /\ rtSnap = FALSE /\ rtState = FALSE /\ acked = None
  BY DEF Init
<1>2. ckpt.pos = None /\ ckpt.snap = FALSE /\ ckpt.state = FALSE /\ ckpt = [pos |-> None, snap |-> FALSE, state |-> FALSE]
  BY <1>1 DEF NoCheckpoint
<1>3. PgType(s)
  <2>1. ServerType(s)
    BY <1>0, <1>1 DEF ServerType
  <2>2. CheckpointType(s)
    BY <1>0, <1>1, <1>2 DEF CheckpointType
  <2>3. TaskType(s)
    BY <1>1 DEF TaskType
  <2>4. ConnType
    BY <1>1 DEF ConnType
  <2>5. PipelineType(s)
    <3>1. flight \in Seq(Records) /\ DOMAIN flight = {}
      BY <1>1
    <3> QED BY <1>1, <3>1 DEF PipelineType
  <2> QED BY <2>1, <2>2, <2>3, <2>4, <2>5 DEF PgType
<1>4. DOMAIN flight = {}
  BY <1>1
<1>5. Idles
  BY <1>1 DEF Idles
<1>6. CheckpointCovers(s)
  BY <1>0, <1>1, <1>2 DEF CheckpointCovers, Resumable
<1>7. SnapshotFirst(s) /\ PipelineOrdered /\ PipelineCovers(s)
  BY <1>1, <1>4 DEF SnapshotFirst, PipelineOrdered, PipelineCovers
<1>8. InSnapshot(s) /\ Attached(s) /\ StreamComplete(s) /\ StreamExact(s) /\ StreamSafe(s)
  BY <1>1 DEF InSnapshot, Attached, StreamComplete, StreamExact, StreamSafe, Flows
<1> QED BY <1>3, <1>5, <1>6, <1>7, <1>8 DEF PgKept

\* Transactions that are sent at their commits come without the events of streamed ones.
LEMMA NeverStreamed ==
    ASSUME NEW s \in Setups, Ordinary(s), PgKept(s), StreamStart \/ StreamStop \/ StreamAbort
    PROVE  FALSE
<1>1. PICK kind \in {"StreamStart", "StreamStop", "StreamAbort"} : Take(kind)
  BY DEF StreamStart, StreamStop, StreamAbort
<1>2. kind \in {"Begin", "Change", "Commit", "Message"}
  BY <1>1, TakeFacts
<1> QED BY <1>1, <1>2

\* No step changes the database or the configuration.
LEMMA SetupStays ==
    ASSUME [Next]_vars
    PROVE  setup' = setup
<1>1. CASE Database \/ LoseSlot
  BY <1>1 DEF Database, Write, Send, LoseSlot, bounds
<1>2. CASE Startup
  BY <1>2 DEF Startup, Boot, StartStream, CreateSnapshotSlot, SendSnapshotRow, CompleteSnapshot, bounds
<1>3. CASE Convert
  BY <1>3 DEF Convert, Begin, StreamStart, StreamStop, StreamAbort, DataRecord, CommitRecord, MessageRecord, Rest, bounds
<1>4. CASE Heartbeat \/ Feedback
  BY <1>4 DEF Heartbeat, Feedback, Confirm, bounds
<1>5. CASE Pipeline
  BY <1>5 DEF Pipeline, Consume, ConsumeRegressed, Flush, rtRest, bounds
<1>6. CASE Crash \/ OrderlyStop \/ Restart
  BY <1>6 DEF Crash, OrderlyStop, Restart
<1>7. CASE UNCHANGED vars
  BY <1>7 DEF vars, bounds
<1> QED BY <1>1, <1>2, <1>3, <1>4, <1>5, <1>6, <1>7 DEF Next

\* While nothing changes, the invariant stays.
LEMMA StutterKeeps ==
    ASSUME NEW s \in Setups, PgKept(s), UNCHANGED vars
    PROVE  PgKept(s)'
<1>1. UNCHANGED <<walEnd, slot, since, delivered, ckpt, phase, reason, resume, lastSafe, txn, previousLsn, eventSerial,
                  dirty, from, decoded, wire, snapRows, snapLsn, flight, batch, highest, rtSnap, rtState, acked, setup>>
  BY DEF vars, server, durable, connector, conn, snapshot, runtime, bounds
<1>2. PgType(s)'
  BY <1>1 DEF PgKept, PgType, ServerType, CheckpointType, TaskType, ConnType, PipelineType
<1>3. Idles'
  BY <1>1 DEF PgKept, Idles
<1>4. /\ CheckpointCovers(s)' /\ SnapshotFirst(s)' /\ PipelineOrdered' /\ PipelineCovers(s)'
      /\ StreamComplete(s)' /\ StreamExact(s)'
  BY <1>1, PartsStay DEF PgKept
<1>5. InSnapshot(s)'
  BY <1>1 DEF PgKept, InSnapshot, Somewhere, Sent
<1>6. Attached(s)'
  BY <1>1 DEF PgKept, Attached, AtSlot
<1>7. StreamSafe(s)'
  BY <1>1 DEF PgKept, StreamSafe, Flows, Somewhere, Sent, Ahead, OnWire, Skipped
<1> QED BY <1>2, <1>3, <1>4, <1>5, <1>6, <1>7 DEF PgKept

\* Every step keeps the invariant.
LEMMA StreamSteps ==
    ASSUME NEW s \in Setups, Ordinary(s), PgKept(s), [Next]_vars
    PROVE  PgKept(s)'
<1>1. CASE Database \/ LoseSlot
  BY <1>1, WriteKeeps, SendKeeps, LoseKeeps DEF Database
<1>2. CASE Startup
  BY <1>2, BootKeeps, StartStreamKeeps, CreateSnapshotSlotKeeps, SendSnapshotRowKeeps, CompleteSnapshotKeeps DEF Startup
<1>3. CASE Convert
  BY <1>3, BeginKeeps, NeverStreamed, DataRecordKeeps, CommitRecordKeeps, MessageRecordKeeps DEF Convert
<1>4. CASE Heartbeat \/ Feedback
  BY <1>4, HeartbeatKeeps, FeedbackKeeps
<1>5. CASE Pipeline
  BY <1>5, ConsumeKeeps, NoneRegresses, FlushKeeps DEF Pipeline
<1>6. CASE Crash \/ OrderlyStop \/ Restart
  BY <1>6, CrashKeeps, OrderlyStopKeeps
<1>7. CASE UNCHANGED vars
  BY <1>7, StutterKeeps
<1> QED BY <1>1, <1>2, <1>3, <1>4, <1>5, <1>6, <1>7 DEF Next

\* In an ordinary setup the checkpoint covers what it claims and the stream goes on behind
\* it, in every state that start, snapshot, stream, pipeline, crashes and stops lead to.
THEOREM Streams == Spec => []StreamKept
<1>1. ASSUME Init PROVE StreamKept
  <2>1. PICK s \in Setups : setup = s
    BY <1>1 DEF Init
  <2> QED BY <1>1, <2>1, InitKept DEF StreamKept
<1>2. ASSUME StreamKept, [Next]_vars PROVE StreamKept'
  <2>1. PICK s \in Setups : setup = s /\ (Ordinary(s) => PgKept(s))
    BY <1>2 DEF StreamKept
  <2>2. setup' = s
    BY <1>2, <2>1, SetupStays
  <2>3. Ordinary(s) => PgKept(s)'
    BY <1>2, <2>1, StreamSteps
  <2> QED BY <2>2, <2>3 DEF StreamKept
<1> QED BY <1>1, <1>2, PTL DEF Spec

-----------------------------------------------------------------------------
(* The properties (theorems).                                               *)

\* What is owed is due, and was written with the end of its transaction.
LEMMA OwedFacts ==
    ASSUME NEW s \in Setups, Ordinary(s), setup = s, walEnd \in 0 .. Len(s.wal), NEW i \in Owed
    PROVE  /\ i \in DOMAIN s.wal /\ i # 0 /\ Due(s, since, i)
           /\ \E u \in DOMAIN s.wal : Unit(s.wal, i, u) /\ u <= walEnd
           /\ \A c \in CommitOf(s.wal[i].xid) : Unit(s.wal, i, c)
           /\ \A u, v : Unit(s.wal, i, u) /\ Unit(s.wal, i, v) => u = v
<1> DEFINE w == s.wal
<1>0. Serially(w) /\ Apart(w) /\ Len(w) \in Nat /\ DOMAIN w = 1 .. Len(w) /\ Wal = w
  BY SetupFacts DEF Wal, Serially
<1>1. i \in 1 .. walEnd /\ Committed(i, walEnd)
  BY DEF Owed, CommittedBy
<1>2. i \in DOMAIN w /\ i # 0 /\ i <= walEnd
  BY <1>0, <1>1
<1>3. \A c \in CommitOf(w[i].xid) : c \in DOMAIN w /\ w[c].kind = "commit" /\ w[c].xid = w[i].xid
  BY <1>0 DEF CommitOf
<1>4. \A u, v : Unit(w, i, u) /\ Unit(w, i, v) => u = v
  BY <1>0, UnitFacts
<1>5. CASE w[i].kind = "message"
  <2>1. Unit(w, i, i)
    BY <1>2, <1>5 DEF Unit
  <2>2. CommitOf(w[i].xid) = {}
    <3>1. w[i].xid = 0
      BY <1>0, <1>2, <1>5 DEF Apart
    <3>2. ASSUME NEW c \in CommitOf(w[i].xid) PROVE FALSE
      BY <1>0, <1>3, <3>1, <3>2 DEF Apart
    <3> QED BY <3>2
  <2>3. since <= w[i].lsn
    <3>1. w[i].lsn >= since
      BY <1>0, <1>5, <2>2 DEF Owed
    <3> QED BY <3>1
  <2>4. Due(s, since, i)
    BY <1>2, <1>5, <2>1, <2>3 DEF Due
  <2> QED BY <1>2, <1>4, <2>1, <2>2, <2>4
<1>6. CASE w[i].kind = "change"
  <2>1. \A c \in CommitOf(w[i].xid) : Unit(w, i, c)
    BY <1>2, <1>3, <1>6 DEF Unit
  <2>2. \E c \in CommitOf(w[i].xid) : c <= walEnd
    BY <1>0, <1>1, <1>6 DEF Committed
  <2>3. s.mode # "Never" \/ \E c \in CommitOf(w[i].xid) : w[c].lsn >= since
    BY <1>0, <1>6 DEF Owed, SnapshotMode
  <2>4. Due(s, since, i)
    <3>1. PICK c \in CommitOf(w[i].xid) : s.mode # "Never" \/ w[c].lsn >= since
      BY <2>2, <2>3
    <3>2. since <= w[c].lsn \/ s.mode # "Never"
      BY <3>1
    <3> QED BY <1>3, <1>6, <2>1, <3>2 DEF Due
  <2> QED BY <1>2, <1>3, <1>4, <2>1, <2>2, <2>4
<1> QED BY <1>0, <1>1, <1>5, <1>6 DEF Committed

\* A connection never starts behind a gap, wherever checkpoint, slot or snapshot say it
\* starts (resolve_resume_slot, ensure_replication_slot, run_snapshot).
THEOREM NeverAGap == Spec => [](Ordinary(setup) => NoGap)
<1>1. ASSUME StreamKept, Ordinary(setup) PROVE NoGap
  <2>1. PICK s \in Setups : setup = s /\ PgKept(s)
    BY <1>1 DEF StreamKept
  <2> DEFINE w == s.wal
  <2>2. Ordinary(s) /\ walEnd \in 0 .. Len(w) /\ Serially(w) /\ Wal = w
    BY <1>1, <2>1, SetupFacts DEF PgKept, PgType, ServerType, Wal
  <2>3. SUFFICES ASSUME phase = "streaming", NEW i \in EndedBefore(from) PROVE i \in delivered \cup batch \cup InTransit
    BY DEF NoGap
  <2>4. i \in Owed
    BY <2>3 DEF EndedBefore
  <2>5. PICK c \in CommitOf(w[i].xid) : w[c].lsn < from
    BY <2>2, <2>3 DEF EndedBefore
  <2>6. i \in DOMAIN w /\ i # 0 /\ Due(s, since, i) /\ Unit(w, i, c) /\ \A u, v : Unit(w, i, u) /\ Unit(w, i, v) => u = v
    BY <2>1, <2>2, <2>4, <2>5, OwedFacts
  <2>7. Flows /\ WireOrdered(w) /\ StreamComplete(s) /\ from \in Nat
    BY <2>1, <2>3 DEF Flows, PgKept, PgType, ConnType, StreamExact
  <2>8. ~Ahead(w, i)
    <3>1. w[c].lsn \in Nat
      <4>1. c \in DOMAIN w
        BY <2>6 DEF Unit
      <4> QED BY <2>2, <4>1, LogRecords DEF Serially
    <3>2. \A u : Unit(w, i, u) => ~(from <= w[u].lsn)
      BY <2>5, <2>6, <2>7, <3>1
    <3>3. ~OnWire(i)
      BY <2>7, <3>2 DEF OnWire, WireOrdered
    <3> QED BY <3>2, <3>3 DEF Ahead
  <2>9. i \in Somewhere
    BY <2>6, <2>7, <2>8 DEF StreamComplete
  <2> QED BY <2>6, <2>9 DEF Somewhere, Sent, InTransit, Range
<1> QED BY <1>1, Streams, PTL

\* Once the log is read and the pipeline is empty, all that is owed has been delivered: the
\* rows of the snapshot, of the stream and of what the replay filter dropped.
THEOREM CaughtUp == Spec => [](Ordinary(setup) => CaughtUpComplete)
<1>1. ASSUME StreamKept, Ordinary(setup) PROVE CaughtUpComplete
  <2>1. PICK s \in Setups : setup = s /\ PgKept(s)
    BY <1>1 DEF StreamKept
  <2> DEFINE w == s.wal
  <2>2. Ordinary(s) /\ walEnd \in 0 .. Len(w) /\ Serially(w) /\ Len(w) \in Nat /\ DOMAIN w = 1 .. Len(w)
    BY <1>1, <2>1, SetupFacts DEF PgKept, PgType, ServerType
  <2>3. SUFFICES ASSUME phase = "streaming", decoded = walEnd, wire = <<>>, flight = <<>>, highest = None, NEW i \in Owed
                 PROVE  i \in delivered
    BY DEF CaughtUpComplete
  <2>4. PICK u \in DOMAIN w : Unit(w, i, u) /\ u <= walEnd
    BY <2>1, <2>2, OwedFacts
  <2>5. i \in DOMAIN w /\ Due(s, since, i) /\ \A v : Unit(w, i, v) => v = u
    BY <2>1, <2>2, <2>4, OwedFacts
  <2>6. ~Ahead(w, i)
    <3>1. ~OnWire(i)
      BY <2>3 DEF OnWire
    <3>2. \A v \in DOMAIN w : Unit(w, i, v) => ~(decoded < v)
      BY <2>2, <2>3, <2>4, <2>5
    <3> QED BY <3>1, <3>2 DEF Ahead
  <2>7. i \in Somewhere
    BY <2>1, <2>3, <2>5, <2>6 DEF PgKept, StreamComplete, Flows
  <2>8. batch = {} /\ Sent = {}
    BY <2>1, <2>3 DEF PgKept, Idles, Sent
  <2> QED BY <2>7, <2>8 DEF Somewhere
<1> QED BY <1>1, Streams, PTL

\* What the slot confirms, and the server may forget, has been delivered: feedback follows
\* the checkpoint, and a start moves the slot no further than it.
THEOREM SlotBehind == Spec => [](Ordinary(setup) => SlotCoversDelivered)
<1>1. ASSUME StreamKept, Ordinary(setup) PROVE SlotCoversDelivered
  <2>1. PICK s \in Setups : setup = s /\ PgKept(s)
    BY <1>1 DEF StreamKept
  <2> DEFINE w == s.wal
  <2>2. /\ Ordinary(s) /\ walEnd \in 0 .. Len(w) /\ Serially(w) /\ Wal = w
        /\ slot \in [exists : BOOLEAN, confirmed : Nat]
    BY <1>1, <2>1, SetupFacts DEF PgKept, PgType, ServerType, Wal
  <2>3. SUFFICES ASSUME ckpt.snap, slot.exists, NEW i \in EndedBefore(slot.confirmed) PROVE i \in delivered
    BY DEF SlotCoversDelivered
  <2>4. ckpt.pos # None /\ Reached(w, walEnd, ckpt.pos) /\ ckpt.pos.lsn \in Nat
    <3>1. ckpt # NoCheckpoint
      BY <2>3 DEF NoCheckpoint
    <3> QED BY <2>1, <2>2, <3>1, CheckpointFacts
  <2>5. Covered(s, since, ckpt.pos, delivered) /\ slot.confirmed <= ckpt.pos.lsn
    BY <2>1, <2>3, <2>4 DEF PgKept, CheckpointCovers, Resumable
  <2>6. i \in Owed
    BY <2>3 DEF EndedBefore
  <2>7. PICK c \in CommitOf(w[i].xid) : w[c].lsn < slot.confirmed
    BY <2>2, <2>3 DEF EndedBefore
  <2>8. i \in DOMAIN w /\ Due(s, since, i) /\ Unit(w, i, c)
    BY <2>1, <2>2, <2>6, <2>7, OwedFacts
  <2>9. w[c].lsn < ckpt.pos.lsn
    <3>1. c \in DOMAIN w
      BY <2>8 DEF Unit
    <3>2. w[c].lsn \in Nat
      BY <2>2, <3>1, LogRecords DEF Serially
    <3> QED BY <2>2, <2>4, <2>5, <2>7, <3>2
  <2>10. Below(w, i, ckpt.pos)
    BY <2>2, <2>4, <2>8, <2>9, UnitBelow
  <2> QED BY <2>5, <2>8, <2>10 DEF Covered
<1> QED BY <1>1, Streams, PTL

\* No row of the stream goes out that the checkpoint in force covers (should_skip).
THEOREM ReplaysExactly == Spec => [](Ordinary(setup) => ReplayExact)
<1>1. ASSUME StreamKept, Ordinary(setup) PROVE ReplayExact
  <2>1. PICK s \in Setups : setup = s /\ PgKept(s)
    BY <1>1 DEF StreamKept
  <2>2. \A n \in DOMAIN flight : flight[n].i # 0 /\ ~flight[n].pos.snap => IsAfter(flight[n].pos, acked)
    BY <2>1 DEF PgKept, PipelineOrdered, Row
  <2> QED BY <2>2 DEF ReplayExact, Range
<1> QED BY <1>1, Streams, PTL

\* The runtime finds no record of the source to go back (validate_sequence).
THEOREM KeepsForward == Spec => [](Ordinary(setup) => NeverBackwards)
<1>1. ASSUME StreamKept, Ordinary(setup) PROVE NeverBackwards
  BY <1>1 DEF StreamKept, PgKept, Idles, NeverBackwards
<1> QED BY <1>1, Streams, PTL
=============================================================================
