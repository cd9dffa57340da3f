------------------------------ MODULE MySqlProofs ------------------------------
(***************************************************************************)
(* Theorems about the MySQL source (MySql): the replay filter drops only   *)
(* rows that reached the sink before, although each connection counts      *)
(* serials and anchors anew.                                               *)
(***************************************************************************)
EXTENDS MySql, SequenceTheorems, FiniteSetTheorems, WellFoundedInduction, TLAPS

LogsSound == \A s \in Setups : LogSound(s)

-----------------------------------------------------------------------------
(* The inductive invariant.                                                 *)

Positions == [file : Nat, at : Nat, gtid : BOOLEAN, serial : Nat, snap : BOOLEAN]
Conversions ==
    [file : Nat, anchors : [Tables -> Nat], previous : Nat, serial : Nat, resume : Positions,
     txn : [open : BOOLEAN, ignore : BOOLEAN]]

Maps(m, t) == Events[m].kind = "map" /\ Events[m].table = t

\* Event i has rows that the table map a stands for.
AnchoredAt(i, a) ==
    /\ i \in DOMAIN Events /\ Events[i].kind = "rows" /\ a \in 1 .. i - 1 /\ Maps(a, Events[i].table)
    /\ \A m \in a + 1 .. i - 1 : ~Maps(m, Events[i].table)

\* The rows anchored at a before event i.
RowsOf(a, i) == UNION {ChangesOf(j) : j \in {k \in 1 .. i - 1 : AnchoredAt(k, a)}}
Count(a, i) == Cardinality(RowsOf(a, i))

\* The stream does not send row n of event i again when it resumes from p.
Reaches(p, i, n) == i < p.at \/ (AnchoredAt(i, p.at) /\ Count(p.at, i) + n <= p.serial)

\* The sink has change x, or will with the first n records in flight.
Arrives(x, n) == x \in delivered \/ \E k \in 1 .. n : flight[k].at = x

Due == {i \in DOMAIN Events : Events[i].kind = "rows" /\ i >= since /\ ~Ignored(i)}

Covered(p, k) == \A i \in Due : \A n \in DOMAIN Events[i].rows : Reaches(p, i, n) => Arrives(<<i, n>>, k)

\* A position of the log; at a table map it is one of a row.
Sound(p) ==
    /\ p \in Positions /\ p.at \in 1 .. written + 1 /\ p.file = FileAt(p.at)
    /\ p.at <= written /\ Events[p.at].kind = "map" => p.gtid /\ ~p.snap

LogKept ==
    /\ setup \in Setups /\ LogSound(setup)
    /\ written \in setup.ends \cup {0} /\ since \in 0 .. written + 1

\* A window's rows can be counted.
ShapedWindow(w) ==
    /\ w = [table |-> w.table, low |-> w.low, high |-> w.high, rows |-> w.rows, max |-> w.max, last |-> w.last,
            count |-> w.count, fits |-> w.fits]
    /\ IsFiniteSet(w.rows)

Shaped(c) ==
    /\ c = [progress |-> c.progress, completed |-> c.completed, window |-> c.window, serial |-> c.serial,
            dirty |-> c.dirty]
    /\ ShapedWindow(c.window) /\ c.serial \in Nat

IncrementalKept ==
    /\ Shaped(inc)
    /\ prep = [step |-> prep.step, low |-> prep.low, max |-> prep.max, rows |-> prep.rows, fits |-> prep.fits]
    /\ IsFiniteSet(prep.rows)

SnapshotKept ==
    /\ snapshot = [coordinates |-> snapshot.coordinates, ordinal |-> snapshot.ordinal, rows |-> snapshot.rows]
    /\ snapshot.ordinal \in Nat
    /\ phase = "snapshot" =>
        /\ snapshot.coordinates = Coordinates(since) /\ since \in 1 .. written + 1
        /\ since - 1 \in setup.ends \cup {0}

\* Any record may be the last of a batch and make a checkpoint of its position.
FlightKept ==
    /\ flight \in Seq(Range(flight))
    /\ \A n \in DOMAIN flight : Sound(flight[n].pos) /\ Covered(flight[n].pos, n)

CheckpointKept == ckpt.pos = None \/ (Sound(ckpt.pos) /\ Covered(ckpt.pos, 0))

\* What the stream has passed is on its way.
CursorKept ==
    /\ rd \in 1 .. written + 1
    /\ \A i \in Due : i < rd => \A n \in DOMAIN Events[i].rows : Arrives(<<i, n>>, Len(flight))

\* A reconnection may begin from the last safe position; outside a transaction no row
\* anchored there is left to read.
SafeKept ==
    /\ Sound(lastSafe) /\ Covered(lastSafe, Len(flight)) /\ lastSafe.at <= rd
    /\ conv.txn.open \/ \A i \in rd .. Len(Events) : ~AnchoredAt(i, lastSafe.at)

\* What the replay filter drops has been sent.
FilterKept ==
    conv.resume # None =>
        /\ Sound(conv.resume) /\ Covered(conv.resume, Len(flight))
        /\ conv.resume.at <= rd /\ conv.resume.file <= conv.file

AnchorsKept ==
    /\ conv.file \in 1 .. FileAt(rd) /\ \A m \in 1 .. rd - 1 : FileAt(m) <= conv.file
    /\ \A t \in Tables :
        LET a == conv.anchors[t]
        IN  /\ a # 0 => a \in 1 .. rd - 1 /\ Maps(a, t) /\ FileAt(a) = conv.file
            /\ a # 0 /\ conv.resume # None => conv.resume.at <= a
            /\ phase # "opening" /\ t \in maps => \A m \in 1 .. rd - 1 : Maps(m, t) /\ FileAt(m) = conv.file => m <= a

\* The serial counts no more rows of an anchor than there are, and all of them as
\* long as the filter drops rows.
Counted(a) == IF conv.previous = a THEN conv.serial ELSE 0
SerialsKept ==
    /\ \A a \in DOMAIN Events : Events[a].kind = "map" => Counted(a) <= Count(a, rd)
    /\ conv.resume # None /\ conv.file = conv.resume.file =>
        Ignored(conv.resume.at) \/ Count(conv.resume.at, rd) <= Counted(conv.resume.at)

\* Rows are ignored in transactions that are filtered.
TxnKept == conv.txn.ignore => conv.txn.open /\ rd > 1 /\ Ignored(rd - 1)

Connected == phase \in {"opening", "streaming", "broken"}

StreamKept == CursorKept /\ SafeKept /\ FilterKept /\ AnchorsKept /\ SerialsKept /\ TxnKept

Kept ==
    /\ LogKept /\ IncrementalKept /\ SnapshotKept /\ FlightKept /\ CheckpointKept
    /\ conv \in Conversions /\ lastSafe \in Positions
    /\ Connected => StreamKept

-----------------------------------------------------------------------------
(* The log.                                                                 *)

LEMMA Least ==
    ASSUME NEW S, S \subseteq Nat, S # {}
    PROVE  \E i \in S : \A j \in S : i <= j
<1>1. PICK i \in S : \A j \in S : ~(<<j, i>> \in OpToRel(<, Nat))
  BY NatLessThanWellFounded, WFMin
<1>2. ASSUME NEW j \in S PROVE i <= j
  <2>1. ~(<<j, i>> \in OpToRel(<, Nat)) /\ i \in Nat /\ j \in Nat
    BY <1>1
  <2>2. OpToRel(<, Nat) = {ss \in Nat \X Nat : ss[1] < ss[2]}
    BY DEF OpToRel
  <2>3. <<j, i>> \in Nat \X Nat /\ <<j, i>>[1] = j /\ <<j, i>>[2] = i
    BY <2>1
  <2>4. j < i => <<j, i>> \in OpToRel(<, Nat)
    BY <2>2, <2>3
  <2>5. ~(j < i)
    BY <2>1, <2>4
  <2>6. i \in Nat /\ j \in Nat
    OBVIOUS
  <2> QED BY <2>5, <2>6
<1> QED BY <1>2

LEMMA Smallest ==
    ASSUME NEW S, S \subseteq Nat, S # {}
    PROVE  Min(S) \in S /\ \A i \in S : Min(S) <= i
<1>1. \E i \in S : \A j \in S : i =< j
  BY Least
<1> QED BY <1>1 DEF Min

\* A bounded set of numbers has a greatest.
LEMMA Largest ==
    ASSUME NEW S, S \subseteq Nat, S # {}, NEW n \in Nat, \A i \in S : i <= n
    PROVE  Max(S) \in S /\ \A i \in S : i <= Max(S)
<1> DEFINE U == {u \in Nat : \A i \in S : i <= u}
<1>1. PICK u \in U : \A v \in U : u <= v
  BY Least, n \in U, U \subseteq Nat
<1>2. u \in S
  <2>1. CASE u = 0
    <3>1. PICK i : i \in S
      OBVIOUS
    <3> QED BY <3>1, <2>1
  <2>2. CASE u # 0
    <3>1. u - 1 \in Nat /\ u - 1 \notin U
      BY <2>2, <1>1
    <3>2. PICK i \in S : ~(i <= u - 1)
      BY <3>1
    <3> QED BY <3>2
  <2> QED BY <2>1, <2>2
<1>3. \E x \in S : \A y \in S : x >= y
  BY <1>2
<1> QED BY <1>3 DEF Max

LEMMA LogFacts ==
    ASSUME LogKept
    PROVE  /\ Len(Events) \in Nat /\ DOMAIN Events = 1 .. Len(Events)
           /\ setup.ends \subseteq 1 .. Len(Events) /\ Len(Events) \in setup.ends
           /\ written \in 0 .. Len(Events) /\ since \in Nat /\ since <= written + 1
           /\ \A i \in DOMAIN Events :
                Events[i].kind = "rows" => /\ Len(Events[i].rows) \in Nat \ {0}
                                           /\ DOMAIN Events[i].rows = 1 .. Len(Events[i].rows)
<1>1. setup \in Setups /\ LogSound(setup) /\ written \in setup.ends \cup {0} /\ since \in 0 .. written + 1
  BY DEF LogKept
<1>2. Len(setup.log) \in setup.ends /\ setup.ends \subseteq DOMAIN setup.log
  BY <1>1, MySqlAssumption
<1>3. Len(setup.log) \in Nat /\ DOMAIN setup.log = 1 .. Len(setup.log)
  BY <1>1 DEF LogSound
<1>4. ASSUME NEW i \in DOMAIN setup.log, setup.log[i].kind = "rows"
      PROVE  Len(setup.log[i].rows) \in Nat \ {0} /\ DOMAIN setup.log[i].rows = 1 .. Len(setup.log[i].rows)
  <2>1. setup.log[i].rows \in Seq([k : Nat, val : Nat])
    BY <1>1 DEF LogSound
  <2>2. setup.log[i].rows # <<>>
    BY <1>1, <1>4, MySqlAssumption
  <2> QED BY <2>1, <2>2
<1> QED BY <1>1, <1>2, <1>3, <1>4 DEF Events

\* What a transaction begins with.
LEMMA TxnBegins ==
    ASSUME LogKept, NEW i \in DOMAIN Events, i = 1 \/ i - 1 \in setup.ends
    PROVE  /\ Events[i].kind \notin {"map", "rows"}
           /\ setup.filtered # {} => Events[i].kind = "gtid"
<1>1. LogSound(setup)
  BY DEF LogKept
<1>2. Events[i].kind # "map" /\ (setup.filtered # {} => Events[i].kind = "gtid")
  BY <1>1 DEF LogSound, Events
<1>3. ASSUME Events[i].kind = "rows" PROVE FALSE
  <2>1. PICK m \in 1 .. i - 1 : \A n \in setup.ends : n < i <=> n < m
    BY <1>1, <1>3 DEF LogSound, Events
  <2>2. i \in Nat /\ i - 1 \in setup.ends
    BY LogFacts, <2>1
  <2>3. i - 1 < i /\ ~(i - 1 < m)
    BY <2>2
  <2> QED BY <2>1, <2>2, <2>3
<1> QED BY <1>2, <1>3

\* The table of a rows event is mapped before it in its transaction.
LEMMA RowsMapped ==
    ASSUME LogKept, NEW i \in DOMAIN Events, Events[i].kind = "rows"
    PROVE  Events[i].table \in Tables /\ \E m \in 1 .. i - 1 : Maps(m, Events[i].table) /\ SameTxn(m, i)
<1>1. LogSound(setup)
  BY DEF LogKept
<1> QED BY <1>1 DEF LogSound, Events, Maps, SameTxn, Tables, Keys

LEMMA FileFacts ==
    ASSUME LogKept
    PROVE  /\ \A i \in Nat : FileAt(i) \in 1 .. 1 + Cardinality(setup.rotations) /\ FileAt(i) \in Nat
           /\ \A i, j \in Nat : i <= j => FileAt(i) <= FileAt(j)
<1>1. IsFiniteSet(setup.rotations) /\ setup.rotations \subseteq Nat
  BY DEF LogKept, LogSound
<1>2. Cardinality(setup.rotations) \in Nat
  BY <1>1, FS_CardinalityType
<1>3. ASSUME NEW i \in Nat
      PROVE  LET R == {r \in setup.rotations : r <= i}
             IN  /\ IsFiniteSet(R) /\ Cardinality(R) \in Nat /\ Cardinality(R) <= Cardinality(setup.rotations)
                 /\ FileAt(i) = 1 + Cardinality(R)
  <2> DEFINE R == {r \in setup.rotations : r <= i}
  <2>1. R \in SUBSET setup.rotations
    OBVIOUS
  <2>2. IsFiniteSet(R) /\ Cardinality(R) <= Cardinality(setup.rotations)
    BY <1>1, <2>1, FS_Subset
  <2> QED BY <2>2, FS_CardinalityType DEF FileAt
<1>4. ASSUME NEW i \in Nat, NEW j \in Nat, i <= j PROVE FileAt(i) <= FileAt(j)
  <2> DEFINE R(k) == {r \in setup.rotations : r <= k}
  <2>1. R(i) \in SUBSET R(j)
    BY <1>1, <1>4
  <2>2. Cardinality(R(i)) <= Cardinality(R(j))
    BY <1>3, <2>1, FS_Subset
  <2>3. Cardinality(R(i)) \in Nat /\ Cardinality(R(j)) \in Nat
    BY <1>3
  <2>4. FileAt(i) = 1 + Cardinality(R(i)) /\ FileAt(j) = 1 + Cardinality(R(j))
    BY DEF FileAt
  <2> HIDE DEF R
  <2> QED BY <2>2, <2>3, <2>4
<1>5. ASSUME NEW i \in Nat PROVE FileAt(i) \in 1 .. 1 + Cardinality(setup.rotations) /\ FileAt(i) \in Nat
  <2>1. PICK k \in Nat : k <= Cardinality(setup.rotations) /\ FileAt(i) = 1 + k
    BY <1>3
  <2> QED BY <1>2, <2>1
<1> QED BY <1>4, <1>5

\* A transaction lies in one file.
LEMMA TxnInFile ==
    ASSUME LogKept, NEW i \in DOMAIN Events, NEW j \in DOMAIN Events, i <= j, SameTxn(i, j)
    PROVE  FileAt(i) = FileAt(j)
<1>1. LogSound(setup) /\ setup.rotations \subseteq Nat /\ DOMAIN Events = 1 .. Len(Events) /\ Len(Events) \in Nat
  BY LogFacts DEF LogKept, LogSound
<1>2. ASSUME NEW r \in setup.rotations, r <= j PROVE r <= i
  <2>1. CASE r = 0
    BY <1>1, <2>1
  <2>2. CASE r # 0
    <3>1. r \in DOMAIN setup.log
      BY <1>1, <1>2, <2>2 DEF Events
    <3>2. r = 1 \/ r - 1 \in setup.ends
      BY <1>1, <3>1 DEF LogSound
    <3>3. CASE r = 1
      BY <1>1, <3>3
    <3>4. CASE r - 1 \in setup.ends
      <4>1. r - 1 < j
        BY <1>1, <1>2
      <4>2. r - 1 < i
        BY <3>4, <4>1 DEF SameTxn
      <4> QED BY <1>1, <4>2
    <3> QED BY <3>2, <3>3, <3>4
  <2> QED BY <2>1, <2>2
<1>3. {r \in setup.rotations : r <= i} = {r \in setup.rotations : r <= j}
  BY <1>1, <1>2
<1> QED BY <1>3 DEF FileAt

LEMMA IgnoredTogether ==
    ASSUME NEW i, NEW j, SameTxn(i, j)
    PROVE  Ignored(i) <=> Ignored(j)
  BY DEF SameTxn, Ignored

\* Within a transaction, the event before belongs to it.
LEMMA TxnGoesOn ==
    ASSUME LogKept, NEW i \in DOMAIN Events, i # 1, Ignored(i - 1), Events[i].kind # "gtid"
    PROVE  Ignored(i)
<1>1. setup.filtered # {}
  BY DEF Ignored
<1>2. i - 1 \notin setup.ends
  BY <1>1, TxnBegins
<1>3. SameTxn(i - 1, i)
  <2>1. DOMAIN Events = 1 .. Len(Events) /\ Len(Events) \in Nat /\ setup.ends \subseteq 1 .. Len(Events)
    BY LogFacts
  <2>2. ASSUME NEW e \in setup.ends PROVE e < i - 1 <=> e < i
    BY <1>2, <2>1
  <2> QED BY <2>2 DEF SameTxn
<1> QED BY <1>3, IgnoredTogether

LEMMA AnchorFacts ==
    ASSUME LogKept, NEW i, NEW a, AnchoredAt(i, a)
    PROVE  /\ i \in DOMAIN Events /\ a \in DOMAIN Events /\ a < i /\ SameTxn(a, i) /\ FileAt(a) = FileAt(i)
           /\ Events[a].kind = "map" /\ Events[i].kind = "rows"
<1>1. DOMAIN Events = 1 .. Len(Events) /\ Len(Events) \in Nat /\ setup.ends \subseteq 1 .. Len(Events)
  BY LogFacts
<1>2. i \in DOMAIN Events /\ a \in DOMAIN Events /\ a < i /\ Maps(a, Events[i].table) /\ Events[i].kind = "rows"
  BY <1>1 DEF AnchoredAt
<1>3. PICK m \in 1 .. i - 1 : Maps(m, Events[i].table) /\ SameTxn(m, i)
  BY <1>2, RowsMapped
<1>4. m <= a
  BY <1>1, <1>2, <1>3 DEF AnchoredAt
<1>5. SameTxn(a, i)
  <2>1. ASSUME NEW e \in setup.ends PROVE e < a <=> e < i
    <3>1. e < i <=> e < m
      BY <1>3 DEF SameTxn
    <3> QED BY <1>1, <1>2, <1>3, <1>4, <3>1
  <2> QED BY <2>1 DEF SameTxn
<1>6. FileAt(a) = FileAt(i)
  BY <1>1, <1>2, <1>5, TxnInFile
<1> QED BY <1>2, <1>5, <1>6 DEF Maps

\* No row stands behind a position that is not at a table map, nor, past the end of its
\* transaction, behind one that is.
LEMMA NoneAnchored ==
    ASSUME LogKept, NEW a
    PROVE  /\ (a \in DOMAIN Events => Events[a].kind # "map") => \A i : ~AnchoredAt(i, a)
           /\ \A e \in setup.ends : \A i : a <= e /\ e < i => ~AnchoredAt(i, a)
<1>1. ASSUME a \in DOMAIN Events => Events[a].kind # "map", NEW i, AnchoredAt(i, a) PROVE FALSE
  BY <1>1, AnchorFacts
<1>2. ASSUME NEW e \in setup.ends, NEW i, a <= e, e < i, AnchoredAt(i, a) PROVE FALSE
  <2>1. SameTxn(a, i) /\ a \in DOMAIN Events /\ DOMAIN Events \subseteq Nat /\ setup.ends \subseteq Nat
    BY <1>2, AnchorFacts, LogFacts
  <2>2. ~(e < a)
    BY <1>2, <2>1
  <2> QED BY <1>2, <2>1, <2>2 DEF SameTxn
<1> QED BY <1>1, <1>2

\* The last position of the log is at no table map.
LEMMA EndAnchors ==
    ASSUME LogKept
    PROVE  /\ written + 1 \in DOMAIN Events => Events[written + 1].kind # "map"
           /\ \A i : ~AnchoredAt(i, written + 1)
<1>1. written = 0 \/ written \in setup.ends
  BY DEF LogKept
<1>2. written + 1 \in DOMAIN Events => Events[written + 1].kind # "map"
  <2>1. ASSUME written + 1 \in DOMAIN Events PROVE Events[written + 1].kind # "map"
    <3>1. written \in Nat
      BY LogFacts
    <3>2. written + 1 = 1 \/ (written + 1) - 1 \in setup.ends
      BY <1>1, <3>1
    <3> QED BY <2>1, <3>2, TxnBegins
  <2> QED BY <2>1
<1> QED BY <1>2, NoneAnchored

-----------------------------------------------------------------------------
(* Rows are counted from their table map.                                   *)

LEMMA CountNext ==
    ASSUME LogKept, NEW a, NEW i \in Nat
    PROVE  /\ IsFiniteSet(RowsOf(a, i + 1)) /\ Count(a, i + 1) \in Nat
           /\ IsFiniteSet(RowsOf(a, i)) /\ Count(a, i) \in Nat
           /\ Count(a, i + 1) = Count(a, i) + IF AnchoredAt(i, a) THEN Len(Events[i].rows) ELSE 0
<1>1. DOMAIN Events = 1 .. Len(Events) /\ Len(Events) \in Nat
  BY LogFacts
<1>2. ASSUME NEW j, AnchoredAt(j, a)
      PROVE  IsFiniteSet(ChangesOf(j)) /\ Cardinality(ChangesOf(j)) = Len(Events[j].rows)
  <2> DEFINE L == Len(Events[j].rows)
             f == [n \in 1 .. L |-> <<j, n>>]
  <2>1. L \in Nat /\ DOMAIN Events[j].rows = 1 .. L
    BY <1>2, AnchorFacts, LogFacts
  <2> HIDE DEF L
  <2>2. IsFiniteSet(1 .. L) /\ Cardinality(1 .. L) = L
    BY <2>1, FS_Interval
  <2>3. f \in Bijection(1 .. L, ChangesOf(j))
    <3>1. ChangesOf(j) = {<<j, n>> : n \in 1 .. L}
      BY <2>1 DEF ChangesOf
    <3>2. f \in [1 .. L -> ChangesOf(j)] /\ \A x \in ChangesOf(j) : \E n \in 1 .. L : f[n] = x
      BY <3>1
    <3>3. \A n, m \in 1 .. L : f[n] = f[m] => n = m
      OBVIOUS
    <3> HIDE DEF f
    <3> QED BY <3>2, <3>3 DEF Bijection, Injection, Surjection, IsInjective
  <2> HIDE DEF f
  <2>4. ExistsBijection(1 .. L, ChangesOf(j))
    BY <2>3 DEF ExistsBijection
  <2> QED BY <2>2, <2>4, FS_Bijection DEF L
<1>3. ASSUME NEW k \in Nat, IsFiniteSet(RowsOf(a, k))
      PROVE  /\ IsFiniteSet(RowsOf(a, k + 1)) /\ Count(a, k) \in Nat /\ Count(a, k + 1) \in Nat
             /\ Count(a, k + 1) = Count(a, k) + IF AnchoredAt(k, a) THEN Len(Events[k].rows) ELSE 0
  <2>1. CASE AnchoredAt(k, a)
    <3>1. k \in DOMAIN Events
      BY <2>1, AnchorFacts
    <3>2. {n \in 1 .. (k + 1) - 1 : AnchoredAt(n, a)} = {n \in 1 .. k - 1 : AnchoredAt(n, a)} \cup {k}
      BY <1>1, <2>1, <3>1
    <3>3. RowsOf(a, k + 1) = RowsOf(a, k) \cup ChangesOf(k)
      BY <3>2 DEF RowsOf
    <3>4. RowsOf(a, k) \cap ChangesOf(k) = {}
      <4>1. ASSUME NEW x \in RowsOf(a, k), x \in ChangesOf(k) PROVE FALSE
        <5>1. PICK n \in 1 .. k - 1 : x \in ChangesOf(n)
          BY DEF RowsOf
        <5>2. x[1] = n /\ x[1] = k
          BY <4>1, <5>1 DEF ChangesOf
        <5> QED BY <5>1, <5>2
      <4> QED BY <4>1
    <3>5. IsFiniteSet(ChangesOf(k)) /\ Cardinality(ChangesOf(k)) = Len(Events[k].rows)
      BY <1>2, <2>1
    <3>6. /\ IsFiniteSet(RowsOf(a, k) \cup ChangesOf(k))
          /\ Cardinality(RowsOf(a, k) \cup ChangesOf(k)) = Cardinality(RowsOf(a, k)) + Cardinality(ChangesOf(k))
      <4>1. /\ IsFiniteSet(RowsOf(a, k) \cup ChangesOf(k))
            /\ Cardinality(RowsOf(a, k) \cup ChangesOf(k))
                  = Cardinality(RowsOf(a, k)) + Cardinality(ChangesOf(k)) - Cardinality(RowsOf(a, k) \cap ChangesOf(k))
        BY <1>3, <3>5, FS_Union
      <4>2. Cardinality(RowsOf(a, k) \cap ChangesOf(k)) = 0
        BY <3>4, FS_EmptySet
      <4>3. Cardinality(RowsOf(a, k)) \in Nat /\ Cardinality(ChangesOf(k)) \in Nat
        BY <1>3, <3>5, FS_CardinalityType
      <4> QED BY <4>1, <4>2, <4>3
    <3> QED BY <1>3, <2>1, <3>3, <3>5, <3>6, FS_CardinalityType DEF Count
  <2>2. CASE ~AnchoredAt(k, a)
    <3>1. {n \in 1 .. (k + 1) - 1 : AnchoredAt(n, a)} = {n \in 1 .. k - 1 : AnchoredAt(n, a)}
      BY <2>2
    <3>2. RowsOf(a, k + 1) = RowsOf(a, k)
      BY <3>1 DEF RowsOf
    <3> QED BY <1>3, <2>2, <3>2, FS_CardinalityType DEF Count
  <2> QED BY <2>1, <2>2
<1> DEFINE T == {k \in Nat : ~IsFiniteSet(RowsOf(a, k))}
<1>4. T = {}
  <2>1. SUFFICES ASSUME T # {} PROVE FALSE
    OBVIOUS
  <2>2. T \subseteq Nat
    OBVIOUS
  <2> HIDE DEF T
  <2>3. PICK m \in T : \A k \in T : m <= k
    BY <2>1, <2>2, Least
  <2>4. m \in Nat /\ ~IsFiniteSet(RowsOf(a, m))
    BY <2>3 DEF T
  <2>5. m # 0
    <3>1. RowsOf(a, 0) = {}
      <4>1. {k \in 1 .. 0 - 1 : AnchoredAt(k, a)} = {}
        OBVIOUS
      <4> QED BY <4>1 DEF RowsOf
    <3> QED BY <2>4, <3>1, FS_EmptySet
  <2>6. m - 1 \in Nat /\ m - 1 \notin T /\ (m - 1) + 1 = m
    BY <2>3, <2>4, <2>5
  <2>7. IsFiniteSet(RowsOf(a, m - 1))
    BY <2>6 DEF T
  <2>8. IsFiniteSet(RowsOf(a, (m - 1) + 1))
    BY <1>3, <2>6, <2>7
  <2> QED BY <2>4, <2>6, <2>8
<1>5. IsFiniteSet(RowsOf(a, i))
  BY <1>4
<1> QED BY <1>3, <1>5

LEMMA CountGrows ==
    ASSUME LogKept, NEW a, NEW i \in Nat, NEW j \in Nat, i <= j
    PROVE  Count(a, i) <= Count(a, j) /\ Count(a, i) \in Nat /\ Count(a, j) \in Nat
<1>1. RowsOf(a, i) \in SUBSET RowsOf(a, j)
  <2>1. {k \in 1 .. i - 1 : AnchoredAt(k, a)} \subseteq {k \in 1 .. j - 1 : AnchoredAt(k, a)}
    OBVIOUS
  <2> QED BY <2>1 DEF RowsOf
<1>2. IsFiniteSet(RowsOf(a, j)) /\ Count(a, i) \in Nat /\ Count(a, j) \in Nat
  BY CountNext
<1> QED BY <1>1, <1>2, FS_Subset DEF Count

\* There is no row of a map before it.
LEMMA CountFromMap ==
    ASSUME LogKept, NEW a, NEW i \in Nat, i <= a + 1, a \in Nat
    PROVE  Count(a, i) = 0
<1>1. {k \in 1 .. i - 1 : AnchoredAt(k, a)} = {}
  <2>1. ASSUME NEW k \in 1 .. i - 1, AnchoredAt(k, a) PROVE FALSE
    <3>1. a < k
      BY <2>1, AnchorFacts
    <3> QED BY <2>1, <3>1
  <2> QED BY <2>1
<1>2. RowsOf(a, i) = {}
  BY <1>1 DEF RowsOf
<1> QED BY <1>2, FS_EmptySet DEF Count

LEMMA CountNone ==
    ASSUME LogKept, NEW a, NEW i \in Nat, \A k : ~AnchoredAt(k, a)
    PROVE  Count(a, i) = 0
<1>1. RowsOf(a, i) = {}
  BY DEF RowsOf
<1> QED BY <1>1, FS_EmptySet DEF Count

-----------------------------------------------------------------------------
(* The replay filter.                                                       *)

LEMMA PositionOrder ==
    ASSUME LogKept, NEW p \in Positions, NEW q \in Positions, ~p.snap, IsAtOrBefore(p, q),
           p.file \in 1 .. 1 + Cardinality(setup.rotations), q.file \in 1 .. 1 + Cardinality(setup.rotations)
    PROVE  \/ p.file < q.file
           \/ p.file = q.file /\ p.at < q.at
           \/ p.file = q.file /\ p.at = q.at /\ ~q.snap /\ p.serial <= q.serial
<1> DEFINE s == <<setup.rank[p.file], p.at, 1, p.serial>>
           t == <<setup.rank[q.file], q.at, IF q.snap THEN 0 ELSE 1, q.serial>>
<1>1. SortKey(p) = s /\ SortKey(q) = t
  BY DEF SortKey
<1>2. DOMAIN s = 1 .. 4
  OBVIOUS
<1>3. Before(s, t) <=> \E n \in 1 .. 4 : s[n] < t[n] /\ \A m \in 1 .. n - 1 : s[m] = t[m]
  BY <1>2 DEF Before
<1>4. /\ 1 .. 1 - 1 = {} /\ 1 .. 2 - 1 = {1} /\ 1 .. 3 - 1 = {1, 2} /\ 1 .. 4 - 1 = {1, 2, 3} /\ 1 .. 4 = {1, 2, 3, 4}
  OBVIOUS
<1>5. Before(s, t) <=>
        \/ s[1] < t[1]
        \/ s[1] = t[1] /\ s[2] < t[2]
        \/ s[1] = t[1] /\ s[2] = t[2] /\ s[3] < t[3]
        \/ s[1] = t[1] /\ s[2] = t[2] /\ s[3] = t[3] /\ s[4] < t[4]
  BY <1>3, <1>4
<1>6. /\ p.file \in Nat /\ p.at \in Nat /\ p.serial \in Nat /\ q.file \in Nat /\ q.at \in Nat /\ q.serial \in Nat
      /\ q.snap \in BOOLEAN
  BY DEF Positions
<1>7. IsAtOrBefore(p, q) <=> p = q \/ Before(s, t)
  BY <1>1 DEF IsAtOrBefore, IsAfter
<1>8. /\ setup.rank[p.file] < setup.rank[q.file] => p.file < q.file
      /\ setup.rank[p.file] = setup.rank[q.file] => p.file = q.file
  <2>1. LogSound(setup)
    BY DEF LogKept
  <2>2. \A f \in 1 .. 1 + Cardinality(setup.rotations) : setup.rank[f] \in Nat
    BY <2>1 DEF LogSound
  <2>3. \A f, g \in 1 .. 1 + Cardinality(setup.rotations) : f < g => setup.rank[f] < setup.rank[g]
    BY <2>1 DEF LogSound
  <2>4. p.file < q.file \/ p.file = q.file \/ q.file < p.file
    BY <1>6
  <2>5. p.file < q.file => setup.rank[p.file] < setup.rank[q.file]
    BY <2>3
  <2>6. q.file < p.file => setup.rank[q.file] < setup.rank[p.file]
    BY <2>3
  <2>7. setup.rank[p.file] \in Nat /\ setup.rank[q.file] \in Nat
    BY <2>2
  <2> QED BY <2>4, <2>5, <2>6, <2>7
<1>9. CASE p = q
  BY <1>6, <1>9
<1>10. CASE Before(s, t)
  BY <1>5, <1>6, <1>8, <1>10
<1> QED BY <1>7, <1>9, <1>10

\* What is dropped, from where resume stands on, is at the anchor of resume.
LEMMA Dropped ==
    ASSUME LogKept, NEW cv, NEW p \in Positions, ShouldSkip(cv, p), ~p.snap, Sound(cv.resume),
           p.file \in 1 .. 1 + Cardinality(setup.rotations), cv.resume.file <= p.file, cv.resume.at <= p.at
    PROVE  p.file = cv.resume.file /\ p.at = cv.resume.at /\ p.serial <= cv.resume.serial
<1>1. IsAtOrBefore(p, cv.resume) /\ cv.resume \in Positions /\ cv.resume.at \in Nat
  BY DEF ShouldSkip, Sound, Positions
<1>2. cv.resume.file \in 1 .. 1 + Cardinality(setup.rotations)
  BY <1>1, FileFacts DEF Sound
<1>3. \/ p.file < cv.resume.file
      \/ p.file = cv.resume.file /\ p.at < cv.resume.at
      \/ p.file = cv.resume.file /\ p.at = cv.resume.at /\ ~cv.resume.snap /\ p.serial <= cv.resume.serial
  BY <1>1, <1>2, PositionOrder
<1>4. p.file \in Nat /\ p.at \in Nat /\ cv.resume.file \in Nat
  BY <1>1 DEF Positions
<1> QED BY <1>1, <1>3, <1>4

-----------------------------------------------------------------------------
(* What a step leaves as it is.                                             *)

LEMMA Rigid ==
    ASSUME UNCHANGED setup
    PROVE  /\ Events' = Events /\ Tables' = Tables /\ Positions' = Positions /\ Conversions' = Conversions
           /\ \A i : FileAt(i)' = FileAt(i) /\ Coordinates(i)' = Coordinates(i)
           /\ \A i : Ignored(i)' <=> Ignored(i)
           /\ \A i, a : Maps(i, a)' <=> Maps(i, a)
           /\ \A i, a : AnchoredAt(i, a)' <=> AnchoredAt(i, a)
           /\ \A i, a : Count(i, a)' = Count(i, a)
           /\ \A p, i, n : Reaches(p, i, n)' <=> Reaches(p, i, n)
<1>1. Events' = Events /\ Tables' = Tables
  BY DEF Events, Tables, Keys
<1>2. \A i : FileAt(i)' = FileAt(i)
  BY DEF FileAt
<1>3. \A i : Coordinates(i)' = Coordinates(i)
  BY <1>2 DEF Coordinates
<1>4. \A i, j : SameTxn(i, j)' <=> SameTxn(i, j)
  BY DEF SameTxn
<1>5. \A i : Ignored(i)' <=> Ignored(i)
  BY <1>1, <1>4 DEF Ignored
<1>6. \A i, a : Maps(i, a)' <=> Maps(i, a)
  BY <1>1 DEF Maps
<1>7. \A i, a : AnchoredAt(i, a)' <=> AnchoredAt(i, a)
  BY <1>1, <1>6 DEF AnchoredAt
<1>8. \A i : ChangesOf(i)' = ChangesOf(i)
  BY <1>1 DEF ChangesOf
<1>9. \A i, a : Count(i, a)' = Count(i, a)
  <2>1. \A i, a : RowsOf(i, a)' = RowsOf(i, a)
    BY <1>7, <1>8 DEF RowsOf
  <2> QED BY <2>1 DEF Count
<1>10. \A p, i, n : Reaches(p, i, n)' <=> Reaches(p, i, n)
  BY <1>7, <1>9 DEF Reaches
<1>11. Positions' = Positions
  BY DEF Positions
<1>12. Conversions' = Conversions
  BY <1>1, <1>11 DEF Conversions
<1> QED BY <1>1, <1>2, <1>3, <1>5, <1>6, <1>7, <1>9, <1>10, <1>11, <1>12

LEMMA DueStays ==
    ASSUME UNCHANGED <<setup, since>>
    PROVE  Due' = Due
  BY Rigid DEF Due

LEMMA LogStays ==
    ASSUME LogKept, UNCHANGED <<setup, written, since>>
    PROVE  LogKept'
  BY DEF LogKept, LogSound

LEMMA SnapshotStays ==
    ASSUME SnapshotKept, UNCHANGED <<setup, written, since, snapshot>>, phase' = "snapshot" => phase = "snapshot"
    PROVE  SnapshotKept'
<1>1. Coordinates(since)' = Coordinates(since)
  BY Rigid
<1> QED BY <1>1 DEF SnapshotKept

LEMMA IncrementalStays ==
    ASSUME IncrementalKept, UNCHANGED <<inc, prep>>
    PROVE  IncrementalKept'
  BY DEF IncrementalKept

LEMMA SoundStays ==
    ASSUME UNCHANGED <<setup, written>>
    PROVE  \A p : Sound(p)' <=> Sound(p)
  BY Rigid DEF Sound

\* What reaches the sink with more records, or is in its hands already, is covered.
LEMMA CoveredStays ==
    ASSUME UNCHANGED <<setup, since>>, NEW k, NEW j, \A x : Arrives(x, k) => Arrives(x, j)'
    PROVE  \A p : Covered(p, k) => Covered(p, j)'
<1>1. Due' = Due /\ Events' = Events /\ \A p, i, n : Reaches(p, i, n)' <=> Reaches(p, i, n)
  BY DueStays, Rigid
<1> QED BY <1>1 DEF Covered

LEMMA CheckpointStays ==
    ASSUME CheckpointKept, UNCHANGED <<setup, written, since, ckpt>>, delivered \subseteq delivered'
    PROVE  CheckpointKept'
<1>1. \A x : Arrives(x, 0) => Arrives(x, 0)'
  BY DEF Arrives
<1>2. Covered(ckpt.pos, 0) => Covered(ckpt.pos, 0)'
  BY <1>1, CoveredStays
<1> QED BY <1>2, SoundStays DEF CheckpointKept

LEMMA FlightStays ==
    ASSUME FlightKept, UNCHANGED <<setup, written, since, delivered, flight>>
    PROVE  FlightKept' /\ \A x : Arrives(x, Len(flight)) => Arrives(x, Len(flight))'
<1>1. \A x, k : Arrives(x, k) => Arrives(x, k)'
  BY DEF Arrives
<1>2. \A p, k : Covered(p, k) => Covered(p, k)'
  <2>1. ASSUME NEW p, NEW k PROVE Covered(p, k) => Covered(p, k)'
    BY <1>1, CoveredStays
  <2> QED BY <2>1
<1> QED BY <1>1, <1>2, SoundStays DEF FlightKept

-----------------------------------------------------------------------------
(* Records join those in flight.                                            *)

LEMMA OfItsRange ==
    ASSUME NEW S, NEW s \in Seq(S)
    PROVE  s \in Seq(Range(s)) /\ \A n \in DOMAIN s : s[n] \in Range(s)
<1>1. Len(s) \in Nat /\ s \in [1 .. Len(s) -> S]
  OBVIOUS
<1>2. \A n \in 1 .. Len(s) : s[n] \in Range(s)
  BY DEF Range
<1>3. s \in [1 .. Len(s) -> Range(s)]
  BY <1>1, <1>2
<1> QED BY <1>1, <1>2, <1>3

LEMMA Sends ==
    ASSUME FlightKept, UNCHANGED <<setup, written, since, delivered>>,
           NEW S, NEW s \in Seq(S), flight' = flight \o s,
           \A n \in DOMAIN s :
                /\ Sound(s[n].pos)
                /\ \A i \in Due : \A m \in DOMAIN Events[i].rows :
                     Reaches(s[n].pos, i, m) => Arrives(<<i, m>>, Len(flight)) \/ \E k \in 1 .. n : s[k].at = <<i, m>>
    PROVE  /\ FlightKept'
           /\ \A x : Arrives(x, Len(flight)) => Arrives(x, Len(flight))'
           /\ \A x : (\E n \in DOMAIN s : s[n].at = x) => Arrives(x, Len(flight))'
<1> DEFINE F == Len(flight)
           T == Range(flight) \cup S
<1>0. /\ flight \in Seq(Range(flight)) /\ F \in Nat /\ DOMAIN flight = 1 .. F
      /\ Len(s) \in Nat /\ DOMAIN s = 1 .. Len(s)
  BY DEF FlightKept
<1>1. flight' \in Seq(T)
  <2>1. flight \in Seq(T) /\ s \in Seq(T)
    BY <1>0
  <2> HIDE DEF T
  <2> QED BY <2>1
<1>2. flight' \in Seq(Range(flight'))
  BY <1>1, OfItsRange
<1>3. /\ Len(flight') = F + Len(s) /\ DOMAIN flight' = 1 .. F + Len(s)
      /\ \A n \in 1 .. F + Len(s) : flight'[n] = IF n <= F THEN flight[n] ELSE s[n - F]
  BY <1>0
<1>4. \A n \in 1 .. F : flight'[n] = flight[n]
  BY <1>0, <1>3
<1>5. \A n \in DOMAIN s : F + n \in 1 .. F + Len(s) /\ flight'[F + n] = s[n]
  <2>1. ASSUME NEW n \in DOMAIN s PROVE F + n \in 1 .. F + Len(s) /\ flight'[F + n] = s[n]
    <3>1. n \in 1 .. Len(s) /\ F + n \in 1 .. F + Len(s) /\ ~(F + n <= F) /\ F + n - F = n
      BY <1>0
    <3>2. PICK k : k = F + n
      OBVIOUS
    <3>3. k \in 1 .. F + Len(s) /\ ~(k <= F) /\ k - F = n
      BY ONLY <3>1, <3>2
    <3>4. flight'[k] = s[k - F]
      BY <1>3, <3>3
    <3> QED BY ONLY <3>2, <3>3, <3>4
  <2> QED BY <2>1
<1> HIDE DEF F
<1>6. \A x : \A n \in 0 .. F : Arrives(x, n) => Arrives(x, n)'
  <2>1. ASSUME NEW x, NEW n \in 0 .. F, Arrives(x, n) PROVE x \in delivered' \/ \E k \in 1 .. n : flight'[k].at = x
    <3>1. 1 .. n \subseteq 1 .. F
      BY <1>0
    <3> QED BY <2>1, <3>1, <1>4 DEF Arrives
  <2> QED BY <2>1 DEF Arrives
<1>7. \A x, n : Arrives(x, F) /\ n \in F .. F + Len(s) => Arrives(x, n)'
  <2>1. ASSUME NEW x, NEW n \in F .. F + Len(s), Arrives(x, F)
        PROVE  x \in delivered' \/ \E k \in 1 .. n : flight'[k].at = x
    <3>1. 1 .. F \subseteq 1 .. n
      BY <1>0
    <3> QED BY <2>1, <3>1, <1>4 DEF Arrives
  <2> QED BY <2>1 DEF Arrives
<1>8. FlightKept'
  <2>1. ASSUME NEW n \in DOMAIN flight'
        PROVE  /\ Sound(flight'[n].pos)
               /\ \A i \in Due : \A m \in DOMAIN Events[i].rows :
                    Reaches(flight'[n].pos, i, m) => Arrives(<<i, m>>, n)'
    <3>0. n \in 1 .. F + Len(s)
      BY <1>3
    <3>1. CASE n \in 1 .. F
      <4>1. flight'[n] = flight[n] /\ n \in DOMAIN flight /\ n \in 0 .. F
        BY <1>0, <1>4, <3>1 DEF F
      <4>2. Sound(flight[n].pos) /\ Covered(flight[n].pos, n)
        BY <4>1 DEF FlightKept
      <4> QED BY <1>6, <4>1, <4>2 DEF Covered
    <3>2. CASE n \notin 1 .. F
      <4> DEFINE l == n - F
      <4>1. l \in DOMAIN s /\ n \in F .. F + Len(s) /\ F + l = n
        BY <1>0, <3>0, <3>2
      <4>2. flight'[n] = s[l]
        BY <1>5, <4>1
      <4>3. \A k \in 1 .. l : F + k \in 1 .. n /\ flight'[F + k] = s[k]
        <5>1. \A k \in 1 .. l : k \in DOMAIN s /\ F + k \in 1 .. n
          BY <1>0, <4>1
        <5> QED BY <1>5, <5>1
      <4> HIDE DEF l
      <4>4. \A x : (\E k \in 1 .. l : s[k].at = x) => Arrives(x, n)'
        <5>1. ASSUME NEW x, NEW k \in 1 .. l, s[k].at = x PROVE \E j \in 1 .. n : flight'[j].at = x
          BY <4>3, <5>1
        <5> QED BY <5>1 DEF Arrives
      <4>5. /\ Sound(s[l].pos)
            /\ \A i \in Due : \A m \in DOMAIN Events[i].rows :
                 Reaches(s[l].pos, i, m) => Arrives(<<i, m>>, Len(flight)) \/ \E k \in 1 .. l : s[k].at = <<i, m>>
        BY <4>1
      <4> QED BY <1>7, <4>1, <4>2, <4>4, <4>5 DEF F
    <3> QED BY <3>1, <3>2
  <2>2. Due' = Due /\ Events' = Events /\ \A p, i, m : Reaches(p, i, m)' <=> Reaches(p, i, m)
    BY Rigid, DueStays
  <2>3. \A p : Sound(p)' <=> Sound(p)
    BY SoundStays
  <2>4. \A p, n : Covered(p, n)' <=> \A i \in Due : \A m \in DOMAIN Events[i].rows :
                                       Reaches(p, i, m) => Arrives(<<i, m>>, n)'
    BY <2>2 DEF Covered
  <2>5. ASSUME NEW n \in DOMAIN flight' PROVE \E p : p = flight'[n].pos /\ Sound(p)' /\ Covered(p, n)'
    <3>1. PICK p : p = flight'[n].pos
      OBVIOUS
    <3>2. Sound(p)'
      BY <2>1, <2>3, <3>1
    <3>3. Covered(p, n)'
      BY <2>1, <2>4, <3>1
    <3> QED BY <3>1, <3>2, <3>3
  <2> QED BY <1>2, <2>5 DEF FlightKept
<1>9. ASSUME NEW x, Arrives(x, Len(flight)) PROVE x \in delivered' \/ \E k \in 1 .. Len(flight') : flight'[k].at = x
  <2>1. CASE x \in delivered
    BY <2>1
  <2>2. ASSUME NEW k \in 1 .. F, flight[k].at = x PROVE \E m \in 1 .. Len(flight') : flight'[m].at = x
    <3>1. k \in 1 .. Len(flight') /\ flight'[k] = flight[k]
      BY <1>0, <1>3, <1>4
    <3> QED BY <2>2, <3>1
  <2> QED BY <1>9, <2>1, <2>2 DEF Arrives, F
<1>10. \A n \in DOMAIN s : \E k \in 1 .. Len(flight') : flight'[k].at = s[n].at
  BY <1>3, <1>5
<1>11. \A x : Arrives(x, Len(flight))' <=> x \in delivered' \/ \E k \in 1 .. Len(flight') : flight'[k].at = x
  BY DEF Arrives
<1> QED BY <1>8, <1>9, <1>10, <1>11

\* One record whose position is sound and covered.
LEMMA SendsOne ==
    ASSUME FlightKept, UNCHANGED <<setup, written, since, delivered>>, NEW r, flight' = Append(flight, r),
           Sound(r.pos), Covered(r.pos, Len(flight))
    PROVE  FlightKept' /\ \A x : Arrives(x, Len(flight)) => Arrives(x, Len(flight))'
<1> DEFINE s == <<r>>
<1>1. s \in Seq({r}) /\ DOMAIN s = {1} /\ s[1] = r
  OBVIOUS
<1>2. flight' = flight \o s
  BY DEF FlightKept
<1> HIDE DEF s
<1>3. \A n \in DOMAIN s :
        /\ Sound(s[n].pos)
        /\ \A i \in Due : \A m \in DOMAIN Events[i].rows : Reaches(s[n].pos, i, m) => Arrives(<<i, m>>, Len(flight))
  BY <1>1 DEF Covered
<1> QED BY <1>1, <1>2, <1>3, Sends

-----------------------------------------------------------------------------
(* The stream passes an event.                                              *)

\* What the handler of an event, read at rd, finds.
LEMMA EventFacts ==
    ASSUME Kept, NEW kind, Event(kind)
    PROVE  /\ phase = "streaming" /\ StreamKept /\ LogKept /\ conv \in Conversions /\ lastSafe \in Positions
           /\ rd \in DOMAIN Events /\ rd \in Nat /\ rd <= written /\ written \in Nat /\ rd # 0
           /\ FileAt(rd) = conv.file /\ conv.file \in Nat /\ Events[rd].kind = kind
<1>1. phase = "streaming" /\ rd <= written /\ FileAt(rd) = conv.file /\ Events[rd].kind = kind
  BY DEF Event, Ready
<1>2. LogKept /\ StreamKept /\ conv \in Conversions /\ lastSafe \in Positions
  BY <1>1 DEF Kept, Connected
<1>3. rd \in 1 .. written + 1 /\ written \in 0 .. Len(Events) /\ Len(Events) \in Nat /\ DOMAIN Events = 1 .. Len(Events)
  BY <1>2, LogFacts DEF StreamKept, CursorKept
<1>4. conv.file \in Nat
  BY <1>2 DEF Conversions
<1> QED BY <1>1, <1>2, <1>3, <1>4

\* What the stream has passed has arrived, whatever part of it is asked for.
LEMMA Passes ==
    ASSUME LogKept, CursorKept, NEW p, p.at <= rd, p.at \in Nat, \A i : AnchoredAt(i, p.at) => i < rd
    PROVE  Covered(p, Len(flight))
<1>1. ASSUME NEW i \in Due, NEW n \in DOMAIN Events[i].rows, Reaches(p, i, n) PROVE Arrives(<<i, n>>, Len(flight))
  <2>1. i \in Nat /\ rd \in Nat
    BY LogFacts DEF Due, CursorKept
  <2>2. i < rd
    BY <1>1, <2>1 DEF Reaches
  <2> QED BY <2>2 DEF CursorKept
<1> QED BY <1>1 DEF Covered

\* An event that is no row of a captured table.
LEMMA CursorPasses ==
    ASSUME LogKept, CursorKept, rd \in DOMAIN Events, rd <= written, rd' = rd + 1, rd \notin Due,
           UNCHANGED <<setup, written, since>>, \A x : Arrives(x, Len(flight)) => Arrives(x, Len(flight))'
    PROVE  CursorKept'
<1>1. rd \in Nat /\ written \in Nat /\ rd \in 1 .. written + 1 /\ DOMAIN Events \subseteq Nat
  BY LogFacts DEF CursorKept
<1>2. Due' = Due /\ Events' = Events
  BY Rigid, DueStays
<1>3. rd' \in 1 .. written' + 1
  BY <1>1
<1>4. \A i \in Due : i < rd' => i < rd
  <2>1. ASSUME NEW i \in Due, i < rd + 1 PROVE i < rd
    <3>1. i \in Nat /\ i # rd
      BY <1>1 DEF Due
    <3> QED BY <1>1, <2>1, <3>1
  <2> QED BY <2>1
<1> QED BY <1>2, <1>3, <1>4 DEF CursorKept

LEMMA FilterPasses ==
    ASSUME FilterKept, conv \in Conversions, rd \in Nat, rd' \in {rd, rd + 1}, UNCHANGED <<setup, written, since>>,
           conv'.file \in {conv.file, conv.file + 1}, conv'.resume \in {conv.resume, None},
           \A x : Arrives(x, Len(flight)) => Arrives(x, Len(flight))'
    PROVE  FilterKept'
<1>1. ASSUME conv'.resume # None
      PROVE  \E p : /\ p = conv'.resume /\ Sound(p)' /\ Covered(p, Len(flight))'
                    /\ p.at <= rd' /\ p.file <= conv'.file
  <2>1. conv'.resume = conv.resume /\ conv.resume # None
    BY <1>1
  <2>2. PICK p : p = conv.resume
    OBVIOUS
  <2>3. Sound(p) /\ Covered(p, Len(flight)) /\ p.at <= rd /\ p.file <= conv.file
    BY <2>1, <2>2 DEF FilterKept
  <2>4. p.at \in Nat /\ p.file \in Nat /\ conv.file \in Nat
    BY <2>2 DEF Conversions, Positions
  <2>5. Sound(p)'
    BY <2>3, SoundStays
  <2>6. Covered(p, Len(flight))'
    <3>1. PICK k, j : k = Len(flight) /\ j = Len(flight')
      OBVIOUS
    <3>2. \A x : Arrives(x, k) => Arrives(x, j)'
      BY <3>1
    <3>3. Covered(p, j)'
      BY <2>3, <3>1, <3>2, CoveredStays
    <3> QED BY <3>1, <3>3
  <2>7. p.at <= rd' /\ p.file <= conv'.file
    BY <2>3, <2>4
  <2> QED BY <2>1, <2>2, <2>5, <2>6, <2>7
<1> QED BY <1>1 DEF FilterKept

\* An event that maps no table.
LEMMA AnchorsPass ==
    ASSUME LogKept, AnchorsKept, conv \in Conversions, rd \in DOMAIN Events, FileAt(rd) = conv.file, rd' = rd + 1,
           phase = "streaming", UNCHANGED <<setup, maps, phase>>, conv'.file = conv.file, conv'.anchors = conv.anchors,
           conv'.resume \in {conv.resume, None}, Events[rd].kind # "map"
    PROVE  AnchorsKept'
<1>1. rd \in Nat /\ rd # 0 /\ conv.file \in Nat
  BY LogFacts DEF Conversions
<1>2. Tables' = Tables /\ (\A i : FileAt(i)' = FileAt(i)) /\ \A m, t : Maps(m, t)' <=> Maps(m, t)
  BY Rigid
<1>3. conv.file \in 1 .. FileAt(rd + 1)
  BY <1>1, FileFacts DEF AnchorsKept
<1>4. \A m \in 1 .. (rd + 1) - 1 : m \in 1 .. rd - 1 \/ m = rd
  BY <1>1
<1>5. \A m \in 1 .. (rd + 1) - 1 : FileAt(m) <= conv.file
  BY <1>1, <1>4 DEF AnchorsKept
<1>6. ASSUME NEW t \in Tables
      PROVE  LET a == conv.anchors[t]
             IN  /\ a # 0 => a \in 1 .. (rd + 1) - 1 /\ Maps(a, t) /\ FileAt(a) = conv.file
                 /\ a # 0 /\ conv'.resume # None => conv'.resume.at <= a
                 /\ t \in maps => \A m \in 1 .. (rd + 1) - 1 : Maps(m, t) /\ FileAt(m) = conv.file => m <= a
  <2>1. ~Maps(rd, t)
    BY DEF Maps
  <2> QED BY <1>1, <1>4, <2>1 DEF AnchorsKept
<1>7. /\ conv'.file \in 1 .. FileAt(rd') /\ \A m \in 1 .. rd' - 1 : FileAt(m) <= conv'.file
  BY <1>3, <1>5
<1> QED BY <1>2, <1>6, <1>7 DEF AnchorsKept

\* An event that is no row, or one that is ignored.
LEMMA SerialsPass ==
    ASSUME LogKept, SerialsKept, conv \in Conversions, rd \in DOMAIN Events, rd' = rd + 1, UNCHANGED setup,
           UNCHANGED <<conv.file, conv.previous, conv.serial>>, conv'.resume \in {conv.resume, None},
           (\A a : ~AnchoredAt(rd, a)) \/ Ignored(rd)
    PROVE  SerialsKept'
<1>1. rd \in Nat /\ conv.serial \in Nat
  BY LogFacts DEF Conversions
<1>2. Events' = Events /\ (\A i : Ignored(i)' <=> Ignored(i)) /\ \A a, i : Count(a, i)' = Count(a, i)
  BY Rigid
<1>3. \A a : Counted(a)' = Counted(a) /\ Counted(a) \in Nat
  BY <1>1 DEF Counted
<1>4. ASSUME NEW a \in DOMAIN Events, Events[a].kind = "map" PROVE Counted(a) <= Count(a, rd + 1)
  <2>1. Counted(a) <= Count(a, rd)
    BY <1>4 DEF SerialsKept
  <2>2. Count(a, rd) <= Count(a, rd + 1) /\ Count(a, rd) \in Nat /\ Count(a, rd + 1) \in Nat
    BY <1>1, CountGrows
  <2> QED BY <1>3, <2>1, <2>2
<1>5. ASSUME conv'.resume # None, conv'.file = conv'.resume.file
      PROVE  LET a == conv'.resume.at IN Ignored(a) \/ Count(a, rd + 1) <= Counted(a)
  <2> DEFINE a == conv'.resume.at
  <2>1. conv'.resume = conv.resume /\ (Ignored(a) \/ Count(a, rd) <= Counted(a))
    BY <1>5 DEF SerialsKept
  <2>2. CASE AnchoredAt(rd, a)
    <3>1. Ignored(rd)
      BY <2>2
    <3>2. SameTxn(a, rd)
      BY <2>2, AnchorFacts
    <3> QED BY <3>1, <3>2, IgnoredTogether
  <2>3. CASE ~AnchoredAt(rd, a)
    <3>1. Count(a, rd + 1) = Count(a, rd) /\ Count(a, rd) \in Nat
      BY <1>1, <2>3, CountNext
    <3> QED BY <2>1, <3>1
  <2> QED BY <2>2, <2>3
<1>6. \A a \in DOMAIN Events : Events[a].kind = "map" => Counted(a)' <= Count(a, rd)'
  BY <1>2, <1>3, <1>4
<1>7. ASSUME conv'.resume # None, conv'.file = conv'.resume.file
      PROVE  \E a : a = conv'.resume.at /\ (Ignored(a)' \/ Count(a, rd)' <= Counted(a)')
  BY <1>2, <1>3, <1>5, <1>7
<1> QED BY <1>2, <1>6, <1>7 DEF SerialsKept

\* Behind the end of a transaction no row of a map is counted.
LEMMA SerialsClose ==
    ASSUME LogKept, rd \in DOMAIN Events, rd' = rd + 1, UNCHANGED setup, Events[rd].kind # "map", conv'.previous = rd,
           conv'.resume # None /\ conv'.file = conv'.resume.file => conv'.resume.at = rd, conv'.serial \in Nat
    PROVE  SerialsKept'
<1>1. rd \in Nat
  BY LogFacts
<1>2. Events' = Events /\ (\A i : Ignored(i)' <=> Ignored(i)) /\ \A a, i : Count(a, i)' = Count(a, i)
  BY Rigid
<1>3. \A i : ~AnchoredAt(i, rd)
  BY NoneAnchored
<1>4. Count(rd, rd + 1) = 0
  BY <1>1, <1>3, CountNone
<1>5. \A a : Counted(a)' \in Nat /\ (a # rd => Counted(a)' = 0)
  BY DEF Counted
<1>6. \A a \in DOMAIN Events : Events[a].kind = "map" => Counted(a)' <= Count(a, rd)'
  <2>1. ASSUME NEW a \in DOMAIN Events, Events[a].kind = "map" PROVE Counted(a)' <= Count(a, rd + 1)
    <3>1. Count(a, rd + 1) \in Nat
      BY <1>1, CountNext
    <3> QED BY <1>5, <2>1, <3>1
  <2> QED BY <1>2, <2>1
<1>7. ASSUME conv'.resume # None, conv'.file = conv'.resume.file
      PROVE  \E a : a = conv'.resume.at /\ (Ignored(a)' \/ Count(a, rd)' <= Counted(a)')
  <2>1. PICK a : a = rd
    OBVIOUS
  <2>2. Count(a, rd)' = 0 /\ Counted(a)' \in Nat
    BY <1>2, <1>4, <1>5, <2>1
  <2> QED BY <1>7, <2>1, <2>2
<1> QED BY <1>2, <1>6, <1>7 DEF SerialsKept

LEMMA TxnPasses ==
    ASSUME LogKept, TxnKept, rd \in DOMAIN Events, rd' = rd + 1, UNCHANGED setup, Events[rd].kind # "gtid",
           conv'.txn.ignore => conv'.txn.open /\ conv.txn.ignore
    PROVE  TxnKept'
<1>1. rd \in Nat
  BY LogFacts
<1>2. conv.txn.ignore => rd > 1 /\ Ignored(rd)
  BY <1>1, TxnGoesOn DEF TxnKept
<1>3. ASSUME conv'.txn.ignore PROVE \E i : i = rd' - 1 /\ Ignored(i)'
  <2>1. PICK i : i = rd
    OBVIOUS
  <2>2. Ignored(i)' /\ i = rd' - 1
    BY <1>1, <1>2, <1>3, <2>1, Rigid
  <2> QED BY <2>2
<1>4. conv'.txn.ignore => rd' > 1
  BY <1>1, <1>2
<1> QED BY <1>3, <1>4 DEF TxnKept

(* The state of the incremental snapshots.                                  *)

LEMMA EmptyWindow == ShapedWindow(NoWindow)
<1>1. IsFiniteSet({})
  BY FS_EmptySet
<1> QED BY <1>1 DEF ShapedWindow, NoWindow

LEMMA WindowShaped ==
    ASSUME NEW w, ShapedWindow(w), NEW v, IsFiniteSet(v)
    PROVE  ShapedWindow([w EXCEPT !.rows = v])
<1>1. PICK t, l, h, r, m, k, c, f :
        w = [table |-> t, low |-> l, high |-> h, rows |-> r, max |-> m, last |-> k, count |-> c, fits |-> f]
  BY DEF ShapedWindow
<1>2. [w EXCEPT !.rows = v] =
        [table |-> t, low |-> l, high |-> h, rows |-> v, max |-> m, last |-> k, count |-> c, fits |-> f]
  BY <1>1
<1> QED BY <1>2 DEF ShapedWindow

\* A state made of its parts, and each of them replaced.
LEMMA ShapeOf ==
    ASSUME NEW progress, NEW completed, NEW window, ShapedWindow(window), NEW serial \in Nat, NEW dirty
    PROVE  Shaped([progress |-> progress, completed |-> completed, window |-> window, serial |-> serial,
                   dirty |-> dirty])
  BY DEF Shaped

LEMMA ShapeOfNew == \A progress, completed : Shaped(NewIncremental(progress, completed))
  BY EmptyWindow, ShapeOf DEF NewIncremental

LEMMA Reshaped ==
    ASSUME NEW c, Shaped(c), NEW v
    PROVE  /\ Shaped([c EXCEPT !.progress = v]) /\ Shaped([c EXCEPT !.completed = v]) /\ Shaped([c EXCEPT !.dirty = v])
           /\ [c EXCEPT !.progress = v].serial = c.serial /\ [c EXCEPT !.completed = v].serial = c.serial
           /\ v \in Nat => Shaped([c EXCEPT !.serial = v])
           /\ ShapedWindow(v) => Shaped([c EXCEPT !.window = v])
<1>1. PICK p, k, w, s, d :
        /\ c = [progress |-> p, completed |-> k, window |-> w, serial |-> s, dirty |-> d]
        /\ s \in Nat /\ ShapedWindow(w)
  BY DEF Shaped
<1>2. c.serial = s
  BY <1>1
<1>3. [c EXCEPT !.progress = v] = [progress |-> v, completed |-> k, window |-> w, serial |-> s, dirty |-> d]
  BY <1>1
<1>4. [c EXCEPT !.completed = v] = [progress |-> p, completed |-> v, window |-> w, serial |-> s, dirty |-> d]
  BY <1>1
<1>5. [c EXCEPT !.window = v] = [progress |-> p, completed |-> k, window |-> v, serial |-> s, dirty |-> d]
  BY <1>1
<1>6. [c EXCEPT !.serial = v] = [progress |-> p, completed |-> k, window |-> w, serial |-> v, dirty |-> d]
  BY <1>1
<1>7. [c EXCEPT !.dirty = v] = [progress |-> p, completed |-> k, window |-> w, serial |-> s, dirty |-> v]
  BY <1>1
<1>8. [c EXCEPT !.progress = v].serial = s /\ [c EXCEPT !.completed = v].serial = s
  BY <1>3, <1>4
<1> QED BY <1>1, <1>2, <1>3, <1>4, <1>5, <1>6, <1>7, <1>8, ShapeOf

LEMMA ShapeOfHandle ==
    ASSUME NEW c, Shaped(c), NEW s
    PROVE  Shaped(Handle(c, s))
<1>1. Shaped(Execute(c, s))
  BY Reshaped DEF Execute
<1>2. \A paused : Shaped(SetPaused(c, paused))
  <2>1. ASSUME NEW paused PROVE Shaped(SetPaused(c, paused))
    <3>1. [c EXCEPT !.progress.paused = paused] = [c EXCEPT !.progress = [c.progress EXCEPT !.paused = paused]]
      OBVIOUS
    <3>2. Shaped([c EXCEPT !.progress.paused = paused])
      BY <3>1, Reshaped
    <3> QED BY <3>2, Reshaped DEF SetPaused
  <2> QED BY <2>1
<1>3. Shaped(Stop(c, s))
  <2> DEFINE d == [c EXCEPT !.window = NoWindow]
             p == c.progress
             Matches(t) == s.tables = <<>> \/ t \in Range(s.tables)
             rest == SelectSeq(p.tables, LAMBDA t : ~Matches(t))
             before == Len(SelectSeq(SubSeq(p.tables, 1, p.current - 1), LAMBDA t : ~Matches(t)))
             next == [p EXCEPT !.tables = rest, !.current = before + 1]
             other == IF Matches(p.tables[p.current]) THEN [next EXCEPT !.last = 0, !.max = 0] ELSE next
             done == [c EXCEPT !.progress = NoProgress, !.window = NoWindow, !.dirty = TRUE,
                               !.completed = RememberCompleted(c.completed, p.id)]
             goesOn == [c EXCEPT !.window = NoWindow, !.dirty = TRUE, !.progress = other]
  <2>1. Stop(c, s) = IF ~Active(c) \/ rest = p.tables THEN c ELSE IF before >= Len(rest) THEN done ELSE goesOn
    BY DEF Stop
  <2> HIDE DEF other
  <2>2. Shaped(goesOn)
    <3>1. Shaped([c EXCEPT !.window = NoWindow])
      BY Reshaped, EmptyWindow
    <3> QED BY <3>1, Reshaped
  <2>3. Shaped(done)
    <3>1. \A k : Shaped([c EXCEPT !.progress = NoProgress, !.window = NoWindow, !.dirty = TRUE, !.completed = k])
      <4>1. Shaped([c EXCEPT !.progress = NoProgress])
        BY Reshaped
      <4>2. Shaped([c EXCEPT !.progress = NoProgress, !.window = NoWindow])
        BY <4>1, Reshaped, EmptyWindow
      <4>3. Shaped([c EXCEPT !.progress = NoProgress, !.window = NoWindow, !.dirty = TRUE])
        BY <4>2, Reshaped
      <4> QED BY <4>3, Reshaped
    <3> QED BY <3>1
  <2> HIDE DEF done, goesOn, rest, before
  <2> QED BY <2>1, <2>2, <2>3
<1> QED BY <1>1, <1>2, <1>3 DEF Handle

LEMMA ShapeOfAdvance ==
    ASSUME NEW c, Shaped(c)
    PROVE  Shaped(Advance(c)) /\ Advance(c).serial = c.serial
<1>1. \A progress : Shaped([c EXCEPT !.progress = progress]) /\ [c EXCEPT !.progress = progress].serial = c.serial
  BY Reshaped
<1>2. \A progress, completed :
        /\ Shaped([c EXCEPT !.progress = progress, !.completed = completed])
        /\ [c EXCEPT !.progress = progress, !.completed = completed].serial = c.serial
  <2>1. ASSUME NEW progress, NEW completed, NEW d, d = [c EXCEPT !.progress = progress]
        PROVE  Shaped([d EXCEPT !.completed = completed]) /\ [d EXCEPT !.completed = completed].serial = c.serial
    <3>1. Shaped(d) /\ d.serial = c.serial
      BY <1>1, <2>1
    <3> QED BY <3>1, Reshaped
  <2> QED BY <2>1
<1> DEFINE w == c.window
           max == IF c.progress.max = 0 THEN w.max ELSE c.progress.max
           complete == max = 0 \/ w.last = max \/ w.count < ChunkSize
           next == IF complete THEN [c.progress EXCEPT !.current = @ + 1, !.last = 0, !.max = 0]
                   ELSE [c.progress EXCEPT !.last = w.last, !.max = max]
           done == [c EXCEPT !.progress = NoProgress, !.completed = RememberCompleted(@, next.id)]
           goesOn == [c EXCEPT !.progress = next]
<1>3. Advance(c) = IF next.current > Len(next.tables) THEN done ELSE goesOn
  BY DEF Advance
<1>4. Shaped(done) /\ done.serial = c.serial /\ Shaped(goesOn) /\ goesOn.serial = c.serial
  <2> HIDE DEF next
  <2>1. done = [c EXCEPT !.progress = NoProgress, !.completed = RememberCompleted(c.completed, next.id)]
    BY DEF Shaped
  <2> QED BY <1>1, <1>2, <2>1
<1> HIDE DEF done, goesOn, next
<1> QED BY <1>3, <1>4

LEMMA ShapeOfObserved ==
    ASSUME NEW c, Shaped(c), NEW i
    PROVE  Shaped(Observe(c, i))
<1> DEFINE changed == {Events[i].rows[n].k : n \in DOMAIN Events[i].rows}
           rest == {r \in c.window.rows : r.key.k \notin changed}
<1>1. IsFiniteSet(c.window.rows) /\ ShapedWindow(c.window)
  BY DEF Shaped, ShapedWindow
<1>2. IsFiniteSet(rest)
  BY <1>1, FS_Subset
<1>3. [c EXCEPT !.window.rows = rest] = [c EXCEPT !.window = [c.window EXCEPT !.rows = rest]]
  OBVIOUS
<1>4. Shaped([c EXCEPT !.window.rows = rest])
  BY <1>1, <1>2, <1>3, WindowShaped, Reshaped
<1>5. Observe(c, i) = c \/ Observe(c, i) = [c EXCEPT !.window.rows = rest]
  BY DEF Observe
<1> HIDE DEF rest
<1> QED BY <1>4, <1>5

-----------------------------------------------------------------------------
(* The lines of the file are applied one after another.                    *)

LEMMA AppliedFacts ==
    ASSUME NEW lines, Len(lines) \in Nat
    PROVE  Applied(lines) =
              [n \in 0 .. Len(lines) |-> IF n = 0 THEN inc ELSE Handle(Applied(lines)[n - 1], lines[n])]
<1> DEFINE L == Len(lines)
           Run(c, n) == c = [i \in 0 .. n |-> IF i = 0 THEN inc ELSE Handle(c[i - 1], lines[i])]
           T == {n \in 0 .. L : ~\E c : Run(c, n)}
<1>1. T = {}
  <2>1. SUFFICES ASSUME T # {} PROVE FALSE
    OBVIOUS
  <2>2. T \subseteq Nat
    OBVIOUS
  <2> HIDE DEF T
  <2>3. PICK m \in T : \A k \in T : m <= k
    BY <2>1, <2>2, Least
  <2>4. m \in 0 .. L /\ ~\E c : Run(c, m)
    BY <2>3 DEF T
  <2>5. m # 0
    <3>1. SUFFICES ASSUME m = 0 PROVE FALSE
      OBVIOUS
    <3> DEFINE c == [i \in 0 .. 0 |-> inc]
    <3>2. c = [i \in 0 .. 0 |-> IF i = 0 THEN inc ELSE Handle(c[i - 1], lines[i])]
      OBVIOUS
    <3>3. Run(c, m)
      BY <3>1, <3>2
    <3> QED BY <2>4, <3>3
  <2>6. m - 1 \in 0 .. L /\ m - 1 \notin T
    BY <2>3, <2>4, <2>5
  <2>7. PICK g : Run(g, m - 1)
    BY <2>6 DEF T
  <2> DEFINE last == Handle(g[m - 1], lines[m])
             c == [i \in 0 .. m |-> IF i = m THEN last ELSE g[i]]
  <2>8. /\ \A i \in 0 .. m - 1 : g[i] = IF i = 0 THEN inc ELSE Handle(g[i - 1], lines[i])
        /\ \A i \in 0 .. m - 1 : c[i] = g[i]
    <3>1. \A i \in 0 .. m - 1 : i \in 0 .. m /\ i # m
      BY <2>4
    <3> QED BY <2>7, <3>1
  <2>9. \A i \in 0 .. m : c[i] = IF i = 0 THEN inc ELSE Handle(c[i - 1], lines[i])
    <3>1. c[m] = last /\ m - 1 \in 0 .. m - 1
      BY <2>4, <2>5
    <3>2. ASSUME NEW i \in 0 .. m PROVE c[i] = IF i = 0 THEN inc ELSE Handle(c[i - 1], lines[i])
      <4>1. CASE i = m
        <5>1. c[m - 1] = g[m - 1]
          BY <2>8, <3>1
        <5> QED BY <2>5, <3>1, <4>1, <5>1
      <4>2. CASE i # m
        <5>1. i \in 0 .. m - 1
          BY <2>4, <4>2
        <5>2. c[i] = g[i]
          BY <2>8, <5>1
        <5>3. i # 0 => i - 1 \in 0 .. m - 1
          BY <2>4, <5>1
        <5>4. i # 0 => c[i - 1] = g[i - 1]
          BY <2>8, <5>3
        <5> HIDE DEF c
        <5> QED BY <2>8, <5>1, <5>2, <5>4
      <4> QED BY <4>1, <4>2
    <3> QED BY <3>2
  <2>10. Run(c, m)
    <3>1. c = [i \in 0 .. m |-> c[i]]
      OBVIOUS
    <3> HIDE DEF c
    <3> QED BY <2>9, <3>1
  <2> HIDE DEF c, Run
  <2> QED BY <2>4, <2>10
<1>2. \E c : Run(c, L)
  BY <1>1
<1>3. Applied(lines) = CHOOSE c : Run(c, L)
  BY DEF Applied
<1>4. Run(Applied(lines), L)
  <2> HIDE DEF Run
  <2> QED BY <1>2, <1>3
<1> QED BY <1>4

LEMMA ShapeOfApplied ==
    ASSUME Shaped(inc), NEW lines, Len(lines) \in Nat
    PROVE  Shaped(Applied(lines)[Len(lines)])
<1> DEFINE c == Applied(lines)
           L == Len(lines)
           T == {n \in 0 .. L : ~Shaped(c[n])}
<1>1. \A n \in 0 .. L : c[n] = IF n = 0 THEN inc ELSE Handle(c[n - 1], lines[n])
  <2>1. c = [n \in 0 .. L |-> IF n = 0 THEN inc ELSE Handle(c[n - 1], lines[n])]
    BY AppliedFacts
  <2> HIDE DEF c
  <2> QED BY <2>1
<1> HIDE DEF c
<1>2. T = {}
  <2>1. SUFFICES ASSUME T # {} PROVE FALSE
    OBVIOUS
  <2>2. T \subseteq Nat
    OBVIOUS
  <2> HIDE DEF T
  <2>3. PICK m \in T : \A k \in T : m <= k
    BY <2>1, <2>2, Least
  <2>4. m \in 0 .. L /\ ~Shaped(c[m])
    BY <2>3 DEF T
  <2>5. m # 0
    BY <1>1, <2>4
  <2>6. m - 1 \in 0 .. L /\ m - 1 \notin T
    BY <2>3, <2>4, <2>5
  <2>7. Shaped(c[m - 1])
    BY <2>6 DEF T
  <2> QED BY <1>1, <2>4, <2>5, <2>7, ShapeOfHandle
<1>3. L \in 0 .. L
  OBVIOUS
<1> QED BY <1>2, <1>3 DEF c

-----------------------------------------------------------------------------
(* Events that send nothing.                                                *)

LEMMA EventKept ==
    ASSUME Kept, NEW kind, Event(kind), rd \notin Due, rd' = rd + 1,
           UNCHANGED <<phase, setup, written, since, delivered, ckpt, snapshot>>, IncrementalKept', conv' \in Conversions,
           conv'.file = conv.file, conv'.resume \in {conv.resume, None}, lastSafe' \in Positions,
           FlightKept', \A x : Arrives(x, Len(flight)) => Arrives(x, Len(flight))',
           SafeKept', AnchorsKept', SerialsKept', TxnKept'
    PROVE  Kept'
<1>1. /\ LogKept /\ StreamKept /\ SnapshotKept /\ CheckpointKept /\ conv \in Conversions
      /\ rd \in DOMAIN Events /\ rd \in Nat /\ rd <= written
  BY EventFacts DEF Kept
<1>2. CursorKept'
  BY <1>1, CursorPasses DEF StreamKept
<1>3. FilterKept'
  BY <1>1, FilterPasses DEF StreamKept
<1>4. LogKept' /\ SnapshotKept' /\ CheckpointKept'
  BY <1>1, LogStays, SnapshotStays, CheckpointStays
<1>5. conv' \in Conversions' /\ lastSafe' \in Positions'
  BY Rigid
<1> QED BY <1>2, <1>3, <1>4, <1>5 DEF Kept, StreamKept

\* The last safe position stays, of a transaction that is still open or has ended here.
LEMMA SafePasses ==
    ASSUME Kept, NEW kind, Event(kind), rd' = rd + 1, UNCHANGED <<setup, written, since, delivered, lastSafe>>,
           \A x : Arrives(x, Len(flight)) => Arrives(x, Len(flight))',
           (conv.txn.open => conv'.txn.open) \/ rd \in setup.ends
    PROVE  SafeKept'
<1>1. LogKept /\ SafeKept /\ lastSafe \in Positions /\ rd \in Nat /\ Len(Events) \in Nat
  BY EventFacts, LogFacts DEF StreamKept
<1>2. lastSafe.at \in Nat /\ lastSafe.at <= rd /\ Sound(lastSafe) /\ Covered(lastSafe, Len(flight))
  BY <1>1 DEF SafeKept, Positions
<1>3. PICK p, k, j : p = lastSafe /\ k = Len(flight) /\ j = Len(flight')
  OBVIOUS
<1>4. Sound(p)' /\ Covered(p, j)'
  <2>1. \A x : Arrives(x, k) => Arrives(x, j)'
    BY <1>3
  <2> QED BY <1>2, <1>3, <2>1, SoundStays, CoveredStays
<1>5. conv'.txn.open \/ \A i \in rd + 1 .. Len(Events) : ~AnchoredAt(i, p.at)
  <2>1. CASE rd \in setup.ends
    <3>1. ASSUME NEW i \in rd + 1 .. Len(Events) PROVE ~AnchoredAt(i, p.at)
      <4>1. rd < i /\ p.at <= rd
        BY <1>1, <1>2, <1>3
      <4> QED BY <1>1, <2>1, <4>1, NoneAnchored
    <3> QED BY <3>1
  <2>2. CASE conv.txn.open => conv'.txn.open
    <3>1. conv.txn.open \/ \A i \in rd .. Len(Events) : ~AnchoredAt(i, p.at)
      BY <1>1, <1>3 DEF SafeKept
    <3>2. rd + 1 .. Len(Events) \subseteq rd .. Len(Events)
      BY <1>1
    <3> QED BY <2>2, <3>1, <3>2
  <2> QED BY <2>1, <2>2
<1>6. conv'.txn.open \/ \A i \in rd' .. Len(Events') : ~AnchoredAt(i, p.at)'
  BY <1>5, Rigid
<1>7. p = lastSafe' /\ lastSafe'.at <= rd'
  BY <1>1, <1>2, <1>3
<1> QED BY <1>3, <1>4, <1>6, <1>7 DEF SafeKept

\* The position of an event that is no table map.
LEMMA SafeMoves ==
    ASSUME Kept, NEW kind, Event(kind), kind # "map", rd' = rd + 1, UNCHANGED <<setup, written, since, delivered>>,
           \A x : Arrives(x, Len(flight)) => Arrives(x, Len(flight))',
           lastSafe' \in Positions, lastSafe'.at = rd, lastSafe'.file = conv.file
    PROVE  SafeKept'
<1>1. LogKept /\ CursorKept /\ rd \in Nat /\ rd <= written /\ rd # 0 /\ written \in Nat /\ FileAt(rd) = conv.file
  BY EventFacts DEF StreamKept
<1>2. \A i : ~AnchoredAt(i, rd)
  BY <1>1, EventFacts, NoneAnchored
<1>3. PICK p, k, j : p = lastSafe' /\ k = Len(flight) /\ j = Len(flight')
  OBVIOUS
<1>4. Sound(p)
  BY <1>1, <1>3, EventFacts DEF Sound
<1>5. Covered(p, Len(flight))
  BY <1>1, <1>2, <1>3, Passes
<1>6. Sound(p)' /\ Covered(p, j)'
  <2>1. \A x : Arrives(x, k) => Arrives(x, j)'
    BY <1>3
  <2> QED BY <1>3, <1>4, <1>5, <2>1, SoundStays, CoveredStays
<1>7. \A i : ~AnchoredAt(i, p.at)'
  BY <1>2, <1>3, Rigid
<1> QED BY <1>1, <1>3, <1>6, <1>7 DEF SafeKept

\* Only the transaction's state changes.
LEMMA QuietPasses ==
    ASSUME Kept, NEW kind, Event(kind), kind \notin {"rows", "map"}, rd' = rd + 1, TxnKept',
           UNCHANGED <<phase, setup, written, since, delivered, ckpt, snapshot, inc, prep, flight, lastSafe, maps>>,
           NEW txn \in [open : BOOLEAN, ignore : BOOLEAN], conv' = [conv EXCEPT !.txn = txn],
           (conv.txn.open => txn.open) \/ rd \in setup.ends
    PROVE  Kept'
<1>1. /\ LogKept /\ StreamKept /\ conv \in Conversions /\ lastSafe \in Positions /\ IncrementalKept /\ FlightKept
      /\ phase = "streaming" /\ rd \in DOMAIN Events /\ rd \in Nat /\ rd <= written /\ Events[rd].kind = kind
      /\ FileAt(rd) = conv.file
  BY EventFacts DEF Kept
<1>2. /\ conv' \in Conversions /\ UNCHANGED <<conv.file, conv.anchors, conv.previous, conv.serial, conv.resume>>
      /\ conv'.txn = txn
  BY <1>1 DEF Conversions
<1>3. FlightKept' /\ \A x : Arrives(x, Len(flight)) => Arrives(x, Len(flight))'
  BY <1>1, FlightStays
<1>4. SafeKept'
  BY <1>2, <1>3, SafePasses
<1>5. AnchorsKept'
  BY <1>1, <1>2, AnchorsPass DEF StreamKept
<1>6. SerialsKept'
  <2>1. \A a : ~AnchoredAt(rd, a)
    BY <1>1, AnchorFacts
  <2> QED BY <1>1, <1>2, <2>1, SerialsPass DEF StreamKept
<1>7. rd \notin Due
  BY <1>1 DEF Due
<1> QED BY <1>1, <1>2, <1>3, <1>4, <1>5, <1>6, <1>7, EventKept, IncrementalStays

LEMMA BeginKept ==
    ASSUME Kept, Begin
    PROVE  Kept'
<1>1. /\ rd' = rd + 1
      /\ UNCHANGED <<phase, setup, written, since, delivered, ckpt, snapshot, inc, prep, flight, lastSafe, maps>>
  BY DEF Begin, Passed, eventRest, quiet, server, durable
<1>2. CASE Event("gtid") /\ conv' = [conv EXCEPT !.txn = [open |-> TRUE, ignore |-> Events[rd].sid \in setup.filtered]]
  <2> DEFINE txn == [open |-> TRUE, ignore |-> Events[rd].sid \in setup.filtered]
  <2>1. txn \in [open : BOOLEAN, ignore : BOOLEAN] /\ txn.open /\ conv'.txn = txn
    BY <1>2, EventFacts DEF Conversions
  <2>2. TxnKept'
    <3>1. LogKept /\ rd \in DOMAIN Events /\ rd \in Nat /\ rd # 0 /\ Events[rd].kind = "gtid"
      BY <1>2, EventFacts
    <3>2. txn.ignore => Ignored(rd)
      BY <3>1 DEF Ignored, SameTxn
    <3>3. ASSUME conv'.txn.ignore PROVE \E i : i = rd' - 1 /\ Ignored(i)'
      <4>1. PICK i : i = rd
        OBVIOUS
      <4>2. Ignored(i)' /\ i = rd' - 1
        BY <1>1, <2>1, <3>1, <3>2, <3>3, <4>1, Rigid
      <4> QED BY <4>2
    <3>4. rd' > 1
      BY <1>1, <3>1
    <3> QED BY <2>1, <3>3, <3>4 DEF TxnKept
  <2> HIDE DEF txn
  <2>3. conv' = [conv EXCEPT !.txn = txn]
    BY <1>2 DEF txn
  <2> QED BY <1>1, <1>2, <2>1, <2>2, <2>3, QuietPasses
<1>3. CASE Event("begin") /\ conv' = [conv EXCEPT !.txn = IF @.open THEN @ ELSE OpenTxn]
  <2> DEFINE txn == IF conv.txn.open THEN conv.txn ELSE OpenTxn
  <2>1. /\ txn \in [open : BOOLEAN, ignore : BOOLEAN] /\ txn.open /\ conv'.txn = txn /\ (txn.ignore => conv.txn.ignore)
        /\ conv' = [conv EXCEPT !.txn = txn]
    BY <1>3, EventFacts DEF Conversions, OpenTxn
  <2>2. TxnKept'
    <3>1. LogKept /\ TxnKept /\ rd \in DOMAIN Events /\ Events[rd].kind # "gtid"
      BY <1>3, EventFacts DEF StreamKept
    <3> QED BY <1>1, <2>1, <3>1, TxnPasses
  <2> HIDE DEF txn
  <2> QED BY <1>1, <1>3, <2>1, <2>2, QuietPasses
<1> QED BY <1>2, <1>3 DEF Begin

LEMMA RollbackKept ==
    ASSUME Kept, Rollback
    PROVE  Kept'
<1>1. /\ rd' = rd + 1 /\ Event("rollback") /\ conv' = [conv EXCEPT !.txn = NoTxn]
      /\ UNCHANGED <<phase, setup, written, since, delivered, ckpt, snapshot, inc, prep, flight, lastSafe, maps>>
  BY DEF Rollback, Passed, eventRest, quiet, server, durable
<1>2. /\ LogKept /\ TxnKept /\ rd \in DOMAIN Events /\ Events[rd].kind = "rollback" /\ conv \in Conversions
  BY <1>1, EventFacts DEF StreamKept
<1>3. NoTxn \in [open : BOOLEAN, ignore : BOOLEAN] /\ ~NoTxn.ignore /\ conv'.txn = NoTxn
  BY <1>1, <1>2 DEF NoTxn, Conversions
<1>4. TxnKept'
  BY <1>1, <1>2, <1>3, TxnPasses
<1>5. rd \in setup.ends
  <2>1. LogSound(setup)
    BY <1>2 DEF LogKept
  <2> QED BY <1>2, <2>1 DEF LogSound, Events
<1> QED BY <1>1, <1>3, <1>4, <1>5, QuietPasses

LEMMA OtherKept ==
    ASSUME Kept, Other
    PROVE  Kept'
<1>1. /\ rd' = rd + 1 /\ Event("other") /\ UNCHANGED conv
      /\ UNCHANGED <<phase, setup, written, since, delivered, ckpt, snapshot, inc, prep, flight, lastSafe, maps>>
  BY DEF Other, Passed, eventRest, quiet, server, durable
<1>2. /\ LogKept /\ TxnKept /\ rd \in DOMAIN Events /\ Events[rd].kind = "other" /\ conv \in Conversions
  BY <1>1, EventFacts DEF StreamKept
<1>3. conv.txn \in [open : BOOLEAN, ignore : BOOLEAN] /\ conv' = [conv EXCEPT !.txn = conv.txn]
  BY <1>1, <1>2 DEF Conversions
<1>4. TxnKept'
  <2>1. conv'.txn.ignore => conv'.txn.open /\ conv.txn.ignore
    BY <1>1, <1>2 DEF TxnKept
  <2> QED BY <1>1, <1>2, <2>1, TxnPasses
<1> QED BY <1>1, <1>3, <1>4, QuietPasses

LEMMA TableMapKept ==
    ASSUME Kept, TableMap
    PROVE  Kept'
<1> DEFINE t0 == Events[rd].table
           anchors == [t \in Tables |-> IF t = t0 THEN rd ELSE conv.anchors[t]]
<1>1. /\ rd' = rd + 1 /\ Event("map") /\ conv' = [conv EXCEPT !.anchors = anchors] /\ maps' = maps \cup {t0}
      /\ UNCHANGED <<phase, setup, written, since, delivered, ckpt, snapshot, inc, prep, flight, lastSafe>>
  BY DEF TableMap, Passed, eventRest, quiet, server, durable
<1>2. /\ LogKept /\ StreamKept /\ conv \in Conversions /\ lastSafe \in Positions /\ IncrementalKept /\ FlightKept
      /\ phase = "streaming" /\ rd \in DOMAIN Events /\ rd \in Nat /\ rd # 0 /\ rd <= written /\ Events[rd].kind = "map"
      /\ FileAt(rd) = conv.file /\ conv.file \in Nat
  BY <1>1, EventFacts DEF Kept
<1>3. anchors \in [Tables -> Nat]
  BY <1>2 DEF Conversions
<1>4. /\ conv' \in Conversions /\ UNCHANGED <<conv.file, conv.previous, conv.serial, conv.resume, conv.txn>>
      /\ conv'.anchors = anchors
  <2> HIDE DEF anchors
  <2> QED BY <1>1, <1>2, <1>3 DEF Conversions
<1>5. FlightKept' /\ \A x : Arrives(x, Len(flight)) => Arrives(x, Len(flight))'
  BY <1>1, <1>2, FlightStays
<1>6. SafeKept'
  BY <1>1, <1>4, <1>5, SafePasses
<1>7. AnchorsKept'
  <2>1. Tables' = Tables /\ (\A i : FileAt(i)' = FileAt(i)) /\ \A m, t : Maps(m, t)' <=> Maps(m, t)
    BY <1>1, Rigid
  <2>2. conv.file \in 1 .. FileAt(rd + 1)
    BY <1>2, FileFacts DEF StreamKept, AnchorsKept
  <2>3. \A m \in 1 .. (rd + 1) - 1 : m \in 1 .. rd - 1 \/ m = rd
    BY <1>2
  <2>4. \A m \in 1 .. (rd + 1) - 1 : FileAt(m) <= conv.file
    BY <1>2, <2>3 DEF StreamKept, AnchorsKept
  <2>5. ASSUME NEW t \in Tables
        PROVE  LET a == anchors[t]
               IN  /\ a # 0 => a \in 1 .. (rd + 1) - 1 /\ Maps(a, t) /\ FileAt(a) = conv.file
                   /\ a # 0 /\ conv.resume # None => conv.resume.at <= a
                   /\ t \in maps' => \A m \in 1 .. (rd + 1) - 1 : Maps(m, t) /\ FileAt(m) = conv.file => m <= a
    <3>1. CASE t = t0
      <4>1. anchors[t] = rd /\ Maps(rd, t)
        BY <1>2, <3>1 DEF Maps
      <4>2. conv.resume # None => conv.resume.at <= rd
        BY <1>2 DEF StreamKept, FilterKept
      <4> HIDE DEF anchors
      <4> QED BY <1>2, <4>1, <4>2
    <3>2. CASE t # t0
      <4>1. anchors[t] = conv.anchors[t] /\ ~Maps(rd, t) /\ (t \in maps' <=> t \in maps)
        BY <1>1, <3>2 DEF Maps
      <4> HIDE DEF anchors
      <4> QED BY <1>2, <2>3, <4>1 DEF StreamKept, AnchorsKept
    <3> QED BY <3>1, <3>2
  <2> HIDE DEF anchors
  <2>6. conv'.file \in 1 .. FileAt(rd') /\ \A m \in 1 .. rd' - 1 : FileAt(m) <= conv'.file
    BY <1>1, <1>4, <2>2, <2>4
  <2> QED BY <1>1, <1>4, <2>1, <2>5, <2>6 DEF AnchorsKept
<1>8. SerialsKept'
  <2>1. \A a : ~AnchoredAt(rd, a)
    BY <1>2, AnchorFacts
  <2> QED BY <1>1, <1>2, <1>4, <2>1, SerialsPass DEF StreamKept
<1>9. TxnKept'
  <2>1. conv'.txn.ignore => conv'.txn.open /\ conv.txn.ignore
    BY <1>2, <1>4 DEF StreamKept, TxnKept
  <2> QED BY <1>1, <1>2, <2>1, TxnPasses DEF StreamKept
<1>10. rd \notin Due
  BY <1>2 DEF Due
<1> QED BY <1>1, <1>2, <1>4, <1>5, <1>6, <1>7, <1>8, <1>9, <1>10, EventKept, IncrementalStays

\* A step of the connection that moves neither the cursor nor what was sent.
LEMMA CursorStays ==
    ASSUME Kept, StreamKept, UNCHANGED <<setup, written, since, delivered, rd, lastSafe>>, conv'.txn.open = conv.txn.open,
           \A x : Arrives(x, Len(flight)) => Arrives(x, Len(flight))'
    PROVE  CursorKept' /\ SafeKept'
<1>1. Due' = Due /\ Events' = Events /\ \A i, a : AnchoredAt(i, a)' <=> AnchoredAt(i, a)
  BY DueStays, Rigid
<1>2. CursorKept'
  BY <1>1 DEF StreamKept, CursorKept
<1>3. PICK p, k, j : p = lastSafe /\ k = Len(flight) /\ j = Len(flight')
  OBVIOUS
<1>4. Sound(p)' /\ Covered(p, j)'
  <2>1. Sound(p) /\ Covered(p, k) /\ \A x : Arrives(x, k) => Arrives(x, j)'
    BY <1>3 DEF StreamKept, SafeKept
  <2> QED BY <2>1, SoundStays, CoveredStays
<1>5. p.at <= rd /\ (conv.txn.open \/ \A i \in rd .. Len(Events) : ~AnchoredAt(i, p.at))
  BY <1>3 DEF StreamKept, SafeKept
<1>6. SafeKept'
  BY <1>1, <1>3, <1>4, <1>5 DEF SafeKept
<1> QED BY <1>2, <1>6

LEMMA RotateKept ==
    ASSUME Kept, Rotate
    PROVE  Kept'
<1> DEFINE anchors == [t \in Tables |-> 0]
<1>1. /\ phase = "streaming" /\ FileAt(rd) # conv.file
      /\ conv' = [conv EXCEPT !.file = conv.file + 1, !.anchors = anchors, !.previous = 0, !.serial = 0]
      /\ UNCHANGED <<phase, setup, written, since, delivered, ckpt, snapshot, inc, prep, flight, lastSafe, maps, rd>>
  BY DEF Rotate, Ready, eventRest, quiet, server, durable
<1>2. /\ LogKept /\ StreamKept /\ conv \in Conversions /\ lastSafe \in Positions /\ IncrementalKept /\ FlightKept
      /\ rd \in Nat /\ conv.file \in Nat /\ SnapshotKept /\ CheckpointKept
  BY <1>1 DEF Kept, Connected, StreamKept, CursorKept, Conversions
<1>3. /\ conv' \in Conversions /\ UNCHANGED <<conv.resume, conv.txn>> /\ conv'.anchors = anchors
      /\ conv'.file = conv.file + 1 /\ conv'.previous = 0 /\ conv'.serial = 0
  <2>1. anchors \in [Tables -> Nat]
    OBVIOUS
  <2>2. conv.file + 1 \in Nat /\ conv.resume \in Positions /\ conv.txn \in [open : BOOLEAN, ignore : BOOLEAN]
    BY <1>2 DEF Conversions
  <2> HIDE DEF anchors
  <2>3. conv' = [file |-> conv.file + 1, anchors |-> anchors, previous |-> 0, serial |-> 0, resume |-> conv.resume,
                 txn |-> conv.txn]
    BY <1>1, <1>2 DEF Conversions
  <2>4. conv' \in Conversions
    BY <2>1, <2>2, <2>3 DEF Conversions
  <2> QED BY <2>3, <2>4
<1>4. FlightKept' /\ \A x : Arrives(x, Len(flight)) => Arrives(x, Len(flight))'
  BY <1>1, <1>2, FlightStays
<1>5. CursorKept' /\ SafeKept'
  BY <1>1, <1>2, <1>3, <1>4, CursorStays
<1>6. FilterKept'
  BY <1>1, <1>2, <1>3, <1>4, FilterPasses DEF StreamKept
<1>7. AnchorsKept'
  <2>1. Tables' = Tables /\ (\A i : FileAt(i)' = FileAt(i)) /\ \A m, t : Maps(m, t)' <=> Maps(m, t)
    BY <1>1, Rigid
  <2>2. conv.file + 1 \in 1 .. FileAt(rd)
    <3>1. conv.file \in 1 .. FileAt(rd) /\ FileAt(rd) \in Nat
      BY <1>2, FileFacts DEF StreamKept, AnchorsKept
    <3> QED BY <1>1, <1>2, <3>1
  <2>3. \A m \in 1 .. rd - 1 : FileAt(m) <= conv.file + 1 /\ FileAt(m) # conv.file + 1
    <3>1. ASSUME NEW m \in 1 .. rd - 1 PROVE FileAt(m) <= conv.file /\ FileAt(m) \in Nat
      BY <1>2, FileFacts DEF StreamKept, AnchorsKept
    <3> QED BY <1>2, <3>1
  <2>4. \A t \in Tables : anchors[t] = 0
    OBVIOUS
  <2> HIDE DEF anchors
  <2> QED BY <1>1, <1>3, <2>1, <2>2, <2>3, <2>4 DEF AnchorsKept
<1>8. SerialsKept'
  <2>1. Events' = Events /\ \A a, i : Count(a, i)' = Count(a, i)
    BY <1>1, Rigid
  <2>2. \A a \in DOMAIN Events : Counted(a)' = 0 /\ Count(a, rd) \in Nat
    BY <1>2, <1>3, CountNext DEF Counted
  <2>3. ~(conv'.resume # None /\ conv'.file = conv'.resume.file)
    <3>1. conv.resume # None => conv.resume.file <= conv.file /\ conv.resume.file \in Nat
      BY <1>2 DEF StreamKept, FilterKept, Conversions, Positions
    <3> QED BY <1>2, <1>3, <3>1
  <2>4. \A a \in DOMAIN Events : Counted(a)' <= Count(a, rd)'
    BY <1>1, <2>1, <2>2
  <2> QED BY <2>1, <2>3, <2>4 DEF SerialsKept
<1>9. TxnKept'
  BY <1>1, <1>2, <1>3, Rigid DEF StreamKept, TxnKept
<1>10. LogKept' /\ SnapshotKept' /\ CheckpointKept' /\ IncrementalKept'
  BY <1>1, <1>2, LogStays, SnapshotStays, CheckpointStays, IncrementalStays
<1>11. conv' \in Conversions' /\ lastSafe' \in Positions'
  BY <1>1, <1>2, <1>3, Rigid
<1> QED BY <1>4, <1>5, <1>6, <1>7, <1>8, <1>9, <1>10, <1>11 DEF Kept, StreamKept

(* The end of a transaction, failures and signals in the log.               *)

\* A task without a connection: nothing is said of one.
LEMMA FailsKept ==
    ASSUME Kept, phase' \notin {"opening", "streaming", "broken"}, phase' = "snapshot" => phase = "snapshot",
           UNCHANGED <<setup, written, since, delivered, ckpt, snapshot, inc, prep, flight, conv, lastSafe>>
    PROVE  Kept'
<1>1. /\ LogKept /\ SnapshotKept /\ CheckpointKept /\ IncrementalKept /\ FlightKept
      /\ conv \in Conversions /\ lastSafe \in Positions
  BY DEF Kept
<1>2. LogKept' /\ SnapshotKept' /\ CheckpointKept' /\ IncrementalKept' /\ FlightKept'
  BY <1>1, LogStays, SnapshotStays, CheckpointStays, IncrementalStays, FlightStays
<1>3. conv' \in Conversions' /\ lastSafe' \in Positions'
  BY <1>1, Rigid
<1>4. ~Connected'
  BY DEF Connected
<1> QED BY <1>2, <1>3, <1>4 DEF Kept

LEMMA NextSerialFacts ==
    ASSUME NEW cv \in Conversions, NEW a \in Nat
    PROVE  LET next == NextSerial(cv, a)
           IN  /\ next \in Conversions /\ next.file = cv.file /\ next.anchors = cv.anchors /\ next.previous = a
               /\ next.resume = cv.resume /\ next.txn = cv.txn
               /\ next.serial = 1 + IF cv.previous = a THEN cv.serial ELSE 0
<1>1. CASE cv.previous = a
  <2>1. NextSerial(cv, a) = [cv EXCEPT !.serial = cv.serial + 1]
    BY <1>1 DEF NextSerial
  <2>2. cv.serial + 1 = 1 + cv.serial
    BY DEF Conversions
  <2> QED BY <1>1, <2>1, <2>2 DEF Conversions
<1>2. CASE cv.previous # a
  <2>1. NextSerial(cv, a) = [file |-> cv.file, anchors |-> cv.anchors, previous |-> a, serial |-> 1,
                             resume |-> cv.resume, txn |-> cv.txn]
    BY <1>2 DEF NextSerial, Conversions
  <2> QED BY <1>2, <2>1 DEF Conversions
<1> QED BY <1>1, <1>2

LEMMA ClosingFacts ==
    ASSUME Kept, NEW kind, Event(kind), NEW known \in BOOLEAN
    PROVE  LET cv == Closing(known).cv
               pos == Closing(known).pos
           IN  /\ cv \in Conversions /\ cv.file = conv.file /\ cv.anchors = conv.anchors /\ cv.previous = rd
               /\ cv.txn = NoTxn /\ cv.resume \in {conv.resume, None}
               /\ cv.resume # None /\ cv.file = cv.resume.file => cv.resume.at = rd
               /\ pos \in Positions /\ pos.at = rd /\ pos.file = conv.file
<1> DEFINE next == [NextSerial(conv, rd) EXCEPT !.txn = NoTxn]
           p == Position(rd, next.file, conv.txn.open \/ known, next.serial, FALSE)
           cv == IF ShouldSkip(next, p) THEN next ELSE [next EXCEPT !.resume = None]
<1>1. Closing(known).cv = cv /\ Closing(known).pos = p
  BY DEF Closing
<1>2. /\ LogKept /\ FilterKept /\ conv \in Conversions /\ rd \in Nat /\ conv.file \in Nat /\ FileAt(rd) = conv.file
  BY EventFacts DEF StreamKept
<1>3. /\ next \in Conversions /\ next.file = conv.file /\ next.anchors = conv.anchors /\ next.previous = rd
      /\ next.txn = NoTxn /\ next.resume = conv.resume /\ next.serial \in Nat
  <2>1. PICK n : n = NextSerial(conv, rd)
    OBVIOUS
  <2>2. /\ n \in Conversions /\ n.file = conv.file /\ n.anchors = conv.anchors /\ n.previous = rd
        /\ n.resume = conv.resume
    BY <1>2, <2>1, NextSerialFacts
  <2>3. next = [n EXCEPT !.txn = NoTxn]
    BY <2>1
  <2> HIDE DEF next
  <2> QED BY <2>2, <2>3 DEF Conversions, NoTxn
<1>4. conv.txn.open \in BOOLEAN
  BY <1>2 DEF Conversions
<1> HIDE DEF next
<1>5. p \in Positions /\ p.at = rd /\ p.file = conv.file /\ ~p.snap
  BY <1>2, <1>3, <1>4 DEF Position, Positions
<1>6. None \in Positions
  BY DEF None, Position, Positions
<1> HIDE DEF p
<1>7. CASE ShouldSkip(next, p)
  <2>1. cv = next
    BY <1>7
  <2>2. next.resume # None
    BY <1>7 DEF ShouldSkip
  <2>3. Sound(next.resume) /\ next.resume.file <= p.file /\ next.resume.at <= p.at
    BY <1>2, <1>3, <1>5, <2>2 DEF FilterKept
  <2>4. p.file \in 1 .. 1 + Cardinality(setup.rotations)
    BY <1>2, <1>5, FileFacts
  <2>5. next.resume.at = rd
    BY <1>2, <1>5, <1>7, <2>3, <2>4, Dropped
  <2> HIDE DEF cv
  <2> QED BY <1>1, <1>3, <1>5, <2>1, <2>5
<1>8. CASE ~ShouldSkip(next, p)
  <2>1. cv = [next EXCEPT !.resume = None]
    BY <1>8
  <2>2. /\ cv \in Conversions /\ cv.file = next.file /\ cv.anchors = next.anchors /\ cv.previous = next.previous
        /\ cv.txn = next.txn /\ cv.resume = None
    BY <1>3, <1>6, <2>1 DEF Conversions
  <2> HIDE DEF cv
  <2> QED BY <1>1, <1>3, <1>5, <2>2
<1> QED BY <1>7, <1>8

LEMMA ClosedKept ==
    ASSUME Kept, NEW kind \in {"xid", "ddl"}, Event(kind), NEW known \in BOOLEAN, rd' = rd + 1,
           UNCHANGED <<phase, setup, written, since, delivered, ckpt, snapshot, prep, maps>>, IncrementalKept',
           conv' = Closing(known).cv,
           \/ UNCHANGED <<flight, lastSafe>>
           \/ lastSafe' = Closing(known).pos /\ \E r : flight' = Append(flight, r) /\ r.pos = Closing(known).pos
    PROVE  Kept'
<1>1. /\ LogKept /\ StreamKept /\ FlightKept /\ conv \in Conversions /\ lastSafe \in Positions /\ phase = "streaming"
      /\ rd \in DOMAIN Events /\ rd \in Nat /\ rd # 0 /\ rd <= written /\ written \in Nat /\ Events[rd].kind = kind
      /\ FileAt(rd) = conv.file
  BY EventFacts DEF Kept
<1>2. /\ conv' \in Conversions /\ conv'.file = conv.file /\ conv'.anchors = conv.anchors /\ conv'.previous = rd
      /\ conv'.txn = NoTxn /\ conv'.resume \in {conv.resume, None}
      /\ conv'.resume # None /\ conv'.file = conv'.resume.file => conv'.resume.at = rd
      /\ conv'.serial \in Nat
  <2>1. Closing(known).cv.serial \in Nat
    BY ClosingFacts DEF Conversions
  <2> QED BY <2>1, ClosingFacts
<1>3. Closing(known).pos \in Positions /\ Closing(known).pos.at = rd /\ Closing(known).pos.file = conv.file
  BY ClosingFacts
<1>4. \A i : ~AnchoredAt(i, rd)
  BY <1>1, NoneAnchored
<1>5. Sound(Closing(known).pos) /\ Covered(Closing(known).pos, Len(flight))
  <2>1. PICK p : p = Closing(known).pos
    OBVIOUS
  <2>2. Sound(p)
    BY <1>1, <1>3, <2>1 DEF Sound
  <2>3. Covered(p, Len(flight))
    BY <1>1, <1>3, <1>4, <2>1, Passes DEF StreamKept
  <2> QED BY <2>1, <2>2, <2>3
<1>6. FlightKept' /\ \A x : Arrives(x, Len(flight)) => Arrives(x, Len(flight))'
  <2>1. CASE UNCHANGED flight
    BY <1>1, <2>1, FlightStays
  <2>2. ASSUME NEW r, flight' = Append(flight, r), r.pos = Closing(known).pos
        PROVE  FlightKept' /\ \A x : Arrives(x, Len(flight)) => Arrives(x, Len(flight))'
    BY <1>1, <1>5, <2>2, SendsOne
  <2> QED BY <2>1, <2>2
<1>7. rd \in setup.ends
  <2>1. LogSound(setup)
    BY <1>1 DEF LogKept
  <2> QED BY <1>1, <2>1 DEF LogSound, Events
<1>8. SafeKept' /\ lastSafe' \in Positions
  <2>1. CASE UNCHANGED lastSafe
    BY <1>1, <1>6, <1>7, <2>1, SafePasses
  <2>2. CASE lastSafe' = Closing(known).pos
    <3>1. lastSafe' \in Positions /\ lastSafe'.at = rd /\ lastSafe'.file = conv.file
      BY <1>3, <2>2
    <3> QED BY <1>6, <3>1, SafeMoves
  <2> QED BY <2>1, <2>2
<1>9. AnchorsKept'
  BY <1>1, <1>2, AnchorsPass DEF StreamKept
<1>10. SerialsKept'
  BY <1>1, <1>2, SerialsClose
<1>11. TxnKept'
  BY <1>1, <1>2, TxnPasses DEF StreamKept, NoTxn
<1>12. rd \notin Due
  BY <1>1 DEF Due
<1> QED BY <1>2, <1>6, <1>8, <1>9, <1>10, <1>11, <1>12, EventKept

\* The connector state has gone with the records.
LEMMA Sent ==
    ASSUME IncrementalKept, UNCHANGED prep, UNCHANGED inc \/ inc' = [inc EXCEPT !.dirty = FALSE]
    PROVE  IncrementalKept'
<1>1. Shaped(inc) /\ \A dirty : Shaped([inc EXCEPT !.dirty = dirty])
  BY Reshaped DEF IncrementalKept
<1>2. \E c : c = inc' /\ Shaped(c)
  <2>1. CASE UNCHANGED inc
    BY <1>1, <2>1
  <2>2. CASE inc' = [inc EXCEPT !.dirty = FALSE]
    BY <1>1, <2>2
  <2> QED BY <2>1, <2>2
<1>3. Shaped(inc)'
  BY <1>2 DEF Shaped, ShapedWindow
<1> QED BY <1>3 DEF IncrementalKept

LEMMA CommitKept ==
    ASSUME Kept, Commit
    PROVE  Kept'
<1>1. /\ rd' = rd + 1 /\ Event("xid") /\ conv' = Closing(TRUE).cv
      /\ UNCHANGED <<phase, setup, written, since, delivered, ckpt, snapshot, prep, maps>>
      /\ \/ UNCHANGED <<flight, lastSafe, inc>>
         \/ /\ lastSafe' = Closing(TRUE).pos /\ inc' = [inc EXCEPT !.dirty = FALSE]
            /\ flight' = Append(flight, Mark(Closing(TRUE).pos, TRUE, IF inc.dirty THEN State(schemas, inc) ELSE NoState))
  BY DEF Commit, Passed, eventRest, server, durable
<1>2. IncrementalKept'
  BY <1>1, Sent DEF Kept
<1>3. \A state : Mark(Closing(TRUE).pos, TRUE, state).pos = Closing(TRUE).pos
  BY DEF Mark, Item
<1>4. \/ UNCHANGED <<flight, lastSafe>>
      \/ lastSafe' = Closing(TRUE).pos /\ \E r : flight' = Append(flight, r) /\ r.pos = Closing(TRUE).pos
  BY <1>1, <1>3
<1> QED BY <1>1, <1>2, <1>4, ClosedKept

LEMMA DdlKept ==
    ASSUME Kept, Ddl
    PROVE  Kept'
<1>1. Event("ddl") /\ UNCHANGED <<setup, written, since, delivered, ckpt, snapshot, prep, maps>>
  BY DEF Ddl, eventRest, server, durable
<1>2. CASE phase' = "failed" /\ UNCHANGED <<conv, flight, inc, lastSafe>>
  BY <1>1, <1>2, FailsKept
<1>3. CASE /\ Passed /\ conv' = Closing(FALSE).cv /\ UNCHANGED phase
           /\ \/ UNCHANGED <<flight, lastSafe, inc>>
              \/ /\ lastSafe' = Closing(FALSE).pos /\ inc' = [inc EXCEPT !.dirty = FALSE]
                 /\ \E state : flight' = Append(flight, Mark(Closing(FALSE).pos, TRUE, state))
  <2>1. IncrementalKept'
    BY <1>1, <1>3, Sent DEF Kept
  <2>2. \A state : Mark(Closing(FALSE).pos, TRUE, state).pos = Closing(FALSE).pos
    BY DEF Mark, Item
  <2>3. \/ UNCHANGED <<flight, lastSafe>>
        \/ lastSafe' = Closing(FALSE).pos /\ \E r : flight' = Append(flight, r) /\ r.pos = Closing(FALSE).pos
    BY <1>3, <2>2
  <2>4. rd' = rd + 1
    BY <1>3 DEF Passed
  <2> QED BY <1>1, <1>3, <2>1, <2>3, <2>4, ClosedKept
<1> QED BY <1>2, <1>3 DEF Ddl, Fails

LEMMA UnmappedKept ==
    ASSUME Kept, Unmapped
    PROVE  Kept'
<1>1. phase' = "failed"
  BY DEF Unmapped, Fails
<1> QED BY <1>1, FailsKept DEF Unmapped, eventRest, server, durable

LEMMA SourceSignalKept ==
    ASSUME Kept, SourceSignal
    PROVE  Kept'
<1>1. /\ Event("signal") /\ UNCHANGED <<setup, written, since, delivered, ckpt, snapshot, prep, conv, flight>>
  BY DEF SourceSignal, eventRest, server, durable
<1>2. CASE phase' = "failed" /\ UNCHANGED <<lastSafe, inc>>
  BY <1>1, <1>2, FailsKept
<1>3. CASE /\ rd' = rd + 1 /\ inc' = Handle(inc, Events[rd].signal) /\ UNCHANGED <<phase, maps>>
           /\ lastSafe' = Position(rd, conv.file, conv.txn.open, 1, FALSE)
  <2>1. /\ LogKept /\ StreamKept /\ IncrementalKept /\ FlightKept /\ conv \in Conversions /\ phase = "streaming"
        /\ rd \in DOMAIN Events /\ rd \in Nat /\ Events[rd].kind = "signal" /\ FileAt(rd) = conv.file /\ conv.file \in Nat
    BY <1>1, EventFacts DEF Kept
  <2>2. FlightKept' /\ \A x : Arrives(x, Len(flight)) => Arrives(x, Len(flight))'
    BY <1>1, <2>1, FlightStays
  <2>3. lastSafe' \in Positions /\ lastSafe'.at = rd /\ lastSafe'.file = conv.file
    BY <1>3, <2>1 DEF Position, Positions, Conversions
  <2>4. SafeKept'
    BY <1>1, <1>3, <2>2, <2>3, SafeMoves
  <2>5. IncrementalKept'
    <3>1. Shaped(inc')
      BY <1>3, <2>1, ShapeOfHandle DEF IncrementalKept
    <3> QED BY <1>1, <2>1, <3>1 DEF IncrementalKept
  <2>6. AnchorsKept'
    BY <1>1, <1>3, <2>1, AnchorsPass DEF StreamKept
  <2>7. SerialsKept'
    <3>1. \A a : ~AnchoredAt(rd, a)
      BY <2>1, AnchorFacts
    <3> QED BY <1>1, <1>3, <2>1, <3>1, SerialsPass DEF StreamKept
  <2>8. TxnKept'
    <3>1. conv'.txn.ignore => conv'.txn.open /\ conv.txn.ignore
      BY <1>1, <2>1 DEF StreamKept, TxnKept
    <3> QED BY <1>1, <1>3, <2>1, <3>1, TxnPasses DEF StreamKept
  <2>9. rd \notin Due
    BY <2>1 DEF Due
  <2>10. conv' \in Conversions /\ conv'.file = conv.file /\ conv'.resume \in {conv.resume, None}
    BY <1>1, <2>1
  <2> QED BY <1>1, <1>3, <2>2, <2>3, <2>4, <2>5, <2>6, <2>7, <2>8, <2>9, <2>10, EventKept
<1> QED BY <1>2, <1>3 DEF SourceSignal, Fails, Passed

-----------------------------------------------------------------------------
(* Rows.                                                                    *)

\* The position of the kth row that the handler of a rows event converts.
RowAt(a, k) == Position(a, conv.file, TRUE, Counted(a) + k, FALSE)

\* The anchor the task knows is the one the rows have in the log.
LEMMA AnchorOfRows ==
    ASSUME Kept, Event("rows"), Events[rd].table \in maps
    PROVE  LET a == Anchor(conv, Events[rd].table, rd)
           IN  /\ AnchoredAt(rd, a) /\ FileAt(a) = conv.file /\ a \in Nat /\ a # 0 /\ a < rd
               /\ conv.resume # None => conv.resume.at <= a
<1> DEFINE t == Events[rd].table
           a == conv.anchors[t]
<1>1. /\ LogKept /\ AnchorsKept /\ phase = "streaming" /\ rd \in DOMAIN Events /\ rd \in Nat /\ Events[rd].kind = "rows"
      /\ FileAt(rd) = conv.file /\ DOMAIN Events \subseteq Nat
  BY EventFacts, LogFacts DEF StreamKept
<1>2. t \in Tables /\ \E m \in 1 .. rd - 1 : Maps(m, t) /\ SameTxn(m, rd)
  BY <1>1, RowsMapped
<1>3. PICK m \in 1 .. rd - 1 : Maps(m, t) /\ SameTxn(m, rd)
  BY <1>2
<1>4. m \in DOMAIN Events /\ m <= rd
  BY <1>1, <1>3, LogFacts
<1>5. FileAt(m) = conv.file
  BY <1>1, <1>3, <1>4, TxnInFile
<1>6. conv.anchors \in [Tables -> Nat]
  BY EventFacts DEF Conversions
<1>7. /\ a # 0 => a \in 1 .. rd - 1 /\ Maps(a, t) /\ FileAt(a) = conv.file
      /\ a # 0 /\ conv.resume # None => conv.resume.at <= a
      /\ \A n \in 1 .. rd - 1 : Maps(n, t) /\ FileAt(n) = conv.file => n <= a
  BY <1>1, <1>2 DEF AnchorsKept
<1>8. a \in Nat /\ a # 0
  <2>1. a \in Nat
    BY <1>2, <1>6
  <2>2. m <= a /\ m # 0 /\ m \in Nat
    BY <1>3, <1>5, <1>7
  <2> QED BY <2>1, <2>2
<1>9. ASSUME NEW n \in a + 1 .. rd - 1, Maps(n, t) PROVE FALSE
  <2>1. n \in Nat /\ a <= n /\ n <= rd /\ ~(n <= a) /\ n \in 1 .. rd - 1
    BY <1>1, <1>8
  <2>2. FileAt(a) <= FileAt(n) /\ FileAt(n) <= FileAt(rd) /\ FileAt(n) \in Nat /\ FileAt(rd) \in Nat
    BY <1>1, <1>8, <2>1, FileFacts
  <2>3. FileAt(n) = conv.file
    BY <1>1, <1>7, <1>8, <2>2
  <2> QED BY <1>7, <1>9, <2>1, <2>3
<1>10. Anchor(conv, t, rd) = a
  BY <1>8 DEF Anchor
<1>11. AnchoredAt(rd, a)
  BY <1>1, <1>7, <1>8, <1>9 DEF AnchoredAt
<1>12. a < rd
  BY <1>1, <1>7, <1>8
<1> QED BY <1>7, <1>8, <1>10, <1>11, <1>12

LEMMA RowAtFacts ==
    ASSUME Kept, Event("rows"), NEW a, AnchoredAt(rd, a), FileAt(a) = conv.file, NEW k \in Nat
    PROVE  /\ RowAt(a, k) \in Positions /\ RowAt(a, k).at = a /\ RowAt(a, k).file = conv.file /\ ~RowAt(a, k).snap
           /\ RowAt(a, k).serial = Counted(a) + k /\ Counted(a) \in Nat /\ Counted(a) <= Count(a, rd)
           /\ Sound(RowAt(a, k)) /\ a \in Nat
<1>1. /\ LogKept /\ SerialsKept /\ rd \in Nat /\ rd <= written /\ written \in Nat /\ conv.file \in Nat /\ conv.serial \in Nat
  BY EventFacts DEF StreamKept, Conversions
<1>2. a \in DOMAIN Events /\ a \in Nat /\ a # 0 /\ a < rd /\ Events[a].kind = "map"
  BY <1>1, AnchorFacts, LogFacts
<1>3. Counted(a) \in Nat /\ Counted(a) <= Count(a, rd)
  BY <1>1, <1>2 DEF Counted, SerialsKept
<1>4. /\ RowAt(a, k) \in Positions /\ RowAt(a, k).at = a /\ RowAt(a, k).file = conv.file /\ ~RowAt(a, k).snap
      /\ RowAt(a, k).serial = Counted(a) + k /\ RowAt(a, k).gtid
  BY <1>1, <1>2, <1>3 DEF RowAt, Position, Positions
<1>5. a \in 1 .. written + 1
  BY <1>1, <1>2
<1>6. Sound(RowAt(a, k))
  BY <1>4, <1>5 DEF Sound
<1> QED BY <1>2, <1>3, <1>4, <1>6

\* A row that is dropped has arrived; its serial counts all rows of its map so far.
LEMMA RowsDropped ==
    ASSUME Kept, Event("rows"), NEW a, AnchoredAt(rd, a), FileAt(a) = conv.file,
           conv.resume # None => conv.resume.at <= a,
           NEW d \in Nat, d # 0, ShouldSkip(conv, RowAt(a, d))
    PROVE  /\ conv.resume # None /\ conv.resume.at = a /\ conv.resume.file = conv.file
           /\ rd \in Due => \A n \in DOMAIN Events[rd].rows : n <= d => Arrives(<<rd, n>>, Len(flight))
<1>1. LogKept /\ FilterKept /\ SerialsKept /\ FileAt(rd) = conv.file /\ rd \in Nat
  BY EventFacts DEF StreamKept
<1>2. conv.resume # None
  BY DEF ShouldSkip
<1>3. Sound(conv.resume) /\ Covered(conv.resume, Len(flight)) /\ conv.resume.file <= conv.file
  BY <1>1, <1>2 DEF FilterKept
<1>4. /\ RowAt(a, d) \in Positions /\ RowAt(a, d).at = a /\ RowAt(a, d).file = conv.file /\ ~RowAt(a, d).snap
      /\ RowAt(a, d).serial = Counted(a) + d /\ Counted(a) \in Nat
  BY RowAtFacts
<1>5. conv.file \in 1 .. 1 + Cardinality(setup.rotations)
  BY <1>1, FileFacts
<1>6. conv.resume.file = conv.file /\ conv.resume.at = a /\ Counted(a) + d <= conv.resume.serial
  BY <1>1, <1>2, <1>3, <1>4, <1>5, Dropped
<1>7. ASSUME rd \in Due, NEW n \in DOMAIN Events[rd].rows, n <= d PROVE Arrives(<<rd, n>>, Len(flight))
  <2>1. ~Ignored(a)
    <3>1. SameTxn(a, rd)
      BY <1>1, AnchorFacts
    <3>2. ~Ignored(rd)
      BY <1>7 DEF Due
    <3> QED BY <3>1, <3>2, IgnoredTogether
  <2>2. Count(a, rd) <= Counted(a)
    BY <1>1, <1>2, <1>6, <2>1 DEF SerialsKept
  <2>3. Count(a, rd) \in Nat /\ conv.resume.serial \in Nat /\ n \in Nat
    <3>1. n \in Nat
      BY <1>1, <1>7, LogFacts, EventFacts
    <3>2. Count(a, rd) \in Nat
      BY <1>1, CountNext
    <3> QED BY <1>3, <3>1, <3>2 DEF Sound, Positions
  <2>4. Count(a, rd) + n <= conv.resume.serial
    BY <1>4, <1>6, <1>7, <2>2, <2>3
  <2>5. Reaches(conv.resume, rd, n)
    BY <1>6, <2>4 DEF Reaches
  <2> QED BY <1>3, <1>7, <2>5 DEF Covered
<1> QED BY <1>2, <1>6, <1>7

\* What a row's position reaches is passed, or is a row before it in its event.
LEMMA RowReaches ==
    ASSUME Kept, Event("rows"), NEW a, AnchoredAt(rd, a), FileAt(a) = conv.file,
           NEW k \in DOMAIN Events[rd].rows, NEW i \in Due, NEW n \in DOMAIN Events[i].rows, Reaches(RowAt(a, k), i, n)
    PROVE  i < rd \/ (i = rd /\ n <= k)
<1>1. /\ LogKept /\ rd \in Nat /\ rd \in DOMAIN Events /\ Events[rd].kind = "rows" /\ i \in Nat /\ i \in DOMAIN Events
      /\ Events[i].kind = "rows" /\ a < rd /\ a \in Nat
  BY EventFacts, LogFacts, AnchorFacts DEF Due
<1>2. k \in 1 .. Len(Events[rd].rows) /\ Len(Events[rd].rows) \in Nat /\ n \in Nat /\ n >= 1
  BY <1>1, LogFacts
<1>3. /\ RowAt(a, k).at = a /\ RowAt(a, k).serial = Counted(a) + k /\ Counted(a) \in Nat /\ Counted(a) <= Count(a, rd)
  BY <1>2, RowAtFacts
<1>4. i < a \/ (AnchoredAt(i, a) /\ Count(a, i) + n <= Counted(a) + k)
  BY <1>3 DEF Reaches
<1>5. Count(a, rd) \in Nat /\ Count(a, i) \in Nat
  BY <1>1, CountNext
<1>6. CASE i < a
  BY <1>1, <1>6
<1>7. CASE i = rd
  BY <1>1, <1>2, <1>3, <1>4, <1>5, <1>7
<1>8. CASE i > rd
  <2>1. Count(a, rd + 1) = Count(a, rd) + Len(Events[rd].rows)
    BY <1>1, CountNext
  <2>2. Count(a, rd + 1) <= Count(a, i)
    BY <1>1, <1>8, CountGrows
  <2>3. Count(a, i) + n <= Counted(a) + k
    BY <1>1, <1>4, <1>8
  <2> QED BY <1>2, <1>3, <1>5, <2>1, <2>2, <2>3
<1> QED BY <1>1, <1>6, <1>7, <1>8

\* Of the rows of event rd, those behind the dth are sent as out.
ConvertsTo(a, d, cv, out) ==
    LET L == Len(Events[rd].rows)
    IN  /\ d # 0 => ShouldSkip(conv, RowAt(a, d))
        /\ cv \in Conversions /\ cv.file = conv.file /\ cv.anchors = conv.anchors /\ cv.previous = a
        /\ cv.serial = Counted(a) + L /\ cv.txn = (IF conv.txn.open THEN conv.txn ELSE OpenTxn)
        /\ cv.resume = IF d = L THEN conv.resume ELSE None
        /\ Len(out) = L - d /\ out \in Seq(Range(out)) /\ DOMAIN out = 1 .. L - d
        /\ \A n \in 1 .. L - d : out[n].pos = RowAt(a, d + n) /\ out[n].at = <<rd, d + n>>

LEMMA Converted ==
    ASSUME Kept, Event("rows"), NEW fits, NEW a, a = Anchor(conv, Events[rd].table, rd),
           AnchoredAt(rd, a), FileAt(a) = conv.file,
           NEW cv, cv = ConvertRows(rd, fits).cv, NEW out, out = ConvertRows(rd, fits).out
    PROVE  \E d \in 0 .. Len(Events[rd].rows) : ConvertsTo(a, d, cv, out)
<1> DEFINE e == Events[rd]
           L == Len(e.rows)
           first == NextSerial(conv, a)
           At(n) == Position(a, conv.file, TRUE, first.serial + n - 1, FALSE)
           dropped == Max({0} \cup {n \in DOMAIN e.rows : ShouldSkip(conv, At(n))})
           One(n) == Item(At(n), [table |-> e.table, k |-> e.rows[n].k], e.rows[n].val, <<rd, n>>, fits, FALSE)
           next == [first EXCEPT !.serial = first.serial + Len(e.rows) - 1,
                               !.txn = IF first.txn.open THEN first.txn ELSE OpenTxn,
                               !.resume = IF dropped = Len(e.rows) THEN first.resume ELSE None]
           sent == [n \in 1 .. Len(e.rows) - dropped |-> One(dropped + n)]
<1>1. cv = next /\ out = sent
  BY DEF ConvertRows
<1>2. /\ LogKept /\ rd \in DOMAIN Events /\ rd \in Nat /\ Events[rd].kind = "rows" /\ conv \in Conversions
      /\ L \in Nat /\ L # 0 /\ DOMAIN e.rows = 1 .. L
  BY EventFacts, LogFacts
<1>3. a \in Nat /\ Counted(a) \in Nat
  BY RowAtFacts, 0 \in Nat
<1>4. /\ first \in Conversions /\ first.file = conv.file /\ first.anchors = conv.anchors /\ first.previous = a
      /\ first.resume = conv.resume /\ first.txn = conv.txn /\ first.serial = 1 + Counted(a)
  BY <1>2, <1>3, NextSerialFacts DEF Counted
<1>5. \A n \in Nat : At(n) = RowAt(a, n)
  <2>1. ASSUME NEW n \in Nat PROVE first.serial + n - 1 = Counted(a) + n
    BY <1>3, <1>4
  <2> QED BY <2>1 DEF RowAt
<1> HIDE DEF first, At
<1>6. dropped \in {0} \cup {n \in DOMAIN e.rows : ShouldSkip(conv, At(n))}
  <2> DEFINE S == {0} \cup {n \in DOMAIN e.rows : ShouldSkip(conv, At(n))}
  <2>1. S \subseteq Nat /\ S # {} /\ \A i \in S : i <= L
    BY <1>2
  <2> HIDE DEF S
  <2>2. Max(S) \in S
    BY <1>2, <2>1, Largest
  <2> QED BY <2>2 DEF S
<1> HIDE DEF dropped
<1>7. dropped \in 0 .. L /\ (dropped # 0 => ShouldSkip(conv, RowAt(a, dropped)))
  <2>1. dropped \in 0 .. L /\ (dropped # 0 => ShouldSkip(conv, At(dropped)))
    BY <1>2, <1>6
  <2> QED BY <1>5, <2>1
<1>8. /\ next \in Conversions /\ next.file = conv.file /\ next.anchors = conv.anchors /\ next.previous = a
      /\ next.serial = Counted(a) + L /\ next.txn = (IF conv.txn.open THEN conv.txn ELSE OpenTxn)
      /\ next.resume = IF dropped = L THEN conv.resume ELSE None
  <2>1. first.serial + L - 1 = Counted(a) + L /\ Counted(a) + L \in Nat
    BY <1>2, <1>3, <1>4
  <2>2. PICK txn : txn = IF conv.txn.open THEN conv.txn ELSE OpenTxn
    OBVIOUS
  <2>3. PICK resume : resume = IF dropped = L THEN conv.resume ELSE None
    OBVIOUS
  <2>4. txn \in [open : BOOLEAN, ignore : BOOLEAN] /\ resume \in Positions /\ conv.file \in Nat
        /\ conv.anchors \in [Tables -> Nat]
    BY <1>2, <2>2, <2>3 DEF Conversions, OpenTxn, None, Position, Positions
  <2>5. next = [file |-> conv.file, anchors |-> conv.anchors, previous |-> a, serial |-> Counted(a) + L,
              resume |-> resume, txn |-> txn]
    <3>1. first = [file |-> conv.file, anchors |-> conv.anchors, previous |-> a, serial |-> first.serial,
                   resume |-> conv.resume, txn |-> conv.txn]
      BY <1>4 DEF Conversions
    <3>2. PICK serial : serial = Counted(a) + L
      OBVIOUS
    <3>3. first.serial + Len(e.rows) - 1 = serial
      BY <2>1, <3>2
    <3>4. PICK one : one = [first EXCEPT !.serial = serial]
      OBVIOUS
    <3>5. one = [file |-> conv.file, anchors |-> conv.anchors, previous |-> a, serial |-> serial,
                 resume |-> conv.resume, txn |-> conv.txn]
      BY <3>1, <3>4
    <3>6. PICK two : two = [one EXCEPT !.txn = txn]
      OBVIOUS
    <3>7. two = [file |-> conv.file, anchors |-> conv.anchors, previous |-> a, serial |-> serial,
                 resume |-> conv.resume, txn |-> txn]
      BY <3>5, <3>6
    <3>8. next = [two EXCEPT !.resume = resume]
      BY <1>4, <2>2, <2>3, <3>3, <3>4, <3>6
    <3> HIDE DEF next
    <3>9. next = [file |-> conv.file, anchors |-> conv.anchors, previous |-> a, serial |-> serial,
                  resume |-> resume, txn |-> txn]
      BY <3>7, <3>8
    <3> QED BY <3>2, <3>9
  <2> HIDE DEF next
  <2> QED BY <1>3, <2>1, <2>2, <2>3, <2>4, <2>5 DEF Conversions
<1>9. /\ Len(sent) = L - dropped /\ sent \in Seq(Range(sent)) /\ DOMAIN sent = 1 .. L - dropped
      /\ \A n \in 1 .. L - dropped : sent[n].pos = RowAt(a, dropped + n) /\ sent[n].at = <<rd, dropped + n>>
  <2>1. L - dropped \in Nat
    BY <1>2, <1>7
  <2>2. \A n \in 1 .. L - dropped : sent[n].pos = At(dropped + n) /\ sent[n].at = <<rd, dropped + n>>
    BY DEF Item
  <2>3. \A n \in 1 .. L - dropped : dropped + n \in Nat
    BY <1>7
  <2>4. DOMAIN sent = 1 .. L - dropped /\ sent = [n \in 1 .. L - dropped |-> sent[n]]
    OBVIOUS
  <2> HIDE DEF sent
  <2>5. sent \in Seq(Range(sent)) /\ Len(sent) = L - dropped
    <3>1. sent \in [1 .. L - dropped -> Range(sent)]
      BY <2>4 DEF Range
    <3> QED BY <2>1, <2>4, <3>1
  <2> QED BY <1>5, <2>2, <2>3, <2>4, <2>5
<1> HIDE DEF next, sent, L
<1> QED BY <1>1, <1>7, <1>8, <1>9 DEF L, ConvertsTo

(* A rows event is passed.                                                  *)

LEMMA IgnoredRowsKept ==
    ASSUME Kept, Event("rows"), rd' = rd + 1, conv.txn.ignore, IncrementalKept',
           UNCHANGED <<phase, setup, written, since, delivered, ckpt, snapshot, maps, conv, flight, lastSafe>>
    PROVE  Kept'
<1>1. /\ LogKept /\ StreamKept /\ FlightKept /\ conv \in Conversions /\ lastSafe \in Positions /\ phase = "streaming"
      /\ rd \in DOMAIN Events /\ rd \in Nat /\ Events[rd].kind = "rows" /\ FileAt(rd) = conv.file
  BY EventFacts DEF Kept
<1>2. Ignored(rd)
  <2>1. rd > 1 /\ Ignored(rd - 1)
    BY <1>1 DEF StreamKept, TxnKept
  <2> QED BY <1>1, <2>1, TxnGoesOn
<1>3. rd \notin Due
  BY <1>2 DEF Due
<1>4. FlightKept' /\ \A x : Arrives(x, Len(flight)) => Arrives(x, Len(flight))'
  BY <1>1, FlightStays
<1>5. SafeKept'
  BY <1>4, SafePasses
<1>6. AnchorsKept'
  BY <1>1, AnchorsPass DEF StreamKept
<1>7. SerialsKept'
  BY <1>1, <1>2, SerialsPass DEF StreamKept
<1>8. TxnKept'
  <2>1. conv'.txn.ignore => conv'.txn.open /\ conv.txn.ignore
    BY <1>1 DEF StreamKept, TxnKept
  <2> QED BY <1>1, <2>1, TxnPasses DEF StreamKept
<1> QED BY <1>1, <1>3, <1>4, <1>5, <1>6, <1>7, <1>8, EventKept

\* The rows behind those the filter drops are sent; a is their anchor.
LEMMA RowsSent ==
    ASSUME Kept, Event("rows"), NEW a, AnchoredAt(rd, a), FileAt(a) = conv.file,
           conv.resume # None => conv.resume.at <= a, UNCHANGED <<setup, written, since, delivered>>,
           NEW d \in 0 .. Len(Events[rd].rows), d # 0 => ShouldSkip(conv, RowAt(a, d)),
           NEW out, out \in Seq(Range(out)), DOMAIN out = 1 .. Len(Events[rd].rows) - d,
           \A n \in 1 .. Len(Events[rd].rows) - d : out[n].pos = RowAt(a, d + n) /\ out[n].at = <<rd, d + n>>,
           flight' = flight \o out
    PROVE  /\ FlightKept' /\ \A x : Arrives(x, Len(flight)) => Arrives(x, Len(flight))'
           /\ rd \in Due => \A x : (\E n \in DOMAIN Events[rd].rows : x = <<rd, n>>) => Arrives(x, Len(flight))'
<1> DEFINE L == Len(Events[rd].rows)
<1>1. /\ LogKept /\ CursorKept /\ FlightKept /\ rd \in DOMAIN Events /\ L \in Nat /\ L # 0 /\ DOMAIN Events[rd].rows = 1 .. L
  BY EventFacts, LogFacts DEF StreamKept, Kept
<1>2. rd \in Due => \A n \in DOMAIN Events[rd].rows : n <= d => Arrives(<<rd, n>>, Len(flight))
  <2>1. CASE d = 0
    BY <1>1, <2>1
  <2>2. CASE d # 0
    <3>1. d \in Nat
      BY <1>1
    <3> QED BY <2>2, <3>1, RowsDropped
  <2> QED BY <2>1, <2>2
<1>3. \A n \in 1 .. L - d : d + n \in 1 .. L /\ d + n \in Nat
  BY <1>1
<1>4. \A k \in 1 .. L : k > d => k - d \in 1 .. L - d /\ d + (k - d) = k
  BY <1>1
<1>5. ASSUME NEW n \in DOMAIN out
      PROVE  /\ Sound(out[n].pos)
             /\ \A i \in Due : \A m \in DOMAIN Events[i].rows :
                  Reaches(out[n].pos, i, m) => Arrives(<<i, m>>, Len(flight)) \/ \E k \in 1 .. n : out[k].at = <<i, m>>
  <2>1. n \in 1 .. L - d /\ out[n].pos = RowAt(a, d + n) /\ d + n \in 1 .. L /\ d + n \in Nat
    BY <1>3
  <2>2. Sound(out[n].pos)
    BY <2>1, RowAtFacts
  <2>3. ASSUME NEW i \in Due, NEW m \in DOMAIN Events[i].rows, Reaches(out[n].pos, i, m)
        PROVE  Arrives(<<i, m>>, Len(flight)) \/ \E k \in 1 .. n : out[k].at = <<i, m>>
    <3>1. i < rd \/ (i = rd /\ m <= d + n)
      BY <1>1, <2>1, <2>3, RowReaches
    <3>2. CASE i < rd
      BY <1>1, <3>2 DEF CursorKept
    <3>3. CASE i = rd /\ m <= d
      BY <1>2, <3>3
    <3>4. CASE i = rd /\ m <= d + n /\ ~(m <= d)
      <4>1. m \in 1 .. L
        BY <1>1, <3>4
      <4>2. m - d \in 1 .. n /\ m - d \in 1 .. L - d /\ d + (m - d) = m
        BY <1>1, <2>1, <3>4, <4>1
      <4>3. \A k \in 1 .. L - d : out[k].at = <<rd, d + k>>
        OBVIOUS
      <4>4. out[m - d].at = <<rd, m>>
        BY <4>2, <4>3
      <4> QED BY <3>4, <4>2, <4>4
    <3> QED BY <3>1, <3>2, <3>3, <3>4
  <2> QED BY <2>2, <2>3
<1>6. /\ FlightKept'
      /\ \A x : Arrives(x, Len(flight)) => Arrives(x, Len(flight))'
      /\ \A x : (\E n \in DOMAIN out : out[n].at = x) => Arrives(x, Len(flight))'
  <2>1. PICK S : S = Range(out)
    OBVIOUS
  <2> QED BY <1>1, <1>5, <2>1, Sends
<1>7. ASSUME rd \in Due, NEW n \in DOMAIN Events[rd].rows, NEW x, x = <<rd, n>> PROVE Arrives(x, Len(flight))'
  <2>1. CASE n <= d
    <3>1. Arrives(x, Len(flight))
      BY <1>2, <1>7, <2>1
    <3> QED BY <1>6, <3>1
  <2>2. CASE ~(n <= d)
    <3>1. n \in 1 .. L /\ n > d
      BY <1>1, <2>2
    <3>2. PICK j : j = n - d
      OBVIOUS
    <3>3. j \in 1 .. L - d /\ d + j = n
      BY <1>4, <3>1, <3>2
    <3>4. j \in DOMAIN out /\ out[j].at = x
      BY <1>7, <3>3
    <3> QED BY <1>6, <3>4
  <2> QED BY <2>1, <2>2
<1> QED BY <1>6, <1>7

LEMMA LastOfBoth ==
    ASSUME NEW S, NEW f \in Seq(S), NEW g \in Seq(S), NEW n \in Nat, NEW k \in Nat, n = Len(f), k = Len(g), k >= 1
    PROVE  Len(f \o g) = n + k /\ (f \o g)[n + k] = g[k]
<1>1. n + k \in 1 .. n + k /\ ~(n + k <= n) /\ (n + k) - n = k
  OBVIOUS
<1>2. Len(f \o g) = Len(f) + Len(g)
  OBVIOUS
<1>3. \A m \in 1 .. Len(f) + Len(g) : (f \o g)[m] = IF m <= Len(f) THEN f[m] ELSE g[m - Len(f)]
  OBVIOUS
<1> QED BY <1>1, <1>2, <1>3

LEMMA ConvertedKept ==
    ASSUME Kept, Event("rows"), Events[rd].table \in maps, rd' = rd + 1, ~conv.txn.ignore, IncrementalKept',
           UNCHANGED <<phase, setup, written, since, delivered, ckpt, snapshot, maps>>, NEW fits,
           conv' = ConvertRows(rd, fits).cv, flight' = flight \o ConvertRows(rd, fits).out,
           IF ConvertRows(rd, fits).out = <<>> THEN UNCHANGED lastSafe
           ELSE lastSafe' = Last(ConvertRows(rd, fits).out).pos
    PROVE  Kept'
<1> DEFINE L == Len(Events[rd].rows)
<1>1. /\ LogKept /\ StreamKept /\ FlightKept /\ SnapshotKept /\ CheckpointKept /\ conv \in Conversions
      /\ lastSafe \in Positions /\ phase = "streaming"
      /\ rd \in DOMAIN Events /\ rd \in Nat /\ Events[rd].kind = "rows" /\ FileAt(rd) = conv.file /\ rd <= written
      /\ written \in Nat
  BY EventFacts DEF Kept
<1>2. PICK a : a = Anchor(conv, Events[rd].table, rd)
  OBVIOUS
<1>3. /\ AnchoredAt(rd, a) /\ FileAt(a) = conv.file /\ a \in Nat /\ a < rd /\ (conv.resume # None => conv.resume.at <= a)
  BY <1>2, AnchorOfRows
<1>4. PICK cv, out : cv = ConvertRows(rd, fits).cv /\ out = ConvertRows(rd, fits).out
  OBVIOUS
<1>5. PICK d \in 0 .. L : ConvertsTo(a, d, cv, out)
  BY <1>2, <1>3, <1>4, Converted
<1>6. /\ d # 0 => ShouldSkip(conv, RowAt(a, d))
      /\ cv \in Conversions /\ cv.file = conv.file /\ cv.anchors = conv.anchors /\ cv.previous = a
      /\ cv.serial = Counted(a) + L /\ cv.txn = (IF conv.txn.open THEN conv.txn ELSE OpenTxn)
      /\ cv.resume = IF d = L THEN conv.resume ELSE None
      /\ Len(out) = L - d /\ out \in Seq(Range(out)) /\ DOMAIN out = 1 .. L - d
      /\ \A n \in 1 .. L - d : out[n].pos = RowAt(a, d + n) /\ out[n].at = <<rd, d + n>>
  BY <1>5 DEF ConvertsTo
<1>7. conv' = cv /\ flight' = flight \o out /\ IF out = <<>> THEN UNCHANGED lastSafe ELSE lastSafe' = Last(out).pos
  BY <1>4
<1>8. L \in Nat /\ L # 0
  BY <1>1, LogFacts
<1>9. /\ FlightKept' /\ \A x : Arrives(x, Len(flight)) => Arrives(x, Len(flight))'
      /\ rd \in Due => \A x : (\E n \in DOMAIN Events[rd].rows : x = <<rd, n>>) => Arrives(x, Len(flight))'
  <2>1. UNCHANGED <<setup, written, since, delivered>>
    OBVIOUS
  <2>2. out \in Seq(Range(out)) /\ DOMAIN out = 1 .. Len(Events[rd].rows) - d /\ d \in 0 .. Len(Events[rd].rows)
    BY <1>6
  <2>3. \A n \in 1 .. Len(Events[rd].rows) - d : out[n].pos = RowAt(a, d + n) /\ out[n].at = <<rd, d + n>>
    BY <1>6
  <2>4. flight' = flight \o out /\ (d # 0 => ShouldSkip(conv, RowAt(a, d)))
    BY <1>6, <1>7
  <2> HIDE DEF L
  <2> QED BY ONLY Kept, Event("rows"), <1>3, <2>1, <2>2, <2>3, <2>4, RowsSent
<1>10. Counted(a) \in Nat /\ Counted(a) <= Count(a, rd) /\ Count(a, rd) \in Nat /\ Count(a, rd + 1) = Count(a, rd) + L
  BY <1>1, <1>3, <1>8, RowAtFacts, CountNext
<1>11. CursorKept'
  <2>1. rd' \in 1 .. written' + 1
    BY <1>1
  <2>2. Due' = Due /\ Events' = Events
    BY DueStays, Rigid
  <2>3. ASSUME NEW i \in Due, i < rd + 1, NEW n \in DOMAIN Events[i].rows PROVE Arrives(<<i, n>>, Len(flight))'
    <3>1. PICK x : x = <<i, n>>
      OBVIOUS
    <3>2. CASE i = rd
      BY <1>9, <2>3, <3>1, <3>2
    <3>3. CASE i # rd
      <4>1. i < rd
        <5>1. i \in Nat
          BY <1>1, LogFacts DEF Due
        <5> QED BY <1>1, <2>3, <3>3, <5>1
      <4>2. Arrives(x, Len(flight))
        BY <1>1, <3>1, <4>1 DEF StreamKept, CursorKept
      <4> QED BY <1>9, <3>1, <4>2
    <3> QED BY <3>2, <3>3
  <2> QED BY <2>1, <2>2, <2>3 DEF CursorKept
<1>12. lastSafe' \in Positions /\ SafeKept'
  <2>1. CASE out = <<>>
    <3>1. (conv.txn.open => conv'.txn.open) \/ rd \in setup.ends
      BY <1>6, <1>7
    <3> QED BY <1>1, <1>7, <1>9, <2>1, <3>1, SafePasses
  <2>2. CASE out # <<>>
    <3>1. L - d \in 1 .. L - d /\ d + (L - d) = L /\ L - d \in Nat
      <4>1. Len(out) # 0
        BY <1>6, <2>2
      <4> QED BY <1>6, <1>8, <4>1
    <3>2. lastSafe' = out[L - d].pos /\ out[L - d].pos = RowAt(a, L)
      BY <1>6, <1>7, <2>2, <3>1 DEF Last
    <3>3. PICK p, j : p = lastSafe' /\ j = Len(flight')
      OBVIOUS
    <3>4. j \in DOMAIN flight' /\ flight'[j] = out[L - d]
      <4>1. Len(flight) \in Nat /\ flight \in Seq(Range(flight))
        BY <1>1 DEF FlightKept
      <4>2. PICK S : S = Range(flight) \cup Range(out)
        OBVIOUS
      <4>3. flight \in Seq(S) /\ out \in Seq(S)
        BY <1>6, <4>1, <4>2
      <4>4. Len(flight \o out) = Len(flight) + (L - d) /\ (flight \o out)[Len(flight) + (L - d)] = out[L - d]
        <5>1. PICK n, k : n = Len(flight) /\ k = L - d
          OBVIOUS
        <5>2. n \in Nat /\ k \in Nat /\ Len(out) = k /\ k >= 1
          BY <1>6, <3>1, <4>1, <5>1
        <5>3. PICK f : f = flight
          OBVIOUS
        <5>4. f \in Seq(S) /\ out \in Seq(S) /\ n = Len(f) /\ k = Len(out) /\ n \in Nat /\ k \in Nat /\ k >= 1
          BY <4>3, <5>1, <5>2, <5>3
        <5> HIDE DEF L
        <5>5. Len(f \o out) = n + k /\ (f \o out)[n + k] = out[k]
          <6>1. \A x \in Seq(S), y \in Seq(S) : \A i \in Nat, h \in Nat :
                  i = Len(x) /\ h = Len(y) /\ h >= 1 => Len(x \o y) = i + h /\ (x \o y)[i + h] = y[h]
            BY LastOfBoth
          <6> QED BY ONLY <5>4, <6>1
        <5> QED BY <5>1, <5>3, <5>5
      <4> QED BY <1>7, <3>1, <3>3, <4>1, <4>3, <4>4
    <3>5. Sound(p)' /\ Covered(p, j)'
      <4>1. p = flight'[j].pos
        BY <3>2, <3>3, <3>4
      <4> QED BY <1>9, <3>4, <4>1 DEF FlightKept
    <3>6. lastSafe' \in Positions /\ lastSafe'.at = a
      <4>1. RowAt(a, L) \in Positions /\ RowAt(a, L).at = a
        BY <1>3, <1>8, RowAtFacts
      <4> QED BY <3>2, <4>1
    <3>7. conv'.txn.open
      BY <1>6, <1>7 DEF OpenTxn
    <3> QED BY <1>1, <1>3, <3>3, <3>5, <3>6, <3>7 DEF SafeKept
  <2> QED BY <2>1, <2>2
<1>13. conv'.resume \in {conv.resume, None}
  BY <1>6, <1>7
<1>14. FilterKept'
  BY <1>1, <1>6, <1>7, <1>9, <1>13, FilterPasses DEF StreamKept
<1>15. AnchorsKept'
  BY <1>1, <1>6, <1>7, <1>13, AnchorsPass DEF StreamKept
<1>16. SerialsKept'
  <2>1. Events' = Events /\ (\A i : Ignored(i)' <=> Ignored(i)) /\ \A b, i : Count(b, i)' = Count(b, i)
    BY Rigid
  <2>2. Counted(a)' = Counted(a) + L /\ Counted(a)' <= Count(a, rd + 1) /\ \A b : b # a => Counted(b)' = 0
    <3>1. conv'.previous = a /\ conv'.serial = Counted(a) + L
      BY <1>6, <1>7
    <3>2. \A b : Counted(b)' = IF conv'.previous = b THEN conv'.serial ELSE 0
      BY DEF Counted
    <3>3. PICK k : k = a
      OBVIOUS
    <3> QED BY <1>8, <1>10, <3>1, <3>2
  <2>3. \A b \in DOMAIN Events : Counted(b)' <= Count(b, rd + 1)
    <3>1. \A b : Count(b, rd + 1) \in Nat
      BY <1>1, CountNext
    <3> QED BY <2>2, <3>1
  <2>4. \A b \in DOMAIN Events : Events[b].kind = "map" => Counted(b)' <= Count(b, rd)'
    BY <2>1, <2>3
  <2>5. ASSUME conv'.resume # None, conv'.file = conv'.resume.file
        PROVE  \E b : b = conv'.resume.at /\ (Ignored(b)' \/ Count(b, rd)' <= Counted(b)')
    <3>1. d = L /\ conv'.resume = conv.resume
      BY <1>6, <1>7, <2>5
    <3>2. conv.resume.at = a /\ conv.resume # None /\ conv.file = conv.resume.file
      BY <1>3, <1>6, <1>8, <3>1, RowsDropped
    <3>3. Ignored(a) \/ Count(a, rd) <= Counted(a)
      BY <1>1, <3>2 DEF StreamKept, SerialsKept
    <3>4. Ignored(a) \/ Count(a, rd + 1) <= Counted(a)'
      BY <1>8, <1>10, <2>2, <3>3
    <3> QED BY <2>1, <3>1, <3>2, <3>4
  <2> QED BY <2>1, <2>4, <2>5 DEF SerialsKept
<1>17. TxnKept'
  <2>1. ~conv'.txn.ignore
    BY <1>6, <1>7 DEF OpenTxn
  <2> QED BY <2>1 DEF TxnKept
<1>18. LogKept' /\ SnapshotKept' /\ CheckpointKept'
  BY <1>1, LogStays, SnapshotStays, CheckpointStays
<1>19. conv' \in Conversions' /\ lastSafe' \in Positions'
  BY <1>6, <1>7, <1>12, Rigid
<1> QED BY <1>9, <1>11, <1>12, <1>14, <1>15, <1>16, <1>17, <1>18, <1>19 DEF Kept, StreamKept

LEMMA RowsKept ==
    ASSUME Kept, Rows
    PROVE  Kept'
<1>1. /\ Event("rows") /\ Events[rd].table \in maps /\ rd' = rd + 1 /\ inc' = Observe(inc, rd)
      /\ UNCHANGED <<phase, setup, written, since, delivered, ckpt, snapshot, prep, maps>>
  BY DEF Rows, Passed, eventRest, server, durable
<1>2. IncrementalKept'
  <2>1. Shaped(inc')
    BY <1>1, ShapeOfObserved DEF Kept, IncrementalKept
  <2> QED BY <1>1, <2>1 DEF Kept, IncrementalKept
<1>3. PICK fits : fits = (schemas[Events[rd].table] = LayoutAt(rd)[Events[rd].table])
  OBVIOUS
<1>4. \/ conv.txn.ignore /\ UNCHANGED <<conv, flight, lastSafe>>
      \/ /\ ~conv.txn.ignore /\ conv' = ConvertRows(rd, fits).cv /\ flight' = flight \o ConvertRows(rd, fits).out
         /\ IF ConvertRows(rd, fits).out = <<>> THEN UNCHANGED lastSafe
            ELSE lastSafe' = Last(ConvertRows(rd, fits).out).pos
  BY <1>3 DEF Rows
<1>5. CASE conv.txn.ignore /\ UNCHANGED <<conv, flight, lastSafe>>
  BY <1>1, <1>2, <1>5, IgnoredRowsKept
<1>6. CASE ~(conv.txn.ignore /\ UNCHANGED <<conv, flight, lastSafe>>)
  BY <1>1, <1>2, <1>4, <1>6, ConvertedKept
<1> QED BY <1>5, <1>6

-----------------------------------------------------------------------------
(* Steps beside the stream: the connection stays where it is.               *)

LEMMA CoveredDue ==
    ASSUME LogKept, UNCHANGED <<setup, since>>, NEW k, NEW j,
           \A i \in Due : \A n \in DOMAIN Events[i].rows : Arrives(<<i, n>>, k) => Arrives(<<i, n>>, j)'
    PROVE  \A p : Covered(p, k) => Covered(p, j)'
<1>1. Due' = Due /\ Events' = Events /\ \A p, i, n : Reaches(p, i, n)' <=> Reaches(p, i, n)
  BY DueStays, Rigid
<1> QED BY <1>1 DEF Covered

LEMMA StreamStays ==
    ASSUME LogKept, StreamKept, UNCHANGED <<setup, since, rd, conv>>, written' \in Nat, written <= written',
           maps' = {} \/ (UNCHANGED maps /\ (phase = "opening" => phase' = "opening")),
           \A p : Sound(p) => Sound(p)',
           \A i \in Due : \A n \in DOMAIN Events[i].rows :
             Arrives(<<i, n>>, Len(flight)) => Arrives(<<i, n>>, Len(flight))',
           UNCHANGED lastSafe \/ SafeKept'
    PROVE  StreamKept'
<1>1. /\ Due' = Due /\ Events' = Events /\ Tables' = Tables /\ (\A i : FileAt(i)' = FileAt(i))
      /\ (\A m, t : Maps(m, t)' <=> Maps(m, t)) /\ (\A i, a : AnchoredAt(i, a)' <=> AnchoredAt(i, a))
      /\ (\A i : Ignored(i)' <=> Ignored(i)) /\ \A a, i : Count(a, i)' = Count(a, i)
  BY DueStays, Rigid
<1>2. PICK k, j : k = Len(flight) /\ j = Len(flight')
  OBVIOUS
<1>3. \A p : Covered(p, k) => Covered(p, j)'
  <2>1. \A i \in Due : \A n \in DOMAIN Events[i].rows : Arrives(<<i, n>>, k) => Arrives(<<i, n>>, j)'
    BY <1>2
  <2> QED BY <2>1, CoveredDue
<1>4. CursorKept'
  <2>1. rd' \in 1 .. written' + 1
    <3>1. rd \in 1 .. written + 1 /\ written \in Nat
      BY LogFacts DEF StreamKept, CursorKept
    <3>2. rd' = rd /\ written' \in Nat /\ written <= written'
      OBVIOUS
    <3>3. PICK r, w, v : r = rd /\ w = written /\ v = written'
      OBVIOUS
    <3>4. r \in Nat /\ 1 <= r /\ r <= w + 1 /\ w \in Nat /\ v \in Nat /\ w <= v
      BY ONLY <3>1, <3>2, <3>3
    <3>5. r \in 1 .. v + 1
      BY ONLY <3>4
    <3> QED BY ONLY <3>2, <3>3, <3>5
  <2> QED BY <1>1, <2>1 DEF StreamKept, CursorKept
<1>5. SafeKept'
  <2>1. CASE UNCHANGED lastSafe
    <3>1. PICK p : p = lastSafe
      OBVIOUS
    <3>2. Sound(p)' /\ Covered(p, j)'
      BY <1>2, <1>3, <3>1 DEF StreamKept, SafeKept
    <3>3. p.at <= rd /\ (conv.txn.open \/ \A i \in rd .. Len(Events) : ~AnchoredAt(i, p.at))
      BY <3>1 DEF StreamKept, SafeKept
    <3> QED BY <1>1, <1>2, <2>1, <3>1, <3>2, <3>3 DEF SafeKept
  <2> QED BY <2>1
<1>6. FilterKept'
  <2>1. ASSUME conv.resume # None
        PROVE  \E p : /\ p = conv'.resume /\ Sound(p)' /\ Covered(p, Len(flight))' /\ p.at <= rd' /\ p.file <= conv'.file
    <3>1. PICK p : p = conv.resume
      OBVIOUS
    <3>2. Sound(p)' /\ Covered(p, j)' /\ p.at <= rd /\ p.file <= conv.file
      BY <1>2, <1>3, <2>1, <3>1 DEF StreamKept, FilterKept
    <3> QED BY <1>2, <3>1, <3>2
  <2> QED BY <2>1 DEF FilterKept
<1>7. AnchorsKept'
  BY <1>1 DEF StreamKept, AnchorsKept
<1>8. SerialsKept'
  <2>1. \A a : Counted(a)' = Counted(a)
    BY DEF Counted
  <2>2. \A a \in DOMAIN Events : Events[a].kind = "map" => Counted(a)' <= Count(a, rd)'
    BY <1>1, <2>1 DEF StreamKept, SerialsKept
  <2>3. ASSUME conv'.resume # None, conv'.file = conv'.resume.file
        PROVE  \E a : a = conv'.resume.at /\ (Ignored(a)' \/ Count(a, rd)' <= Counted(a)')
    BY <1>1, <2>1, <2>3 DEF StreamKept, SerialsKept
  <2> QED BY <1>1, <2>2, <2>3 DEF SerialsKept
<1>9. TxnKept'
  <2>1. ASSUME conv'.txn.ignore PROVE \E i : i = rd' - 1 /\ Ignored(i)'
    BY <1>1, <2>1 DEF StreamKept, TxnKept
  <2> QED BY <2>1 DEF StreamKept, TxnKept
<1> QED BY <1>4, <1>5, <1>6, <1>7, <1>8, <1>9 DEF StreamKept

\* Incremental snapshots, signals, heartbeats and the connection itself.
LEMMA BesideKept ==
    ASSUME Kept, UNCHANGED <<setup, written, since, delivered, ckpt, snapshot, conv, rd>>, IncrementalKept', FlightKept',
           \A x : Arrives(x, Len(flight)) => Arrives(x, Len(flight))',
           UNCHANGED lastSafe \/ (lastSafe' \in Positions /\ SafeKept'),
           maps' = {} \/ (UNCHANGED maps /\ (phase = "opening" => phase' = "opening")),
           phase' = "snapshot" => phase = "snapshot", Connected' => Connected
    PROVE  Kept'
<1>1. LogKept /\ SnapshotKept /\ CheckpointKept /\ conv \in Conversions /\ lastSafe \in Positions /\ written \in Nat
  BY LogFacts DEF Kept
<1>2. LogKept' /\ SnapshotKept' /\ CheckpointKept'
  BY <1>1, LogStays, SnapshotStays, CheckpointStays
<1>3. conv' \in Conversions' /\ lastSafe' \in Positions'
  BY <1>1, Rigid
<1>4. Connected' => StreamKept'
  <2>1. SUFFICES ASSUME Connected' PROVE StreamKept'
    OBVIOUS
  <2>2. StreamKept
    BY <2>1 DEF Kept
  <2>3. \A p : Sound(p) => Sound(p)'
    BY SoundStays
  <2>4. ASSUME NEW i \in Due, NEW n \in DOMAIN Events[i].rows, Arrives(<<i, n>>, Len(flight))
        PROVE  Arrives(<<i, n>>, Len(flight))'
    <3>1. PICK x : x = <<i, n>>
      OBVIOUS
    <3>2. Arrives(x, Len(flight))'
      BY <2>4, <3>1
    <3> QED BY <3>1, <3>2
  <2>5. written' \in Nat /\ written <= written'
    BY <1>1
  <2> QED BY <1>1, <2>2, <2>3, <2>4, <2>5, StreamStays
<1> QED BY <1>2, <1>3, <1>4 DEF Kept

LEMMA PresentFinite ==
    ASSUME LogKept, NEW t
    PROVE  IsFiniteSet(Present(t))
<1>1. IsFiniteSet(DOMAIN setup.rows)
  BY MySqlAssumption DEF LogKept
<1>2. Present(t) \subseteq DOMAIN setup.rows
  BY DEF Present, Keys
<1> QED BY <1>1, <1>2, FS_Subset

LEMMA ChunkKept ==
    ASSUME Kept, Chunk
    PROVE  Kept'
<1>1. UNCHANGED <<setup, written, since, delivered, ckpt, snapshot, conv, rd, flight, lastSafe, maps, phase>>
  BY DEF Chunk, ChunkLow, ChunkMax, ChunkRows, ChunkHigh, prepRest, server, durable, task, conn
<1>2. IncrementalKept /\ FlightKept /\ LogKept
  BY DEF Kept
<1>3. PICK step, low, max, rows, fits :
        prep = [step |-> step, low |-> low, max |-> max, rows |-> rows, fits |-> fits] /\ IsFiniteSet(rows)
  BY <1>2 DEF IncrementalKept
<1>4. ASSUME NEW s, NEW l, NEW m, NEW r, IsFiniteSet(r), NEW f,
             prep' = [step |-> s, low |-> l, max |-> m, rows |-> r, fits |-> f], Shaped(inc')
      PROVE  IncrementalKept'
  BY <1>4 DEF IncrementalKept
<1>5. IsFiniteSet({})
  BY FS_EmptySet
<1>6. ASSUME ChunkLow PROVE IncrementalKept'
  <2>1. prep' = [NoPrep EXCEPT !.step = "max", !.low = EndOfLog, !.max = inc.progress.max] /\ UNCHANGED inc
    BY <1>6 DEF ChunkLow
  <2>2. prep' = [step |-> "max", low |-> EndOfLog, max |-> inc.progress.max, rows |-> {}, fits |-> TRUE]
    BY <2>1 DEF NoPrep
  <2> QED BY <1>2, <1>4, <1>5, <2>1, <2>2 DEF IncrementalKept
<1>7. ASSUME ChunkMax PROVE IncrementalKept'
  <2> DEFINE largest == IF prep.max = 0 THEN Max({0} \cup {key.k : key \in Present(ThisTable)}) ELSE prep.max
  <2>1. prep' = [prep EXCEPT !.step = "rows", !.max = largest] /\ UNCHANGED inc
    BY <1>7 DEF ChunkMax
  <2> HIDE DEF largest
  <2>2. PICK one, s : s = "rows" /\ one = [prep EXCEPT !.step = s]
    OBVIOUS
  <2>3. one = [step |-> s, low |-> low, max |-> max, rows |-> rows, fits |-> fits]
    BY <1>3, <2>2
  <2>4. [one EXCEPT !.max = largest] = [step |-> s, low |-> low, max |-> largest, rows |-> rows, fits |-> fits]
    BY <2>3
  <2>5. prep' = [step |-> s, low |-> low, max |-> largest, rows |-> rows, fits |-> fits]
    BY <2>1, <2>2, <2>4
  <2> QED BY <1>2, <1>3, <1>4, <2>1, <2>5 DEF IncrementalKept
<1>8. ASSUME ChunkRows PROVE IncrementalKept'
  <2> DEFINE due == {key \in Present(ThisTable) : key.k > inc.progress.last /\ key.k <= prep.max}
             keys == {key \in due : Cardinality({x \in due : x.k < key.k}) < ChunkSize}
             read == {[key |-> key, val |-> TableAt(applied)[key]] : key \in keys}
             fit == (schemas[ThisTable] = LayoutAt(applied)[ThisTable])
  <2>1. prep' = [prep EXCEPT !.step = "high", !.rows = read, !.fits = fit] /\ UNCHANGED inc
    BY <1>8 DEF ChunkRows
  <2>2. IsFiniteSet(keys)
    <3>1. keys \subseteq Present(ThisTable)
      OBVIOUS
    <3> HIDE DEF keys
    <3> QED BY <1>2, <3>1, PresentFinite, FS_Subset
  <2>3. IsFiniteSet(read)
    <3> DEFINE f == [key \in keys |-> [key |-> key, val |-> TableAt(applied)[key]]]
    <3> HIDE DEF keys
    <3>1. f \in Surjection(keys, read)
      BY DEF Surjection
    <3> HIDE DEF f, read
    <3> QED BY <2>2, <3>1, FS_Surjection
  <2> HIDE DEF read, fit
  <2>4. PICK one, s : s = "high" /\ one = [prep EXCEPT !.step = s]
    OBVIOUS
  <2>5. one = [step |-> s, low |-> low, max |-> max, rows |-> rows, fits |-> fits]
    BY <1>3, <2>4
  <2>6. PICK two : two = [one EXCEPT !.rows = read]
    OBVIOUS
  <2>7. two = [step |-> s, low |-> low, max |-> max, rows |-> read, fits |-> fits]
    BY <2>5, <2>6
  <2>8. [two EXCEPT !.fits = fit] = [step |-> s, low |-> low, max |-> max, rows |-> read, fits |-> fit]
    BY <2>7
  <2>9. prep' = [step |-> s, low |-> low, max |-> max, rows |-> read, fits |-> fit]
    BY <2>1, <2>4, <2>6, <2>8
  <2> QED BY <1>2, <1>4, <2>1, <2>3, <2>9 DEF IncrementalKept
<1>9. ASSUME ChunkHigh PROVE IncrementalKept'
  <2> DEFINE w == [table |-> ThisTable, low |-> prep.low, high |-> EndOfLog, rows |-> prep.rows,
                   max |-> prep.max, last |-> Max({0} \cup {r.key.k : r \in prep.rows}),
                   count |-> Cardinality(prep.rows), fits |-> prep.fits]
  <2>1. prep' = NoPrep /\ inc' = [inc EXCEPT !.window = w]
    BY <1>9 DEF ChunkHigh
  <2>2. ShapedWindow(w)
    BY <1>2 DEF ShapedWindow, IncrementalKept
  <2> HIDE DEF w
  <2>3. Shaped(inc')
    BY <1>2, <2>1, <2>2, Reshaped DEF IncrementalKept
  <2> QED BY <1>4, <1>5, <2>1, <2>3 DEF NoPrep
<1>10. IncrementalKept'
  BY <1>6, <1>7, <1>8, <1>9 DEF Chunk
<1>11. FlightKept' /\ \A x : Arrives(x, Len(flight)) => Arrives(x, Len(flight))'
  BY <1>1, <1>2, FlightStays
<1> QED BY <1>1, <1>10, <1>11, BesideKept DEF Connected


LEMMA WindowFinished ==
    ASSUME Kept, FinishWindow
    PROVE  Kept'
<1> DEFINE rows == InOrder(inc.window.rows, LAMBDA a, b : a.key.k < b.key.k)
           last == IncrementalPosition(inc.serial + Len(rows) + 1)
           el(n) == Item(IncrementalPosition(inc.serial + n), rows[n].key, rows[n].val, <<0, 0>>, inc.window.fits, FALSE)
           items == [n \in DOMAIN rows |-> el(n)]
           mark == Mark(last, TRUE, State(schemas, Advance(inc)))
           s == items \o <<mark>>
           after == [Advance(inc) EXCEPT !.window = NoWindow]
           clean == [after EXCEPT !.dirty = FALSE]
<1>1. /\ phase = "streaming" /\ ~conv.txn.open /\ lastSafe' = last
      /\ flight' = flight \o items \o <<mark>>
      /\ inc' = [clean EXCEPT !.serial = Advance(inc).serial + Len(rows) + 1]
      /\ UNCHANGED <<phase, setup, written, since, delivered, ckpt, snapshot, prep, conv, rd, maps>>
  BY DEF FinishWindow, WindowDue, server, durable, conn
<1>2. /\ LogKept /\ StreamKept /\ FlightKept /\ IncrementalKept /\ lastSafe \in Positions /\ rd \in Nat
      /\ Len(Events) \in Nat /\ lastSafe.at \in Nat
  <2>1. LogKept /\ StreamKept /\ FlightKept /\ IncrementalKept /\ lastSafe \in Positions
    BY <1>1 DEF Kept, Connected
  <2> HIDE DEF rows
  <2>2. Len(Events) \in Nat /\ written \in Nat
    BY <2>1, LogFacts
  <2> QED BY <2>1, <2>2 DEF StreamKept, CursorKept, Positions
<1>3. inc.serial \in Nat /\ Cardinality(inc.window.rows) \in Nat
  BY <1>2, FS_CardinalityType DEF IncrementalKept, Shaped, ShapedWindow
<1>4. Len(rows) \in Nat /\ DOMAIN rows = 1 .. Len(rows)
  BY <1>3 DEF InOrder
<1>5. \A n \in Nat :
        LET p == IncrementalPosition(n)
        IN  Sound(p) /\ Covered(p, Len(flight)) /\ p \in Positions /\ p.at = lastSafe.at
  <2>1. ASSUME NEW n \in Nat, NEW p, p = IncrementalPosition(n)
        PROVE  Sound(p) /\ Covered(p, Len(flight)) /\ p \in Positions /\ p.at = lastSafe.at
    <3>1. Sound(lastSafe) /\ lastSafe.at <= rd /\ \A i \in rd .. Len(Events) : ~AnchoredAt(i, lastSafe.at)
      BY <1>1, <1>2 DEF StreamKept, SafeKept
    <3>2. lastSafe.serial + n \in Nat
      BY <1>2 DEF Positions
    <3>3. p = [file |-> lastSafe.file, at |-> lastSafe.at, gtid |-> lastSafe.gtid, serial |-> lastSafe.serial + n,
               snap |-> FALSE]
      BY <2>1 DEF IncrementalPosition, Position
    <3>4. p \in Positions
      BY <1>2, <3>2, <3>3 DEF Positions
    <3>5. Sound(p)
      BY <3>1, <3>3, <3>4 DEF Sound
    <3>6. \A i : AnchoredAt(i, p.at) => i < rd
      <4>1. ASSUME NEW i, AnchoredAt(i, p.at) PROVE i < rd
        <5>1. i \in 1 .. Len(Events)
          BY <1>2, <4>1, AnchorFacts, LogFacts
        <5> QED BY <1>2, <3>1, <3>3, <4>1, <5>1
      <4> QED BY <4>1
    <3>7. Covered(p, Len(flight))
      BY <1>2, <3>1, <3>3, <3>6, Passes DEF StreamKept
    <3> QED BY <3>3, <3>4, <3>5, <3>7
  <2> QED BY <2>1
<1> HIDE DEF rows
<1>6. inc.serial + Len(rows) + 1 \in Nat /\ \A n \in DOMAIN rows : inc.serial + n \in Nat
  BY <1>3, <1>4
<1>7. \A n \in DOMAIN items : Sound(items[n].pos) /\ Covered(items[n].pos, Len(flight))
  <2>1. ASSUME NEW n \in DOMAIN rows PROVE el(n).pos = IncrementalPosition(inc.serial + n)
    BY DEF Item
  <2>2. \A n \in DOMAIN rows : Sound(el(n).pos) /\ Covered(el(n).pos, Len(flight))
    <3> HIDE DEF el
    <3> QED BY <1>5, <1>6, <2>1
  <2> HIDE DEF el
  <2> QED BY <2>2
<1>8. mark.pos = last /\ Sound(last) /\ Covered(last, Len(flight)) /\ last \in Positions /\ last.at = lastSafe.at
  <2>1. mark.pos = last
    BY DEF Mark, Item
  <2>2. PICK n \in Nat : n = inc.serial + Len(rows) + 1
    BY <1>6
  <2>3. last = IncrementalPosition(n)
    BY <2>2
  <2> HIDE DEF mark, last
  <2> QED BY <1>5, <2>1, <2>3
<1> DEFINE T == {el(n) : n \in DOMAIN rows}
<1>9. items \in Seq(T)
  <2>1. items = [n \in 1 .. Len(rows) |-> el(n)] /\ \A n \in 1 .. Len(rows) : el(n) \in T
    BY <1>4
  <2> HIDE DEF items, el, T
  <2>2. items \in [1 .. Len(rows) -> T]
    BY <2>1
  <2> QED BY <1>4, <2>2
<1> HIDE DEF el, T, items, mark, last
<1>10. /\ s \in Seq(T \cup {mark})
       /\ \A n \in DOMAIN s : (n \in DOMAIN items /\ s[n] = items[n]) \/ s[n] = mark
  <2>1. items \in Seq(T \cup {mark}) /\ <<mark>> \in Seq(T \cup {mark})
    BY <1>9
  <2> QED BY <1>9, <2>1
<1>11. flight' = flight \o s
  <2>1. flight \in Seq(Range(flight))
    BY <1>2 DEF FlightKept
  <2>2. PICK F : flight \in Seq(F) /\ items \in Seq(F) /\ <<mark>> \in Seq(F)
    <3> DEFINE F == Range(flight) \cup T \cup {mark}
    <3>1. flight \in Seq(F) /\ items \in Seq(F) /\ <<mark>> \in Seq(F)
      BY <1>9, <2>1
    <3> QED BY <3>1
  <2> QED BY <1>1, <2>2, ConcatAssociative
<1> HIDE DEF s
<1>12. \A n \in DOMAIN s : Sound(s[n].pos) /\ Covered(s[n].pos, Len(flight))
  BY <1>7, <1>8, <1>10
<1>13. FlightKept' /\ \A x : Arrives(x, Len(flight)) => Arrives(x, Len(flight))'
  <2>1. \A n \in DOMAIN s :
          /\ Sound(s[n].pos)
          /\ \A i \in Due : \A m \in DOMAIN Events[i].rows : Reaches(s[n].pos, i, m) => Arrives(<<i, m>>, Len(flight))
    BY <1>12 DEF Covered
  <2>2. UNCHANGED <<setup, written, since, delivered>>
    BY <1>1
  <2>3. PICK S : S = T \cup {mark}
    OBVIOUS
  <2> QED BY <1>2, <1>10, <1>11, <2>1, <2>2, <2>3, Sends
<1>14. lastSafe' \in Positions /\ SafeKept'
  <2>1. PICK p, k, j : p = last /\ k = Len(flight) /\ j = Len(flight')
    OBVIOUS
  <2>2. Sound(p)' /\ Covered(p, j)'
    <3>1. Sound(p) /\ Covered(p, k) /\ \A x : Arrives(x, k) => Arrives(x, j)'
      BY <1>8, <1>13, <2>1
    <3>2. UNCHANGED <<setup, written, since>>
      BY <1>1
    <3> QED BY <3>1, <3>2, SoundStays, CoveredStays
  <2>3. p.at <= rd /\ \A i \in rd .. Len(Events) : ~AnchoredAt(i, p.at)
    BY <1>1, <1>2, <1>8, <2>1 DEF StreamKept, SafeKept
  <2>4. p.at <= rd' /\ \A i \in rd' .. Len(Events') : ~AnchoredAt(i, p.at)'
    BY <1>1, <2>3, Rigid
  <2>5. lastSafe' = p
    BY <1>1, <2>1
  <2> QED BY <1>8, <2>1, <2>2, <2>4, <2>5 DEF SafeKept
<1>15. IncrementalKept'
  <2>1. Shaped(Advance(inc)) /\ Advance(inc).serial = inc.serial
    BY <1>2, ShapeOfAdvance DEF IncrementalKept
  <2>2. PICK c, a, b : c = Advance(inc) /\ a = after /\ b = clean
    OBVIOUS
  <2>3. a = [c EXCEPT !.window = NoWindow] /\ b = [a EXCEPT !.dirty = FALSE] /\ Shaped(c)
    BY <2>1, <2>2
  <2>4. Shaped(a)
    BY <2>3, EmptyWindow, Reshaped
  <2>5. Shaped(b)
    BY <2>3, <2>4, Reshaped
  <2>6. PICK n \in Nat : n = Advance(inc).serial + Len(rows) + 1
    BY <1>6, <2>1
  <2>7. inc' = [b EXCEPT !.serial = n]
    BY <1>1, <2>2, <2>6
  <2>8. Shaped(inc')
    BY <2>5, <2>6, <2>7, Reshaped
  <2> QED BY <1>1, <1>2, <2>8 DEF IncrementalKept
<1> QED BY <1>1, <1>13, <1>14, <1>15, BesideKept DEF Connected

\* What is sent at the last safe position.
LEMMA SafeSent ==
    ASSUME Kept, Ready, UNCHANGED <<phase, setup, written, since, delivered, ckpt, snapshot, conv, rd, maps, lastSafe>>,
           IncrementalKept', NEW r, r.pos = lastSafe, flight' = Append(flight, r)
    PROVE  Kept'
<1>1. phase = "streaming" /\ StreamKept /\ FlightKept
  BY DEF Ready, Kept, Connected
<1>2. Sound(r.pos) /\ Covered(r.pos, Len(flight))
  BY <1>1 DEF StreamKept, SafeKept
<1>3. FlightKept' /\ \A x : Arrives(x, Len(flight)) => Arrives(x, Len(flight))'
  BY <1>1, <1>2, SendsOne
<1> QED BY <1>1, <1>3, BesideKept DEF Connected

LEMMA HeartbeatKept ==
    ASSUME Kept, Heartbeat
    PROVE  Kept'
<1>1. /\ Ready /\ flight' = Append(flight, Mark(lastSafe, FALSE, NoState))
      /\ UNCHANGED <<phase, setup, written, since, delivered, ckpt, snapshot, conv, rd, maps, lastSafe, inc, prep>>
  BY DEF Heartbeat, server, durable, task, conn, side
<1>2. Mark(lastSafe, FALSE, NoState).pos = lastSafe
  BY DEF Mark, Item
<1>3. IncrementalKept'
  BY <1>1, IncrementalStays DEF Kept
<1> QED BY <1>1, <1>2, <1>3, SafeSent

LEMMA SignalsKept ==
    ASSUME Kept, offset \in Nat, ExternalSignals
    PROVE  Kept'
<1>1. UNCHANGED <<setup, written, since, delivered, ckpt, snapshot, conv, rd, maps, lastSafe, prep>>
  BY DEF ExternalSignals, TakeExternal, CommitOffset, TakeFile, externalRest, server, conn
<1>2. LogKept /\ IncrementalKept /\ FlightKept /\ External \in Seq(Range(External)) /\ Len(External) \in Nat
  <2>1. setup \in Setups
    BY DEF Kept, LogKept
  <2>2. External \in Seq(Range(External))
    BY <2>1, MySqlAssumption DEF External
  <2> QED BY <2>2 DEF Kept
<1>3. CASE UNCHANGED <<inc, flight>> /\ UNCHANGED phase
  <2>1. IncrementalKept' /\ FlightKept' /\ \A x : Arrives(x, Len(flight)) => Arrives(x, Len(flight))'
    BY <1>1, <1>2, <1>3, IncrementalStays, FlightStays
  <2> QED BY <1>1, <1>3, <2>1, BesideKept DEF Connected
<1>4. CASE UNCHANGED <<inc, flight>> /\ phase' = "failed"
  BY <1>1, <1>4, FailsKept
<1>5. ASSUME NEW all, Shaped(all), inc' = [all EXCEPT !.dirty = FALSE], phase' = phase, Ready,
             NEW r, flight' = Append(flight, r), r.pos = lastSafe
      PROVE  Kept'
  <2>1. Shaped(inc')
    BY <1>5, Reshaped
  <2>2. IncrementalKept'
    BY <1>1, <1>2, <2>1 DEF IncrementalKept
  <2> QED BY <1>1, <1>5, <2>2, SafeSent
<1>6. CASE TakeExternal /\ ~UNCHANGED <<inc, flight>>
  <2> DEFINE signal == External[offset + 1]
             m == Mark(lastSafe, FALSE, State(schemas, inc'))
             r == [m EXCEPT !.ack = TRUE]
  <2>1. /\ inc' = [Handle(inc, signal) EXCEPT !.dirty = FALSE] /\ flight' = Append(flight, r)
        /\ phase' = phase /\ Ready
    BY <1>6 DEF TakeExternal
  <2>2. r.pos = lastSafe
    BY DEF Mark, Item
  <2>3. Shaped(Handle(inc, signal))
    BY <1>2, ShapeOfHandle DEF IncrementalKept
  <2> HIDE DEF r, signal
  <2> QED BY <1>5, <2>1, <2>2, <2>3
<1>7. CASE TakeFile /\ ~UNCHANGED <<inc, flight>>
  <2> DEFINE lines == SubSeq(External, offset + 1, Len(External))
             all == Applied(lines)[Len(lines)]
             r == Mark(lastSafe, FALSE, State(schemas, inc'))
  <2>1. /\ inc' = [all EXCEPT !.dirty = FALSE] /\ flight' = Append(flight, r)
        /\ phase' = phase /\ Ready /\ offset < Len(External)
    BY <1>7 DEF TakeFile
  <2>2. r.pos = lastSafe
    BY DEF Mark, Item
  <2>3. Len(lines) \in Nat
    <3>1. lines \in Seq(Range(External))
      <4>1. PICK m, l : m = offset + 1 /\ l = Len(External)
        OBVIOUS
      <4>2. m \in 1 .. l + 1 /\ l \in Nat
        BY <1>2, <2>1, <4>1
      <4>3. \A k \in m .. l : External[k] \in Range(External)
        BY <1>2, <4>1, <4>2
      <4> QED BY <1>2, <4>1, <4>2, <4>3, SubSeqProperties
    <3> HIDE DEF lines
    <3> QED BY <3>1
  <2> HIDE DEF lines
  <2>4. Shaped(all)
    BY <1>2, <2>3, ShapeOfApplied DEF IncrementalKept
  <2> HIDE DEF all, r
  <2> QED BY <1>5, <2>1, <2>2, <2>4
<1>8. CASE CommitOffset
  BY <1>3, <1>8 DEF CommitOffset
<1>9. CASE (TakeExternal \/ TakeFile) /\ UNCHANGED <<inc, flight>>
  BY <1>3, <1>4, <1>9 DEF TakeExternal, TakeFile, Fails
<1> QED BY <1>6, <1>7, <1>8, <1>9 DEF ExternalSignals

-----------------------------------------------------------------------------
(* The runtime, and crashes.                                                *)

LEMMA FlushKept ==
    ASSUME Kept, Flush
    PROVE  Kept'
<1>1. PICK n \in Batches :
        /\ delivered' = delivered \cup ({flight[m].at : m \in 1 .. n} \ {<<0, 0>>})
        /\ ckpt' = [pos |-> flight[n].pos, snap |-> ckpt.snap \/ flight[n].snapshotEnd, state |-> SavedState(n)]
        /\ flight' = SubSeq(flight, n + 1, Len(flight))
  BY DEF Flush, Deliver
<1>2. UNCHANGED <<setup, written, since, phase, snapshot, inc, prep, conv, lastSafe, rd, maps>>
  BY DEF Flush, server, task, conn
<1>3. /\ LogKept /\ FlightKept /\ IncrementalKept /\ SnapshotKept /\ conv \in Conversions /\ lastSafe \in Positions
      /\ flight \in Seq(Range(flight)) /\ Len(flight) \in Nat /\ DOMAIN flight = 1 .. Len(flight)
  BY DEF Kept, FlightKept
<1>4. n \in 1 .. Len(flight)
  BY DEF Batches
<1>5. /\ flight' \in Seq(Range(flight)) /\ Len(flight') = Len(flight) - n /\ DOMAIN flight' = 1 .. Len(flight) - n
      /\ \A k \in 1 .. Len(flight) - n : k + n \in DOMAIN flight /\ flight'[k] = flight[k + n]
  <2>1. PICK rs : flight \in Seq(rs)
    BY <1>3
  <2>2. n + 1 \in 1 .. Len(flight) + 1 /\ n + 1 \in Nat \ {0} /\ n \in Nat /\ n <= Len(flight)
    BY <1>3, <1>4
  <2>3. \A k \in 1 .. Len(flight) - n : k + n \in 1 .. Len(flight) /\ k + (n + 1) - 1 = k + n
    BY <1>3, <2>2
  <2>4. flight' \in Seq(rs) /\ Len(flight') = Len(flight) - n
    <3>1. PICK rest, m, l : rest = flight' /\ m = n + 1 /\ l = Len(flight) /\ rest = SubSeq(flight, m, l)
      BY <1>1
    <3>2. m \in 1 .. l + 1 /\ l \in Nat /\ m \in Nat
      BY ONLY <2>2, <3>1
    <3>3. \A k \in m .. l : flight[k] \in rs
      BY ONLY <2>1, <3>1, <3>2
    <3>4. rest \in Seq(rs) /\ Len(rest) = IF m <= l THEN l - m + 1 ELSE 0
      BY ONLY <3>1, <3>2, <3>3, SubSeqProperties
    <3>5. (IF m <= l THEN l - m + 1 ELSE 0) = l - n
      BY ONLY <2>2, <3>1, <3>2
    <3> QED BY ONLY <3>1, <3>4, <3>5
  <2>5. DOMAIN flight' = 1 .. Len(flight) - n
    BY <2>4
  <2>6. \A k \in 1 .. Len(flight) - n : flight'[k] = flight[k + n]
    BY ONLY <1>1, <1>3, <2>1, <2>2, <2>3
  <2>7. \A k \in 1 .. Len(flight) - n : flight'[k] \in Range(flight)
    BY <1>3, <2>3, <2>6 DEF Range
  <2>8. flight' \in Seq(Range(flight))
    BY <2>4, <2>5, <2>7
  <2> QED BY <1>3, <2>3, <2>4, <2>5, <2>6, <2>8
<1>6. \A i \in Due : \A m : <<i, m>> # <<0, 0>>
  <2>1. \A i \in Due : i # 0
    BY <1>3, LogFacts DEF Due
  <2> QED BY <2>1
<1>7. ASSUME NEW x, x # <<0, 0>>, NEW k \in 0 .. Len(flight) - n, Arrives(x, k + n)
      PROVE  Arrives(x, k)'
  <2>1. CASE x \in delivered
    BY <1>1, <2>1 DEF Arrives
  <2>2. CASE \E j \in 1 .. k + n : flight[j].at = x
    <3>1. PICK j \in 1 .. k + n : flight[j].at = x
      BY <2>2
    <3>2. CASE j <= n
      <4>1. j \in 1 .. n
        BY <1>3, <1>4, <3>2
      <4>2. x \in delivered'
        BY <1>1, <1>7, <3>1, <4>1
      <4> QED BY <4>2 DEF Arrives
    <3>3. CASE j > n
      <4>1. j - n \in 1 .. k /\ j - n \in 1 .. Len(flight) - n /\ (j - n) + n = j
        BY <1>3, <1>4, <3>3
      <4>2. flight'[j - n].at = x
        BY <1>5, <3>1, <4>1
      <4> QED BY <4>1, <4>2 DEF Arrives
    <3>4. j <= n \/ j > n
      BY <1>3, <1>4
    <3> QED BY <3>2, <3>3, <3>4
  <2> QED BY <1>7, <2>1, <2>2 DEF Arrives
<1>8. ASSUME NEW k \in 0 .. Len(flight) - n, NEW p, Covered(p, k + n) PROVE Covered(p, k)'
  <2>1. PICK j : j = k + n
    OBVIOUS
  <2>2. \A i \in Due : \A m \in DOMAIN Events[i].rows : Arrives(<<i, m>>, j) => Arrives(<<i, m>>, k)'
    BY <1>6, <1>7, <2>1
  <2>3. UNCHANGED <<setup, since>>
    BY <1>2
  <2> QED BY <1>3, <1>8, <2>1, <2>2, <2>3, CoveredDue
<1>9. \A p : Sound(p)' <=> Sound(p)
  BY <1>2, SoundStays
<1>10. FlightKept'
  <2>1. flight' \in Seq(Range(flight'))
    BY <1>5, OfItsRange
  <2>2. ASSUME NEW k \in DOMAIN flight' PROVE \E p : p = flight'[k].pos /\ Sound(p)' /\ Covered(p, k)'
    <3>1. k \in 0 .. Len(flight) - n /\ k + n \in DOMAIN flight /\ flight'[k] = flight[k + n]
      BY <1>3, <1>4, <1>5
    <3>2. PICK p : p = flight'[k].pos
      OBVIOUS
    <3>3. Sound(p) /\ Covered(p, k + n)
      BY <1>3, <3>1, <3>2 DEF FlightKept
    <3> QED BY <1>8, <1>9, <3>1, <3>2, <3>3
  <2> QED BY <2>1, <2>2 DEF FlightKept
<1>11. CheckpointKept'
  <2>1. PICK p : p = flight[n].pos
    OBVIOUS
  <2>2. Sound(p) /\ Covered(p, 0 + n) /\ 0 \in 0 .. Len(flight) - n
    <3>1. n \in DOMAIN flight /\ 0 + n = n
      BY <1>3, <1>4
    <3> QED BY <1>3, <1>4, <2>1, <3>1 DEF FlightKept
  <2>3. Sound(p)' /\ Covered(p, 0)'
    BY <1>8, <1>9, <2>2
  <2>4. ckpt'.pos = p
    BY <1>1, <2>1
  <2> QED BY <2>3, <2>4 DEF CheckpointKept
<1>12. Connected' => StreamKept'
  <2>1. SUFFICES ASSUME Connected' PROVE StreamKept'
    OBVIOUS
  <2>2. StreamKept
    BY <1>2, <2>1 DEF Kept, Connected
  <2>3. \A i \in Due : \A m \in DOMAIN Events[i].rows :
          Arrives(<<i, m>>, Len(flight)) => Arrives(<<i, m>>, Len(flight))'
    <3>1. Len(flight) - n \in 0 .. Len(flight) - n /\ (Len(flight) - n) + n = Len(flight)
      BY <1>3, <1>4
    <3>2. PICK k \in 0 .. Len(flight) - n : k = Len(flight') /\ k + n = Len(flight)
      BY <1>5, <3>1
    <3> QED BY <1>6, <1>7, <3>2
  <2>4. written' \in Nat /\ written <= written'
    BY <1>2, <1>3, LogFacts
  <2> QED BY <1>2, <1>3, <1>9, <2>2, <2>3, <2>4, StreamStays
<1>13. LogKept' /\ SnapshotKept' /\ IncrementalKept'
  BY <1>2, <1>3, LogStays, SnapshotStays, IncrementalStays
<1>14. conv' \in Conversions' /\ lastSafe' \in Positions'
  BY <1>2, <1>3, Rigid
<1> QED BY <1>10, <1>11, <1>12, <1>13, <1>14 DEF Kept

LEMMA RegressKept ==
    ASSUME Kept, Regress
    PROVE  Kept'
  BY FailsKept DEF Regress, Fails, server, durable, side

LEMMA NewConversionFacts ==
    ASSUME NEW c, c.file \in Nat, NEW resume \in Positions
    PROVE  LET cv == NewConversion(c, resume)
           IN  /\ cv \in Conversions /\ cv.file = c.file /\ cv.previous = 0 /\ cv.serial = 0 /\ cv.resume = resume
               /\ \A t \in Tables : cv.anchors[t] = 0
               /\ ~cv.txn.ignore /\ (resume # None /\ ~resume.snap /\ resume.gtid => cv.txn.open)
<1> DEFINE anchors == [t \in Tables |-> 0]
           txn == IF resume # None /\ ~resume.snap /\ resume.gtid THEN OpenTxn ELSE NoTxn
<1>1. NewConversion(c, resume) =
        [file |-> c.file, anchors |-> anchors, previous |-> 0, serial |-> 0, resume |-> resume, txn |-> txn]
  BY DEF NewConversion
<1>2. anchors \in [Tables -> Nat] /\ \A t \in Tables : anchors[t] = 0
  OBVIOUS
<1>3. /\ txn \in [open : BOOLEAN, ignore : BOOLEAN] /\ ~txn.ignore
      /\ (resume # None /\ ~resume.snap /\ resume.gtid => txn.open)
  BY DEF OpenTxn, NoTxn
<1> HIDE DEF anchors, txn
<1> QED BY <1>1, <1>2, <1>3 DEF Conversions

LEMMA NoneIsPosition == None \in Positions
  BY DEF None, Position, Positions

LEMMA CrashKept ==
    ASSUME Kept, Crash
    PROVE  Kept'
<1>1. /\ phase' = "down" /\ delivered \subseteq delivered' /\ UNCHANGED <<setup, written, since, ckpt>>
      /\ conv' = NewConversion(Coordinates(0), None) /\ lastSafe' = None /\ flight' = <<>>
      /\ snapshot' = [coordinates |-> Coordinates(0), ordinal |-> 0, rows |-> <<>>]
      /\ inc' = NewIncremental(NoProgress, <<>>)
      /\ prep' = [step |-> "none", low |-> NoWindow.low, max |-> 0, rows |-> {}, fits |-> TRUE]
  BY DEF Crash, Cleared, Deliver, server, Idle, NoPrep
<1>2. LogKept' /\ CheckpointKept'
  BY <1>1, LogStays, CheckpointStays DEF Kept
<1>3. IncrementalKept'
  <2>1. Shaped(inc') /\ IsFiniteSet({})
    BY <1>1, ShapeOfNew, FS_EmptySet
  <2> QED BY <1>1, <2>1 DEF IncrementalKept
<1>4. FlightKept'
  <2>1. flight' \in Seq(Range(flight')) /\ DOMAIN flight' = {}
    BY <1>1
  <2> QED BY <2>1 DEF FlightKept
<1>5. SnapshotKept'
  BY <1>1 DEF SnapshotKept
<1>6. conv' \in Conversions' /\ lastSafe' \in Positions'
  <2>1. Coordinates(0).file \in Nat
    BY FileFacts DEF Kept, Coordinates
  <2> QED BY <1>1, <2>1, NoneIsPosition, NewConversionFacts, Rigid
<1>7. ~Connected'
  BY <1>1 DEF Connected
<1> QED BY <1>2, <1>3, <1>4, <1>5, <1>6, <1>7 DEF Kept

-----------------------------------------------------------------------------
(* The stream opens: nothing is counted, and nothing is anchored, on a new  *)
(* connection.                                                              *)

Opened ==
    /\ LogKept /\ phase = "opening"
    /\ Sound(lastSafe) /\ Covered(lastSafe, Len(flight)) /\ rd = lastSafe.at
    /\ conv.file = lastSafe.file /\ conv.previous = 0 /\ conv.serial = 0 /\ ~conv.txn.ignore
    /\ \A t \in Tables : conv.anchors[t] = 0
    /\ conv.txn.open \/ \A i : ~AnchoredAt(i, lastSafe.at)
    /\ conv.resume # None =>
        Sound(conv.resume) /\ Covered(conv.resume, Len(flight)) /\ conv.resume.at = lastSafe.at

LEMMA OpenedStream == Opened => StreamKept
<1> SUFFICES ASSUME Opened PROVE StreamKept
  OBVIOUS
<1>1. /\ LogKept /\ rd \in 1 .. written + 1 /\ rd \in Nat /\ written \in Nat /\ rd = lastSafe.at /\ lastSafe.at <= rd
      /\ conv.file = FileAt(rd) /\ FileAt(rd) \in Nat /\ lastSafe.file = FileAt(rd)
  <2>1. LogKept /\ lastSafe.at \in 1 .. written + 1 /\ rd = lastSafe.at /\ lastSafe.file = FileAt(rd) /\ conv.file = lastSafe.file
    BY DEF Opened, Sound
  <2>2. written \in Nat
    BY <2>1, LogFacts
  <2>3. rd \in Nat
    BY <2>1, <2>2
  <2> QED BY <2>1, <2>2, <2>3, FileFacts
<1>2. CursorKept
  <2>1. ASSUME NEW i \in Due, i < rd, NEW n \in DOMAIN Events[i].rows PROVE Arrives(<<i, n>>, Len(flight))
    <3>1. Reaches(lastSafe, i, n)
      BY <1>1, <2>1 DEF Reaches
    <3> QED BY <3>1 DEF Opened, Covered
  <2> QED BY <1>1, <2>1 DEF CursorKept
<1>3. SafeKept
  BY <1>1 DEF Opened, SafeKept
<1>4. FilterKept
  <2>1. SUFFICES ASSUME conv.resume # None PROVE conv.resume.at <= rd /\ conv.resume.file <= conv.file
    BY DEF FilterKept, Opened
  <2>2. conv.resume.at = rd /\ conv.resume.file = FileAt(conv.resume.at)
    BY <1>1, <2>1 DEF Opened, Sound
  <2> QED BY <1>1, <2>2
<1>5. AnchorsKept
  <2>1. conv.file \in 1 .. FileAt(rd)
    BY <1>1, FileFacts
  <2>2. \A m \in 1 .. rd - 1 : FileAt(m) <= conv.file
    BY <1>1, FileFacts
  <2> QED BY <2>1, <2>2 DEF Opened, AnchorsKept
<1>6. SerialsKept
  <2>1. \A a : Counted(a) = 0
    BY DEF Opened, Counted
  <2>2. \A a : Count(a, rd) \in Nat
    BY <1>1, CountNext
  <2>3. Count(rd, rd) = 0
    BY <1>1, CountFromMap
  <2>4. conv.resume # None => conv.resume.at = rd
    BY <1>1 DEF Opened
  <2>5. \A a \in DOMAIN Events : Counted(a) <= Count(a, rd)
    BY <2>1, <2>2
  <2>6. conv.resume # None => Count(conv.resume.at, rd) <= Counted(conv.resume.at)
    BY <2>1, <2>3, <2>4
  <2> QED BY <2>5, <2>6 DEF SerialsKept
<1>7. TxnKept
  BY DEF Opened, TxnKept
<1> QED BY <1>2, <1>3, <1>4, <1>5, <1>6, <1>7 DEF StreamKept

LEMMA OpenedNext == Opened' => StreamKept'
  BY OpenedStream, PTL

\* Where a transaction begins, no row is anchored.
LEMMA AtTxn ==
    ASSUME LogKept, NEW a, a \in 1 .. written + 1, a - 1 \in setup.ends \cup {0}, NEW p \in Positions,
           p.at = a, p.file = FileAt(a)
    PROVE  Sound(p) /\ \A i : ~AnchoredAt(i, a)
<1>1. written \in Nat /\ written <= Len(Events) /\ DOMAIN Events = 1 .. Len(Events) /\ Len(Events) \in Nat
  BY LogFacts
<1>2. a \in DOMAIN Events => Events[a].kind # "map"
  <2>1. a = 1 \/ a - 1 \in setup.ends
    BY <1>1
  <2> QED BY <2>1, TxnBegins
<1>3. \A i : ~AnchoredAt(i, a)
  BY <1>2, NoneAnchored
<1>4. p.at <= written => Events[p.at].kind # "map"
  BY <1>1, <1>2
<1> QED BY <1>3, <1>4 DEF Sound

\* A new conversion, from a position that is sound and covered.
LEMMA OpensAt ==
    ASSUME LogKept', conv \in Conversions, UNCHANGED setup, NEW c, c.file \in Nat, NEW resume \in Positions,
           NEW safe \in Positions, lastSafe' = safe, phase' = "opening", conv' = NewConversion(c, resume),
           c.file = safe.file, rd' = safe.at,
           Sound(safe)', Covered(safe, Len(flight))',
           (\A i : ~AnchoredAt(i, safe.at)) \/ (resume # None /\ ~resume.snap /\ resume.gtid),
           resume # None => Sound(resume)' /\ Covered(resume, Len(flight))' /\ resume.at = safe.at
    PROVE  StreamKept' /\ conv' \in Conversions' /\ lastSafe' \in Positions'
<1>1. /\ conv' \in Conversions /\ conv'.file = safe.file /\ conv'.previous = 0 /\ conv'.serial = 0 /\ conv'.resume = resume
      /\ (\A t \in Tables : conv'.anchors[t] = 0)
      /\ ~conv'.txn.ignore /\ (resume # None /\ ~resume.snap /\ resume.gtid => conv'.txn.open)
  BY NewConversionFacts
<1>2. Tables' = Tables /\ (\A i, a : AnchoredAt(i, a)' <=> AnchoredAt(i, a)) /\ Positions' = Positions
      /\ Conversions' = Conversions
  BY Rigid
<1>3. conv'.txn.open \/ \A i : ~AnchoredAt(i, safe.at)'
  BY <1>1, <1>2
<1>4. Opened'
  BY <1>1, <1>2, <1>3 DEF Opened
<1> QED BY <1>1, <1>2, <1>4, OpenedNext

LEMMA ReconnectKept ==
    ASSUME Kept, Reconnect
    PROVE  Kept'
<1>1. /\ phase = "broken"
      /\ UNCHANGED <<setup, written, since, delivered, ckpt, lastSafe, maps, snapshot, inc, prep, flight>>
  BY DEF Reconnect, server, durable, side
<1>2. /\ LogKept /\ StreamKept /\ FlightKept /\ IncrementalKept /\ SnapshotKept /\ CheckpointKept
      /\ conv \in Conversions /\ lastSafe \in Positions
  BY <1>1 DEF Kept, Connected
<1>3. CASE phase' = "failed" /\ UNCHANGED conv
  BY <1>1, <1>3, FailsKept
<1>4. CASE /\ phase' = "opening" /\ rd' = lastSafe.at
           /\ conv' = NewConversion([file |-> lastSafe.file, at |-> lastSafe.at], lastSafe)
  <2> DEFINE c == [file |-> lastSafe.file, at |-> lastSafe.at]
  <2>1. c.file \in Nat /\ c.file = lastSafe.file
    BY <1>2 DEF Positions
  <2>2. LogKept' /\ SnapshotKept' /\ CheckpointKept' /\ IncrementalKept'
    BY <1>1, <1>2, <1>4, LogStays, SnapshotStays, CheckpointStays, IncrementalStays
  <2>3. FlightKept' /\ \A x : Arrives(x, Len(flight)) => Arrives(x, Len(flight))'
    BY <1>1, <1>2, FlightStays
  <2>4. PICK safe, k, j : safe = lastSafe /\ k = Len(flight) /\ j = Len(flight')
    OBVIOUS
  <2>5. Sound(safe) /\ Covered(safe, k) /\ safe \in Positions
    BY <1>2, <2>4 DEF StreamKept, SafeKept
  <2>6. Sound(safe)' /\ Covered(safe, j)'
    <3>1. \A x : Arrives(x, k) => Arrives(x, j)'
      BY <2>3, <2>4
    <3> QED BY <1>1, <2>5, <3>1, SoundStays, CoveredStays
  <2>7. (\A i : ~AnchoredAt(i, safe.at)) \/ (safe # None /\ ~safe.snap /\ safe.gtid)
    <3>1. safe.at \in 1 .. written + 1 /\ (safe.at <= written /\ Events[safe.at].kind = "map" => safe.gtid /\ ~safe.snap)
      BY <2>5 DEF Sound
    <3>2. safe # None
      <4>1. safe.at # 0
        BY <1>2, <3>1, LogFacts
      <4> QED BY <4>1 DEF None, Position
    <3>3. CASE safe.at \in DOMAIN Events /\ safe.at <= written
      BY <1>2, <3>1, <3>2, <3>3, NoneAnchored
    <3>4. CASE ~(safe.at \in DOMAIN Events /\ safe.at <= written)
      <4>1. safe.at = written + 1 \/ safe.at \notin DOMAIN Events
        BY <1>2, <3>1, <3>4, LogFacts
      <4> QED BY <1>2, <4>1, EndAnchors, NoneAnchored
    <3> QED BY <3>3, <3>4
  <2>8. lastSafe' = safe /\ conv' = NewConversion(c, safe) /\ rd' = safe.at /\ c.file = safe.file
    BY <1>1, <1>4, <2>4
  <2> HIDE DEF c
  <2>9. StreamKept' /\ conv' \in Conversions' /\ lastSafe' \in Positions'
    BY <1>1, <1>2, <1>4, <2>1, <2>2, <2>4, <2>5, <2>6, <2>7, <2>8, OpensAt
  <2> QED BY <2>2, <2>3, <2>9 DEF Kept
<1> QED BY <1>3, <1>4 DEF Reconnect, Fails

LEMMA ConnectionKept ==
    ASSUME Kept, OpenStream \/ Disconnect
    PROVE  Kept'
<1>1. /\ UNCHANGED <<setup, written, since, delivered, ckpt, snapshot, conv, rd, lastSafe, flight, prep>>
      /\ phase' \in {"streaming", "broken"} /\ phase \in {"opening", "streaming"}
      /\ \/ maps' = {} /\ UNCHANGED inc
         \/ UNCHANGED maps /\ phase = "streaming" /\ inc' = [inc EXCEPT !.window = NoWindow]
  BY DEF OpenStream, Disconnect, connectionRest, server, durable, side
<1>2. IncrementalKept /\ FlightKept
  BY DEF Kept
<1>3. IncrementalKept'
  <2>1. CASE UNCHANGED inc
    BY <1>1, <1>2, <2>1, IncrementalStays
  <2>2. CASE inc' = [inc EXCEPT !.window = NoWindow]
    <3>1. Shaped(inc')
      BY <1>2, <2>2, EmptyWindow, Reshaped DEF IncrementalKept
    <3> QED BY <1>1, <1>2, <3>1 DEF IncrementalKept
  <2> QED BY <1>1, <2>1, <2>2
<1>4. FlightKept' /\ \A x : Arrives(x, Len(flight)) => Arrives(x, Len(flight))'
  BY <1>1, <1>2, FlightStays
<1>5. maps' = {} \/ (UNCHANGED maps /\ (phase = "opening" => phase' = "opening"))
  BY <1>1
<1>6. Connected /\ phase' # "snapshot"
  BY <1>1 DEF Connected
<1> QED BY <1>1, <1>3, <1>4, <1>5, <1>6, BesideKept

-----------------------------------------------------------------------------
(* The server.                                                              *)

LEMMA WriteKept ==
    ASSUME Kept, Write
    PROVE  Kept'
<1>1. /\ written < Len(Events) /\ written' = EndOfTxn(written + 1)
      /\ UNCHANGED <<setup, since, delivered, ckpt, snapshot, conv, rd, lastSafe, flight, maps, phase, inc, prep>>
  BY DEF Write, durable, task, conn, side
<1>2. /\ LogKept /\ FlightKept /\ IncrementalKept /\ SnapshotKept /\ CheckpointKept /\ conv \in Conversions
      /\ lastSafe \in Positions
  BY DEF Kept
<1>3. /\ written \in Nat /\ setup.ends \subseteq 1 .. Len(Events) /\ Len(Events) \in setup.ends /\ Len(Events) \in Nat
      /\ DOMAIN Events = 1 .. Len(Events)
  BY <1>2, LogFacts
<1>4. written' \in setup.ends /\ written' \in Nat /\ written + 1 <= written' /\ written <= written'
  <2> DEFINE S == {e \in setup.ends : e >= written + 1}
  <2>1. S \subseteq Nat /\ S # {}
    BY <1>1, <1>3
  <2>2. written' = Min(S)
    BY <1>1 DEF EndOfTxn
  <2>3. Min(S) \in S
    <3> HIDE DEF S
    <3> QED BY <2>1, Smallest
  <2> QED BY <1>3, <2>2, <2>3
<1>5. LogKept'
  <2>1. setup' \in Setups /\ LogSound(setup)'
    BY <1>1, <1>2 DEF LogKept, LogSound
  <2>2. written' \in setup'.ends \cup {0}
    BY <1>1, <1>4
  <2>3. since' \in 0 .. written' + 1
    <3>1. since \in Nat /\ since <= written + 1
      BY <1>2, LogFacts
    <3> QED BY <1>1, <1>3, <1>4, <3>1
  <2> QED BY <2>1, <2>2, <2>3 DEF LogKept
<1>6. /\ Events' = Events /\ (\A i : FileAt(i)' = FileAt(i)) /\ Positions' = Positions
      /\ (\A i : Coordinates(i)' = Coordinates(i))
  BY <1>1, Rigid
<1>7. ASSUME NEW p, Sound(p) PROVE Sound(p)'
  <2>1. /\ p \in Positions /\ p.at \in 1 .. written + 1 /\ p.file = FileAt(p.at)
        /\ p.at <= written /\ Events[p.at].kind = "map" => p.gtid /\ ~p.snap
    BY <1>7 DEF Sound
  <2>2. written + 1 \in DOMAIN Events => Events[written + 1].kind # "map"
    BY <1>2, EndAnchors
  <2>3. p.at \in 1 .. written' + 1
    BY <1>3, <1>4, <2>1
  <2>4. p.at <= written \/ p.at = written + 1
    BY <1>3, <2>1
  <2>5. written + 1 \in DOMAIN Events
    BY <1>1, <1>3
  <2> QED BY <1>6, <2>1, <2>2, <2>3, <2>4, <2>5 DEF Sound
<1>8. \A x, k : Arrives(x, k) => Arrives(x, k)'
  BY <1>1 DEF Arrives
<1>9. ASSUME NEW p, NEW k, Covered(p, k) PROVE Covered(p, k)'
  BY <1>1, <1>8, <1>9, CoveredStays
<1>10. FlightKept'
  BY <1>1, <1>2, <1>7, <1>9 DEF FlightKept
<1>11. CheckpointKept'
  BY <1>1, <1>2, <1>7, <1>9 DEF CheckpointKept
<1>12. SnapshotKept'
  <2>1. phase = "snapshot" => since \in 1 .. written' + 1
    BY <1>2, <1>3, <1>4 DEF SnapshotKept
  <2> QED BY <1>1, <1>2, <1>6, <2>1 DEF SnapshotKept
<1>13. IncrementalKept'
  BY <1>1, <1>2, IncrementalStays
<1>14. Connected' => StreamKept'
  <2>1. SUFFICES ASSUME Connected' PROVE StreamKept'
    OBVIOUS
  <2>2. StreamKept
    BY <1>1, <2>1 DEF Kept, Connected
  <2>3. \A p : Sound(p) => Sound(p)'
    BY <1>7
  <2>4. \A i \in Due : \A n \in DOMAIN Events[i].rows :
          Arrives(<<i, n>>, Len(flight)) => Arrives(<<i, n>>, Len(flight))'
    <3>1. \A i, n, k : Arrives(<<i, n>>, k) => Arrives(<<i, n>>, k)'
      BY <1>8
    <3>2. PICK k : k = Len(flight) /\ k = Len(flight')
      BY <1>1
    <3> QED BY <3>1, <3>2
  <2> QED BY <1>1, <1>2, <1>4, <2>2, <2>3, <2>4, StreamStays
<1>15. conv' \in Conversions' /\ lastSafe' \in Positions'
  BY <1>1, <1>2, Rigid
<1> QED BY <1>5, <1>10, <1>11, <1>12, <1>13, <1>14, <1>15 DEF Kept

\* What the engine has applied and which files are left decide nothing here.
LEMMA ServerKept ==
    ASSUME Kept, Apply \/ Purge
    PROVE  Kept'
<1>1. UNCHANGED <<setup, written, since, delivered, ckpt, snapshot, conv, rd, lastSafe, flight, maps, phase, inc, prep>>
  BY DEF Apply, Purge, durable, task, conn, side
<1>2. IncrementalKept' /\ FlightKept' /\ \A x : Arrives(x, Len(flight)) => Arrives(x, Len(flight))'
  BY <1>1, IncrementalStays, FlightStays DEF Kept
<1> QED BY <1>1, <1>2, BesideKept DEF Connected

-----------------------------------------------------------------------------
(* Starts and snapshots.                                                    *)

LEMMA ValidateKept ==
    ASSUME Kept, Validate \/ StartRefused \/ SnapshotDiscover
    PROVE  Kept'
<1>1. CASE Validate \/ StartRefused
  BY <1>1, FailsKept DEF Validate, StartRefused, Fails, server, durable, side
<1>2. CASE SnapshotDiscover
  <2>1. /\ UNCHANGED <<setup, written, since, delivered, ckpt, conv, rd, lastSafe, flight, maps, phase, inc, prep>>
        /\ phase = "snapshot" /\ snapshot' = [snapshot EXCEPT !.ordinal = 1]
    BY <1>2 DEF SnapshotDiscover, server, durable, conn
  <2>2. /\ LogKept /\ FlightKept /\ IncrementalKept /\ SnapshotKept /\ CheckpointKept /\ conv \in Conversions
        /\ lastSafe \in Positions
    BY DEF Kept
  <2>3. SnapshotKept'
    <3>1. PICK c, o, rs : snapshot = [coordinates |-> c, ordinal |-> o, rows |-> rs]
      BY <2>2 DEF SnapshotKept
    <3>2. snapshot' = [coordinates |-> c, ordinal |-> 1, rows |-> rs]
      BY <2>1, <3>1
    <3>3. c = Coordinates(since) /\ since \in 1 .. written + 1 /\ since - 1 \in setup.ends \cup {0}
      BY <2>1, <2>2, <3>1 DEF SnapshotKept
    <3>4. Coordinates(since)' = Coordinates(since)
      BY <2>1, Rigid
    <3>5. /\ snapshot' = [coordinates |-> snapshot'.coordinates, ordinal |-> snapshot'.ordinal, rows |-> snapshot'.rows]
          /\ snapshot'.ordinal \in Nat /\ snapshot'.coordinates = c
      BY <3>2
    <3>6. c = Coordinates(since)' /\ since' \in 1 .. written' + 1 /\ since' - 1 \in setup'.ends \cup {0}
      BY <2>1, <3>3, <3>4
    <3> QED BY <3>5, <3>6 DEF SnapshotKept
  <2>4. LogKept' /\ CheckpointKept' /\ IncrementalKept' /\ FlightKept'
    BY <2>1, <2>2, LogStays, CheckpointStays, IncrementalStays, FlightStays
  <2>5. conv' \in Conversions' /\ lastSafe' \in Positions' /\ ~Connected'
    BY <2>1, <2>2, Rigid DEF Connected
  <2> QED BY <2>3, <2>4, <2>5 DEF Kept
<1> QED BY <1>1, <1>2

\* Capture begins behind what has been written.
LEMMA SinceMoves ==
    ASSUME Kept, UNCHANGED <<setup, written, delivered, ckpt>>, since' = written + 1
    PROVE  /\ LogKept' /\ CheckpointKept'
           /\ \A p, k, j : Covered(p, k) /\ (\A x : Arrives(x, k) => Arrives(x, j)') => Covered(p, j)'
<1>1. LogKept /\ CheckpointKept /\ written \in Nat /\ since \in Nat /\ since <= written + 1 /\ DOMAIN Events \subseteq Nat
  BY LogFacts DEF Kept
<1>2. LogKept'
  <2>1. since' \in 0 .. written' + 1
    BY <1>1
  <2> QED BY <1>1, <2>1 DEF LogKept, LogSound
<1>3. Due' \subseteq Due
  <2>1. ASSUME NEW i \in Due' PROVE i \in Due
    <3>1. i \in DOMAIN Events /\ Events[i].kind = "rows" /\ i >= written + 1 /\ ~Ignored(i)
      BY <2>1, Rigid DEF Due
    <3>2. i >= since
      BY <1>1, <3>1
    <3> QED BY <3>1, <3>2 DEF Due
  <2> QED BY <2>1
<1>4. ASSUME NEW p, NEW k, NEW j, Covered(p, k), \A x : Arrives(x, k) => Arrives(x, j)'
      PROVE  Covered(p, j)'
  <2>1. Events' = Events /\ \A q, i, n : Reaches(q, i, n)' <=> Reaches(q, i, n)
    BY Rigid
  <2> QED BY <1>3, <1>4, <2>1 DEF Covered
<1>5. CheckpointKept'
  <2>1. \A x : Arrives(x, 0) => Arrives(x, 0)'
    BY DEF Arrives
  <2> QED BY <1>1, <1>4, <2>1, SoundStays DEF CheckpointKept
<1> QED BY <1>2, <1>4, <1>5

LEMMA StartSnapshotKept ==
    ASSUME Kept, StartSnapshot
    PROVE  Kept'
<1>1. /\ phase' = "snapshot" /\ since' = written + 1 /\ inc' = NewIncremental(NoProgress, <<>>)
      /\ UNCHANGED <<setup, written, delivered, ckpt, conv, lastSafe, flight, prep>>
      /\ \E rs : snapshot' = [coordinates |-> Coordinates(written + 1), ordinal |-> 0, rows |-> rs]
  BY DEF StartSnapshot, EndOfLog, Coordinates, server
<1>2. /\ LogKept /\ FlightKept /\ IncrementalKept /\ conv \in Conversions /\ lastSafe \in Positions
      /\ written \in setup.ends \cup {0} /\ written \in Nat
  BY LogFacts DEF Kept, LogKept
<1>3. LogKept' /\ CheckpointKept'
  BY <1>1, SinceMoves
<1>4. FlightKept'
  <2>1. \A x, k : Arrives(x, k) => Arrives(x, k)'
    BY <1>1 DEF Arrives
  <2>2. \A p, k : Covered(p, k) => Covered(p, k)'
    BY <1>1, <2>1, SinceMoves
  <2> QED BY <1>1, <1>2, <2>2, SoundStays DEF FlightKept
<1>5. SnapshotKept'
  <2>1. PICK b : b = written + 1
    OBVIOUS
  <2>2. Coordinates(b)' = Coordinates(b) /\ since' = b /\ b \in 1 .. written + 1 /\ b - 1 = written
    BY <1>1, <1>2, <2>1, Rigid
  <2>3. PICK rs : snapshot' = [coordinates |-> Coordinates(b), ordinal |-> 0, rows |-> rs]
    BY <1>1, <2>1
  <2> QED BY <1>1, <1>2, <2>2, <2>3 DEF SnapshotKept
<1>6. IncrementalKept'
  BY <1>1, <1>2, ShapeOfNew DEF IncrementalKept
<1>7. conv' \in Conversions' /\ lastSafe' \in Positions' /\ ~Connected'
  BY <1>1, <1>2, Rigid DEF Connected
<1> QED BY <1>3, <1>4, <1>5, <1>6, <1>7 DEF Kept

LEMMA StartAtEndKept ==
    ASSUME Kept, StartAtEnd
    PROVE  Kept'
<1> DEFINE c == Coordinates(written + 1)
           safe == AtCoordinates(c, 0, FALSE)
           r == Mark(safe, FALSE, State(schemas, inc'))
<1>1. /\ phase' = "opening" /\ since' = written + 1 /\ inc' = NewIncremental(NoProgress, <<>>)
      /\ flight' = <<r>> /\ lastSafe' = safe /\ conv' = NewConversion(c, None) /\ rd' = c.at
      /\ UNCHANGED <<setup, written, delivered, ckpt, snapshot, prep>>
  <2>1. EndOfLog = c /\ c.at = written + 1
    BY DEF EndOfLog, Coordinates
  <2>2. /\ StreamFrom(c, None, safe) /\ since' = c.at /\ inc' = NewIncremental(NoProgress, <<>>)
        /\ UNCHANGED <<setup, written, delivered, ckpt, snapshot, prep>>
    BY <2>1 DEF StartAtEnd, server
  <2>3. flight' = <<r>>
    BY <2>1 DEF StartAtEnd
  <2> HIDE DEF c, safe, r
  <2> QED BY <2>1, <2>2, <2>3 DEF StreamFrom
<1>2. /\ LogKept /\ SnapshotKept /\ IncrementalKept /\ conv \in Conversions
      /\ written \in setup.ends \cup {0} /\ written \in Nat
  BY LogFacts DEF Kept, LogKept
<1>3. LogKept' /\ CheckpointKept'
  BY <1>1, SinceMoves
<1>4. /\ safe \in Positions /\ safe.at = written + 1 /\ safe.file = FileAt(written + 1) /\ c.file \in Nat
      /\ c.file = safe.file /\ c.at = safe.at
  <2>1. c = [file |-> FileAt(written + 1), at |-> written + 1] /\ FileAt(written + 1) \in Nat
    BY <1>2, FileFacts DEF Coordinates
  <2>2. setup.gtid \in BOOLEAN
    BY <1>2, MySqlAssumption DEF LogKept
  <2> HIDE DEF c
  <2> QED BY <1>2, <2>1, <2>2 DEF AtCoordinates, Position, Positions
<1>5. Sound(safe) /\ \A i : ~AnchoredAt(i, safe.at)
  <2>1. written + 1 \in 1 .. written + 1 /\ (written + 1) - 1 = written
    BY <1>2
  <2> QED BY <1>2, <1>4, <2>1, AtTxn
<1>6. r.pos = safe
  BY DEF Mark, Item
<1> HIDE DEF c, safe, r
<1>7. PICK p, k : p = safe /\ k = Len(flight')
  OBVIOUS
<1>8. Sound(p)' /\ Covered(p, 1)' /\ Covered(p, k)' /\ k = 1
  <2>1. Sound(p)'
    BY <1>1, <1>5, <1>7, SoundStays
  <2>2. \A i \in Due' : ~Reaches(p, i, 0) /\ \A n : ~Reaches(p, i, n)
    <3>1. ASSUME NEW i \in Due' PROVE ~(i < p.at) /\ ~AnchoredAt(i, p.at)
      <4>1. i >= written + 1 /\ i \in Nat
        BY <1>1, <1>2, <3>1, Rigid, LogFacts DEF Due
      <4> QED BY <1>2, <1>4, <1>5, <1>7, <4>1
    <3> QED BY <3>1 DEF Reaches
  <2>3. \A q, i, n : Reaches(q, i, n)' <=> Reaches(q, i, n)
    BY <1>1, Rigid
  <2>4. \A j : Covered(p, j)'
    BY <2>2, <2>3 DEF Covered
  <2> QED BY <1>1, <1>7, <2>1, <2>4
<1>9. FlightKept'
  <2>1. flight' \in Seq({r}) /\ DOMAIN flight' = {1} /\ flight'[1] = r
    BY <1>1
  <2>2. flight' \in Seq(Range(flight'))
    BY <2>1, OfItsRange
  <2>3. ASSUME NEW n \in DOMAIN flight' PROVE \E q : q = flight'[n].pos /\ Sound(q)' /\ Covered(q, n)'
    <3>1. n = 1 /\ flight'[n].pos = p
      BY <1>6, <1>7, <2>1
    <3> QED BY <1>8, <3>1
  <2> QED BY <2>2, <2>3 DEF FlightKept
<1>10. StreamKept' /\ conv' \in Conversions' /\ lastSafe' \in Positions'
  <2>1. \A i : ~AnchoredAt(i, p.at)
    BY <1>5, <1>7
  <2>2. p \in Positions /\ c.file = p.file /\ rd' = p.at /\ lastSafe' = p /\ c.file \in Nat
    BY <1>1, <1>4, <1>7
  <2>3. Covered(p, Len(flight))'
    BY <1>7, <1>8
  <2> QED BY <1>1, <1>2, <1>3, <1>8, <2>1, <2>2, <2>3, NoneIsPosition, OpensAt
<1>11. SnapshotKept' /\ IncrementalKept'
  <2>1. SnapshotKept'
    BY <1>1, <1>2 DEF SnapshotKept
  <2>2. IncrementalKept'
    BY <1>1, <1>2, ShapeOfNew DEF IncrementalKept
  <2> QED BY <2>1, <2>2
<1> QED BY <1>3, <1>9, <1>10, <1>11 DEF Kept

LEMMA StartFromCheckpointKept ==
    ASSUME Kept, StartFromCheckpoint
    PROVE  Kept'
<1>1. PICK resume : resume = ckpt.pos
  OBVIOUS
<1> DEFINE c == [file |-> resume.file, at |-> resume.at]
           safe == IF resume.snap THEN AtCoordinates(c, 0, FALSE) ELSE resume
<1>2. /\ phase' = "opening" /\ ckpt.pos # None /\ lastSafe' = safe /\ conv' = NewConversion(c, resume) /\ rd' = c.at
      /\ UNCHANGED <<setup, written, since, delivered, ckpt, snapshot, flight, prep>>
      /\ \E a, b : inc' = NewIncremental(a, b)
  BY <1>1 DEF StartFromCheckpoint, StreamFrom, server, durable
<1>3. /\ LogKept /\ SnapshotKept /\ IncrementalKept /\ FlightKept /\ CheckpointKept /\ conv \in Conversions
      /\ written \in Nat /\ written <= Len(Events) /\ Len(Events) \in Nat
  BY LogFacts DEF Kept
<1>4. Sound(resume) /\ Covered(resume, 0) /\ resume \in Positions
  BY <1>1, <1>2, <1>3 DEF CheckpointKept, Sound
<1>5. FlightKept' /\ \A x : Arrives(x, Len(flight)) => Arrives(x, Len(flight))'
  BY <1>2, <1>3, FlightStays
<1>6. \A i \in Due : \A n \in DOMAIN Events[i].rows : Reaches(resume, i, n) => Arrives(<<i, n>>, Len(flight))
  <2>1. \A x : Arrives(x, 0) => Arrives(x, Len(flight))
    BY DEF Arrives
  <2> QED BY <1>4, <2>1 DEF Covered
<1>7. /\ safe \in Positions /\ safe.at = resume.at /\ safe.file = resume.file /\ c.file \in Nat /\ c.at = resume.at
      /\ c.file = resume.file
  <2>1. setup.gtid \in BOOLEAN
    BY <1>3, MySqlAssumption DEF LogKept
  <2> QED BY <1>4, <2>1 DEF AtCoordinates, Position, Positions
<1>8. \/ safe = resume /\ ~resume.snap
      \/ resume.snap /\ \A i : ~AnchoredAt(i, resume.at)
  <2>1. SUFFICES ASSUME resume.snap PROVE \A i : ~AnchoredAt(i, resume.at)
    BY <1>4 DEF Positions
  <2>2. resume.at \in 1 .. written + 1 /\ (resume.at <= written => Events[resume.at].kind # "map")
    BY <1>4, <2>1 DEF Sound
  <2>3. CASE resume.at = written + 1
    BY <1>3, <2>3, EndAnchors
  <2>4. CASE resume.at # written + 1
    BY <1>3, <2>2, <2>4, NoneAnchored
  <2> QED BY <2>3, <2>4
<1> HIDE DEF safe, c
<1>9. Sound(safe) /\ Covered(safe, Len(flight)) /\ Covered(resume, Len(flight))
  <2>1. Sound(safe)
    <3>1. CASE safe = resume
      BY <1>4, <3>1
    <3>2. CASE resume.snap
      BY <1>4, <1>7, <3>2 DEF Sound
    <3> QED BY <1>8, <3>1, <3>2
  <2>2. \A i, n : Reaches(safe, i, n) => Reaches(resume, i, n)
    <3>1. CASE safe = resume
      BY <3>1
    <3>2. CASE \A i : ~AnchoredAt(i, resume.at)
      BY <1>7, <3>2 DEF Reaches
    <3> QED BY <1>8, <3>1, <3>2
  <2> QED BY <1>6, <2>1, <2>2 DEF Covered
<1>10. PICK p, k, j : p = safe /\ k = Len(flight) /\ j = Len(flight')
  OBVIOUS
<1>11. Sound(p)' /\ Covered(p, j)' /\ Sound(resume)' /\ Covered(resume, j)'
  <2>1. \A x : Arrives(x, k) => Arrives(x, j)'
    BY <1>5, <1>10
  <2> QED BY <1>2, <1>4, <1>9, <1>10, <2>1, SoundStays, CoveredStays
<1>12. (\A i : ~AnchoredAt(i, p.at)) \/ (resume # None /\ ~resume.snap /\ resume.gtid)
  <2>1. SUFFICES ASSUME ~resume.snap, ~resume.gtid PROVE \A i : ~AnchoredAt(i, p.at)
    BY <1>1, <1>2, <1>7, <1>8, <1>10
  <2>2. p.at = resume.at /\ p.at \in 1 .. written + 1 /\ (p.at <= written => Events[p.at].kind # "map")
    BY <1>4, <1>7, <1>10, <2>1 DEF Sound
  <2>3. CASE p.at = written + 1
    BY <1>3, <2>3, EndAnchors
  <2>4. CASE p.at # written + 1
    BY <1>3, <2>2, <2>4, NoneAnchored
  <2> QED BY <2>3, <2>4
<1>13. StreamKept' /\ conv' \in Conversions' /\ lastSafe' \in Positions'
  <2>1. /\ p \in Positions /\ c.file = p.file /\ rd' = p.at /\ lastSafe' = p /\ c.file \in Nat /\ resume.at = p.at
    BY <1>2, <1>7, <1>10
  <2>2. Covered(p, Len(flight))' /\ Covered(resume, Len(flight))'
    BY <1>10, <1>11
  <2>3. LogKept'
    BY <1>2, <1>3, LogStays
  <2> QED BY <1>2, <1>3, <1>4, <1>11, <1>12, <2>1, <2>2, <2>3, OpensAt
<1>14. LogKept' /\ SnapshotKept' /\ CheckpointKept'
  BY <1>2, <1>3, LogStays, SnapshotStays, CheckpointStays
<1>15. IncrementalKept'
  BY <1>2, <1>3, ShapeOfNew DEF IncrementalKept
<1> QED BY <1>5, <1>13, <1>14, <1>15 DEF Kept


\* The record of a snapshot stands where capture began, before any row that is due.
LEMMA SnapshotPositioned ==
    ASSUME Kept, phase = "snapshot", NEW ordinal \in Nat, NEW p, p = SnapshotPosition(ordinal)
    PROVE  p \in Positions /\ Sound(p) /\ \A k : Covered(p, k)
<1>1. LogKept /\ SnapshotKept
  BY DEF Kept
<1>2. snapshot.coordinates = Coordinates(since) /\ since \in 1 .. written + 1 /\ since - 1 \in setup.ends \cup {0}
  BY <1>1 DEF SnapshotKept
<1>3. written \in Nat /\ since \in Nat
  BY <1>1, LogFacts
<1>4. p = [file |-> FileAt(since), at |-> since, gtid |-> setup.gtid, serial |-> ordinal, snap |-> TRUE]
  BY <1>2 DEF SnapshotPosition, AtCoordinates, Position, Coordinates
<1>5. p \in Positions
  <2>1. FileAt(since) \in Nat /\ setup.gtid \in BOOLEAN
    BY <1>1, <1>3, FileFacts, MySqlAssumption DEF LogKept
  <2> QED BY <1>3, <1>4, <2>1 DEF Positions
<1>6. p.at = since /\ p.file = FileAt(since)
  BY <1>4
<1>7. Sound(p) /\ \A i : ~AnchoredAt(i, p.at)
  BY <1>1, <1>2, <1>5, <1>6, AtTxn
<1>8. \A i \in Due : \A n : ~Reaches(p, i, n)
  <2>1. ASSUME NEW i \in Due PROVE ~(i < p.at)
    <3>1. i \in Nat /\ i >= since
      BY <1>1, LogFacts DEF Due
    <3> QED BY <1>3, <1>6, <3>1
  <2> QED BY <1>7, <2>1 DEF Reaches
<1> QED BY <1>5, <1>7, <1>8 DEF Covered

LEMMA SnapshotRowKept ==
    ASSUME Kept, SnapshotRow
    PROVE  Kept'
<1>1. CASE Fails("tableChanged") /\ UNCHANGED <<snapshot, flight>>
  <2>1. UNCHANGED <<setup, written, since, delivered, ckpt, snapshot, inc, prep, flight, conv, lastSafe>>
    BY <1>1 DEF SnapshotRow, server, durable
  <2> QED BY <1>1, <2>1, FailsKept DEF Fails
<1>2. CASE ~(Fails("tableChanged") /\ UNCHANGED <<snapshot, flight>>)
  <2>1. /\ phase = "snapshot" /\ UNCHANGED phase
        /\ UNCHANGED <<setup, written, since, delivered, ckpt, conv, rd, lastSafe, maps, inc, prep>>
        /\ snapshot' = [snapshot EXCEPT !.rows = Tail(@), !.ordinal = @ + 1]
    BY <1>2 DEF SnapshotRow, server, durable, conn
  <2>2. PICK p : p = SnapshotPosition(snapshot.ordinal)
    OBVIOUS
  <2>3. \E r : r.pos = p /\ flight' = Append(flight, r)
    <3>1. \E key, val, fits :
            flight' = Append(flight, Item(SnapshotPosition(snapshot.ordinal), key, val, <<0, 0>>, fits, FALSE))
      BY <1>2 DEF SnapshotRow
    <3>2. PICK key, val, fits : flight' = Append(flight, Item(p, key, val, <<0, 0>>, fits, FALSE))
      BY <2>2, <3>1
    <3>3. Item(p, key, val, <<0, 0>>, fits, FALSE).pos = p
      BY DEF Item
    <3> QED BY <3>2, <3>3
  <2>4. /\ LogKept /\ FlightKept /\ IncrementalKept /\ SnapshotKept /\ CheckpointKept /\ conv \in Conversions
        /\ lastSafe \in Positions
    BY DEF Kept
  <2>5. Sound(p) /\ Covered(p, Len(flight))
    BY <2>1, <2>2, <2>4, SnapshotPositioned DEF SnapshotKept
  <2>6. FlightKept'
    <3>1. PICK r : r.pos = p /\ flight' = Append(flight, r)
      BY <2>3
    <3>2. Sound(r.pos) /\ Covered(r.pos, Len(flight))
      BY <2>5, <3>1
    <3> QED BY <2>1, <2>4, <3>1, <3>2, SendsOne
  <2>7. SnapshotKept'
    <3>1. PICK c, o, rs : snapshot = [coordinates |-> c, ordinal |-> o, rows |-> rs] /\ o \in Nat
      BY <2>4 DEF SnapshotKept
    <3>2. snapshot' = [coordinates |-> c, ordinal |-> o + 1, rows |-> Tail(rs)]
      BY <2>1, <3>1
    <3>3. c = Coordinates(since) /\ since \in 1 .. written + 1 /\ since - 1 \in setup.ends \cup {0}
      BY <2>1, <2>4, <3>1 DEF SnapshotKept
    <3>4. Coordinates(since)' = Coordinates(since)
      BY <2>1, Rigid
    <3>5. /\ snapshot' = [coordinates |-> snapshot'.coordinates, ordinal |-> snapshot'.ordinal, rows |-> snapshot'.rows]
          /\ snapshot'.ordinal \in Nat /\ snapshot'.coordinates = c
      BY <3>1, <3>2
    <3>6. c = Coordinates(since)' /\ since' \in 1 .. written' + 1 /\ since' - 1 \in setup'.ends \cup {0}
      BY <2>1, <3>3, <3>4
    <3> QED BY <3>5, <3>6 DEF SnapshotKept
  <2>8. LogKept' /\ CheckpointKept' /\ IncrementalKept'
    BY <2>1, <2>4, LogStays, CheckpointStays, IncrementalStays
  <2>9. conv' \in Conversions' /\ lastSafe' \in Positions' /\ ~Connected'
    BY <2>1, <2>4, Rigid DEF Connected
  <2> QED BY <2>6, <2>7, <2>8, <2>9 DEF Kept
<1> QED BY <1>1, <1>2

LEMMA SnapshotEndKept ==
    ASSUME Kept, SnapshotEnd
    PROVE  Kept'
<1>1. PICK c : c = snapshot.coordinates
  OBVIOUS
<1>2. PICK safe : safe = AtCoordinates(c, 0, FALSE)
  OBVIOUS
<1>3. PICK p : p = SnapshotPosition(snapshot.ordinal)
  OBVIOUS
<1>4. /\ phase = "snapshot" /\ phase' = "opening" /\ conv' = NewConversion(c, None) /\ rd' = c.at /\ lastSafe' = safe
      /\ UNCHANGED <<setup, written, since, delivered, ckpt, snapshot, inc, prep>>
  BY <1>1, <1>2 DEF SnapshotEnd, StreamFrom, server, durable, side
<1>5. \E r : r.pos = p /\ flight' = Append(flight, r)
  <2> DEFINE mark == Mark(p, TRUE, State(schemas, inc))
             end == [mark EXCEPT !.snapshotEnd = TRUE]
  <2>1. flight' = Append(flight, end)
    BY <1>3 DEF SnapshotEnd
  <2>2. end.pos = p
    <3>1. mark.pos = p /\ "pos" \in DOMAIN mark
      BY DEF Mark, Item
    <3> HIDE DEF mark
    <3> QED BY <3>1
  <2> QED BY <2>1, <2>2
<1>6. /\ LogKept /\ FlightKept /\ IncrementalKept /\ SnapshotKept /\ CheckpointKept /\ conv \in Conversions
      /\ lastSafe \in Positions
  BY DEF Kept
<1>7. c = Coordinates(since) /\ since \in 1 .. written + 1 /\ since - 1 \in setup.ends \cup {0}
  BY <1>1, <1>4, <1>6 DEF SnapshotKept
<1>8. Sound(p) /\ Covered(p, Len(flight))
  BY <1>3, <1>4, <1>6, SnapshotPositioned DEF SnapshotKept
<1>9. FlightKept'
  <2>1. PICK r : r.pos = p /\ flight' = Append(flight, r)
    BY <1>5
  <2>2. Sound(r.pos) /\ Covered(r.pos, Len(flight))
    BY <1>8, <2>1
  <2> QED BY <1>4, <1>6, <2>1, <2>2, SendsOne
<1>10. written \in Nat /\ since \in Nat
  BY <1>6, LogFacts
<1>11. c.file = FileAt(since) /\ c.at = since /\ c.file \in Nat
  <2>1. FileAt(since) \in Nat
    BY <1>6, <1>10, FileFacts
  <2> QED BY <1>7, <2>1 DEF Coordinates
<1>12. safe \in Positions /\ safe.at = since /\ safe.file = c.file
  <2>1. setup.gtid \in BOOLEAN
    BY <1>6, MySqlAssumption DEF LogKept
  <2> QED BY <1>2, <1>10, <1>11, <2>1 DEF AtCoordinates, Position, Positions
<1>13. Sound(safe) /\ \A i : ~AnchoredAt(i, safe.at)
  BY <1>6, <1>7, <1>11, <1>12, AtTxn
<1>14. \A i \in Due : \A n : ~Reaches(safe, i, n)
  <2>1. ASSUME NEW i \in Due PROVE ~(i < safe.at)
    <3>1. i \in Nat /\ i >= since
      BY <1>6, LogFacts DEF Due
    <3> QED BY <1>10, <1>12, <3>1
  <2> QED BY <1>13, <2>1 DEF Reaches
<1>15. Sound(safe)' /\ \A k : Covered(safe, k)'
  <2>1. Sound(safe)'
    BY <1>4, <1>13, SoundStays
  <2>2. Due' = Due /\ \A q, i, n : Reaches(q, i, n)' <=> Reaches(q, i, n)
    BY <1>4, DueStays, Rigid
  <2> QED BY <1>14, <2>1, <2>2 DEF Covered
<1>16. LogKept' /\ CheckpointKept' /\ IncrementalKept'
  BY <1>4, <1>6, LogStays, CheckpointStays, IncrementalStays
<1>17. StreamKept' /\ conv' \in Conversions' /\ lastSafe' \in Positions'
  <2>1. PICK k : k = Len(flight')
    OBVIOUS
  <2>2. Covered(safe, k)'
    BY <1>15
  <2>3. Covered(safe, Len(flight))'
    BY <2>1, <2>2
  <2> QED BY <1>4, <1>6, <1>11, <1>12, <1>13, <1>15, <1>16, <2>3, NoneIsPosition, OpensAt
<1>18. SnapshotKept'
  BY <1>4, <1>6 DEF SnapshotKept
<1> QED BY <1>9, <1>16, <1>17, <1>18 DEF Kept

-----------------------------------------------------------------------------
(* The theorem.                                                             *)

LEMMA InitKept ==
    ASSUME LogsSound, Init
    PROVE  Kept /\ offset \in Nat
<1>1. /\ setup \in Setups /\ written = 0 /\ since = 0 /\ flight = <<>> /\ phase = "down" /\ ckpt = NoCheckpoint
      /\ conv = NewConversion(Coordinates(0), None) /\ lastSafe = None /\ offset = 0
      /\ snapshot = [coordinates |-> Coordinates(0), ordinal |-> 0, rows |-> <<>>]
      /\ inc = NewIncremental(NoProgress, <<>>)
      /\ prep = [step |-> "none", low |-> NoWindow.low, max |-> 0, rows |-> {}, fits |-> TRUE]
  BY DEF Init, Idle, NoPrep
<1>2. LogKept
  BY <1>1 DEF LogKept, LogsSound
<1>3. IncrementalKept
  <2>1. Shaped(inc) /\ IsFiniteSet({})
    BY <1>1, ShapeOfNew, FS_EmptySet
  <2> QED BY <1>1, <2>1 DEF IncrementalKept
<1>4. FlightKept
  <2>1. flight \in Seq(Range(flight)) /\ DOMAIN flight = {}
    BY <1>1
  <2> QED BY <2>1 DEF FlightKept
<1>5. SnapshotKept /\ CheckpointKept
  BY <1>1 DEF SnapshotKept, CheckpointKept, NoCheckpoint
<1>6. conv \in Conversions /\ lastSafe \in Positions
  <2>1. Coordinates(0).file \in Nat
    BY <1>2, FileFacts DEF Coordinates
  <2> QED BY <1>1, <2>1, NoneIsPosition, NewConversionFacts
<1>7. ~Connected
  BY <1>1 DEF Connected
<1> QED BY <1>1, <1>2, <1>3, <1>4, <1>5, <1>6, <1>7 DEF Kept

\* Signals of the topic or the file are counted.
LEMMA OffsetCounted ==
    ASSUME Kept, offset \in Nat, [Next]_vars
    PROVE  offset' \in Nat
<1>1. Len(External) \in Nat
  <2>1. setup.external \in Seq(Range(setup.external))
    BY MySqlAssumption DEF Kept, LogKept
  <2> QED BY <2>1 DEF External
<1>2. \/ UNCHANGED offset \/ CommitOffset \/ TakeFile
  BY DEF Next, vars, durable, Write, Apply, Purge, Validate, Start, StartSnapshot, StartFromCheckpoint, StartRefused,
         StartAtEnd, Snapshot, SnapshotDiscover, SnapshotRow, SnapshotEnd, OpenStream, connectionRest, Disconnect,
         Reconnect, Stream, eventRest, Rotate, TableMap, Begin, Rollback, Other, Unmapped, Rows, SourceSignal,
         Commit, Ddl, Chunk, prepRest, ChunkLow, ChunkMax, ChunkRows, ChunkHigh, FinishWindow, Heartbeat,
         ExternalSignals, TakeExternal, Flush, Regress, Crash
<1>3. ASSUME CommitOffset PROVE offset' \in Nat
  BY <1>3 DEF CommitOffset
<1>4. ASSUME TakeFile PROVE offset' \in Nat
  BY <1>1, <1>4 DEF TakeFile
<1> QED BY <1>2, <1>3, <1>4

LEMMA StepKept ==
    ASSUME Kept, offset \in Nat, [Next]_vars
    PROVE  Kept' /\ offset' \in Nat
<1>1. offset' \in Nat
  BY OffsetCounted
<1>2. CASE UNCHANGED vars
  <2>1. UNCHANGED <<setup, written, since, delivered, ckpt, snapshot, conv, rd, lastSafe, flight, maps, phase, inc, prep>>
    BY <1>2 DEF vars, server, durable, task, conn, side
  <2>2. IncrementalKept' /\ FlightKept' /\ \A x : Arrives(x, Len(flight)) => Arrives(x, Len(flight))'
    BY <2>1, IncrementalStays, FlightStays DEF Kept
  <2>3. Kept'
    BY <2>1, <2>2, BesideKept DEF Connected
  <2> QED BY <1>1, <2>3
<1>3. CASE Write \/ Apply \/ Purge
  BY <1>1, <1>3, WriteKept, ServerKept
<1>4. CASE Validate \/ Start
  BY <1>1, <1>4, ValidateKept, StartSnapshotKept, StartFromCheckpointKept, StartAtEndKept DEF Start
<1>5. CASE Snapshot
  BY <1>1, <1>5, ValidateKept, SnapshotRowKept, SnapshotEndKept DEF Snapshot
<1>6. CASE OpenStream \/ Disconnect \/ Reconnect
  BY <1>1, <1>6, ConnectionKept, ReconnectKept
<1>7. CASE Stream
  BY <1>1, <1>7, RotateKept, TableMapKept, BeginKept, RollbackKept, OtherKept, UnmappedKept, RowsKept, SourceSignalKept,
     CommitKept, DdlKept DEF Stream
<1>8. CASE Chunk \/ FinishWindow
  BY <1>1, <1>8, ChunkKept, WindowFinished
<1>9. CASE Heartbeat \/ ExternalSignals
  BY <1>1, <1>9, HeartbeatKept, SignalsKept
<1>10. CASE Flush \/ Regress \/ Crash
  BY <1>1, <1>10, FlushKept, RegressKept, CrashKept
<1> QED BY <1>2, <1>3, <1>4, <1>5, <1>6, <1>7, <1>8, <1>9, <1>10 DEF Next

LEMMA AlwaysKept == LogsSound => (Spec => [](Kept /\ offset \in Nat))
<1>1. LogsSound /\ Init => Kept /\ offset \in Nat
  BY InitKept
<1>2. (Kept /\ offset \in Nat) /\ [Next]_vars => (Kept /\ offset \in Nat)'
  BY StepKept
<1>3. CASE LogsSound
  <2>1. Init => Kept /\ offset \in Nat
    BY <1>1, <1>3
  <2> QED BY <1>2, <2>1, PTL DEF Spec
<1> QED BY <1>3

LEMMA KeptNoGap ==
    ASSUME Kept
    PROVE  NoGap
<1>1. SUFFICES ASSUME phase = "streaming", NEW i \in Captured, i < rd, NEW x \in ChangesOf(i)
               PROVE  x \in delivered \cup {r.at : r \in Range(flight)}
  BY DEF NoGap
<1>2. LogKept /\ CursorKept /\ FlightKept
  BY <1>1 DEF Kept, Connected, StreamKept
<1>3. i \in Due
  <2>1. DOMAIN Events = 1 .. Len(Events) /\ written \in 0 .. Len(Events) /\ Len(Events) \in Nat
    BY <1>2, LogFacts
  <2> QED BY <1>1, <2>1 DEF Captured, Due
<1>4. PICK n \in DOMAIN Events[i].rows : x = <<i, n>>
  BY <1>1 DEF ChangesOf
<1>5. Arrives(x, Len(flight))
  BY <1>1, <1>2, <1>3, <1>4 DEF CursorKept
<1>6. ASSUME NEW k \in 1 .. Len(flight), flight[k].at = x PROVE x \in {r.at : r \in Range(flight)}
  <2>1. flight[k] \in Range(flight)
    BY <1>2, <1>6, OfItsRange DEF FlightKept
  <2> QED BY <1>6, <2>1
<1> QED BY <1>5, <1>6 DEF Arrives

\* Whatever the stream has passed has been sent, with any binary log a server may
\* write: the replay filter of convert_rows and commit_record (should_skip) drops only
\* rows that reached the sink before, although serials and anchors are counted anew on
\* each connection and after each rotation, and resumption may begin within a
\* transaction or its table map, from a checkpoint or the last safe position.
THEOREM NeverAGap == LogsSound => (Spec => []NoGap)
<1>1. Kept /\ offset \in Nat => NoGap
  BY KeptNoGap
<1>2. CASE LogsSound
  BY <1>1, <1>2, AlwaysKept, PTL
<1> QED BY <1>2

=============================================================================
