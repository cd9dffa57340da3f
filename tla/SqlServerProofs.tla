---------------------------- MODULE SqlServerProofs ----------------------------
(***************************************************************************)
(* Theorems about the SQL Server source (SqlServer): its cursor passes     *)
(* over no change, and each event is whole, wherever polls, batches,       *)
(* failures and restarts cut a transaction.                                *)
(***************************************************************************)
EXTENDS SqlServer, SequenceTheorems, FiniteSetTheorems, TLAPS

\* A signal that is refused whenever it comes.
Rejected(s, signal) ==
    \/ signal.type = "invalid"
    \/ signal.type = "execute" /\ (~s.signalTable \/ Range(signal.tables) \cap {key.table : key \in DOMAIN s.rows} = {})

\* Where a batch may end within a transaction, no signal is carried out: a checkpoint
\* with connector state is taken for the end of a transaction (ResumeCursor).
Ordinary(s) ==
    s.cuts =>
        /\ s.channel = "kafka" \/ s.external = <<>>
        /\ \A n \in DOMAIN s.external : Rejected(s, s.external[n])
        /\ \A n \in DOMAIN s.script : \A m \in DOMAIN s.script[n] :
            s.script[n][m].op = "signal" => Rejected(s, s.script[n][m].signal)

SetupsOrdinary == \A s \in Setups : Ordinary(s)

-----------------------------------------------------------------------------
(* The inductive invariant.                                                 *)

Cursors == [commit : Nat, change : Nat, code : 0 .. 5]
Positions == [commit : Nat, change : Nat, serial : Nat, snap : BOOLEAN]
Conversions == [cursor : Cursors, txn : [commit : Nat, order : Nat], pending : SUBSET (Nat \X Nat), resume : Positions]

\* The row of the change tables a change is complete with.
LastRow(x) == Cursor(x[1], x[2], CASE log[x[1]][x[2]].op = "u" -> 4 [] log[x[1]][x[2]].op = "d" -> 1 [] OTHER -> 2)

\* A start from position p takes change x as read.
Reaches(p, x) ==
    \/ x[1] < p.commit
    \/ /\ x[1] = p.commit
       /\ \/ ~setup.cuts \/ p.snap \/ p.serial = CommitSerial
          \/ ~Precedes(Cursor(p.commit, p.change, p.serial), LastRow(x))

\* The sink has change x, or will with the first n records in flight.
Arrives(x, n) == x \in delivered \/ \E k \in 1 .. n : flight[k].at = x

LogKept ==
    /\ setup \in Setups
    /\ log \in Seq(Seq(Changes)) /\ captured \in 1 .. Len(log) /\ cleaned \in Nat /\ since \in 0 .. captured
    /\ wrote \in Nat /\ offset \in Nat
    /\ \A n \in DOMAIN log :
        /\ Len(log[n]) < Top
        /\ \A m \in DOMAIN log[n] :
            LET c == log[n][m]
            IN  /\ Business(c.op) => [table |-> c.table, k |-> c.k] # NoKey
                /\ setup.cuts /\ c.op = "signal" => Rejected(setup, c.signal)

\* A window's rows can be counted.
ShapedWindow(w) ==
    /\ w = [id |-> w.id, table |-> w.table, rows |-> w.rows, max |-> w.max, last |-> w.last, count |-> w.count,
            closeAt |-> w.closeAt]
    /\ IsFiniteSet(w.rows)

Shaped(c) ==
    /\ c = [progress |-> c.progress, completed |-> c.completed, opening |-> c.opening, window |-> c.window,
            serial |-> c.serial, dirty |-> c.dirty]
    /\ ShapedWindow(c.window) /\ c.serial \in Nat /\ c.opening \in Nat

\* Watermarks are numbered by the log.
IncrementalKept ==
    /\ Shaped(inc)
    /\ prep = [step |-> prep.step, id |-> prep.id, max |-> prep.max] /\ prep.id \in Nat

SnapshotKept ==
    /\ snapshot = [anchor |-> snapshot.anchor, ordinal |-> snapshot.ordinal, recovery |-> snapshot.recovery,
                   moment |-> snapshot.moment, rows |-> snapshot.rows]
    /\ snapshot.ordinal \in Nat
    /\ phase = "snapshot" => snapshot.anchor = since

\* Where batches may end anywhere there is no connector state.
QuietKept ==
    setup.cuts =>
        /\ inc = NewIncremental(NoProgress, <<>>) /\ prep = NoPrep /\ ckpt.state = NoState
        /\ \A n \in DOMAIN flight : flight[n].state = NoState

\* A batch that ends with a record makes a checkpoint of its position.
FlightKept ==
    /\ flight \in Seq(Range(flight))
    /\ \A n \in DOMAIN flight :
        /\ flight[n].pos \in Positions /\ flight[n].pos.commit <= captured
        /\ setup.cuts \/ flight[n].commit \/ flight[n].key = NoKey =>
            \A x \in Due : Reaches(flight[n].pos, x) => Arrives(x, n)
        /\ flight[n].at = <<0, 0>> \/ (flight[n].at[1] \in DOMAIN log /\ flight[n].at[2] \in DOMAIN log[flight[n].at[1]])
        /\ flight[n].paired /\ flight[n].order = Place(flight[n].at)

CheckpointKept ==
    /\ ckpt.pos \in Positions /\ ckpt.pos.commit <= captured
    /\ \A x \in Due : Reaches(ckpt.pos, x) => x \in delivered

\* What the cursor has passed is on its way; what the replay filter drops has arrived.
CursorKept ==
    /\ conv.cursor.commit <= captured
    /\ \A x \in Due : ~Precedes(conv.cursor, LastRow(x)) => Arrives(x, Len(flight))
    /\ ~conv.resume.snap /\ conv.resume.commit <= captured
    /\ conv.resume # None =>
        \A x \in Due : IsAtOrBefore(Position(x[1], x[2], LastRow(x).code, FALSE), conv.resume) => x \in delivered
    /\ lastSafe \in Positions /\ lastSafe.commit <= conv.cursor.commit

\* The entries of the poll lie behind the cursor, in order, and none is missing.
BatchKept ==
    /\ batch \in Seq(Cursors)
    /\ \A n \in DOMAIN batch :
        /\ batch[n].commit \in 1 .. captured /\ Precedes(conv.cursor, batch[n])
        /\ batch[n] \in RowsOf(batch[n].commit) \/ batch[n] = AtSnapshot(batch[n].commit)
        /\ \A m \in DOMAIN batch : m < n => Precedes(batch[m], batch[n])
        /\ \A i \in DOMAIN log : \A r \in RowsOf(i) :
            Precedes(conv.cursor, r) /\ ~Precedes(batch[n], r) => \E m \in DOMAIN batch : batch[m] = r

\* The transaction being read, and the half of an update that waits.
TxnKept ==
    LET c == conv.cursor
        n == Place(<<c.commit, c.change>>)
    IN  /\ conv.txn.commit <= c.commit
        /\ \/ c = AtSnapshot(c.commit)
           \/ c.change = 0 /\ c.code = 0 /\ conv.txn = NoTxn
           \/ /\ c.commit \in DOMAIN log /\ c \in RowsOf(c.commit)
              /\ c.code # 3 => conv.txn = [commit |-> c.commit, order |-> n]
              /\ c.code = 3 =>
                  /\ <<c.commit, c.change>> \in conv.pending
                  /\ IF n = 1 THEN conv.txn.commit # c.commit
                     ELSE conv.txn = [commit |-> c.commit, order |-> n - 1]

Kept ==
    /\ LogKept /\ IncrementalKept /\ SnapshotKept /\ QuietKept /\ FlightKept /\ CheckpointKept
    /\ conv \in Conversions
    /\ phase = "streaming" => CursorKept /\ BatchKept /\ TxnKept

-----------------------------------------------------------------------------
(* Cursors and positions in their order.                                    *)

\* Cursors are compared by commit, change and operation.
LEMMA OrderOfThree ==
    ASSUME NEW a, NEW b, {a.commit, a.change, a.code, b.commit, b.change, b.code} \subseteq Nat
    PROVE  Precedes(a, b) <=>
              \/ a.commit < b.commit
              \/ a.commit = b.commit /\ a.change < b.change
              \/ a.commit = b.commit /\ a.change = b.change /\ a.code < b.code
<1> DEFINE s == <<a.commit, a.change, a.code>>
           t == <<b.commit, b.change, b.code>>
<1>1. DOMAIN s = 1 .. 3
  OBVIOUS
<1>2. Before(s, t) <=> \E n \in 1 .. 3 : s[n] < t[n] /\ \A m \in 1 .. n - 1 : s[m] = t[m]
  BY <1>1 DEF Before
<1>3. a.commit \in Nat /\ a.change \in Nat /\ a.code \in Nat /\ b.commit \in Nat /\ b.change \in Nat /\ b.code \in Nat
  OBVIOUS
<1>4. /\ 1 .. 1 - 1 = {} /\ 1 .. 2 - 1 = {1} /\ 1 .. 3 - 1 = {1, 2} /\ 1 .. 3 = {1, 2, 3}
  OBVIOUS
<1>5. Before(s, t) <=>
        \/ s[1] < t[1]
        \/ s[1] = t[1] /\ s[2] < t[2]
        \/ s[1] = t[1] /\ s[2] = t[2] /\ s[3] < t[3]
  BY <1>2, <1>4
<1> QED BY <1>5 DEF Precedes

LEMMA CursorOrder ==
    ASSUME NEW a \in Cursors, NEW b \in Cursors
    PROVE  Precedes(a, b) <=>
              \/ a.commit < b.commit
              \/ a.commit = b.commit /\ a.change < b.change
              \/ a.commit = b.commit /\ a.change = b.change /\ a.code < b.code
<1>1. {a.commit, a.change, a.code, b.commit, b.change, b.code} \subseteq Nat
  BY DEF Cursors
<1> QED BY <1>1, OrderOfThree

LEMMA CursorTotal ==
    ASSUME NEW a \in Cursors, NEW b \in Cursors
    PROVE  /\ ~Precedes(a, a) /\ ~(Precedes(a, b) /\ Precedes(b, a))
           /\ a = b \/ Precedes(a, b) \/ Precedes(b, a)
<1>1. a = b \/ a.commit # b.commit \/ a.change # b.change \/ a.code # b.code
  BY DEF Cursors
<1>2. a.commit \in Nat /\ a.change \in Nat /\ a.code \in Nat /\ b.commit \in Nat /\ b.change \in Nat /\ b.code \in Nat
  BY DEF Cursors
<1> QED BY <1>1, <1>2, CursorOrder

LEMMA CursorTransitive ==
    ASSUME NEW a \in Cursors, NEW b \in Cursors, NEW c \in Cursors
    PROVE  /\ Precedes(a, b) /\ Precedes(b, c) => Precedes(a, c)
           /\ Precedes(a, b) /\ ~Precedes(c, b) => Precedes(a, c)
           /\ ~Precedes(b, a) /\ Precedes(b, c) => Precedes(a, c)
<1>1. /\ a.commit \in Nat /\ a.change \in Nat /\ a.code \in Nat /\ b.commit \in Nat /\ b.change \in Nat /\ b.code \in Nat
      /\ c.commit \in Nat /\ c.change \in Nat /\ c.code \in Nat
  BY DEF Cursors
<1> QED BY <1>1, CursorOrder

\* A row's position against another: by commit, change and serial.
LEMMA PositionOrder ==
    ASSUME NEW p \in Positions, NEW q \in Positions, ~p.snap, ~q.snap
    PROVE  IsAtOrBefore(p, q) <=>
              \/ p.commit < q.commit
              \/ p.commit = q.commit /\ p.change < q.change
              \/ p.commit = q.commit /\ p.change = q.change /\ p.serial <= q.serial
<1> DEFINE s == <<p.commit, p.change, 1, p.serial>>
           t == <<q.commit, q.change, 1, q.serial>>
<1>1. SortKey(p) = s /\ SortKey(q) = t
  BY DEF SortKey
<1>2. DOMAIN s = 1 .. 4
  OBVIOUS
<1>3. Before(s, t) <=> \E n \in 1 .. 4 : s[n] < t[n] /\ \A m \in 1 .. n - 1 : s[m] = t[m]
  BY <1>2 DEF Before
<1>4. /\ 1 .. 1 - 1 = {} /\ 1 .. 2 - 1 = {1} /\ 1 .. 3 - 1 = {1, 2} /\ 1 .. 4 - 1 = {1, 2, 3} /\ 1 .. 4 = {1, 2, 3, 4}
  OBVIOUS
<1>5. Before(s, t) <=>
        \/ s[1] < t[1]
        \/ s[1] = t[1] /\ s[2] < t[2]
        \/ s[1] = t[1] /\ s[2] = t[2] /\ s[3] < t[3]
        \/ s[1] = t[1] /\ s[2] = t[2] /\ s[3] = t[3] /\ s[4] < t[4]
  BY <1>3, <1>4
<1>6. /\ p.commit \in Nat /\ p.change \in Nat /\ p.serial \in Nat /\ q.commit \in Nat /\ q.change \in Nat /\ q.serial \in Nat
  BY DEF Positions
<1>7. p = q <=> p.commit = q.commit /\ p.change = q.change /\ p.serial = q.serial
  BY DEF Positions
<1>8. IsAtOrBefore(p, q) <=> p = q \/ Before(s, t)
  BY <1>1 DEF IsAtOrBefore, IsAfter
<1> QED BY <1>5, <1>6, <1>7, <1>8

\* Cursors up to a commit can be counted.
LEMMA CursorsFinite ==
    ASSUME NEW S, NEW n \in Nat, S \subseteq {c \in Cursors : c.commit <= n /\ c.change <= Top}
    PROVE  IsFiniteSet(S)
<1> DEFINE w(c) == 600 * c.commit + 6 * c.change + c.code
           f == [c \in S |-> w(c)]
           N == 600 * n + 600
<1>1. \A c \in S : /\ c.commit \in Nat /\ c.change \in Nat /\ c.code \in 0 .. 5 /\ c.commit <= n /\ c.change <= 99
                   /\ c \in Cursors
  BY DEF Cursors, Top
<1>2. f \in [S -> 0 .. N]
  <2>1. \A c \in S : w(c) \in 0 .. N
    BY <1>1
  <2> HIDE DEF w, N
  <2> QED BY <2>1
<1>3. \A a, b \in S : a # b => f[a] # f[b]
  <2>1. SUFFICES ASSUME NEW a \in S, NEW b \in S, w(a) = w(b) PROVE a = b
    BY DEF f
  <2>2. /\ a.commit \in Nat /\ a.change \in 0 .. 99 /\ a.code \in 0 .. 5
        /\ b.commit \in Nat /\ b.change \in 0 .. 99 /\ b.code \in 0 .. 5
    BY <1>1
  <2>3. a.commit = b.commit /\ a.change = b.change /\ a.code = b.code
    <3>1. 600 * a.commit + 6 * a.change + a.code = 600 * b.commit + 6 * b.change + b.code
      BY <2>1
    <3>2. PICK x, i, k, y, j, l : /\ x = a.commit /\ i = a.change /\ k = a.code
                                   /\ y = b.commit /\ j = b.change /\ l = b.code
      OBVIOUS
    <3>3. /\ x \in Nat /\ i \in 0 .. 99 /\ k \in 0 .. 5 /\ y \in Nat /\ j \in 0 .. 99 /\ l \in 0 .. 5
          /\ 600 * x + 6 * i + k = 600 * y + 6 * j + l
      BY <2>2, <3>1, <3>2
    <3>4. x = y
      BY ONLY <3>3
    <3>5. i = j /\ k = l
      BY ONLY <3>3, <3>4
    <3> QED BY <3>2, <3>4, <3>5
  <2> QED BY <1>1, <2>3 DEF Cursors
<1>4. f \in Injection(S, 0 .. N)
  BY <1>2, <1>3 DEF Injection, IsInjective
<1>5. IsFiniteSet(0 .. N)
  BY FS_Interval
<1> HIDE DEF f, N
<1> QED BY <1>4, <1>5, FS_Injection

\* The number of elements before one grows along the order.
LEMMA Ranks ==
    ASSUME NEW S, IsFiniteSet(S), S \subseteq Cursors
    PROVE  LET R(c) == {o \in S : Precedes(o, c)}
           IN  /\ \A c \in S : IsFiniteSet(R(c)) /\ Cardinality(R(c)) \in 0 .. Cardinality(S) - 1
               /\ \A a, b \in S : Precedes(a, b) <=> Cardinality(R(a)) < Cardinality(R(b))
<1> DEFINE R(c) == {o \in S : Precedes(o, c)}
           N == Cardinality(S)
<1>0. N \in Nat
  BY FS_CardinalityType
<1>1. ASSUME NEW c \in S
      PROVE  IsFiniteSet(R(c)) /\ Cardinality(R(c)) \in 0 .. N - 1
  <2>1. R(c) \in SUBSET S /\ c \notin R(c)
    BY CursorTotal
  <2>2. IsFiniteSet(R(c)) /\ Cardinality(R(c)) <= N /\ (N = Cardinality(R(c)) => S = R(c))
    BY <2>1, FS_Subset
  <2>3. Cardinality(R(c)) \in Nat
    BY <2>2, FS_CardinalityType
  <2> HIDE DEF R, N
  <2> QED BY <1>0, <2>1, <2>2, <2>3
<1>2. ASSUME NEW a \in S, NEW b \in S, Precedes(a, b)
      PROVE  Cardinality(R(a)) < Cardinality(R(b))
  <2>1. a \in R(b) /\ a \notin R(a)
    BY <1>2, CursorTotal
  <2>2. R(a) \in SUBSET R(b)
    BY <1>2, CursorTransitive
  <2>3. Cardinality(R(a)) <= Cardinality(R(b)) /\ (Cardinality(R(b)) = Cardinality(R(a)) => R(b) = R(a))
    BY <1>1, <2>2, FS_Subset
  <2>4. Cardinality(R(a)) \in Nat /\ Cardinality(R(b)) \in Nat
    BY <1>1, FS_CardinalityType
  <2> HIDE DEF R
  <2> QED BY <2>1, <2>3, <2>4
<1>3. ASSUME NEW a \in S, NEW b \in S, Cardinality(R(a)) < Cardinality(R(b))
      PROVE  Precedes(a, b)
  <2>1. a = b \/ Precedes(a, b) \/ Precedes(b, a)
    BY CursorTotal
  <2>2. Cardinality(R(a)) \in Nat /\ Cardinality(R(b)) \in Nat
    BY <1>1, FS_CardinalityType
  <2>3. Precedes(b, a) => Cardinality(R(b)) < Cardinality(R(a))
    BY <1>2
  <2> HIDE DEF R
  <2> QED BY <1>3, <2>1, <2>2, <2>3
<1> HIDE DEF N
<1>4. \A c \in S : IsFiniteSet(R(c)) /\ Cardinality(R(c)) \in 0 .. N - 1
  BY <1>1
<1>5. \A a, b \in S : Precedes(a, b) <=> Cardinality(R(a)) < Cardinality(R(b))
  BY <1>2, <1>3
<1> QED BY <1>4, <1>5 DEF N

\* InOrder enumerates cursors in their order.
LEMMA InOrderFacts ==
    ASSUME NEW S, IsFiniteSet(S), S \subseteq Cursors
    PROVE  /\ InOrder(S, Precedes) \in Seq(S)
           /\ \A n, m \in DOMAIN InOrder(S, Precedes) :
                n < m => Precedes(InOrder(S, Precedes)[n], InOrder(S, Precedes)[m])
           /\ \A c \in S : \E n \in DOMAIN InOrder(S, Precedes) : InOrder(S, Precedes)[n] = c
<1> DEFINE R(c) == {o \in S : Precedes(o, c)}
           N == Cardinality(S)
           e(n) == CHOOSE c \in S : Cardinality(R(c)) = n - 1
           seq == [n \in 1 .. N |-> e(n)]
           f == [c \in S |-> Cardinality(R(c)) + 1]
<1>0. N \in Nat
  BY FS_CardinalityType
<1>1. InOrder(S, Precedes) = seq
  BY DEF InOrder
<1>2. /\ \A c \in S : IsFiniteSet(R(c)) /\ Cardinality(R(c)) \in 0 .. N - 1
      /\ \A a, b \in S : Precedes(a, b) <=> Cardinality(R(a)) < Cardinality(R(b))
  BY Ranks
<1>3. \A a, b \in S : Cardinality(R(a)) = Cardinality(R(b)) => a = b
  <2>1. ASSUME NEW a \in S, NEW b \in S, Cardinality(R(a)) = Cardinality(R(b)) PROVE a = b
    <3>1. Cardinality(R(a)) \in Nat
      BY <1>2, FS_CardinalityType
    <3>2. ~Precedes(a, b) /\ ~Precedes(b, a)
      <4> HIDE DEF R, N
      <4> QED BY <1>2, <2>1, <3>1
    <3> QED BY <3>2, CursorTotal
  <2> QED BY <2>1
<1>4. \A n \in 1 .. N : \E c \in S : Cardinality(R(c)) = n - 1
  <2>1. f \in [S -> 1 .. N]
    <3>1. \A c \in S : Cardinality(R(c)) + 1 \in 1 .. N
      <4> HIDE DEF R, N
      <4> QED BY <1>0, <1>2
    <3> HIDE DEF R, N
    <3> QED BY <3>1
  <2>2. \A a, b \in S : a # b => f[a] # f[b]
    <3>1. \A a, b \in S : Cardinality(R(a)) + 1 = Cardinality(R(b)) + 1 => Cardinality(R(a)) = Cardinality(R(b))
      <4> HIDE DEF R, N
      <4> QED BY <1>0, <1>2
    <3> HIDE DEF R, N
    <3> QED BY <1>3, <3>1
  <2>3. f \in Injection(S, 1 .. N)
    BY <2>1, <2>2 DEF Injection, IsInjective
  <2>4. IsFiniteSet(1 .. N) /\ Cardinality(1 .. N) = Cardinality(S)
    BY <1>0, FS_Interval
  <2>5. f \in Surjection(S, 1 .. N)
    BY <2>3, <2>4, FS_Injection
  <2>6. \A n \in 1 .. N : \E c \in S : f[c] = n
    BY <2>5 DEF Surjection
  <2>7. ASSUME NEW n \in 1 .. N PROVE \E c \in S : Cardinality(R(c)) = n - 1
    <3>1. PICK c \in S : f[c] = n
      BY <2>6
    <3>2. Cardinality(R(c)) + 1 = n /\ Cardinality(R(c)) \in Nat
      BY <1>2, <3>1, FS_CardinalityType
    <3> HIDE DEF R, N, f
    <3> QED BY <3>2
  <2> QED BY <2>7
<1>5. \A n \in 1 .. N : e(n) \in S /\ Cardinality(R(e(n))) = n - 1
  <2> HIDE DEF R, N
  <2> QED BY <1>4
<1>6. seq \in Seq(S)
  <2>1. \A n \in 1 .. N : e(n) \in S
    BY <1>5
  <2>2. seq \in [1 .. N -> S]
    <3> HIDE DEF e, N
    <3> QED BY <2>1
  <2> HIDE DEF seq, N
  <2> QED BY <1>0, <2>2
<1>7. DOMAIN seq = 1 .. N
  OBVIOUS
<1>8. \A n, m \in 1 .. N : n < m => Precedes(seq[n], seq[m])
  <2>1. ASSUME NEW n \in 1 .. N, NEW m \in 1 .. N, n < m PROVE Precedes(e(n), e(m))
    <3>1. n - 1 < m - 1
      BY <1>0, <2>1
    <3> HIDE DEF e, R, N
    <3> QED BY <1>2, <1>5, <3>1
  <2> HIDE DEF e, R, N
  <2> QED BY <2>1
<1>9. ASSUME NEW c \in S PROVE \E n \in 1 .. N : seq[n] = c
  <2> DEFINE n == Cardinality(R(c)) + 1
  <2>1. n \in 1 .. N /\ n - 1 = Cardinality(R(c))
    <3>1. Cardinality(R(c)) \in 0 .. N - 1
      BY <1>2
    <3> HIDE DEF R, N
    <3> QED BY <1>0, <3>1
  <2>2. e(n) = c
    BY <1>3, <1>5, <2>1
  <2>3. seq[n] = e(n)
    BY <2>1
  <2> HIDE DEF n, e, N
  <2> QED BY <2>1, <2>2, <2>3
<1> HIDE DEF seq, N
<1> QED BY <1>1, <1>6, <1>7, <1>8, <1>9

-----------------------------------------------------------------------------
(* Rows of the change tables.                                               *)

LEMMA LogFacts ==
    ASSUME LogKept
    PROVE  /\ Len(log) \in Nat /\ DOMAIN log = 1 .. Len(log) /\ captured \in Nat /\ since \in Nat
           /\ \A n \in DOMAIN log :
                /\ Len(log[n]) \in Nat /\ DOMAIN log[n] = 1 .. Len(log[n]) /\ Len(log[n]) < Top
                /\ \A m \in DOMAIN log[n] : log[n][m] \in Changes
<1>1. Len(log) \in Nat /\ DOMAIN log = 1 .. Len(log) /\ \A n \in DOMAIN log : log[n] \in Seq(Changes)
  BY DEF LogKept
<1>2. captured \in Nat /\ since \in Nat
  BY <1>1 DEF LogKept
<1>3. \A n \in DOMAIN log : Len(log[n]) \in Nat /\ DOMAIN log[n] = 1 .. Len(log[n])
                            /\ \A m \in DOMAIN log[n] : log[n][m] \in Changes
  BY <1>1
<1> QED BY <1>1, <1>2, <1>3 DEF LogKept

LEMMA RowFacts ==
    ASSUME LogKept, NEW n \in DOMAIN log, NEW r \in RowsOf(n)
    PROVE  /\ r \in Cursors /\ r.commit = n /\ r.change \in DOMAIN log[n] /\ r.change \in 1 .. Top - 1
           /\ r.code \in 1 .. 4 /\ r.code \in CodesOf(log[n][r.change].op) /\ r = Cursor(n, r.change, r.code)
<1>1. r.commit = n /\ r.change \in DOMAIN log[n] /\ r.code \in 1 .. 4 /\ r.code \in CodesOf(log[n][r.change].op)
  BY DEF RowsOf
<1>2. r = [commit |-> n, change |-> r.change, code |-> r.code]
  BY <1>1 DEF RowsOf
<1>3. n \in Nat /\ r.change \in 1 .. 98
  <2>1. n \in Nat
    BY LogFacts
  <2>2. Len(log[n]) \in Nat /\ DOMAIN log[n] = 1 .. Len(log[n]) /\ Len(log[n]) < 99
    BY LogFacts DEF Top
  <2>3. PICK k : k = r.change
    OBVIOUS
  <2>4. PICK l : l = Len(log[n])
    OBVIOUS
  <2>5. k \in 1 .. l /\ l \in Nat /\ l < 99
    BY <1>1, <2>2, <2>3, <2>4
  <2>6. k \in 1 .. 98
    BY ONLY <2>5
  <2> QED BY <2>1, <2>3, <2>6
<1>4. [commit |-> n, change |-> r.change, code |-> r.code] \in Cursors
  BY <1>1, <1>3 DEF Cursors
<1> QED BY <1>1, <1>2, <1>3, <1>4 DEF Cursor, Top

LEMMA RowOf ==
    ASSUME LogKept, NEW n \in DOMAIN log, NEW m \in DOMAIN log[n], NEW code \in 1 .. 4, code \in CodesOf(log[n][m].op)
    PROVE  Cursor(n, m, code) \in RowsOf(n)
  BY DEF RowsOf, Cursor

\* The end of a transaction is behind its rows and before those of the next.
LEMMA EndFacts ==
    ASSUME NEW n \in Nat
    PROVE  /\ AtSnapshot(n) \in Cursors /\ AtSnapshot(n).commit = n /\ AtSnapshot(n).change = Top
           /\ \A c \in Cursors : c.change < Top => (Precedes(c, AtSnapshot(n)) <=> c.commit <= n)
           /\ \A c \in Cursors : c.change < Top => (Precedes(AtSnapshot(n), c) <=> n < c.commit)
           /\ \A c \in Cursors : c.commit > n => Precedes(AtSnapshot(n), c)
           /\ \A i \in Nat : Precedes(AtSnapshot(i), AtSnapshot(n)) <=> i < n
<1>1. \A i \in Nat : AtSnapshot(i) \in Cursors
  BY DEF AtSnapshot, Cursor, Cursors, Top, CommitSerial
<1>2. \A i \in Nat : AtSnapshot(i).commit = i /\ AtSnapshot(i).change = 99 /\ AtSnapshot(i).code = 5
  BY DEF AtSnapshot, Cursor, Top, CommitSerial
<1>3. \A c \in Cursors : c.commit \in Nat /\ c.change \in Nat /\ c.code \in Nat
  BY DEF Cursors
<1>4. ASSUME NEW c \in Cursors, c.change < 99
      PROVE  (Precedes(c, AtSnapshot(n)) <=> c.commit <= n) /\ (Precedes(AtSnapshot(n), c) <=> n < c.commit)
  BY <1>1, <1>2, <1>3, <1>4, CursorOrder
<1>5. \A c \in Cursors : c.commit > n => Precedes(AtSnapshot(n), c)
  BY <1>1, <1>2, <1>3, CursorOrder
<1>6. \A i \in Nat : Precedes(AtSnapshot(i), AtSnapshot(n)) <=> i < n
  BY <1>1, <1>2, CursorOrder
<1> QED BY <1>1, <1>2, <1>4, <1>5, <1>6 DEF Top

LEMMA DueFacts ==
    ASSUME LogKept, NEW x \in Due
    PROVE  /\ x = <<x[1], x[2]>> /\ x[1] \in DOMAIN log /\ x[1] > since /\ x[2] \in DOMAIN log[x[1]]
           /\ x[1] \in Nat \ {0} /\ x[2] \in Nat \ {0} /\ x[2] < Top
           /\ Business(log[x[1]][x[2]].op)
           /\ LastRow(x) \in RowsOf(x[1]) /\ LastRow(x) \in Cursors /\ LastRow(x).commit = x[1]
           /\ LastRow(x).change = x[2] /\ LastRow(x).code \in {1, 2, 4}
<1>1. PICK i \in since + 1 .. Len(log) : x \in {i} \X DOMAIN log[i]
  BY DEF Due
<1>2. x = <<i, x[2]>> /\ x[1] = i /\ x[2] \in DOMAIN log[i] /\ Business(log[i][x[2]].op)
  BY <1>1 DEF Due
<1>3. i \in DOMAIN log /\ i > since /\ i \in Nat \ {0}
  BY <1>1, LogFacts
<1>4. x[2] \in Nat \ {0} /\ x[2] < Top
  BY <1>2, <1>3, LogFacts DEF Top
<1>5. LastRow(x).commit = x[1] /\ LastRow(x).change = x[2] /\ LastRow(x).code \in {1, 2, 4}
      /\ LastRow(x) = Cursor(x[1], x[2], LastRow(x).code)
      /\ LastRow(x).code \in CodesOf(log[x[1]][x[2]].op)
  BY <1>2 DEF LastRow, Cursor, Business, CodesOf
<1>6. LastRow(x) \in RowsOf(x[1])
  BY <1>2, <1>3, <1>5, RowOf
<1> QED BY <1>2, <1>3, <1>4, <1>5, <1>6, RowFacts

\* A change is complete with its last row only.
LEMMA LastRowOf ==
    ASSUME LogKept, NEW n \in DOMAIN log, NEW r \in RowsOf(n), r.code # 3, n > since,
           Business(log[n][r.change].op)
    PROVE  <<n, r.change>> \in Due /\ LastRow(<<n, r.change>>) = r
<1>1. r.change \in DOMAIN log[n] /\ r = Cursor(n, r.change, r.code) /\ r.code \in CodesOf(log[n][r.change].op)
  BY RowFacts
<1>2. n \in since + 1 .. Len(log)
  BY LogFacts
<1>3. <<n, r.change>> \in Due
  BY <1>1, <1>2 DEF Due
<1> QED BY <1>1, <1>3 DEF LastRow, Business, CodesOf, Cursor

-----------------------------------------------------------------------------
(* A poll reads all that is next.                                           *)

LEMMA RowsAfter ==
    ASSUME LogKept, conv \in Conversions
    PROVE  LET rows == {e \in EntriesAfter(conv.cursor) : e.change # Top}
           IN  /\ \A r \in rows : /\ r.commit \in 1 .. captured /\ r.commit \in DOMAIN log
                                  /\ r \in RowsOf(r.commit) /\ Precedes(conv.cursor, r)
               /\ \A i \in 1 .. captured : \A r \in RowsOf(i) : Precedes(conv.cursor, r) => r \in rows
               /\ IsFiniteSet(rows) /\ rows \subseteq Cursors
<1> DEFINE rows == {e \in EntriesAfter(conv.cursor) : e.change # Top}
<1>0. captured \in Nat /\ 1 .. captured \subseteq DOMAIN log
  BY LogFacts DEF LogKept
<1>1. ASSUME NEW r \in rows
      PROVE  r.commit \in 1 .. captured /\ r \in RowsOf(r.commit) /\ Precedes(conv.cursor, r)
  <2>1. PICK n \in 1 .. captured : r \in EntriesOf(n)
    BY DEF EntriesAfter
  <2>2. r \in RowsOf(n)
    <3>1. \A t : AtSnapshot(t).change = Top
      BY DEF AtSnapshot, Cursor
    <3> QED BY <2>1, <3>1 DEF EntriesOf
  <2>3. r.commit = n
    BY <1>0, <2>2, RowFacts
  <2> QED BY <2>2, <2>3 DEF EntriesAfter
<1>2. ASSUME NEW i \in 1 .. captured, NEW r \in RowsOf(i), Precedes(conv.cursor, r) PROVE r \in rows
  <2>1. r \in EntriesOf(i)
    BY DEF EntriesOf
  <2>2. r.change # Top
    BY <1>0, RowFacts DEF Top
  <2> QED BY <1>2, <2>1, <2>2 DEF EntriesAfter
<1>3. rows \subseteq {c \in Cursors : c.commit <= captured /\ c.change <= Top}
  <2>1. ASSUME NEW r \in rows PROVE r \in Cursors /\ r.commit <= captured /\ r.change <= Top
    <3>1. r.commit \in 1 .. captured /\ r.commit \in DOMAIN log /\ r \in RowsOf(r.commit)
      BY <1>0, <1>1
    <3>2. r \in Cursors /\ r.change \in 1 .. Top - 1
      BY <3>1, RowFacts
    <3> HIDE DEF rows
    <3> QED BY <1>0, <3>1, <3>2 DEF Top
  <2> QED BY <2>1
<1>4. IsFiniteSet(rows)
  BY <1>0, <1>3, CursorsFinite
<1> HIDE DEF rows
<1>5. \A r \in rows : r.commit \in 1 .. captured /\ r.commit \in DOMAIN log /\ r \in RowsOf(r.commit) /\ Precedes(conv.cursor, r)
  BY <1>0, <1>1
<1> QED BY <1>2, <1>3, <1>4, <1>5 DEF rows

\* The rows of a batch are the first, and the end of a transaction follows its last.
LEMMA BatchFacts ==
    ASSUME LogKept, NEW rows, IsFiniteSet(rows), rows \subseteq Cursors,
           \A r \in rows : r.commit \in Nat /\ r.change < Top
    PROVE  LET seq == ToBatch(rows)
           IN  /\ seq \in Seq(Cursors)
               /\ \A n \in DOMAIN seq :
                    /\ seq[n] \in rows \/ (\E r \in rows : seq[n] = AtSnapshot(r.commit))
                    /\ \A m \in DOMAIN seq : m < n => Precedes(seq[m], seq[n])
                    /\ \A r \in rows : ~Precedes(seq[n], r) => \E m \in DOMAIN seq : seq[m] = r
<1> DEFINE R(c) == {o \in rows : Precedes(o, c)}
           read == {r \in rows : Cardinality(R(r)) < FetchSize}
           ended == {AtSnapshot(r.commit) : r \in {x \in read : LastOfTxn(rows, x)}}
           all == read \cup ended
           seq == InOrder(all, Precedes)
<1>1. ToBatch(rows) = seq
  BY DEF ToBatch
<1>2. read \subseteq rows /\ \A r \in rows : r \in Cursors /\ r.commit \in Nat /\ r.change < Top
  OBVIOUS
<1>3. all \subseteq Cursors
  <2>1. \A c \in ended : c \in Cursors
    <3>1. \A n \in Nat : AtSnapshot(n) \in Cursors
      BY EndFacts
    <3> QED BY <1>2, <3>1
  <2>2. \A c \in read : c \in Cursors
    BY <1>2
  <2> HIDE DEF read, ended
  <2> QED BY <2>1, <2>2
<1>4. IsFiniteSet(all)
  <2> DEFINE last == {x \in read : LastOfTxn(rows, x)}
             f == [r \in last |-> AtSnapshot(r.commit)]
  <2>1. IsFiniteSet(read) /\ IsFiniteSet(last)
    BY FS_Subset
  <2>2. IsFiniteSet(ended)
    <3>1. f \in Surjection(last, ended)
      BY DEF Surjection
    <3> QED BY <2>1, <3>1, FS_Surjection
  <2> QED BY <2>1, <2>2, FS_Union
<1>5. /\ seq \in Seq(all)
      /\ \A n, m \in DOMAIN seq : n < m => Precedes(seq[n], seq[m])
      /\ \A c \in all : \E n \in DOMAIN seq : seq[n] = c
  BY <1>3, <1>4, InOrderFacts
<1>6. ASSUME NEW e \in all, NEW r \in rows, ~Precedes(e, r)
      PROVE  r \in read
  <2>1. ASSUME NEW x \in read, ~Precedes(x, r) PROVE r \in read
    <3>1. Cardinality(R(r)) <= Cardinality(R(x))
      <4>1. R(r) \in SUBSET R(x)
        <5>1. ASSUME NEW o \in R(r) PROVE Precedes(o, x)
          BY <1>2, <2>1, CursorTransitive
        <5> QED BY <5>1
      <4>2. IsFiniteSet(R(x))
        BY FS_Subset
      <4> QED BY <4>1, <4>2, FS_Subset
    <3>2. Cardinality(R(r)) \in Nat /\ Cardinality(R(x)) \in Nat
      <4>1. IsFiniteSet(R(r)) /\ IsFiniteSet(R(x))
        BY FS_Subset
      <4> QED BY <4>1, FS_CardinalityType
    <3>3. Cardinality(R(x)) < FetchSize
      OBVIOUS
    <3>4. FetchSize \in Nat
      BY SqlServerAssumption DEF FetchSize, LogKept
    <3> HIDE DEF R
    <3>5. Cardinality(R(r)) < FetchSize
      BY <3>1, <3>2, <3>3, <3>4
    <3> QED BY <3>5
  <2>2. CASE e \in read
    BY <1>6, <2>1, <2>2
  <2>3. CASE e \in ended
    <3>1. PICK x \in read : LastOfTxn(rows, x) /\ e = AtSnapshot(x.commit)
      BY <2>3
    <3>2. r.commit <= x.commit
      <4>1. r.commit \in Nat /\ x.commit \in Nat /\ r \in Cursors
        BY <1>2
      <4>2. x.commit < r.commit => Precedes(e, r)
        BY <3>1, <4>1, EndFacts
      <4> HIDE DEF read, ended
      <4> QED BY <1>6, <4>1, <4>2
    <3>3. ~Precedes(x, r)
      <4>1. SUFFICES ASSUME Precedes(x, r) PROVE FALSE
        OBVIOUS
      <4>2. r.commit # x.commit
        BY <3>1, <4>1 DEF LastOfTxn
      <4>3. r \in Cursors /\ x \in Cursors /\ r.commit \in Nat /\ x.commit \in Nat
        BY <1>2
      <4>4. x.commit <= r.commit
        BY <4>1, <4>3, CursorOrder
      <4> HIDE DEF read, ended
      <4> QED BY <3>2, <4>2, <4>3, <4>4
    <3> QED BY <2>1, <3>3
  <2> QED BY <2>2, <2>3
<1>7. \A e \in all : e \in rows \/ \E r \in rows : e = AtSnapshot(r.commit)
  OBVIOUS
<1>8. seq \in Seq(Cursors) /\ \A n \in DOMAIN seq : seq[n] \in all
  <2> HIDE DEF seq, all
  <2> QED BY <1>3, <1>5, ElementOfSeq
<1> HIDE DEF seq, all
<1>9. ASSUME NEW n \in DOMAIN seq, NEW r \in rows, ~Precedes(seq[n], r)
      PROVE  \E m \in DOMAIN seq : seq[m] = r
  <2>1. r \in read
    BY <1>6, <1>8, <1>9
  <2>2. r \in all
    BY <2>1 DEF all
  <2> QED BY <1>5, <2>2
<1> HIDE DEF read, ended
<1> QED BY <1>1, <1>5, <1>7, <1>8, <1>9

\* Nothing of the log lies between a poll and what it has read.
LEMMA PollKept ==
    ASSUME LogKept, conv \in Conversions, CursorKept, TxnKept, Poll
    PROVE  BatchKept'
<1> DEFINE rows == {e \in EntriesAfter(conv.cursor) : e.change # Top}
           b == batch'
<1>1. /\ \A r \in rows : /\ r.commit \in 1 .. captured /\ r.commit \in DOMAIN log
                         /\ r \in RowsOf(r.commit) /\ Precedes(conv.cursor, r)
      /\ \A i \in 1 .. captured : \A r \in RowsOf(i) : Precedes(conv.cursor, r) => r \in rows
      /\ IsFiniteSet(rows) /\ rows \subseteq Cursors
  BY RowsAfter
<1>2. /\ b = IF rows = {} THEN <<AtSnapshot(captured)>> ELSE ToBatch(rows)
      /\ log' = log /\ captured' = captured /\ conv' = conv /\ ~Nothing
  BY DEF Poll, pollRest, server
<1>3. conv.cursor \in Cursors /\ conv.cursor.commit <= captured /\ captured \in Nat \ {0}
  BY DEF Conversions, CursorKept, LogKept
<1>4. \A i \in DOMAIN log : \A r \in RowsOf(i) : r \in Cursors /\ r.commit = i /\ r.change < Top /\ i \in Nat \ {0}
  <2>1. ASSUME NEW i \in DOMAIN log, NEW r \in RowsOf(i) PROVE r \in Cursors /\ r.commit = i /\ r.change < Top /\ i \in Nat \ {0}
    <3>1. r \in Cursors /\ r.commit = i /\ r.change \in 1 .. Top - 1
      BY RowFacts
    <3>2. i \in Nat \ {0}
      BY LogFacts
    <3> QED BY <3>1, <3>2 DEF Top
  <2> QED BY <2>1
<1> HIDE DEF b, rows
<1>5. /\ b \in Seq(Cursors)
      /\ \A n \in DOMAIN b :
          /\ b[n].commit \in 1 .. captured /\ Precedes(conv.cursor, b[n])
          /\ b[n] \in RowsOf(b[n].commit) \/ b[n] = AtSnapshot(b[n].commit)
          /\ \A m \in DOMAIN b : m < n => Precedes(b[m], b[n])
          /\ \A i \in DOMAIN log : \A r \in RowsOf(i) :
              Precedes(conv.cursor, r) /\ ~Precedes(b[n], r) => \E m \in DOMAIN b : b[m] = r
  <2>1. CASE rows = {}
    <3> DEFINE e == AtSnapshot(captured)
    <3>1. b = <<e>>
      BY <1>2, <2>1
    <3>2. e \in Cursors /\ e.commit = captured /\ \A c \in Cursors : c.commit > captured => Precedes(e, c)
      BY <1>3, EndFacts
    <3>3. Precedes(conv.cursor, e)
      <4>1. CASE conv.cursor = AtSnapshot(conv.cursor.commit)
        <5>1. conv.cursor.commit # captured
          BY <1>2, <4>1 DEF Nothing, CommitComplete, AtSnapshot, Cursor
        <5>2. conv.cursor.commit \in Nat /\ conv.cursor.commit < captured
          BY <1>3, <5>1 DEF Cursors
        <5> QED BY <1>3, <4>1, <5>2, EndFacts
      <4>2. CASE conv.cursor.change < Top
        BY <1>3, <4>2, EndFacts
      <4> QED BY <1>4, <4>1, <4>2 DEF TxnKept, Top
    <3>4. \A i \in DOMAIN log : \A r \in RowsOf(i) : Precedes(conv.cursor, r) => Precedes(e, r)
      <4>1. ASSUME NEW i \in DOMAIN log, NEW r \in RowsOf(i), Precedes(conv.cursor, r) PROVE Precedes(e, r)
        <5>1. r \in Cursors /\ r.commit = i /\ i \in Nat \ {0}
          BY <1>4
        <5>2. i \notin 1 .. captured
          BY <1>1, <2>1, <4>1
        <5>3. r.commit > captured
          BY <1>3, <5>1, <5>2
        <5> QED BY <3>2, <5>1, <5>3
      <4> QED BY <4>1
    <3> HIDE DEF e
    <3>5. DOMAIN b = {1} /\ b[1] = e /\ b \in Seq(Cursors)
      BY <3>1, <3>2
    <3>6. b[1].commit \in 1 .. captured /\ b[1] = AtSnapshot(b[1].commit)
      BY <1>3, <3>2, <3>5 DEF e
    <3> QED BY <3>3, <3>4, <3>5, <3>6
  <2>2. CASE rows # {}
    <3>1. b = ToBatch(rows)
      BY <1>2, <2>2
    <3>2. \A r \in rows : r.commit \in Nat /\ r.change < Top
      BY <1>1, <1>4
    <3>3. /\ b \in Seq(Cursors)
          /\ \A n \in DOMAIN b :
              /\ b[n] \in rows \/ (\E r \in rows : b[n] = AtSnapshot(r.commit))
              /\ \A m \in DOMAIN b : m < n => Precedes(b[m], b[n])
              /\ \A r \in rows : ~Precedes(b[n], r) => \E m \in DOMAIN b : b[m] = r
      BY <1>1, <3>1, <3>2, BatchFacts
    <3>4. ASSUME NEW n \in DOMAIN b
          PROVE  /\ b[n].commit \in 1 .. captured /\ Precedes(conv.cursor, b[n])
                 /\ b[n] \in RowsOf(b[n].commit) \/ b[n] = AtSnapshot(b[n].commit)
      <4>1. CASE b[n] \in rows
        BY <1>1, <4>1
      <4>2. ASSUME NEW r \in rows, b[n] = AtSnapshot(r.commit)
            PROVE  /\ b[n].commit \in 1 .. captured /\ Precedes(conv.cursor, b[n])
                   /\ b[n] \in RowsOf(b[n].commit) \/ b[n] = AtSnapshot(b[n].commit)
        <5>1. r \in Cursors /\ r.commit \in 1 .. captured /\ r.commit \in Nat /\ r.change < Top /\ Precedes(conv.cursor, r)
          BY <1>1, <3>2
        <5>2. /\ b[n] \in Cursors /\ b[n].commit = r.commit
              /\ \A c \in Cursors : c.change < Top => (Precedes(c, b[n]) <=> c.commit <= r.commit)
          BY <4>2, <5>1, EndFacts
        <5>3. Precedes(r, b[n])
          BY <5>1, <5>2
        <5>4. Precedes(conv.cursor, b[n])
          BY <1>3, <5>1, <5>2, <5>3, CursorTransitive
        <5> QED BY <4>2, <5>1, <5>2, <5>4
      <4> QED BY <3>3, <4>1, <4>2
    <3>5. ASSUME NEW n \in DOMAIN b, NEW i \in DOMAIN log, NEW r \in RowsOf(i), Precedes(conv.cursor, r), ~Precedes(b[n], r)
          PROVE  \E m \in DOMAIN b : b[m] = r
      <4>1. r \in Cursors /\ r.commit = i /\ i \in Nat \ {0} /\ b[n] \in Cursors /\ b[n].commit \in 1 .. captured
        BY <1>4, <3>3, <3>4
      <4>2. ~(b[n].commit < r.commit)
        BY <3>5, <4>1, CursorOrder
      <4>3. i \in 1 .. captured
        BY <1>3, <4>1, <4>2
      <4> QED BY <1>1, <3>3, <3>5, <4>3
    <3> QED BY <3>3, <3>4, <3>5
  <2> QED BY <2>1, <2>2
<1>6. \A i : RowsOf(i)' = RowsOf(i)
  BY <1>2 DEF RowsOf
<1> QED BY <1>2, <1>5, <1>6 DEF BatchKept, b

-----------------------------------------------------------------------------
(* The server's steps.                                                      *)

\* What is in the log stays as it is; what is added has not been captured.
LEMMA LogGrows ==
    ASSUME LogKept, LogKept', setup' = setup, since' = since, log' = log \/ \E txn : log' = Append(log, txn)
    PROVE  /\ \A n \in DOMAIN log : n \in DOMAIN log' /\ log'[n] = log[n] /\ RowsOf(n)' = RowsOf(n)
           /\ \A n \in DOMAIN log' : n \in DOMAIN log \/ n > Len(log)
           /\ \A x \in Due' : (x \in Due /\ LastRow(x)' = LastRow(x)) \/ x[1] > captured
           /\ \A at : at[1] \in DOMAIN log => Place(at)' = Place(at)
<1>0. /\ Len(log) \in Nat /\ DOMAIN log = 1 .. Len(log) /\ captured \in Nat /\ captured <= Len(log) /\ since \in Nat
      /\ log \in Seq(Seq(Changes)) /\ log' \in Seq(Seq(Changes))
  BY LogFacts DEF LogKept
<1>1. \A n \in DOMAIN log : n \in DOMAIN log' /\ log'[n] = log[n]
  BY <1>0
<1>2. \A n \in DOMAIN log' : n \in DOMAIN log \/ n > Len(log)
  BY <1>0
<1>3. \A n \in DOMAIN log : RowsOf(n)' = RowsOf(n)
  BY <1>1 DEF RowsOf
<1>4. \A at : at[1] \in DOMAIN log => Place(at)' = Place(at)
  BY <1>1 DEF Place
<1>5. ASSUME NEW x \in Due' PROVE (x \in Due /\ LastRow(x)' = LastRow(x)) \/ x[1] > captured
  <2>1. PICK i \in since' + 1 .. Len(log') : x \in {i} \X DOMAIN log'[i] /\ Business(log'[x[1]][x[2]].op)
    BY <1>5 DEF Due
  <2>2. i \in DOMAIN log' /\ i \in since + 1 .. Len(log') /\ x[1] = i /\ x[2] \in DOMAIN log'[i] /\ x = <<i, x[2]>>
    BY <1>0, <2>1
  <2>3. CASE i \in DOMAIN log
    <3>1. log'[i] = log[i] /\ i \in since + 1 .. Len(log)
      BY <1>0, <1>1, <2>2, <2>3
    <3>2. x \in {i} \X DOMAIN log[i] /\ Business(log[x[1]][x[2]].op)
      BY <2>1, <2>2, <3>1
    <3>3. x \in Due
      BY <3>1, <3>2 DEF Due
    <3>4. LastRow(x)' = LastRow(x)
      BY <2>2, <3>1 DEF LastRow
    <3> QED BY <3>3, <3>4
  <2>4. CASE i > Len(log)
    BY <1>0, <2>2, <2>4
  <2> QED BY <1>2, <2>2, <2>3, <2>4
<1> QED BY <1>1, <1>2, <1>3, <1>4, <1>5

\* Positions and cursors of what has been captured reach no change that has not.
LEMMA NotReached ==
    ASSUME LogKept, NEW x \in Due, NEW p \in Positions, p.commit < x[1]
    PROVE  /\ ~Reaches(p, x)
           /\ \A c \in Cursors : c.commit <= p.commit => Precedes(c, LastRow(x))
           /\ ~p.snap => ~IsAtOrBefore(Position(x[1], x[2], LastRow(x).code, FALSE), p)
<1>1. x[1] \in Nat /\ x[2] \in Nat /\ LastRow(x) \in Cursors /\ LastRow(x).commit = x[1] /\ LastRow(x).code \in Nat
  BY DueFacts
<1>2. p.commit \in Nat
  BY DEF Positions
<1>3. ~Reaches(p, x)
  BY <1>1, <1>2 DEF Reaches
<1>4. ASSUME NEW c \in Cursors, c.commit <= p.commit PROVE Precedes(c, LastRow(x))
  <2>1. c.commit \in Nat /\ c.commit < LastRow(x).commit
    BY <1>1, <1>2, <1>4 DEF Cursors
  <2> QED BY <1>1, <2>1, CursorOrder
<1>5. ASSUME ~p.snap PROVE ~IsAtOrBefore(Position(x[1], x[2], LastRow(x).code, FALSE), p)
  <2> DEFINE q == Position(x[1], x[2], LastRow(x).code, FALSE)
  <2>1. q \in Positions /\ ~q.snap /\ q.commit = x[1]
    BY <1>1 DEF Position, Positions
  <2> HIDE DEF q
  <2>2. ~IsAtOrBefore(q, p)
    BY <1>1, <1>2, <1>5, <2>1, PositionOrder
  <2> QED BY <2>2 DEF q
<1> QED BY <1>3, <1>4, <1>5

\* The rows there are behind a step are cursors as well.
LEMMA RowsNext ==
    LogKept' =>
        /\ \A x \in Due' : /\ x[1] \in Nat /\ x[2] \in Nat /\ LastRow(x)' \in Cursors /\ LastRow(x)'.commit = x[1]
                          /\ LastRow(x)'.code \in Nat
        /\ \A i \in DOMAIN log' : \A r \in RowsOf(i)' : r \in Cursors /\ r.commit = i
<1>1. LogKept =>
        /\ \A x \in Due : /\ x[1] \in Nat /\ x[2] \in Nat /\ LastRow(x) \in Cursors /\ LastRow(x).commit = x[1]
                         /\ LastRow(x).code \in Nat
        /\ \A i \in DOMAIN log : \A r \in RowsOf(i) : r \in Cursors /\ r.commit = i
  BY DueFacts, RowFacts
<1>2. (LogKept =>
        /\ \A x \in Due : /\ x[1] \in Nat /\ x[2] \in Nat /\ LastRow(x) \in Cursors /\ LastRow(x).commit = x[1]
                         /\ LastRow(x).code \in Nat
        /\ \A i \in DOMAIN log : \A r \in RowsOf(i) : r \in Cursors /\ r.commit = i)'
  BY <1>1, PTL
<1> QED BY <1>2

\* What is being read and sent is as good as before when transactions are added or
\* captured.
LEMMA GrowsKept ==
    ASSUME LogKept, FlightKept, CheckpointKept, conv \in Conversions,
           LogKept', setup' = setup, since' = since, log' = log \/ \E txn : log' = Append(log, txn),
           captured <= captured', UNCHANGED <<delivered, ckpt, conv, batch, lastSafe, flight>>
    PROVE  /\ FlightKept' /\ CheckpointKept' /\ (conv \in Conversions)'
           /\ CursorKept => CursorKept' /\ (BatchKept => BatchKept') /\ (TxnKept => TxnKept')
<1>0. captured \in Nat /\ captured' \in Nat /\ Len(log) \in Nat /\ DOMAIN log = 1 .. Len(log) /\ captured <= Len(log)
  BY LogFacts DEF LogKept
<1>1. /\ \A n \in DOMAIN log : n \in DOMAIN log' /\ log'[n] = log[n] /\ RowsOf(n)' = RowsOf(n)
      /\ \A n \in DOMAIN log' : n \in DOMAIN log \/ n > Len(log)
      /\ \A at : at[1] \in DOMAIN log => Place(at)' = Place(at)
  BY LogGrows
<1>2. \A x \in Due' : (x \in Due /\ LastRow(x)' = LastRow(x)) \/ x[1] > captured
  BY LogGrows
<1>3. \A x \in Due' : x[1] \in Nat /\ LastRow(x)' \in Cursors /\ LastRow(x)'.commit = x[1]
  BY RowsNext
<1>4. ASSUME NEW p \in Positions, p.commit <= captured, NEW x \in Due', Reaches(p, x)'
      PROVE  x \in Due /\ Reaches(p, x)
  <2>1. p.commit \in Nat
    BY DEF Positions
  <2>2. ~(x[1] > captured)
    BY <1>0, <1>3, <1>4, <2>1 DEF Reaches
  <2>3. x \in Due /\ LastRow(x)' = LastRow(x)
    BY <1>2, <2>2
  <2> QED BY <1>4, <2>3 DEF Reaches
<1>5. \A x, n : Arrives(x, n)' <=> Arrives(x, n)
  BY DEF Arrives
<1>6. FlightKept'
  <2>1. ASSUME NEW n \in DOMAIN flight
        PROVE  /\ flight[n].pos \in Positions /\ flight[n].pos.commit <= captured'
               /\ setup.cuts \/ flight[n].commit \/ flight[n].key = NoKey =>
                    \A x \in Due' : Reaches(flight[n].pos, x)' => Arrives(x, n)
               /\ flight[n].at = <<0, 0>> \/ (flight[n].at[1] \in DOMAIN log' /\ flight[n].at[2] \in DOMAIN log'[flight[n].at[1]])
               /\ flight[n].paired /\ flight[n].order = Place(flight[n].at)'
    <3>1. /\ flight[n].pos \in Positions /\ flight[n].pos.commit <= captured
          /\ setup.cuts \/ flight[n].commit \/ flight[n].key = NoKey =>
                \A x \in Due : Reaches(flight[n].pos, x) => Arrives(x, n)
          /\ flight[n].at = <<0, 0>> \/ (flight[n].at[1] \in DOMAIN log /\ flight[n].at[2] \in DOMAIN log[flight[n].at[1]])
          /\ flight[n].paired /\ flight[n].order = Place(flight[n].at)
      BY DEF FlightKept
    <3>2. flight[n].pos.commit \in Nat
      BY <3>1 DEF Positions
    <3>3. Place(flight[n].at)' = Place(flight[n].at)
      <4>1. CASE flight[n].at = <<0, 0>>
        BY <4>1 DEF Place
      <4>2. CASE flight[n].at[1] \in DOMAIN log
        BY <1>1, <4>2
      <4> QED BY <3>1, <4>1, <4>2
    <3>4. flight[n].pos.commit <= captured'
      BY <1>0, <3>1, <3>2
    <3> QED BY <1>1, <1>4, <3>1, <3>3, <3>4
  <2> QED BY <2>1, <1>5 DEF FlightKept
<1>7. CheckpointKept'
  <2>1. ckpt.pos.commit \in Nat
    BY DEF CheckpointKept, Positions
  <2>2. ckpt.pos.commit <= captured'
    BY <1>0, <2>1 DEF CheckpointKept
  <2>3. \A x \in Due' : Reaches(ckpt.pos, x)' => x \in delivered
    BY <1>4 DEF CheckpointKept
  <2> QED BY <2>2, <2>3 DEF CheckpointKept
<1>8. ASSUME CursorKept PROVE CursorKept'
  <2>0. conv.cursor \in Cursors /\ conv.resume \in Positions /\ conv.cursor.commit \in Nat /\ conv.resume.commit \in Nat
    BY DEF Conversions, Cursors, Positions
  <2>1. /\ conv.cursor.commit <= captured /\ ~conv.resume.snap /\ conv.resume.commit <= captured
        /\ \A x \in Due : ~Precedes(conv.cursor, LastRow(x)) => Arrives(x, Len(flight))
        /\ conv.resume # None =>
            \A x \in Due : IsAtOrBefore(Position(x[1], x[2], LastRow(x).code, FALSE), conv.resume) => x \in delivered
        /\ lastSafe \in Positions /\ lastSafe.commit <= conv.cursor.commit
    BY <1>8 DEF CursorKept
  <2>2. ASSUME NEW x \in Due', ~Precedes(conv.cursor, LastRow(x)') PROVE Arrives(x, Len(flight))
    <3>1. ~(x[1] > captured)
      <4>1. x[1] > captured => conv.cursor.commit < LastRow(x)'.commit
        BY <1>0, <1>3, <2>0, <2>1
      <4>2. conv.cursor.commit < LastRow(x)'.commit => Precedes(conv.cursor, LastRow(x)')
        BY <1>3, <2>0, CursorOrder
      <4> QED BY <2>2, <4>1, <4>2
    <3> QED BY <1>2, <2>1, <2>2, <3>1
  <2>3. ASSUME conv.resume # None, NEW x \in Due',
               IsAtOrBefore(Position(x[1], x[2], LastRow(x)'.code, FALSE), conv.resume)
        PROVE  x \in delivered
    <3> DEFINE q == Position(x[1], x[2], LastRow(x)'.code, FALSE)
    <3>1. LogKept /\ x[2] \in Nat /\ LastRow(x)'.code \in Nat
      BY RowsNext
    <3>2. q \in Positions /\ ~q.snap /\ q.commit = x[1]
      BY <1>3, <3>1 DEF Position, Positions
    <3>3. IsAtOrBefore(q, conv.resume)
      BY <2>3
    <3> HIDE DEF q
    <3>4. x[1] <= conv.resume.commit
      BY <1>3, <2>0, <2>1, <3>2, <3>3, PositionOrder
    <3>5. x \in Due /\ LastRow(x)' = LastRow(x)
      BY <1>0, <1>2, <1>3, <2>0, <2>1, <3>4
    <3> QED BY <2>1, <2>3, <3>5
  <2>4. conv.cursor.commit <= captured' /\ conv.resume.commit <= captured'
    BY <1>0, <2>0, <2>1
  <2> QED BY <1>5, <2>1, <2>2, <2>3, <2>4 DEF CursorKept
<1>9. ASSUME BatchKept PROVE BatchKept'
  <2>1. ASSUME NEW n \in DOMAIN batch
        PROVE  /\ batch[n].commit \in 1 .. captured' /\ Precedes(conv.cursor, batch[n])
               /\ batch[n] \in RowsOf(batch[n].commit)' \/ batch[n] = AtSnapshot(batch[n].commit)
               /\ \A m \in DOMAIN batch : m < n => Precedes(batch[m], batch[n])
               /\ \A i \in DOMAIN log' : \A r \in RowsOf(i)' :
                    Precedes(conv.cursor, r) /\ ~Precedes(batch[n], r) => \E m \in DOMAIN batch : batch[m] = r
    <3>1. /\ batch[n].commit \in 1 .. captured /\ Precedes(conv.cursor, batch[n]) /\ batch[n] \in Cursors
          /\ batch[n] \in RowsOf(batch[n].commit) \/ batch[n] = AtSnapshot(batch[n].commit)
          /\ \A m \in DOMAIN batch : m < n => Precedes(batch[m], batch[n])
          /\ \A i \in DOMAIN log : \A r \in RowsOf(i) :
                Precedes(conv.cursor, r) /\ ~Precedes(batch[n], r) => \E m \in DOMAIN batch : batch[m] = r
      BY <1>9 DEF BatchKept
    <3>2. batch[n].commit \in DOMAIN log /\ batch[n].commit \in 1 .. captured'
      BY <1>0, <3>1
    <3>3. ASSUME NEW i \in DOMAIN log', NEW r \in RowsOf(i)', i > Len(log) PROVE Precedes(batch[n], r)
      <4>1. r \in Cursors /\ r.commit = i
        BY RowsNext
      <4>2. batch[n].commit < r.commit
        BY <1>0, <3>1, <3>3, <4>1 DEF Cursors
      <4> QED BY <3>1, <4>1, <4>2, CursorOrder
    <3> QED BY <1>1, <3>1, <3>2, <3>3
  <2>2. batch \in Seq(Cursors)
    BY <1>9 DEF BatchKept
  <2> QED BY <2>1, <2>2 DEF BatchKept
<1>10. ASSUME TxnKept PROVE TxnKept'
  <2> DEFINE c == conv.cursor
             n == Place(<<c.commit, c.change>>)
  <2>1. CASE c = AtSnapshot(c.commit) \/ (c.change = 0 /\ c.code = 0 /\ conv.txn = NoTxn)
    BY <1>10, <2>1 DEF TxnKept
  <2>2. CASE c.commit \in DOMAIN log /\ c \in RowsOf(c.commit)
    <3>1. Place(<<c.commit, c.change>>)' = Place(<<c.commit, c.change>>)
      BY <1>1, <2>2
    <3>2. c.commit \in DOMAIN log' /\ c \in RowsOf(c.commit)'
      BY <1>1, <2>2
    <3> QED BY <1>10, <2>2, <3>1, <3>2 DEF TxnKept
  <2> QED BY <1>10, <2>1, <2>2 DEF TxnKept
<1>11. (conv \in Conversions)'
  OBVIOUS
<1> QED BY <1>6, <1>7, <1>8, <1>9, <1>10, <1>11

-----------------------------------------------------------------------------
(* What is sent.                                                            *)

LEMMA OfItsRange ==
    ASSUME NEW S, NEW s \in Seq(S)
    PROVE  s \in Seq(Range(s)) /\ \A n \in DOMAIN s : s[n] \in Range(s)
<1>1. Len(s) \in Nat /\ s \in [1 .. Len(s) -> S]
  OBVIOUS
<1>2. \A n \in 1 .. Len(s) : s[n] \in Range(s)
  BY DEF Range
<1>3. s \in [1 .. Len(s) -> Range(s)]
  BY <1>1, <1>2
<1> QED BY <1>1, <1>2, <1>3

\* Records join those in flight; where a batch may end with one, what a start from
\* its position takes as read is on its way.
LEMMA Sends ==
    ASSUME LogKept, FlightKept, UNCHANGED <<setup, log, captured, since, delivered>>,
           NEW S, NEW s \in Seq(S), flight' = flight \o s,
           \A n \in DOMAIN s :
                /\ s[n].pos \in Positions /\ s[n].pos.commit <= captured
                /\ setup.cuts \/ s[n].commit \/ s[n].key = NoKey =>
                    \A x \in Due : Reaches(s[n].pos, x) => Arrives(x, Len(flight)) \/ s[n].at = x
                /\ s[n].at = <<0, 0>> \/ (s[n].at[1] \in DOMAIN log /\ s[n].at[2] \in DOMAIN log[s[n].at[1]])
                /\ s[n].paired /\ s[n].order = Place(s[n].at)
    PROVE  /\ FlightKept'
           /\ \A x : Arrives(x, Len(flight)) => Arrives(x, Len(flight))'
           /\ \A x : (\E n \in DOMAIN s : s[n].at = x) => Arrives(x, Len(flight))'
<1> DEFINE F == Len(flight)
           T == Range(flight) \cup S
<1>0. /\ flight \in Seq(Range(flight)) /\ F \in Nat /\ DOMAIN flight = 1 .. F
      /\ Len(s) \in Nat /\ DOMAIN s = 1 .. Len(s)
  BY DEF FlightKept
<1>1. flight' \in Seq(T)
  <2>1. flight \in Seq(T) /\ s \in Seq(T)
    BY <1>0
  <2> HIDE DEF T
  <2> QED BY <2>1
<1>2. flight' \in Seq(Range(flight'))
  BY <1>1, OfItsRange
<1>3. /\ Len(flight') = F + Len(s) /\ DOMAIN flight' = 1 .. F + Len(s)
      /\ \A n \in 1 .. F + Len(s) : flight'[n] = IF n <= F THEN flight[n] ELSE s[n - F]
  BY <1>0
<1>4. \A n \in 1 .. F : flight'[n] = flight[n]
  BY <1>0, <1>3
<1>5. \A n \in DOMAIN s : F + n \in 1 .. F + Len(s) /\ flight'[F + n] = s[n]
  <2>1. ASSUME NEW n \in DOMAIN s PROVE F + n \in 1 .. F + Len(s) /\ flight'[F + n] = s[n]
    <3>1. n \in 1 .. Len(s) /\ F + n \in 1 .. F + Len(s) /\ ~(F + n <= F) /\ F + n - F = n
      BY <1>0
    <3>2. PICK k : k = F + n
      OBVIOUS
    <3>3. k \in 1 .. F + Len(s) /\ ~(k <= F) /\ k - F = n
      BY ONLY <3>1, <3>2
    <3>4. flight'[k] = s[k - F]
      BY <1>3, <3>3
    <3> QED BY ONLY <3>2, <3>3, <3>4
  <2> QED BY <2>1
<1> HIDE DEF F
<1>6. \A x : \A n \in 0 .. F : Arrives(x, n) => Arrives(x, n)'
  <2>1. ASSUME NEW x, NEW n \in 0 .. F, Arrives(x, n) PROVE x \in delivered' \/ \E k \in 1 .. n : flight'[k].at = x
    <3>1. 1 .. n \subseteq 1 .. F
      BY <1>0
    <3> QED BY <2>1, <3>1, <1>4 DEF Arrives
  <2> QED BY <2>1 DEF Arrives
<1>7. \A x, n : Arrives(x, F) /\ n \in F .. F + Len(s) => Arrives(x, n)'
  <2>1. ASSUME NEW x, NEW n \in F .. F + Len(s), Arrives(x, F)
        PROVE  x \in delivered' \/ \E k \in 1 .. n : flight'[k].at = x
    <3>1. 1 .. F \subseteq 1 .. n
      BY <1>0
    <3> QED BY <2>1, <3>1, <1>4 DEF Arrives
  <2> QED BY <2>1 DEF Arrives
<1>8. FlightKept'
  <2>1. ASSUME NEW n \in DOMAIN flight'
        PROVE  /\ flight'[n].pos \in Positions /\ flight'[n].pos.commit <= captured
               /\ setup.cuts \/ flight'[n].commit \/ flight'[n].key = NoKey =>
                    \A x \in Due : Reaches(flight'[n].pos, x) => Arrives(x, n)'
               /\ \/ flight'[n].at = <<0, 0>>
                  \/ flight'[n].at[1] \in DOMAIN log /\ flight'[n].at[2] \in DOMAIN log[flight'[n].at[1]]
               /\ flight'[n].paired /\ flight'[n].order = Place(flight'[n].at)
    <3>1. CASE n \in 1 .. F
      <4>1. flight'[n] = flight[n] /\ n \in DOMAIN flight /\ n \in 0 .. F
        BY <1>0, <1>4, <3>1 DEF F
      <4>2. /\ flight[n].pos \in Positions /\ flight[n].pos.commit <= captured
            /\ setup.cuts \/ flight[n].commit \/ flight[n].key = NoKey =>
                  \A x \in Due : Reaches(flight[n].pos, x) => Arrives(x, n)
            /\ flight[n].at = <<0, 0>> \/ (flight[n].at[1] \in DOMAIN log /\ flight[n].at[2] \in DOMAIN log[flight[n].at[1]])
            /\ flight[n].paired /\ flight[n].order = Place(flight[n].at)
        BY <4>1 DEF FlightKept
      <4> QED BY <1>6, <4>1, <4>2
    <3>2. CASE n \notin 1 .. F
      <4>1. n - F \in DOMAIN s /\ n \in F .. F + Len(s) /\ n \in 1 .. n /\ flight'[n] = s[n - F]
        <5>1. n \in 1 .. F + Len(s)
          BY <1>3
        <5>2. n - F \in 1 .. Len(s) /\ F + (n - F) = n /\ n \in F .. F + Len(s) /\ n \in 1 .. n
          BY <1>0, <3>2, <5>1
        <5> QED BY <1>0, <1>5, <5>2
      <4>2. \A x : flight'[n].at = x => Arrives(x, n)'
        BY <4>1 DEF Arrives
      <4> QED BY <1>7, <4>1, <4>2 DEF F
    <3> QED BY <3>1, <3>2
  <2>2. \A at, x, p : Place(at)' = Place(at) /\ (Reaches(p, x)' <=> Reaches(p, x))
    BY DEF Place, Reaches, LastRow
  <2>3. Due' = Due
    BY DEF Due
  <2> QED BY <1>2, <2>1, <2>2, <2>3 DEF FlightKept
<1>9. ASSUME NEW x, Arrives(x, Len(flight)) PROVE x \in delivered' \/ \E k \in 1 .. Len(flight') : flight'[k].at = x
  <2>1. CASE x \in delivered
    BY <2>1
  <2>2. ASSUME NEW k \in 1 .. F, flight[k].at = x PROVE \E m \in 1 .. Len(flight') : flight'[m].at = x
    <3>1. k \in 1 .. Len(flight') /\ flight'[k] = flight[k]
      BY <1>0, <1>3, <1>4
    <3> QED BY <2>2, <3>1
  <2> QED BY <1>9, <2>1, <2>2 DEF Arrives, F
<1>10. \A n \in DOMAIN s : \E k \in 1 .. Len(flight') : flight'[k].at = s[n].at
  BY <1>3, <1>5
<1>11. \A x : Arrives(x, Len(flight))' <=> x \in delivered' \/ \E k \in 1 .. Len(flight') : flight'[k].at = x
  BY DEF Arrives
<1> QED BY <1>8, <1>9, <1>10, <1>11

-----------------------------------------------------------------------------
(* The head of a batch becomes the cursor.                                  *)

\* A mark behind a transaction reaches what the cursor of the transaction's end has
\* passed.
LEMMA MarkCovers ==
    ASSUME LogKept, NEW p \in Positions, NEW c \in Cursors, CommitComplete(c), p.commit <= c.commit,
           NEW x \in Due, Reaches(p, x)
    PROVE  ~Precedes(c, LastRow(x))
<1>1. /\ x[1] \in Nat /\ LastRow(x) \in Cursors /\ LastRow(x).commit = x[1] /\ LastRow(x).change = x[2]
      /\ x[2] < Top
  BY DueFacts
<1>2. p.commit \in Nat /\ c.commit \in Nat /\ c = AtSnapshot(c.commit)
  BY DEF Positions, Cursors, CommitComplete, AtSnapshot, Cursor
<1>3. x[1] <= c.commit
  BY <1>1, <1>2 DEF Reaches
<1>4. Precedes(AtSnapshot(c.commit), LastRow(x)) <=> c.commit < LastRow(x).commit
  BY <1>1, <1>2, EndFacts
<1> QED BY <1>1, <1>2, <1>3, <1>4

\* And a row's position what the cursor of that row has passed.
LEMMA RowCovers ==
    ASSUME LogKept, setup.cuts, NEW n \in DOMAIN log, NEW e \in RowsOf(n), NEW x \in Due,
           Reaches(PositionAt(e), x)
    PROVE  ~Precedes(e, LastRow(x))
<1>1. /\ x[1] \in Nat /\ LastRow(x) \in Cursors /\ LastRow(x).commit = x[1]
  BY DueFacts
<1>2. e \in Cursors /\ e = Cursor(e.commit, e.change, e.code) /\ e.code \in 1 .. 4 /\ e.commit \in Nat
  BY RowFacts DEF Cursors
<1>3. /\ PositionAt(e).commit = e.commit /\ PositionAt(e).change = e.change /\ PositionAt(e).serial = e.code
      /\ ~PositionAt(e).snap
  BY DEF PositionAt, Position
<1>4. CASE x[1] < e.commit
  BY <1>1, <1>2, <1>4, CursorOrder
<1>5. CASE ~Precedes(Cursor(e.commit, e.change, e.code), LastRow(x))
  BY <1>2, <1>5
<1> QED BY <1>2, <1>3, <1>4, <1>5 DEF Reaches, CommitSerial

LEMMA HeadFacts ==
    ASSUME LogKept, conv \in Conversions, CursorKept, BatchKept, batch # <<>>
    PROVE  LET e == Head(batch)
           IN  /\ e = batch[1] /\ e \in Cursors /\ e.commit \in 1 .. captured /\ e.commit \in DOMAIN log
               /\ Precedes(conv.cursor, e) /\ conv.cursor.commit <= e.commit
               /\ e \in RowsOf(e.commit) \/ e = AtSnapshot(e.commit)
               /\ Row(e) <=> e \in RowsOf(e.commit)
               /\ \A i \in DOMAIN log : \A r \in RowsOf(i) : Precedes(conv.cursor, r) /\ ~Precedes(e, r) => r = e
               /\ \A x \in Due : ~Precedes(e, LastRow(x)) => Arrives(x, Len(flight)) \/ LastRow(x) = e
<1> DEFINE e == Head(batch)
<1>1. batch \in Seq(Cursors) /\ 1 \in DOMAIN batch /\ e = batch[1] /\ e \in Cursors /\ DOMAIN batch \subseteq Nat \ {0}
  BY DEF BatchKept
<1>2. /\ e.commit \in 1 .. captured /\ Precedes(conv.cursor, e)
      /\ e \in RowsOf(e.commit) \/ e = AtSnapshot(e.commit)
      /\ \A i \in DOMAIN log : \A r \in RowsOf(i) :
            Precedes(conv.cursor, r) /\ ~Precedes(e, r) => \E m \in DOMAIN batch : batch[m] = r
  BY <1>1 DEF BatchKept
<1>3. e.commit \in DOMAIN log
  BY <1>2, LogFacts DEF LogKept
<1>4. conv.cursor \in Cursors
  BY DEF Conversions
<1> HIDE DEF e
<1>5. conv.cursor.commit <= e.commit
  <2>1. conv.cursor.commit \in Nat /\ e.commit \in Nat
    BY <1>1, <1>4 DEF Cursors
  <2>2. conv.cursor.commit < e.commit \/ conv.cursor.commit = e.commit
    BY <1>1, <1>2, <1>4, CursorOrder
  <2> QED BY <2>1, <2>2
<1>6. Row(e) <=> e \in RowsOf(e.commit)
  <2>1. e \in RowsOf(e.commit) => e.change \in 1 .. Top - 1
    BY <1>3, RowFacts
  <2>2. e = AtSnapshot(e.commit) => e.change = Top
    BY DEF AtSnapshot, Cursor
  <2>3. \A k \in 1 .. Top - 1 : k # Top
    BY DEF Top
  <2>4. Row(e) <=> e.change # Top
    BY DEF Row
  <2> QED BY ONLY <1>2, <2>1, <2>2, <2>3, <2>4
<1>7. ASSUME NEW i \in DOMAIN log, NEW r \in RowsOf(i), Precedes(conv.cursor, r), ~Precedes(e, r) PROVE r = e
  <2>1. PICK m \in DOMAIN batch : batch[m] = r
    BY <1>2, <1>7
  <2>2. 1 < m => Precedes(batch[1], batch[m])
    BY <1>1, <2>1 DEF BatchKept
  <2>3. m = 1
    BY <1>1, <1>7, <2>1, <2>2
  <2> QED BY <1>1, <2>1, <2>3
<1>8. ASSUME NEW x \in Due, ~Precedes(e, LastRow(x)) PROVE Arrives(x, Len(flight)) \/ LastRow(x) = e
  <2>1. x[1] \in DOMAIN log /\ LastRow(x) \in RowsOf(x[1])
    BY DueFacts
  <2>2. Precedes(conv.cursor, LastRow(x)) => LastRow(x) = e
    BY <1>7, <1>8, <2>1
  <2> QED BY <2>2 DEF CursorKept
<1>9. \A i \in DOMAIN log : \A r \in RowsOf(i) : Precedes(conv.cursor, r) /\ ~Precedes(e, r) => r = e
  BY <1>7
<1>10. \A x \in Due : ~Precedes(e, LastRow(x)) => Arrives(x, Len(flight)) \/ LastRow(x) = e
  BY <1>8
<1> QED BY <1>1, <1>2, <1>3, <1>5, <1>6, <1>9, <1>10 DEF e

\* What is left of a batch lies behind the row just taken.
LEMMA TailKept ==
    ASSUME LogKept, conv \in Conversions, BatchKept, batch # <<>>, batch' = Tail(batch),
           conv'.cursor = Head(batch), UNCHANGED <<log, captured>>
    PROVE  BatchKept'
<1>1. /\ batch \in Seq(Cursors) /\ 1 \in DOMAIN batch /\ Head(batch) = batch[1] /\ Head(batch) \in Cursors
      /\ batch' \in Seq(Cursors)
      /\ \A n \in DOMAIN batch' : n + 1 \in DOMAIN batch /\ batch'[n] = batch[n + 1] /\ 1 < n + 1 /\ n \in Nat
      /\ \A m \in DOMAIN batch : m = 1 \/ (m - 1 \in DOMAIN batch' /\ batch'[m - 1] = batch[m])
  BY DEF BatchKept
<1>2. \A n \in DOMAIN batch : /\ batch[n].commit \in 1 .. captured /\ batch[n] \in Cursors /\ Precedes(conv.cursor, batch[n])
                              /\ batch[n] \in RowsOf(batch[n].commit) \/ batch[n] = AtSnapshot(batch[n].commit)
                              /\ \A m \in DOMAIN batch : m < n => Precedes(batch[m], batch[n])
                              /\ \A i \in DOMAIN log : \A r \in RowsOf(i) :
                                  Precedes(conv.cursor, r) /\ ~Precedes(batch[n], r) => \E m \in DOMAIN batch : batch[m] = r
  BY DEF BatchKept
<1>3. conv.cursor \in Cursors
  BY DEF Conversions
<1>4. ASSUME NEW n \in DOMAIN batch'
      PROVE  /\ batch'[n].commit \in 1 .. captured /\ Precedes(Head(batch), batch'[n])
             /\ batch'[n] \in RowsOf(batch'[n].commit) \/ batch'[n] = AtSnapshot(batch'[n].commit)
             /\ \A m \in DOMAIN batch' : m < n => Precedes(batch'[m], batch'[n])
             /\ \A i \in DOMAIN log : \A r \in RowsOf(i) :
                  Precedes(Head(batch), r) /\ ~Precedes(batch'[n], r) => \E m \in DOMAIN batch' : batch'[m] = r
  <2>1. n + 1 \in DOMAIN batch /\ batch'[n] = batch[n + 1] /\ 1 < n + 1 /\ n \in Nat
    BY <1>1
  <2>2. Precedes(Head(batch), batch'[n])
    BY <1>1, <1>2, <2>1
  <2>3. \A m \in DOMAIN batch' : m < n => Precedes(batch'[m], batch'[n])
    <3>1. ASSUME NEW m \in DOMAIN batch', m < n PROVE Precedes(batch'[m], batch'[n])
      <4>1. m + 1 \in DOMAIN batch /\ batch'[m] = batch[m + 1] /\ m \in Nat
        BY <1>1
      <4>2. m + 1 < n + 1
        BY <2>1, <3>1, <4>1
      <4> QED BY <1>2, <2>1, <4>1, <4>2
    <3> QED BY <3>1
  <2>4. ASSUME NEW i \in DOMAIN log, NEW r \in RowsOf(i), Precedes(Head(batch), r), ~Precedes(batch'[n], r)
        PROVE  \E m \in DOMAIN batch' : batch'[m] = r
    <3>1. r \in Cursors
      BY RowFacts
    <3>2. Precedes(conv.cursor, r)
      BY <1>1, <1>2, <1>3, <2>4, <3>1, CursorTransitive
    <3>3. PICK m \in DOMAIN batch : batch[m] = r
      BY <1>2, <2>1, <2>4, <3>2
    <3>4. m # 1
      BY <1>1, <2>4, <3>1, <3>3, CursorTotal
    <3> QED BY <1>1, <3>3, <3>4
  <2> QED BY <1>2, <2>1, <2>2, <2>3, <2>4
<1>5. \A i : RowsOf(i)' = RowsOf(i)
  BY DEF RowsOf
<1> QED BY <1>1, <1>4, <1>5 DEF BatchKept

-----------------------------------------------------------------------------
(* The place of a change in its transaction.                                *)

\* A change with rows comes one behind the change before it that has rows.
LEMMA PlaceNext ==
    ASSUME LogKept, NEW n \in DOMAIN log, NEW k \in DOMAIN log[n], log[n][k].op # "alter",
           NEW m \in 0 .. k - 1, \A i \in m + 1 .. k - 1 : log[n][i].op = "alter"
    PROVE  Place(<<n, m>>) \in Nat /\ Place(<<n, k>>) = Place(<<n, m>>) + 1
<1> DEFINE S == {i \in 1 .. m : log[n][i].op # "alter"}
           T == {i \in 1 .. k : log[n][i].op # "alter"}
<1>1. k \in Nat \ {0} /\ m \in Nat /\ m < k
  <2>1. k \in 1 .. Len(log[n]) /\ Len(log[n]) \in Nat
    BY LogFacts
  <2> QED BY <2>1
<1>2. Place(<<n, m>>) = Cardinality(S) /\ Place(<<n, k>>) = Cardinality(T)
  BY DEF Place
<1>3. T = S \cup {k}
  <2>1. ASSUME NEW i \in T PROVE i \in S \/ i = k
    <3>1. i \in 1 .. m \/ i \in m + 1 .. k - 1 \/ i = k
      BY <1>1
    <3> QED BY <3>1
  <2>2. S \subseteq T
    BY <1>1
  <2>3. k \in T
    BY <1>1
  <2> HIDE DEF S, T
  <2> QED BY <2>1, <2>2, <2>3
<1>4. IsFiniteSet(S) /\ k \notin S
  <2>1. IsFiniteSet(1 .. m)
    BY <1>1, FS_Interval
  <2>2. S \in SUBSET (1 .. m)
    OBVIOUS
  <2>3. k \notin 1 .. m
    BY <1>1
  <2> HIDE DEF S
  <2> QED BY <2>1, <2>2, <2>3, FS_Subset
<1> HIDE DEF S, T
<1>5. Cardinality(S) \in Nat
  BY <1>4, FS_CardinalityType
<1> QED BY <1>2, <1>3, <1>4, <1>5, FS_AddElement

\* Before any change there is none.
LEMMA PlaceFirst == \A n : Place(<<n, 0>>) = 0
<1>1. ASSUME NEW n PROVE Place(<<n, 0>>) = 0
  <2>1. {m \in 1 .. 0 : log[n][m].op # "alter"} = {}
    OBVIOUS
  <2> QED BY <2>1, FS_EmptySet DEF Place
<1> QED BY <1>1

\* Where the transaction stands before the next row is handled.
LEMMA TxnFacts ==
    ASSUME LogKept, conv \in Conversions, CursorKept, BatchKept, TxnKept, batch # <<>>, Row(Head(batch))
    PROVE  LET e == Head(batch)
               N == Place(<<e.commit, e.change>>)
           IN  /\ N \in Nat \ {0}
               /\ IF N = 1 THEN conv.txn.commit # e.commit ELSE conv.txn = [commit |-> e.commit, order |-> N - 1]
               /\ e.code = 4 => <<e.commit, e.change>> \in conv.pending
<1> DEFINE e == Head(batch)
           c == conv.cursor
           n == e.commit
           k == e.change
           N == Place(<<n, k>>)
           Before1(i) == IF i = 1 THEN conv.txn.commit # n ELSE conv.txn = [commit |-> n, order |-> i - 1]
<1>1. /\ e \in Cursors /\ n \in 1 .. captured /\ n \in DOMAIN log /\ Precedes(c, e) /\ c.commit <= n
      /\ e \in RowsOf(n)
      /\ \A i \in DOMAIN log : \A r \in RowsOf(i) : Precedes(c, r) /\ ~Precedes(e, r) => r = e
  BY HeadFacts
<1> HIDE DEF e, c
<1>2. /\ k \in DOMAIN log[n] /\ e.code \in 1 .. 4 /\ e.code \in CodesOf(log[n][k].op) /\ k \in Nat \ {0} /\ n \in Nat \ {0}
      /\ k \in 1 .. Top - 1
  <2>1. k \in DOMAIN log[n] /\ e.code \in 1 .. 4 /\ e.code \in CodesOf(log[n][k].op) /\ k \in 1 .. Top - 1
    BY <1>1, RowFacts
  <2>2. n \in Nat \ {0}
    BY <1>1, LogFacts
  <2>3. \A i \in 1 .. Top - 1 : i \in Nat \ {0}
    BY DEF Top
  <2> QED BY <2>1, <2>2, <2>3
<1>3. c \in Cursors /\ c.commit \in Nat /\ c.change \in Nat /\ c.code \in 0 .. 5
  BY DEF Conversions, Cursors, c
<1>4. log[n][k].op # "alter" /\ (e.code = 3 \/ e.code = 4 => log[n][k].op = "u")
  BY <1>2 DEF CodesOf
<1>5. DOMAIN log[n] = 1 .. Len(log[n]) /\ Len(log[n]) \in Nat /\ \A i \in DOMAIN log[n] : log[n][i] \in Changes
  BY <1>1, LogFacts
<1>6. ASSUME NEW i \in DOMAIN log[n], log[n][i].op # "alter", i < k, c.commit < n \/ (c.commit = n /\ c.change < i)
      PROVE  FALSE
  <2>1. PICK code \in 1 .. 4 : code \in CodesOf(log[n][i].op)
    BY <1>6 DEF CodesOf
  <2> DEFINE r == Cursor(n, i, code)
  <2>2. r \in RowsOf(n)
    BY <1>1, <2>1, RowOf
  <2>3. r \in Cursors /\ r.commit = n /\ r.change = i
    BY <1>1, <2>2, RowFacts DEF Cursor
  <2> HIDE DEF r
  <2>4. i \in Nat
    BY <1>5
  <2>5. Precedes(c, r) /\ ~Precedes(e, r) /\ r # e
    BY <1>1, <1>2, <1>3, <1>6, <2>3, <2>4, CursorOrder
  <2> QED BY <1>1, <2>2, <2>5
<1>7. ASSUME NEW m \in 0 .. k - 1, c.commit < n \/ (c.commit = n /\ c.change <= m)
      PROVE  Place(<<n, m>>) \in Nat /\ N = Place(<<n, m>>) + 1
  <2>1. \A i \in m + 1 .. k - 1 : log[n][i].op = "alter"
    <3>1. ASSUME NEW i \in m + 1 .. k - 1, log[n][i].op # "alter" PROVE FALSE
      <4>1. i \in DOMAIN log[n] /\ i < k /\ (c.commit < n \/ (c.commit = n /\ c.change < i))
        BY <1>2, <1>3, <1>5, <1>7
      <4> QED BY <1>6, <3>1, <4>1
    <3> QED BY <3>1
  <2> QED BY <1>1, <1>2, <1>4, <2>1, PlaceNext
<1>10. ASSUME e.code = 4, c.commit < n \/ c.change < k PROVE FALSE
  <2> DEFINE r == Cursor(n, k, 3)
  <2>1. r \in RowsOf(n)
    BY <1>1, <1>2, <1>4, <1>10, RowOf DEF CodesOf
  <2>2. r \in Cursors /\ r.commit = n /\ r.change = k /\ r.code = 3
    BY <1>1, <2>1, RowFacts DEF Cursor
  <2> HIDE DEF r
  <2>3. Precedes(c, r) /\ ~Precedes(e, r) /\ r # e
    BY <1>1, <1>2, <1>3, <1>10, <2>2, CursorOrder
  <2> QED BY <1>1, <2>1, <2>3
<1>8. CASE c.commit < n
  <2>1. N = 1
    <3>1. 0 \in 0 .. k - 1
      BY <1>2
    <3>2. N = Place(<<n, 0>>) + 1
      BY <1>7, <1>8, <3>1
    <3>3. Place(<<n, 0>>) = 0
      BY PlaceFirst
    <3> HIDE DEF N
    <3> QED BY <3>2, <3>3
  <2>2. conv.txn.commit \in Nat /\ conv.txn.commit <= c.commit
    BY DEF Conversions, TxnKept, c
  <2>3. conv.txn.commit # n
    BY <1>2, <1>3, <1>8, <2>2
  <2>4. e.code # 4
    BY <1>8, <1>10
  <2> QED BY <2>1, <2>3, <2>4 DEF e
<1>9. CASE c.commit = n
  <2>0. c.change < k \/ (c.change = k /\ c.code < e.code)
    <3>1. c.commit < n \/ (c.commit = n /\ (c.change < k \/ (c.change = k /\ c.code < e.code)))
      BY <1>1, <1>3, CursorOrder
    <3> QED BY <1>3, <1>9, <3>1
  <2>1. c # AtSnapshot(c.commit)
    <3>1. \A i \in 1 .. Top - 1, j \in Nat : j < i \/ j = i => j # Top
      BY DEF Top
    <3>2. c.change # Top
      BY <1>2, <1>3, <2>0, <3>1
    <3> QED BY <3>2 DEF AtSnapshot, Cursor
  <2>2. CASE c.change = 0 /\ c.code = 0 /\ conv.txn = NoTxn
    <3>1. N = 1
      <4>1. 0 \in 0 .. k - 1
        BY <1>2
      <4>2. N = Place(<<n, 0>>) + 1
        BY <1>7, <1>9, <2>2, <4>1
      <4>3. Place(<<n, 0>>) = 0
        BY PlaceFirst
      <4> HIDE DEF N
      <4> QED BY <4>2, <4>3
    <3>2. conv.txn.commit # n
      BY <1>2, <2>2 DEF NoTxn
    <3>3. e.code # 4
      BY <1>2, <1>10, <2>2
    <3> QED BY <3>1, <3>2, <3>3 DEF e
  <2>3. CASE c \in RowsOf(n)
    <3> DEFINE M == Place(<<n, c.change>>)
    <3>1. /\ c.change \in DOMAIN log[n] /\ c.code \in 1 .. 4 /\ c.code \in CodesOf(log[n][c.change].op)
          /\ c = Cursor(n, c.change, c.code)
      BY <1>1, <2>3, RowFacts
    <3>2. /\ c.code # 3 => conv.txn = [commit |-> n, order |-> M]
          /\ c.code = 3 => <<n, c.change>> \in conv.pending /\ Before1(M)
      BY <1>9, <2>1, <3>1 DEF TxnKept, c
    <3>3. CASE c.change = k
      <4>1. c.code = 3 /\ e.code = 4
        <5>1. c.code < e.code
          BY <1>3, <2>0, <3>3
        <5> QED BY <1>2, <1>3, <3>1, <3>3, <5>1 DEF CodesOf
      <4>2. M = N /\ <<n, k>> \in conv.pending /\ Before1(N)
        BY <3>2, <3>3, <4>1
      <4>3. N \in Nat \ {0}
        <5>1. IsFiniteSet({i \in 1 .. k : log[n][i].op # "alter"}) /\ k \in {i \in 1 .. k : log[n][i].op # "alter"}
          <6>1. IsFiniteSet(1 .. k)
            BY <1>2, FS_Interval
          <6> QED BY <1>2, <1>4, <6>1, FS_Subset
        <5> QED BY <5>1, FS_CardinalityType, FS_EmptySet DEF Place
      <4> QED BY <4>2, <4>3 DEF e
    <3>4. CASE c.change < k
      <4>1. c.code # 3 /\ e.code # 4
        <5>1. c.code = 3 => FALSE
          <6>1. SUFFICES ASSUME c.code = 3 PROVE FALSE
            OBVIOUS
          <6> DEFINE r == Cursor(n, c.change, 4)
          <6>2. r \in RowsOf(n)
            BY <1>1, <3>1, <6>1, RowOf DEF CodesOf
          <6>3. r \in Cursors /\ r.commit = n /\ r.change = c.change /\ r.code = 4
            BY <1>1, <6>2, RowFacts DEF Cursor
          <6> HIDE DEF r
          <6>4. Precedes(c, r) /\ ~Precedes(e, r) /\ r # e
            BY <1>1, <1>2, <1>3, <1>9, <3>4, <6>1, <6>3, CursorOrder
          <6> QED BY <1>1, <6>2, <6>4
        <5> QED BY <1>10, <3>4, <5>1
      <4>2. c.change \in 0 .. k - 1
        BY <1>2, <1>3, <3>4
      <4>3. M \in Nat /\ N = M + 1
        BY <1>3, <1>7, <1>9, <4>2
      <4>4. M # 0
        <5>1. c.change \in 1 .. c.change /\ log[n][c.change].op # "alter"
          BY <1>5, <3>1 DEF CodesOf
        <5>2. IsFiniteSet({i \in 1 .. c.change : log[n][i].op # "alter"})
              /\ c.change \in {i \in 1 .. c.change : log[n][i].op # "alter"}
          <6>1. IsFiniteSet(1 .. c.change)
            BY <1>3, FS_Interval
          <6> QED BY <5>1, <6>1, FS_Subset
        <5> QED BY <5>2, FS_CardinalityType, FS_EmptySet DEF Place
      <4>5. conv.txn = [commit |-> n, order |-> M]
        BY <3>2, <4>1
      <4> HIDE DEF M, N
      <4>6. N \in Nat \ {0} /\ N # 1 /\ N - 1 = M
        BY <4>3, <4>4
      <4> QED BY <4>1, <4>5, <4>6 DEF e, N
    <3> QED BY <1>3, <2>0, <3>3, <3>4
  <2> QED BY <1>9, <2>1, <2>2, <2>3 DEF TxnKept, c
<1> QED BY <1>1, <1>2, <1>3, <1>8, <1>9

-----------------------------------------------------------------------------
(* What a step leaves alone.                                                *)

LEMMA LogStays ==
    ASSUME LogKept, UNCHANGED <<setup, log, captured, cleaned, since, wrote, offset>>
    PROVE  LogKept'
  BY DEF LogKept, Rejected

LEMMA FlightStays ==
    ASSUME FlightKept, UNCHANGED <<setup, log, captured, since, delivered, flight>>
    PROVE  FlightKept' /\ \A x : Arrives(x, Len(flight)) => Arrives(x, Len(flight))'
<1>1. \A at, x, p, n : /\ Place(at)' = Place(at) /\ (Reaches(p, x)' <=> Reaches(p, x))
                       /\ (Arrives(x, n)' <=> Arrives(x, n))
  BY DEF Place, Reaches, LastRow, Arrives
<1>2. Due' = Due
  BY DEF Due
<1> QED BY <1>1, <1>2 DEF FlightKept

LEMMA CheckpointStays ==
    ASSUME CheckpointKept, UNCHANGED <<setup, log, captured, since, ckpt>>, delivered \subseteq delivered'
    PROVE  CheckpointKept'
<1>1. \A x, p : Reaches(p, x)' <=> Reaches(p, x)
  BY DEF Reaches, LastRow
<1>2. Due' = Due
  BY DEF Due
<1> QED BY <1>1, <1>2 DEF CheckpointKept

-----------------------------------------------------------------------------
(* Behind a row, and behind a transaction.                                  *)

\* A row is counted in its transaction, and an update's second half finds its first.
LEMMA RowReadKept ==
    ASSUME LogKept, conv \in Conversions, CursorKept, BatchKept, TxnKept, batch # <<>>, Row(Head(batch)),
           Head(batch).code # 3, RowRead(Head(batch)), UNCHANGED log
    PROVE  LET e == Head(batch)
           IN  /\ conv' \in Conversions /\ conv'.cursor = e /\ TxnKept' /\ conv'.resume \in {conv.resume, None}
               /\ conv'.txn.order = Place(Half(e)) /\ (e.code # 4 \/ Half(e) \in conv.pending)
<1> DEFINE e == Head(batch)
           N == Place(<<e.commit, e.change>>)
<1>1. /\ e \in Cursors /\ e.commit \in DOMAIN log /\ e \in RowsOf(e.commit)
      /\ e.commit \in Nat /\ e.change \in Nat
  BY HeadFacts DEF Cursors
<1>2. /\ N \in Nat \ {0}
      /\ IF N = 1 THEN conv.txn.commit # e.commit ELSE conv.txn = [commit |-> e.commit, order |-> N - 1]
      /\ e.code = 4 => <<e.commit, e.change>> \in conv.pending
  BY TxnFacts
<1> HIDE DEF e
<1>3. /\ conv' = [conv EXCEPT !.cursor = e, !.txn = OrderInTxn(conv.txn, e.commit), !.pending = @ \ {Half(e)},
                              !.resume = IF ShouldSkip(PositionAt(e)) THEN @ ELSE None]
  BY DEF RowRead, e
<1>4. OrderInTxn(conv.txn, e.commit) = [commit |-> e.commit, order |-> N]
  <2> HIDE DEF N
  <2>1. CASE N = 1
    BY <1>2, <2>1 DEF OrderInTxn
  <2>2. CASE N # 1
    <3>1. conv.txn.commit = e.commit /\ conv.txn.order = N - 1 /\ N - 1 + 1 = N
      BY <1>2, <2>2
    <3> QED BY <3>1 DEF OrderInTxn
  <2> QED BY <2>1, <2>2
<1>5. /\ conv'.cursor = e /\ conv'.txn = [commit |-> e.commit, order |-> N]
      /\ conv'.pending = conv.pending \ {Half(e)} /\ conv'.resume \in {conv.resume, None}
      /\ conv' = [cursor |-> conv'.cursor, txn |-> conv'.txn, pending |-> conv'.pending, resume |-> conv'.resume]
  <2>1. conv = [cursor |-> conv.cursor, txn |-> conv.txn, pending |-> conv.pending, resume |-> conv.resume]
    BY DEF Conversions
  <2> QED BY <1>3, <1>4, <2>1
<1>6. None \in Positions
  BY DEF None, Position, Positions
<1>7. conv' \in Conversions
  BY <1>1, <1>2, <1>5, <1>6 DEF Conversions
<1>8. TxnKept'
  <2>1. (\A i : RowsOf(i)' = RowsOf(i)) /\ \A at : Place(at)' = Place(at)
    BY DEF RowsOf, Place
  <2>2. e.code # 3
    BY DEF e
  <2> QED BY <1>1, <1>5, <2>1, <2>2 DEF TxnKept
<1> QED BY <1>2, <1>5, <1>7, <1>8 DEF Half, e

\* The first half of an update waits, and is not yet counted.
LEMMA HalfReadKept ==
    ASSUME LogKept, conv \in Conversions, CursorKept, BatchKept, TxnKept, batch # <<>>, TakeHalf(Head(batch))
    PROVE  LET e == Head(batch)
           IN  /\ conv' \in Conversions /\ conv'.cursor = e /\ TxnKept' /\ conv'.resume = conv.resume
<1> DEFINE e == Head(batch)
           N == Place(<<e.commit, e.change>>)
<1>0. Row(Head(batch))
  BY DEF TakeHalf
<1>1. /\ e \in Cursors /\ e.commit \in DOMAIN log /\ e \in RowsOf(e.commit) /\ conv.cursor.commit <= e.commit
      /\ e.commit \in Nat /\ e.change \in Nat
  BY <1>0, HeadFacts DEF Cursors
<1>2. /\ IF N = 1 THEN conv.txn.commit # e.commit ELSE conv.txn = [commit |-> e.commit, order |-> N - 1]
  BY <1>0, TxnFacts
<1> HIDE DEF e
<1>3. conv' = [conv EXCEPT !.cursor = e, !.pending = @ \cup {Half(e)}] /\ e.code = 3 /\ log' = log
  BY DEF TakeHalf, e, handlingRest, server
<1>4. /\ conv'.cursor = e /\ conv'.txn = conv.txn
      /\ conv'.pending = conv.pending \cup {Half(e)} /\ conv'.resume = conv.resume
      /\ conv' = [cursor |-> conv'.cursor, txn |-> conv'.txn, pending |-> conv'.pending, resume |-> conv'.resume]
  <2>1. conv = [cursor |-> conv.cursor, txn |-> conv.txn, pending |-> conv.pending, resume |-> conv.resume]
    BY DEF Conversions
  <2> QED BY <1>3, <2>1
<1>5. conv' \in Conversions
  <2>1. Half(e) \in Nat \X Nat
    BY <1>1 DEF Half
  <2> QED BY <1>1, <1>4, <2>1 DEF Conversions
<1>6. conv.txn.commit \in Nat /\ conv.txn.commit <= e.commit
  <2>1. conv.txn.commit \in Nat /\ conv.txn.commit <= conv.cursor.commit /\ conv.cursor.commit \in Nat
    BY DEF TxnKept, Conversions, Cursors
  <2> QED BY <1>1, <2>1
<1>7. TxnKept'
  <2>1. (\A i : RowsOf(i)' = RowsOf(i)) /\ \A at : Place(at)' = Place(at)
    BY <1>3 DEF RowsOf, Place
  <2> QED BY <1>1, <1>2, <1>3, <1>4, <1>6, <2>1 DEF TxnKept, Half
<1> QED BY <1>4, <1>5, <1>7 DEF e

\* The end of a transaction, or of what was found to be empty.
LEMMA EndReadKept ==
    ASSUME LogKept, conv \in Conversions, CursorKept, BatchKept, TxnKept, batch # <<>>, ~Row(Head(batch)),
           TxnRead(Head(batch)) \/ conv' = [conv EXCEPT !.cursor = Head(batch)], UNCHANGED log
    PROVE  LET e == Head(batch)
           IN  /\ conv' \in Conversions /\ conv'.cursor = e /\ TxnKept' /\ conv'.resume \in {conv.resume, None}
               /\ CommitComplete(e)
<1> DEFINE e == Head(batch)
<1>1. /\ e \in Cursors /\ e = AtSnapshot(e.commit) /\ e.commit \in Nat /\ conv.cursor.commit <= e.commit
  BY HeadFacts DEF Cursors
<1>2. conv.txn.commit \in Nat /\ conv.txn.commit <= e.commit
  <2>1. conv.txn.commit \in Nat /\ conv.txn.commit <= conv.cursor.commit /\ conv.cursor.commit \in Nat
    BY DEF TxnKept, Conversions, Cursors
  <2> QED BY <1>1, <2>1
<1>3. /\ conv'.cursor = e /\ conv'.txn \in {conv.txn, NoTxn} /\ conv'.pending = conv.pending
      /\ conv'.resume \in {conv.resume, None}
      /\ conv' = [cursor |-> conv'.cursor, txn |-> conv'.txn, pending |-> conv'.pending, resume |-> conv'.resume]
  <2>1. conv = [cursor |-> conv.cursor, txn |-> conv.txn, pending |-> conv.pending, resume |-> conv.resume]
    BY DEF Conversions
  <2>2. CASE TxnRead(e)
    BY <2>1, <2>2 DEF TxnRead
  <2>3. CASE conv' = [conv EXCEPT !.cursor = e]
    BY <2>1, <2>3
  <2> QED BY <2>2, <2>3
<1> HIDE DEF e
<1>4. None \in Positions /\ NoTxn \in [commit : Nat, order : Nat]
  BY DEF None, Position, Positions, NoTxn
<1>5. conv' \in Conversions
  BY <1>1, <1>3, <1>4 DEF Conversions
<1>6. conv'.txn.commit <= e.commit
  BY <1>1, <1>2, <1>3 DEF NoTxn
<1>7. TxnKept'
  BY <1>1, <1>3, <1>6 DEF TxnKept
<1>8. CommitComplete(e)
  BY <1>1 DEF CommitComplete, AtSnapshot, Cursor
<1> QED BY <1>3, <1>5, <1>7, <1>8 DEF e

\* What the cursor has passed is on its way, if the change it has come to is.
LEMMA CursorTakes ==
    ASSUME LogKept, conv \in Conversions, CursorKept, BatchKept, batch # <<>>,
           UNCHANGED <<setup, log, captured, since, delivered>>,
           conv'.cursor = Head(batch), conv'.resume \in {conv.resume, None},
           lastSafe' \in Positions, lastSafe' = lastSafe \/ lastSafe'.commit = Head(batch).commit,
           \A x : Arrives(x, Len(flight)) => Arrives(x, Len(flight))',
           \A x \in Due : LastRow(x) = Head(batch) => Arrives(x, Len(flight))'
    PROVE  CursorKept'
<1> DEFINE e == Head(batch)
<1>1. /\ e \in Cursors /\ e.commit \in 1 .. captured /\ conv.cursor.commit <= e.commit /\ e.commit \in Nat
      /\ \A x \in Due : ~Precedes(e, LastRow(x)) => Arrives(x, Len(flight)) \/ LastRow(x) = e
  BY HeadFacts DEF Cursors
<1> HIDE DEF e
<1>2. /\ \A x : LastRow(x)' = LastRow(x)
      /\ Due' = Due
  BY DEF Due, LastRow
<1>3. \A x \in Due : ~Precedes(e, LastRow(x)) => Arrives(x, Len(flight))'
  BY <1>1 DEF e
<1>4. captured \in Nat /\ captured >= 0
  BY LogFacts
<1>5. ~conv'.resume.snap /\ conv'.resume.commit <= captured
  BY <1>4 DEF CursorKept, None, Position
<1>6. conv'.resume # None =>
        \A x \in Due : IsAtOrBefore(Position(x[1], x[2], LastRow(x).code, FALSE), conv'.resume) => x \in delivered
  BY DEF CursorKept
<1>7. lastSafe'.commit <= e.commit
  <2>1. lastSafe.commit \in Nat /\ lastSafe.commit <= conv.cursor.commit /\ conv.cursor.commit \in Nat
    BY DEF CursorKept, Conversions, Cursors, Positions
  <2>2. lastSafe.commit <= e.commit
    BY <1>1, <2>1
  <2> QED BY <1>1, <2>2 DEF e
<1>8. conv'.cursor = e /\ e.commit <= captured
  BY <1>1, <1>4 DEF e
<1> QED BY <1>2, <1>3, <1>5, <1>6, <1>7, <1>8 DEF CursorKept

-----------------------------------------------------------------------------
(* The rows of a batch.                                                     *)

\* What handling a row or the end of a transaction leaves as good as it was.
StreamKept ==
    /\ LogKept /\ FlightKept /\ CheckpointKept /\ conv \in Conversions /\ CursorKept /\ BatchKept /\ TxnKept

\* A row that sends nothing, its change being at the sink if it is one of a table.
LEMMA QuietRow ==
    ASSUME StreamKept, batch # <<>>, batch' = Tail(batch), Row(Head(batch)), Head(batch).code # 3,
           RowRead(Head(batch)), UNCHANGED <<handlingRest, lastSafe, flight>>,
           \A x \in Due : LastRow(x) = Head(batch) => x \in delivered
    PROVE  StreamKept'
<1> USE DEF StreamKept
<1>1. /\ UNCHANGED <<setup, log, captured, cleaned, since, wrote, offset, delivered, ckpt, flight, lastSafe>>
      /\ UNCHANGED <<setup, log, captured, cleaned, since, wrote, offset>>
      /\ UNCHANGED <<setup, log, captured, since, delivered>>
  BY DEF handlingRest, server, durable
<1>2. LogKept'
  BY <1>1, LogStays
<1>3. FlightKept' /\ \A x : Arrives(x, Len(flight)) => Arrives(x, Len(flight))'
  BY <1>1, FlightStays
<1>4. CheckpointKept'
  BY <1>1, CheckpointStays
<1>5. conv' \in Conversions /\ conv'.cursor = Head(batch) /\ TxnKept' /\ conv'.resume \in {conv.resume, None}
  BY <1>1, RowReadKept
<1>6. BatchKept'
  BY <1>1, <1>5, TailKept
<1>7. CursorKept'
  <2>1. lastSafe' \in Positions /\ lastSafe' = lastSafe
    BY <1>1 DEF CursorKept
  <2>2. \A x \in Due : LastRow(x) = Head(batch) => Arrives(x, Len(flight))'
    BY <1>1 DEF Arrives
  <2> QED BY <1>1, <1>3, <1>5, <2>1, <2>2, CursorTakes
<1> QED BY <1>2, <1>3, <1>4, <1>5, <1>6, <1>7

LEMMA HalfKept ==
    ASSUME StreamKept, batch # <<>>, batch' = Tail(batch), TakeHalf(Head(batch))
    PROVE  StreamKept'
<1> USE DEF StreamKept
<1>1. /\ UNCHANGED <<setup, log, captured, cleaned, since, wrote, offset, delivered, ckpt, flight, lastSafe>>
      /\ UNCHANGED <<setup, log, captured, cleaned, since, wrote, offset>>
      /\ UNCHANGED <<setup, log, captured, since, delivered>>
      /\ Head(batch).code = 3
  BY DEF TakeHalf, handlingRest, server, durable
<1>2. LogKept'
  BY <1>1, LogStays
<1>3. FlightKept' /\ \A x : Arrives(x, Len(flight)) => Arrives(x, Len(flight))'
  BY <1>1, FlightStays
<1>4. CheckpointKept'
  BY <1>1, CheckpointStays
<1>5. conv' \in Conversions /\ conv'.cursor = Head(batch) /\ TxnKept' /\ conv'.resume \in {conv.resume, None}
  BY <1>1, HalfReadKept
<1>6. BatchKept'
  BY <1>1, <1>5, TailKept
<1>7. CursorKept'
  <2>1. lastSafe' \in Positions /\ lastSafe' = lastSafe
    BY <1>1 DEF CursorKept
  <2>2. \A x \in Due : LastRow(x) # Head(batch)
    BY <1>1, DueFacts
  <2> QED BY <1>1, <1>3, <1>5, <2>1, <2>2, CursorTakes
<1> QED BY <1>2, <1>3, <1>4, <1>5, <1>6, <1>7

\* A row of a table is sent with its place in the transaction.
LEMMA RowSent ==
    ASSUME StreamKept, batch # <<>>, batch' = Tail(batch), TakeRow(Head(batch))
    PROVE  StreamKept' /\ \E r : flight' = Append(flight, r) /\ r.state = NoState
<1> USE DEF StreamKept
<1> DEFINE e == Head(batch)
           c == ChangeAt(e)
           item == Item(PositionAt(e), [table |-> c.table, k |-> c.k], c.val)
           r == [item EXCEPT !.at = Half(e), !.order = conv'.txn.order,
                             !.paired = (e.code # 4 \/ Half(e) \in conv.pending)]
<1>1. /\ UNCHANGED <<setup, log, captured, cleaned, since, wrote, offset, delivered, ckpt>>
      /\ UNCHANGED <<setup, log, captured, cleaned, since, wrote, offset>>
      /\ UNCHANGED <<setup, log, captured, since, delivered>>
      /\ Row(e) /\ e.code # 3 /\ RowRead(e) /\ Business(c.op)
      /\ flight' = Append(flight, r) /\ Behind(PositionAt(e))
  BY DEF TakeRow, Taken, handlingRest, server, durable, Business
<1>2. LogKept'
  BY <1>1, LogStays
<1>3. /\ e \in Cursors /\ e.commit \in 1 .. captured /\ e.commit \in DOMAIN log /\ e.commit \in Nat /\ e.change \in Nat
      /\ e \in RowsOf(e.commit) /\ e.code \in Nat
      /\ \A x \in Due : ~Precedes(e, LastRow(x)) => Arrives(x, Len(flight)) \/ LastRow(x) = e
  BY <1>1, HeadFacts DEF Cursors
<1>4. e.change \in DOMAIN log[e.commit]
  BY <1>3, RowFacts
<1>5. /\ conv' \in Conversions /\ conv'.cursor = e /\ TxnKept' /\ conv'.resume \in {conv.resume, None}
      /\ conv'.txn.order = Place(Half(e)) /\ (e.code # 4 \/ Half(e) \in conv.pending)
  BY <1>1, RowReadKept
<1>6. /\ r.pos = PositionAt(e) /\ r.key = [table |-> c.table, k |-> c.k] /\ r.at = Half(e) /\ r.paired
      /\ r.order = conv'.txn.order /\ ~r.commit /\ r.state = NoState
  <2>1. (e.code # 4 \/ Half(e) \in conv.pending) = TRUE
    BY <1>5
  <2> HIDE DEF c, e
  <2>2. r.paired = (e.code # 4 \/ Half(e) \in conv.pending)
    BY DEF Item
  <2> QED BY <2>1, <2>2 DEF Item
<1>7. /\ PositionAt(e) \in Positions /\ PositionAt(e).commit = e.commit
  BY <1>3 DEF PositionAt, Position, Positions
<1>8. r.key # NoKey
  <2>1. c = log[e.commit][e.change]
    BY DEF ChangeAt
  <2> QED BY <1>1, <1>3, <1>4, <1>6, <2>1 DEF LogKept
<1>9. \A x \in Due : LastRow(x) = e => x = Half(e)
  BY DueFacts DEF Half
<1> HIDE DEF r, c
<1>10. setup.cuts => \A x \in Due : Reaches(r.pos, x) => Arrives(x, Len(flight)) \/ r.at = x
  BY <1>3, <1>6, <1>9, RowCovers
<1>11. /\ FlightKept' /\ \A x : Arrives(x, Len(flight)) => Arrives(x, Len(flight))'
       /\ \A x : x = Half(e) => Arrives(x, Len(flight))'
  <2> DEFINE s == <<r>>
  <2>1. s \in Seq({r}) /\ DOMAIN s = {1} /\ s[1] = r
    OBVIOUS
  <2>2. flight' = flight \o s
    BY <1>1 DEF FlightKept
  <2>3. r.at[1] \in DOMAIN log /\ r.at[2] \in DOMAIN log[r.at[1]]
    BY <1>3, <1>4, <1>6 DEF Half
  <2>4. r.pos \in Positions /\ r.pos.commit <= captured /\ r.order = Place(r.at)
    BY <1>3, <1>5, <1>6, <1>7
  <2> HIDE DEF s, e
  <2>5. /\ FlightKept' /\ \A x : Arrives(x, Len(flight)) => Arrives(x, Len(flight))'
        /\ \A x : (\E n \in DOMAIN s : s[n].at = x) => Arrives(x, Len(flight))'
    BY <1>1, <1>6, <1>8, <1>10, <2>1, <2>2, <2>3, <2>4, Sends
  <2> QED BY <1>6, <2>1, <2>5
<1>12. CheckpointKept'
  BY <1>1, CheckpointStays
<1>13. BatchKept'
  BY <1>1, <1>5, TailKept
<1>14. CursorKept'
  <2>1. lastSafe' \in Positions /\ (lastSafe' = lastSafe \/ lastSafe'.commit = e.commit)
    BY <1>1, <1>7 DEF CursorKept, Behind
  <2>2. \A x \in Due : LastRow(x) = e => Arrives(x, Len(flight))'
    BY <1>9, <1>11
  <2> QED BY <1>1, <1>5, <1>11, <2>1, <2>2, CursorTakes
<1> QED BY <1>1, <1>2, <1>5, <1>6, <1>11, <1>12, <1>13, <1>14

\* Marks and rows of a window, sent at the end of a transaction.
LEMMA EndSent ==
    ASSUME StreamKept, batch # <<>>, batch' = Tail(batch), ~Row(Head(batch)), UNCHANGED handlingRest,
           TxnRead(Head(batch)) \/ conv' = [conv EXCEPT !.cursor = Head(batch)],
           NEW S, NEW s \in Seq(S), flight' = flight \o s,
           \A n \in DOMAIN s : /\ s[n].pos \in Positions /\ s[n].pos.commit = Head(batch).commit
                               /\ s[n].at = <<0, 0>> /\ s[n].paired = TRUE /\ s[n].order = 0,
           lastSafe' \in Positions, lastSafe' = lastSafe \/ lastSafe'.commit = Head(batch).commit
    PROVE  StreamKept'
<1> USE DEF StreamKept
<1> DEFINE e == Head(batch)
<1>1. /\ UNCHANGED <<setup, log, captured, cleaned, since, wrote, offset, delivered, ckpt>>
      /\ UNCHANGED <<setup, log, captured, cleaned, since, wrote, offset>>
      /\ UNCHANGED <<setup, log, captured, since, delivered>>
  BY DEF handlingRest, server, durable
<1>2. LogKept'
  BY <1>1, LogStays
<1>3. /\ e \in Cursors /\ e.commit \in 1 .. captured /\ e.change = Top /\ e.commit \in Nat
      /\ \A x \in Due : ~Precedes(e, LastRow(x)) => Arrives(x, Len(flight)) \/ LastRow(x) = e
  BY HeadFacts DEF Cursors, Row
<1>4. \A x \in Due : LastRow(x) # e
  <2>1. \A x \in Due : LastRow(x).change = x[2] /\ x[2] \in Nat /\ x[2] < Top
    BY DueFacts
  <2> HIDE DEF e
  <2> QED BY <1>3, <2>1 DEF Top
<1>5. conv' \in Conversions /\ conv'.cursor = e /\ TxnKept' /\ conv'.resume \in {conv.resume, None} /\ CommitComplete(e)
  BY <1>1, EndReadKept
<1> HIDE DEF e
<1>6. \A p \in Positions : p.commit = e.commit =>
        /\ p.commit <= captured
        /\ \A x \in Due : Reaches(p, x) => Arrives(x, Len(flight))
  <2>1. ASSUME NEW p \in Positions, p.commit = e.commit, NEW x \in Due, Reaches(p, x) PROVE Arrives(x, Len(flight))
    <3>1. p.commit <= e.commit
      BY <1>3, <2>1
    <3>2. ~Precedes(e, LastRow(x))
      BY <1>3, <1>5, <2>1, <3>1, MarkCovers
    <3> QED BY <1>3, <1>4, <3>2
  <2>2. e.commit <= captured
    BY <1>3, LogFacts
  <2> QED BY <2>1, <2>2
<1>7. FlightKept' /\ \A x : Arrives(x, Len(flight)) => Arrives(x, Len(flight))'
  <2>1. Place(<<0, 0>>) = 0
    BY PlaceFirst
  <2>2. ASSUME NEW n \in DOMAIN s
        PROVE  /\ s[n].pos \in Positions /\ s[n].pos.commit <= captured
               /\ \A x \in Due : Reaches(s[n].pos, x) => Arrives(x, Len(flight))
               /\ s[n].at = <<0, 0>> /\ s[n].paired /\ s[n].order = Place(s[n].at)
    <3>1. s[n].pos \in Positions /\ s[n].pos.commit = e.commit /\ s[n].at = <<0, 0>> /\ s[n].paired /\ s[n].order = 0
      BY DEF e
    <3> QED BY <1>6, <2>1, <3>1
  <2> QED BY <1>1, <2>2, Sends
<1>8. CheckpointKept'
  BY <1>1, CheckpointStays
<1>9. BatchKept'
  BY <1>1, <1>5, TailKept DEF e
<1>10. CursorKept'
  <2>1. \A x \in Due : LastRow(x) = Head(batch) => Arrives(x, Len(flight))'
    BY <1>4 DEF e
  <2> QED BY <1>1, <1>5, <1>7, <2>1, CursorTakes DEF e
<1> QED BY <1>2, <1>5, <1>7, <1>8, <1>9, <1>10

-----------------------------------------------------------------------------
(* The state of the incremental snapshots.                                  *)

LEMMA EmptyWindow == ShapedWindow(NoWindow)
<1>1. IsFiniteSet({})
  BY FS_EmptySet
<1> QED BY <1>1 DEF ShapedWindow, NoWindow

LEMMA WindowShaped ==
    ASSUME NEW w, ShapedWindow(w), NEW v
    PROVE  ShapedWindow([w EXCEPT !.closeAt = v]) /\ (IsFiniteSet(v) => ShapedWindow([w EXCEPT !.rows = v]))
<1>1. PICK id, tab, rows, max, last, count, closeAt :
        /\ w = [id |-> id, table |-> tab, rows |-> rows, max |-> max, last |-> last, count |-> count, closeAt |-> closeAt]
        /\ IsFiniteSet(rows)
  BY DEF ShapedWindow
<1>2. [w EXCEPT !.closeAt = v] =
        [id |-> id, table |-> tab, rows |-> rows, max |-> max, last |-> last, count |-> count, closeAt |-> v]
  BY <1>1
<1>3. [w EXCEPT !.rows = v] =
        [id |-> id, table |-> tab, rows |-> v, max |-> max, last |-> last, count |-> count, closeAt |-> closeAt]
  BY <1>1
<1> QED BY <1>1, <1>2, <1>3 DEF ShapedWindow

\* A state made of its parts, and each of them replaced.
LEMMA ShapeOf ==
    ASSUME NEW progress, NEW completed, NEW opening \in Nat, NEW window, ShapedWindow(window), NEW serial \in Nat,
           NEW dirty
    PROVE  Shaped([progress |-> progress, completed |-> completed, opening |-> opening, window |-> window,
                   serial |-> serial, dirty |-> dirty])
  BY DEF Shaped

LEMMA ShapeOfNew == \A progress, completed : Shaped(NewIncremental(progress, completed))
  BY EmptyWindow, ShapeOf DEF NewIncremental

LEMMA Reshaped ==
    ASSUME NEW c, Shaped(c), NEW v
    PROVE  /\ Shaped([c EXCEPT !.progress = v]) /\ Shaped([c EXCEPT !.completed = v]) /\ Shaped([c EXCEPT !.dirty = v])
           /\ [c EXCEPT !.progress = v].serial = c.serial /\ [c EXCEPT !.completed = v].serial = c.serial
           /\ v \in Nat => Shaped([c EXCEPT !.opening = v]) /\ Shaped([c EXCEPT !.serial = v])
           /\ ShapedWindow(v) => Shaped([c EXCEPT !.window = v])
<1>1. PICK p, k, o, w, s, d :
        /\ c = [progress |-> p, completed |-> k, opening |-> o, window |-> w, serial |-> s, dirty |-> d]
        /\ o \in Nat /\ s \in Nat /\ ShapedWindow(w)
  BY DEF Shaped
<1>2. c.serial = s
  BY <1>1
<1>3. [c EXCEPT !.progress = v] =
        [progress |-> v, completed |-> k, opening |-> o, window |-> w, serial |-> s, dirty |-> d]
  BY <1>1
<1>4. [c EXCEPT !.completed = v] =
        [progress |-> p, completed |-> v, opening |-> o, window |-> w, serial |-> s, dirty |-> d]
  BY <1>1
<1>5. [c EXCEPT !.opening = v] =
        [progress |-> p, completed |-> k, opening |-> v, window |-> w, serial |-> s, dirty |-> d]
  BY <1>1
<1>6. [c EXCEPT !.window = v] =
        [progress |-> p, completed |-> k, opening |-> o, window |-> v, serial |-> s, dirty |-> d]
  BY <1>1
<1>7. [c EXCEPT !.serial = v] =
        [progress |-> p, completed |-> k, opening |-> o, window |-> w, serial |-> v, dirty |-> d]
  BY <1>1
<1>8. [c EXCEPT !.dirty = v] =
        [progress |-> p, completed |-> k, opening |-> o, window |-> w, serial |-> s, dirty |-> v]
  BY <1>1
<1>9. [c EXCEPT !.progress = v].serial = s /\ [c EXCEPT !.completed = v].serial = s
  BY <1>3, <1>4
<1> QED BY <1>1, <1>2, <1>3, <1>4, <1>5, <1>6, <1>7, <1>8, <1>9, ShapeOf

LEMMA SameParts ==
    ASSUME NEW c, Shaped(c)
    PROVE  [c EXCEPT !.window = c.window] = c /\ [c EXCEPT !.dirty = c.dirty] = c
<1>1. PICK p, k, o, w, s, d :
        c = [progress |-> p, completed |-> k, opening |-> o, window |-> w, serial |-> s, dirty |-> d]
  BY DEF Shaped
<1>2. c.window = w /\ c.dirty = d
  BY <1>1
<1>3. [c EXCEPT !.window = w] =
        [progress |-> p, completed |-> k, opening |-> o, window |-> w, serial |-> s, dirty |-> d]
  BY <1>1
<1>4. [c EXCEPT !.dirty = d] =
        [progress |-> p, completed |-> k, opening |-> o, window |-> w, serial |-> s, dirty |-> d]
  BY <1>1
<1> QED BY <1>1, <1>2, <1>3, <1>4

LEMMA ShapeOfHandle ==
    ASSUME NEW c, Shaped(c), NEW s
    PROVE  Shaped(Handle(c, s))
<1>1. Shaped(Execute(c, s))
  BY Reshaped DEF Execute
<1>2. \A paused : Shaped(SetPaused(c, paused))
  <2>1. ASSUME NEW paused PROVE Shaped(SetPaused(c, paused))
    <3>1. [c EXCEPT !.progress.paused = paused] = [c EXCEPT !.progress = [c.progress EXCEPT !.paused = paused]]
      OBVIOUS
    <3>2. Shaped([c EXCEPT !.progress.paused = paused])
      BY <3>1, Reshaped
    <3> QED BY <3>2, Reshaped DEF SetPaused
  <2> QED BY <2>1
<1>3. Shaped(Stop(c, s))
  <2>1. Shaped(Discard(c))
    BY Reshaped, EmptyWindow DEF Discard
  <2> DEFINE p == c.progress
             Matches(t) == s.tables = <<>> \/ t \in Range(s.tables)
             rest == SelectSeq(p.tables, LAMBDA t : ~Matches(t))
             before == Len(SelectSeq(SubSeq(p.tables, 1, p.current - 1), LAMBDA t : ~Matches(t)))
             next == [p EXCEPT !.tables = rest, !.current = before + 1]
             other == IF Matches(p.tables[p.current]) THEN [next EXCEPT !.last = 0, !.max = 0] ELSE next
             done == [Discard(c) EXCEPT !.progress = NoProgress, !.dirty = TRUE,
                                        !.completed = RememberCompleted(c.completed, p.id)]
             goesOn == [Discard(c) EXCEPT !.dirty = TRUE, !.progress = other]
  <2>2. Stop(c, s) = IF ~Active(c) \/ rest = p.tables THEN c ELSE IF before >= Len(rest) THEN done ELSE goesOn
    BY DEF Stop
  <2> HIDE DEF other
  <2>3. Shaped(done) /\ Shaped(goesOn)
    BY <2>1, Reshaped
  <2> HIDE DEF done, goesOn, rest, before
  <2> QED BY <2>2, <2>3
<1> QED BY <1>1, <1>2, <1>3 DEF Handle

LEMMA ShapeOfAdvance ==
    ASSUME NEW c, Shaped(c)
    PROVE  Shaped(Advance(c)) /\ Advance(c).serial = c.serial
<1>1. \A progress : Shaped([c EXCEPT !.progress = progress]) /\ [c EXCEPT !.progress = progress].serial = c.serial
  BY Reshaped
<1>2. \A progress, completed :
        /\ Shaped([c EXCEPT !.progress = progress, !.completed = completed])
        /\ [c EXCEPT !.progress = progress, !.completed = completed].serial = c.serial
  <2>1. ASSUME NEW progress, NEW completed, NEW d, d = [c EXCEPT !.progress = progress]
        PROVE  Shaped([d EXCEPT !.completed = completed]) /\ [d EXCEPT !.completed = completed].serial = c.serial
    <3>1. Shaped(d) /\ d.serial = c.serial
      BY <1>1, <2>1
    <3> QED BY <3>1, Reshaped
  <2> QED BY <2>1
<1> DEFINE w == c.window
           max == IF c.progress.max = 0 THEN w.max ELSE c.progress.max
           complete == max = 0 \/ w.last = max \/ w.count < ChunkSize
           next == IF complete THEN [c.progress EXCEPT !.current = @ + 1, !.last = 0, !.max = 0]
                   ELSE [c.progress EXCEPT !.last = w.last, !.max = max]
           done == [c EXCEPT !.progress = NoProgress, !.completed = RememberCompleted(@, next.id)]
           goesOn == [c EXCEPT !.progress = next]
<1>3. Advance(c) = IF next.current > Len(next.tables) THEN done ELSE goesOn
  BY DEF Advance
<1>4. Shaped(done) /\ done.serial = c.serial /\ Shaped(goesOn) /\ goesOn.serial = c.serial
  <2> HIDE DEF next
  <2>1. done = [c EXCEPT !.progress = NoProgress, !.completed = RememberCompleted(c.completed, next.id)]
    BY DEF Shaped
  <2> QED BY <1>1, <1>2, <2>1
<1> HIDE DEF done, goesOn, next
<1> QED BY <1>3, <1>4

\* Rows and signals keep what is known of the window and the chunk.
LEMMA RecordsIncremental ==
    ASSUME IncrementalKept, Records
    PROVE  IncrementalKept'
<1> DEFINE e == Head(batch)
<1> USE DEF IncrementalKept
<1>1. CASE TakeHalf(e) \/ Skip(e) \/ TakeIdle(e)
  BY <1>1 DEF TakeHalf, Skip, TakeIdle
<1>2. CASE TakeRow(e)
  <2>1. PICK change : inc' = Observe(inc, change) /\ prep' = prep
    BY <1>2 DEF TakeRow
  <2> DEFINE left == {r \in inc.window.rows : r.key.k # change.k}
             w == [inc.window EXCEPT !.rows = left]
  <2>2. ShapedWindow(w)
    <3>1. IsFiniteSet(left)
      BY FS_Subset DEF Shaped, ShapedWindow
    <3> HIDE DEF left
    <3> QED BY <3>1, WindowShaped DEF Shaped
  <2>3. [inc EXCEPT !.window.rows = {r \in @ : r.key.k # change.k}] = [inc EXCEPT !.window = w]
    OBVIOUS
  <2> HIDE DEF w
  <2> QED BY <2>1, <2>2, <2>3, Reshaped DEF Observe
<1>3. CASE TakeCommit(e)
  BY <1>3, Reshaped DEF TakeCommit
<1>4. CASE TakeOpen(e)
  <2>1. CASE UNCHANGED <<inc, prep>>
    BY <2>1
  <2>2. CASE inc' = [inc EXCEPT !.opening = 0] /\ prep' = [prep EXCEPT !.step = "max", !.id = inc.opening]
    <3>1. inc.opening \in Nat
      BY DEF Shaped
    <3>2. PICK step, id, max : prep = [step |-> step, id |-> id, max |-> max]
      OBVIOUS
    <3>3. prep' = [step |-> "max", id |-> inc.opening, max |-> max]
      BY <2>2, <3>2
    <3> QED BY <2>2, <3>1, <3>3, Reshaped
  <2> QED BY <1>4, <2>1, <2>2 DEF TakeOpen
<1>5. CASE TakeClose(e)
  <2>1. CASE UNCHANGED inc
    BY <1>5, <2>1 DEF TakeClose
  <2>2. CASE inc' = [inc EXCEPT !.window.closeAt = e.commit]
    <3> DEFINE w == [inc.window EXCEPT !.closeAt = e.commit]
    <3>1. ShapedWindow(w)
      BY WindowShaped DEF Shaped
    <3>2. inc' = [inc EXCEPT !.window = w]
      BY <2>2
    <3> HIDE DEF w
    <3> QED BY <1>5, <3>1, <3>2, Reshaped DEF TakeClose
  <2> QED BY <1>5, <2>1, <2>2 DEF TakeClose
<1>6. CASE TakeSignal(e)
  BY <1>6, ShapeOfHandle DEF TakeSignal
<1>7. CASE FinishWindow(e)
  <2> DEFINE rows == InOrder(inc.window.rows, LAMBDA a, b : a.key.k < b.key.k)
             after == Advance(inc)
  <2>1. inc' = [after EXCEPT !.window = NoWindow, !.dirty = FALSE, !.serial = @ + Len(rows) + 1] /\ prep' = prep
    BY <1>7 DEF FinishWindow
  <2>2. Shaped(after) /\ after.serial \in Nat
    BY ShapeOfAdvance DEF Shaped
  <2>3. Len(rows) \in Nat
    <3>1. Cardinality(inc.window.rows) \in Nat
      BY FS_CardinalityType DEF Shaped, ShapedWindow
    <3> QED BY <3>1 DEF InOrder
  <2> HIDE DEF rows, after
  <2>4. Shaped([after EXCEPT !.window = NoWindow, !.dirty = FALSE])
    BY <2>2, EmptyWindow, Reshaped
  <2>5. [after EXCEPT !.window = NoWindow, !.dirty = FALSE].serial \in Nat
    BY <2>4 DEF Shaped
  <2> DEFINE z == [after EXCEPT !.window = NoWindow, !.dirty = FALSE]
  <2>6. inc' = [z EXCEPT !.serial = z.serial + Len(rows) + 1]
    BY <2>1
  <2> HIDE DEF z
  <2>7. z.serial + Len(rows) + 1 \in Nat
    BY <2>3, <2>5 DEF z
  <2>8. Shaped(z)
    BY <2>4 DEF z
  <2>9. Shaped([z EXCEPT !.serial = z.serial + Len(rows) + 1])
    BY <2>7, <2>8, Reshaped
  <2> QED BY <2>1, <2>6, <2>9
<1> QED BY <1>1, <1>2, <1>3, <1>4, <1>5, <1>6, <1>7 DEF Records

\* A signal rejected whenever it comes is refused.
LEMMA RejectedRefused ==
    ASSUME NEW s, Rejected(setup, s), inc = NewIncremental(NoProgress, <<>>)
    PROVE  Refused(inc, s)
<1>1. Range(<<>>) = {}
  BY DEF Range
<1>2. inc.completed = <<>> /\ ~Active(inc)
  BY DEF NewIncremental, Active
<1> QED BY <1>1, <1>2 DEF Rejected, Refused, Tables, Keys

\* Where a batch may end anywhere no record carries connector state.
LEMMA RecordsQuiet ==
    ASSUME LogKept, QuietKept, FlightKept, StreamKept, Records
    PROVE  QuietKept'
<1> DEFINE e == Head(batch)
<1>1. SUFFICES ASSUME setup.cuts
               PROVE  /\ inc' = NewIncremental(NoProgress, <<>>) /\ prep' = NoPrep /\ ckpt'.state = NoState
                      /\ flight' = flight \/ \E r : flight' = Append(flight, r) /\ r.state = NoState
  <2>1. setup' = setup
    BY DEF Records, TakeHalf, Skip, TakeRow, TakeIdle, TakeCommit, TakeOpen, TakeClose, TakeSignal, FinishWindow, handlingRest
  <2>2. ASSUME NEW r, flight' = Append(flight, r), r.state = NoState, \A n \in DOMAIN flight : flight[n].state = NoState
        PROVE  \A n \in DOMAIN flight' : flight'[n].state = NoState
    BY <2>2 DEF FlightKept
  <2> QED BY <2>1, <2>2 DEF QuietKept
<1>2. inc = NewIncremental(NoProgress, <<>>) /\ prep = NoPrep /\ ckpt.state = NoState
  BY <1>1 DEF QuietKept
<1>3. inc.opening = 0 /\ inc.window = NoWindow /\ inc.dirty = FALSE /\ inc.window.rows = {}
  BY <1>2 DEF NewIncremental, NoWindow
<1>4. \A pos, commit : Mark(pos, commit, NoState).state = NoState
  BY DEF Mark, Item
<1>5. CASE TakeHalf(e) \/ Skip(e)
  BY <1>2, <1>5 DEF TakeHalf, Skip, handlingRest, durable
<1>6. CASE TakeRow(e)
  <2>1. PICK change : inc' = Observe(inc, change) /\ prep' = prep /\ ckpt' = ckpt
    BY <1>6 DEF TakeRow, handlingRest, durable
  <2>2. Observe(inc, change) = inc
    <3>1. [inc EXCEPT !.window.rows = {r \in @ : r.key.k # change.k}] = [inc EXCEPT !.window = [NoWindow EXCEPT !.rows = {}]]
      <4>1. [inc EXCEPT !.window.rows = {r \in @ : r.key.k # change.k}] =
            [inc EXCEPT !.window = [inc.window EXCEPT !.rows = {r \in inc.window.rows : r.key.k # change.k}]]
        OBVIOUS
      <4>2. {r \in inc.window.rows : r.key.k # change.k} = {}
        BY <1>3
      <4> QED BY <1>3, <4>1, <4>2
    <3>2. [NoWindow EXCEPT !.rows = {}] = NoWindow
      BY DEF NoWindow
    <3>3. [inc EXCEPT !.window = NoWindow] = inc
      BY <1>2, <1>3, ShapeOfNew, SameParts
    <3> QED BY <3>1, <3>2, <3>3 DEF Observe
  <2>3. \E r : flight' = Append(flight, r) /\ r.state = NoState
    <3>1. batch # <<>> /\ batch' = Tail(batch)
      BY DEF Records, Handling
    <3> QED BY <1>6, <3>1, RowSent
  <2> QED BY <1>2, <2>1, <2>2, <2>3
<1>7. CASE TakeIdle(e)
  <2>1. flight' = Append(flight, Mark(SafePosition(e), FALSE, NoState)) /\ inc' = inc /\ prep' = prep /\ ckpt' = ckpt
    BY <1>7 DEF TakeIdle, handlingRest, durable
  <2>2. \E r : flight' = Append(flight, r) /\ r.state = NoState
    BY <1>4, <2>1
  <2> QED BY <1>2, <2>1, <2>2
<1>8. CASE TakeCommit(e)
  <2>1. inc' = inc
    <3>1. inc' = [inc EXCEPT !.dirty = FALSE]
      BY <1>8 DEF TakeCommit
    <3> QED BY <1>2, <1>3, <3>1, ShapeOfNew, SameParts
  <2> QED BY <1>2, <1>3, <1>4, <1>8, <2>1 DEF TakeCommit, handlingRest, durable
<1>9. CASE TakeOpen(e)
  BY <1>2, <1>3, <1>9 DEF TakeOpen, Opens, handlingRest, durable
<1>10. CASE TakeClose(e)
  BY <1>2, <1>3, <1>10 DEF TakeClose, Closes, handlingRest, durable
<1>11. CASE TakeSignal(e)
  <2>1. Row(e) /\ ChangeAt(e).op = "signal" /\ batch # <<>>
    BY <1>11 DEF TakeSignal, Taken, Records, Handling
  <2>2. e.commit \in DOMAIN log /\ e \in RowsOf(e.commit)
    BY <2>1, HeadFacts DEF StreamKept
  <2>3. e.change \in DOMAIN log[e.commit]
    BY <2>2, RowFacts
  <2>4. Rejected(setup, ChangeAt(e).signal)
    BY <1>1, <2>1, <2>2, <2>3 DEF LogKept, ChangeAt
  <2>5. Refused(inc, ChangeAt(e).signal)
    BY <1>2, <2>4, RejectedRefused
  <2> QED BY <1>2, <1>11, <2>5 DEF TakeSignal, handlingRest, durable
<1>12. CASE FinishWindow(e)
  BY <1>3, <1>12 DEF FinishWindow, ClosesAt
<1> QED BY <1>5, <1>6, <1>7, <1>8, <1>9, <1>10, <1>11, <1>12 DEF Records

\* A mark of a commit, or of a later LSN, as EndSent wants it.
LEMMA MarkSent ==
    ASSUME NEW e \in Cursors, NEW commit, NEW state
    PROVE  /\ PositionAt(e) \in Positions /\ PositionAt(e).commit = e.commit
           /\ SafePosition(e) \in Positions /\ SafePosition(e).commit = e.commit
           /\ \A p : LET r == Mark(p, commit, state)
                     IN r.pos = p /\ r.at = <<0, 0>> /\ r.paired = TRUE /\ r.order = 0 /\ r.commit = commit
<1>1. e.commit \in Nat /\ e.change \in Nat /\ e.code \in Nat
  BY DEF Cursors
<1> QED BY <1>1 DEF PositionAt, SafePosition, Position, Positions, CommitSerial, Mark, Item

\* Rows of a window have positions behind the commit of the close watermark.
LEMMA WindowSent ==
    ASSUME StreamKept, IncrementalKept, batch # <<>>, batch' = Tail(batch), FinishWindow(Head(batch))
    PROVE  StreamKept'
<1> DEFINE e == Head(batch)
           rows == InOrder(inc.window.rows, LAMBDA a, b : a.key.k < b.key.k)
           base == PositionAt(e)
           last == IncrementalPosition(base, inc.serial + Len(rows) + 1)
           items == [n \in DOMAIN rows |-> Item(IncrementalPosition(base, inc.serial + n), rows[n].key, rows[n].val)]
           mark == Mark(last, TRUE, State(Advance(inc)))
           s == items \o <<mark>>
<1>1. /\ ~Row(e) /\ TxnRead(e) /\ UNCHANGED handlingRest /\ lastSafe' = last
      /\ flight' = flight \o items \o <<mark>>
  BY DEF FinishWindow, End, Row
<1>2. e \in Cursors
  BY HeadFacts DEF StreamKept
<1>3. base \in Positions /\ base.commit = e.commit
  BY <1>2, MarkSent
<1>4. inc.serial \in Nat /\ Cardinality(inc.window.rows) \in Nat
  BY FS_CardinalityType DEF IncrementalKept, Shaped, ShapedWindow
<1>5. Len(rows) \in Nat /\ DOMAIN rows = 1 .. Len(rows)
  BY <1>4 DEF InOrder
<1>6. \A n \in Nat : IncrementalPosition(base, n) \in Positions /\ IncrementalPosition(base, n).commit = e.commit
  <2> HIDE DEF base
  <2>1. ASSUME NEW n \in Nat
        PROVE  IncrementalPosition(base, n) \in Positions /\ IncrementalPosition(base, n).commit = e.commit
    <3> DEFINE p == [base EXCEPT !.serial = base.serial + n]
    <3>1. base.serial + n \in Nat
      BY <1>3 DEF Positions
    <3>2. p \in Positions /\ p.commit = e.commit
      BY <1>3, <3>1 DEF Positions
    <3>3. IncrementalPosition(base, n) = [p EXCEPT !.snap = FALSE]
      BY DEF IncrementalPosition
    <3> HIDE DEF p
    <3> QED BY <3>2, <3>3 DEF Positions
  <2> QED BY <2>1
<1> HIDE DEF base, rows
<1>7. \A p, key, val : LET r == Item(p, key, val) IN r.pos = p /\ r.at = <<0, 0>> /\ r.paired = TRUE /\ r.order = 0
  BY DEF Item
<1>8. last \in Positions /\ last.commit = e.commit
  <2>1. inc.serial + Len(rows) + 1 \in Nat
    BY <1>4, <1>5
  <2> QED BY <1>6, <2>1
<1>9. \A n \in DOMAIN items :
        /\ items[n].pos \in Positions /\ items[n].pos.commit = e.commit
        /\ items[n].at = <<0, 0>> /\ items[n].paired = TRUE /\ items[n].order = 0
  <2>1. ASSUME NEW n \in DOMAIN rows
        PROVE  LET r == Item(IncrementalPosition(base, inc.serial + n), rows[n].key, rows[n].val)
               IN  r.pos \in Positions /\ r.pos.commit = e.commit /\ r.at = <<0, 0>> /\ r.paired = TRUE /\ r.order = 0
    <3>1. inc.serial + n \in Nat
      BY <1>4, <1>5
    <3> QED BY <1>6, <1>7, <3>1
  <2> QED BY <2>1
<1>10. mark.pos = last /\ mark.at = <<0, 0>> /\ mark.paired = TRUE /\ mark.order = 0
  BY DEF Mark, Item
<1> DEFINE el(n) == Item(IncrementalPosition(base, inc.serial + n), rows[n].key, rows[n].val)
           T == {el(n) : n \in DOMAIN rows}
<1>11. items \in Seq(T)
  <2>1. items = [n \in 1 .. Len(rows) |-> el(n)] /\ \A n \in 1 .. Len(rows) : el(n) \in T
    BY <1>5
  <2> HIDE DEF items, el, T
  <2>2. items \in [1 .. Len(rows) -> T]
    BY <2>1
  <2> QED BY <1>5, <2>2
<1> HIDE DEF el, T
<1> HIDE DEF items, mark, last
<1>12. /\ s \in Seq(T \cup {mark})
       /\ \A n \in DOMAIN s : (n \in DOMAIN items /\ s[n] = items[n]) \/ s[n] = mark
  <2>1. items \in Seq(T \cup {mark}) /\ <<mark>> \in Seq(T \cup {mark})
    BY <1>11
  <2> QED BY <1>11, <2>1
<1>13. flight' = flight \o s
  <2>1. flight \in Seq(Range(flight))
    BY DEF StreamKept, FlightKept
  <2>2. PICK F : flight \in Seq(F) /\ items \in Seq(F) /\ <<mark>> \in Seq(F)
    <3> DEFINE F == Range(flight) \cup T \cup {mark}
    <3>1. flight \in Seq(F) /\ items \in Seq(F) /\ <<mark>> \in Seq(F)
      BY <1>11, <2>1
    <3> QED BY <3>1
  <2> QED BY <1>1, <2>2, ConcatAssociative
<1>14. \A n \in DOMAIN s : /\ s[n].pos \in Positions /\ s[n].pos.commit = e.commit
                          /\ s[n].at = <<0, 0>> /\ s[n].paired = TRUE /\ s[n].order = 0
  BY <1>8, <1>9, <1>10, <1>12
<1> HIDE DEF s
<1> QED BY <1>1, <1>8, <1>12, <1>13, <1>14, EndSent

\* A row, a half or an end is handled.
LEMMA RecordsStream ==
    ASSUME StreamKept, IncrementalKept, Records
    PROVE  StreamKept'
<1> DEFINE e == Head(batch)
<1>1. batch # <<>> /\ batch' = Tail(batch)
  BY DEF Records, Handling
<1>2. /\ e \in Cursors /\ (Row(e) <=> e \in RowsOf(e.commit)) /\ e.commit \in DOMAIN log
  BY <1>1, HeadFacts DEF StreamKept
<1>3. CASE TakeHalf(e)
  BY <1>1, <1>3, HalfKept
<1>4. CASE Skip(e)
  <2>1. \A x \in Due : LastRow(x) = e => x \in delivered
    <3>1. ASSUME NEW x \in Due, LastRow(x) = e PROVE x \in delivered
      <4>1. LastRow(x).commit = x[1] /\ LastRow(x).change = x[2]
        BY DueFacts DEF StreamKept
      <4>2. Position(x[1], x[2], LastRow(x).code, FALSE) = PositionAt(e)
        BY <3>1, <4>1 DEF PositionAt
      <4>3. conv.resume # None /\ IsAtOrBefore(PositionAt(e), conv.resume)
        BY <1>4 DEF Skip, ShouldSkip
      <4> QED BY <4>2, <4>3 DEF StreamKept, CursorKept
    <3> QED BY <3>1
  <2>2. Row(e) /\ e.code # 3 /\ RowRead(e) /\ UNCHANGED <<handlingRest, lastSafe, flight>>
    BY <1>4 DEF Skip
  <2> QED BY <1>1, <2>1, <2>2, QuietRow
<1>5. CASE TakeRow(e)
  BY <1>1, <1>5, RowSent
<1>6. CASE TakeOpen(e) \/ TakeClose(e) \/ TakeSignal(e)
  <2>1. /\ Row(e) /\ e.code # 3 /\ RowRead(e) /\ UNCHANGED <<handlingRest, lastSafe, flight>>
        /\ ChangeAt(e).op \in {"open", "close", "signal"}
    BY <1>6 DEF TakeOpen, TakeClose, TakeSignal, Taken
  <2>2. \A x \in Due : LastRow(x) # e
    <3>1. \A x \in Due : Business(log[LastRow(x).commit][LastRow(x).change].op)
      BY DueFacts DEF StreamKept
    <3>2. ~Business(log[e.commit][e.change].op)
      BY <2>1 DEF Business, ChangeAt
    <3> QED BY <3>1, <3>2
  <2> QED BY <1>1, <2>1, <2>2, QuietRow
<1>7. ASSUME NEW p \in Positions, p.commit = e.commit, NEW commit, NEW state, Behind(p),
             flight' = Append(flight, Mark(p, commit, state)), ~Row(e), UNCHANGED handlingRest,
             TxnRead(e) \/ conv' = [conv EXCEPT !.cursor = e]
      PROVE  StreamKept'
  <2> DEFINE r == Mark(p, commit, state)
             s == <<r>>
  <2>1. r.pos = p /\ r.at = <<0, 0>> /\ r.paired = TRUE /\ r.order = 0
    BY DEF Mark, Item
  <2> HIDE DEF r
  <2>2. s \in Seq({r}) /\ DOMAIN s = {1} /\ s[1] = r
    OBVIOUS
  <2>3. flight' = flight \o s
    BY <1>7 DEF StreamKept, FlightKept, r
  <2>4. \A n \in DOMAIN s : /\ s[n].pos \in Positions /\ s[n].pos.commit = e.commit
                           /\ s[n].at = <<0, 0>> /\ s[n].paired = TRUE /\ s[n].order = 0
    BY <1>7, <2>1, <2>2
  <2>5. lastSafe' \in Positions /\ (lastSafe' = lastSafe \/ lastSafe'.commit = e.commit)
    BY <1>7 DEF Behind, StreamKept, CursorKept
  <2> HIDE DEF s
  <2> QED BY <1>1, <1>7, <2>2, <2>3, <2>4, <2>5, EndSent
<1>8. CASE TakeIdle(e)
  <2>1. /\ ~Row(e) /\ conv' = [conv EXCEPT !.cursor = e] /\ UNCHANGED handlingRest
        /\ flight' = Append(flight, Mark(SafePosition(e), FALSE, NoState)) /\ Behind(SafePosition(e))
    BY <1>8 DEF TakeIdle
  <2> QED BY <1>2, <1>7, <2>1, MarkSent
<1>9. CASE TakeCommit(e)
  <2>1. /\ ~Row(e) /\ TxnRead(e) /\ UNCHANGED handlingRest
        /\ flight' = Append(flight, Mark(PositionAt(e), TRUE, IF inc.dirty THEN State(inc) ELSE NoState))
        /\ Behind(PositionAt(e))
    BY <1>9 DEF TakeCommit, End, Row
  <2> QED BY <1>2, <1>7, <2>1, MarkSent
<1>10. CASE FinishWindow(e)
  BY <1>1, <1>10, WindowSent
<1> QED BY <1>3, <1>4, <1>5, <1>6, <1>8, <1>9, <1>10 DEF Records

-----------------------------------------------------------------------------
(* Every action keeps the invariant.                                        *)

\* Only the stream itself needs an argument.
LEMMA RecordsKept ==
    ASSUME Kept, Records
    PROVE  Kept'
<1>1. phase = "streaming" /\ StreamKept
  BY DEF Kept, StreamKept, Records, Handling
<1>2. StreamKept' /\ IncrementalKept' /\ QuietKept'
  BY <1>1, RecordsStream, RecordsIncremental, RecordsQuiet DEF Kept
<1>3. SnapshotKept'
  <2>1. UNCHANGED <<snapshot, since>> /\ phase' \in {phase, "failed"}
    BY DEF Records, TakeHalf, Skip, TakeRow, TakeIdle, TakeCommit, TakeOpen, TakeClose, TakeSignal, FinishWindow,
           handlingRest, durable, Fails
  <2> QED BY <1>1, <2>1 DEF Kept, SnapshotKept
<1> QED BY <1>2, <1>3 DEF Kept, StreamKept

\* The log grows, or time passes, and nothing is read or sent.
LEMMA OthersKept ==
    ASSUME Kept, LogKept', IncrementalKept', QuietKept', SnapshotKept', setup' = setup, since' = since,
           log' = log \/ \E txn : log' = Append(log, txn), captured <= captured',
           UNCHANGED <<delivered, ckpt, conv, batch, lastSafe, flight>>, phase' = "streaming" => phase = "streaming"
    PROVE  Kept'
<1>1. /\ FlightKept' /\ CheckpointKept' /\ (conv \in Conversions)'
      /\ CursorKept => CursorKept' /\ (BatchKept => BatchKept') /\ (TxnKept => TxnKept')
  BY GrowsKept DEF Kept
<1>2. phase' = "streaming" => CursorKept' /\ BatchKept' /\ TxnKept'
  BY <1>1 DEF Kept
<1> QED BY <1>1, <1>2 DEF Kept

LEMMA SideStays ==
    ASSUME Kept, UNCHANGED <<setup, inc, prep, ckpt, flight>>
    PROVE  IncrementalKept' /\ QuietKept'
  BY DEF Kept, IncrementalKept, QuietKept

LEMMA SnapshotStays ==
    ASSUME Kept, UNCHANGED <<snapshot, since>>, phase' = "snapshot" => phase = "snapshot"
    PROVE  SnapshotKept'
  BY DEF Kept, SnapshotKept

\* Transactions the invariant allows may be written at any time.
LEMMA LogAppends ==
    ASSUME LogKept, NEW txn \in Seq(Changes), Len(txn) < Top,
           \A m \in DOMAIN txn :
                /\ Business(txn[m].op) => [table |-> txn[m].table, k |-> txn[m].k] # NoKey
                /\ setup.cuts /\ txn[m].op = "signal" => Rejected(setup, txn[m].signal),
           log' = Append(log, txn), UNCHANGED <<setup, captured, cleaned, since, offset>>, wrote' \in Nat
    PROVE  LogKept'
<1>1. log \in Seq(Seq(Changes)) /\ Len(log) \in Nat /\ DOMAIN log = 1 .. Len(log) /\ captured \in 1 .. Len(log)
  BY DEF LogKept
<1>2. log' \in Seq(Seq(Changes)) /\ Len(log') = Len(log) + 1
  BY <1>1
<1>3. DOMAIN log' = 1 .. Len(log) + 1 /\ \A n \in 1 .. Len(log) : log'[n] = log[n]
  BY <1>1
<1>4. log'[Len(log) + 1] = txn
  BY <1>1
<1>5. \A n \in DOMAIN log' : (n \in DOMAIN log /\ log'[n] = log[n]) \/ log'[n] = txn
  BY <1>1, <1>3, <1>4
<1>6. captured' \in 1 .. Len(log')
  BY <1>1, <1>2
<1>7. \A n \in DOMAIN log' :
        /\ Len(log'[n]) < Top
        /\ \A m \in DOMAIN log'[n] :
            LET c == log'[n][m]
            IN  /\ Business(c.op) => [table |-> c.table, k |-> c.k] # NoKey
                /\ setup'.cuts /\ c.op = "signal" => Rejected(setup', c.signal)
  <2>1. \A n \in DOMAIN log :
          /\ Len(log[n]) < Top
          /\ \A m \in DOMAIN log[n] :
                /\ Business(log[n][m].op) => [table |-> log[n][m].table, k |-> log[n][m].k] # NoKey
                /\ setup.cuts /\ log[n][m].op = "signal" => Rejected(setup, log[n][m].signal)
    BY DEF LogKept
  <2>2. setup' = setup
    OBVIOUS
  <2> QED BY <1>5, <2>1, <2>2
<1> QED BY <1>2, <1>6, <1>7 DEF LogKept

LEMMA WatermarkFacts ==
    ASSUME NEW op \in {"open", "close"}, NEW id \in Nat
    PROVE  /\ Watermark(op, id) \in Seq(Changes) /\ Len(Watermark(op, id)) < Top
           /\ \A m \in DOMAIN Watermark(op, id) :
                ~Business(Watermark(op, id)[m].op) /\ Watermark(op, id)[m].op # "signal"
<1> DEFINE c == [NoChange EXCEPT !.op = op, !.table = "signal", !.id = id]
<1>1. c = [op |-> op, table |-> "signal", k |-> 0, val |-> 0, id |-> id, signal |-> NoKey]
  <2>1. PICK a, t, k, v, i, s : NoChange = [op |-> a, table |-> t, k |-> k, val |-> v, id |-> i, signal |-> s]
                               /\ k = 0 /\ v = 0 /\ s = NoKey
    BY DEF NoChange
  <2>2. PICK signal : signal = "signal"
    OBVIOUS
  <2>3. [NoChange EXCEPT !.op = op] = [op |-> op, table |-> t, k |-> k, val |-> v, id |-> i, signal |-> s]
    BY ONLY <2>1
  <2>4. PICK d : d = [NoChange EXCEPT !.op = op]
    OBVIOUS
  <2>5. d = [op |-> op, table |-> t, k |-> k, val |-> v, id |-> i, signal |-> s]
    BY <2>3, <2>4
  <2>6. PICK f : f = [d EXCEPT !.table = signal]
    OBVIOUS
  <2>7. [f EXCEPT !.id = id] = [op |-> op, table |-> signal, k |-> k, val |-> v, id |-> id, signal |-> s]
    <3>1. f = [op |-> op, table |-> signal, k |-> k, val |-> v, id |-> i, signal |-> s]
      BY ONLY <2>5, <2>6
    <3> QED BY ONLY <3>1
  <2>8. c = [f EXCEPT !.id = id]
    BY <2>2, <2>4, <2>6
  <2> QED BY <2>1, <2>2, <2>7, <2>8
<1> HIDE DEF c
<1>2. c \in Changes
  <2> DEFINE Ops == {"c", "u", "d", "alter", "signal", "open", "close"}
             Given == {NoKey} \cup Signals
  <2>1. op \in Ops /\ "signal" \in TableNames /\ NoKey \in Given /\ 0 \in Nat
    <3>1. op \in Ops
      <4>1. op = "open" \/ op = "close"
        OBVIOUS
      <4> QED BY <4>1
    <3>2. "signal" \in TableNames
      BY DEF TableNames
    <3>3. NoKey \in Given
      OBVIOUS
    <3> QED BY <3>1, <3>2, <3>3
  <2>2. Changes = [op : Ops, table : TableNames, k : Nat, val : Nat, id : Nat, signal : Given]
    BY DEF Changes
  <2> HIDE DEF Ops, Given
  <2>3. \A A, B, C, D, t, s : op \in A /\ t \in B /\ 0 \in C /\ id \in C /\ s \in D =>
          [op |-> op, table |-> t, k |-> 0, val |-> 0, id |-> id, signal |-> s] \in
            [op : A, table : B, k : C, val : C, id : C, signal : D]
    OBVIOUS
  <2> QED BY <1>1, <2>1, <2>2, <2>3
<1>3. ~Business(c.op) /\ c.op # "signal"
  BY <1>1 DEF Business
<1>4. Watermark(op, id) = <<c>>
  BY DEF Watermark, c
<1>5. Len(<<c>>) = 1 /\ DOMAIN <<c>> = {1} /\ <<c>>[1] = c
  OBVIOUS
<1> QED BY <1>2, <1>3, <1>4, <1>5 DEF Top

LEMMA WriteKept ==
    ASSUME SetupsOrdinary, Kept, Write
    PROVE  Kept'
<1>1. /\ wrote < Len(Script) /\ wrote' = wrote + 1 /\ log' = Append(log, Script[wrote'])
      /\ UNCHANGED <<setup, captured, cleaned, durable, task, side, flight>>
  BY DEF Write, Apply
<1>2. LogKept /\ setup \in Setups /\ wrote \in Nat /\ captured \in Nat
  BY DEF Kept, LogKept
<1> DEFINE txn == Script[wrote']
<1>3. Script \in Seq(Seq(Changes)) /\ Len(Script) \in Nat /\ DOMAIN Script = 1 .. Len(Script) /\ wrote' \in DOMAIN Script
  BY <1>1, <1>2, ScriptAssumption DEF Script
<1>4. txn \in Seq(Changes) /\ Len(txn) < Top
  BY <1>2, <1>3, ScriptAssumption DEF Script
<1>5. \A m \in DOMAIN txn :
        /\ Business(txn[m].op) => [table |-> txn[m].table, k |-> txn[m].k] # NoKey
        /\ setup.cuts /\ txn[m].op = "signal" => Rejected(setup, txn[m].signal)
  BY <1>2, <1>3, ScriptAssumption DEF Script, SetupsOrdinary, Ordinary
<1>6. UNCHANGED <<setup, captured, cleaned, since, offset>> /\ wrote' \in Nat
  BY <1>1, <1>2 DEF durable
<1> HIDE DEF txn
<1>7. LogKept'
  BY <1>1, <1>2, <1>4, <1>5, <1>6, LogAppends DEF txn
<1>8. /\ UNCHANGED <<setup, inc, prep, ckpt, flight, snapshot, since, delivered, conv, batch, lastSafe>> /\ phase' = phase
      /\ captured <= captured'
  BY <1>1, <1>2 DEF durable, task, side
<1> QED BY <1>1, <1>7, <1>8, OthersKept, SideStays, SnapshotStays

LEMMA ServerKept ==
    ASSUME Kept, Capture \/ Cleanup
    PROVE  Kept'
<1>1. /\ UNCHANGED <<setup, log, wrote, since, offset, inc, prep, ckpt, flight, snapshot, delivered, conv, batch, lastSafe,
                     phase>>
      /\ captured' = captured \/ (captured < Len(log) /\ captured' = captured + 1)
      /\ cleaned' \in {cleaned, cleaned + 1}
  BY DEF Capture, Cleanup, durable, task, side
<1>2. captured \in 1 .. Len(log) /\ Len(log) \in Nat /\ cleaned \in Nat /\ since \in 0 .. captured /\ LogKept
  BY DEF Kept, LogKept
<1>3. captured' \in 1 .. Len(log) /\ cleaned' \in Nat /\ since \in 0 .. captured' /\ captured <= captured'
  BY <1>1, <1>2
<1>4. LogKept'
  BY <1>1, <1>2, <1>3 DEF LogKept, Rejected
<1> QED BY <1>1, <1>3, <1>4, OthersKept, SideStays, SnapshotStays

\* The task looks at the server, or at its connection.
LEMMA WaitsKept ==
    ASSUME Kept, Validate \/ PollFails \/ PollNothing \/ PollRefused \/ WatermarkFails
    PROVE  Kept'
<1>1. /\ UNCHANGED <<setup, log, captured, cleaned, wrote, since, offset, inc, prep, ckpt, flight, snapshot, delivered,
                     conv, batch, lastSafe>>
      /\ phase' = phase \/ phase' \in {"starting", "failed"}
  BY DEF Validate, PollFails, PollNothing, PollRefused, WatermarkFails, pollRest, chunkRest, Fails, server, durable, side
<1>2. LogKept'
  BY <1>1, LogStays DEF Kept
<1>3. captured <= captured'
  BY <1>1, LogFacts DEF Kept
<1> QED BY <1>1, <1>2, <1>3, OthersKept, SideStays, SnapshotStays

LEMMA PollsKept ==
    ASSUME Kept, Poll
    PROVE  Kept'
<1>1. /\ UNCHANGED <<setup, log, captured, cleaned, wrote, since, offset, inc, prep, ckpt, flight, snapshot, delivered,
                     conv, lastSafe, phase>>
      /\ phase = "streaming"
  BY DEF Poll, Idle, pollRest, server, durable, side
<1>2. LogKept /\ conv \in Conversions /\ CursorKept /\ TxnKept /\ FlightKept /\ CheckpointKept
  BY <1>1 DEF Kept
<1>3. BatchKept'
  BY <1>2, PollKept
<1>4. LogKept'
  BY <1>1, <1>2, LogStays
<1>5. FlightKept' /\ CheckpointKept'
  BY <1>1, <1>2, FlightStays, CheckpointStays
<1>6. CursorKept'
  <2>1. (\A x : LastRow(x)' = LastRow(x)) /\ Due' = Due /\ \A x : Arrives(x, Len(flight))' <=> Arrives(x, Len(flight))
    BY <1>1 DEF LastRow, Due, Arrives
  <2> QED BY <1>1, <1>2, <2>1 DEF CursorKept
<1>7. TxnKept'
  BY <1>1, <1>2 DEF TxnKept, Place, RowsOf
<1> QED BY <1>1, <1>2, <1>3, <1>4, <1>5, <1>6, <1>7, SideStays, SnapshotStays DEF Kept

\* Capture may begin again, at what is captured: then less is due.
LEMMA SinceMoves ==
    ASSUME LogKept, FlightKept, CheckpointKept, since' \in {since, captured},
           UNCHANGED <<setup, log, captured, cleaned, wrote, offset, delivered, ckpt, flight>>
    PROVE  /\ LogKept' /\ FlightKept' /\ CheckpointKept'
           /\ Due' \subseteq Due /\ \A x \in Due' : x[1] > since' /\ x[1] \in Nat
           /\ \A x : LastRow(x)' = LastRow(x)
<1>1. /\ Len(log) \in Nat /\ DOMAIN log = 1 .. Len(log) /\ captured \in Nat /\ since \in Nat /\ since <= captured
      /\ since' \in 0 .. captured /\ since <= since'
  BY LogFacts DEF LogKept
<1>2. LogKept'
  BY <1>1 DEF LogKept, Rejected
<1>3. Due' \subseteq Due
  <2>1. since' + 1 .. Len(log) \subseteq since + 1 .. Len(log)
    BY <1>1
  <2>2. ASSUME NEW x, x \in Due' PROVE x \in Due
    <3>1. PICK n \in since' + 1 .. Len(log) : x \in {n} \X DOMAIN log[n]
      BY <2>2 DEF Due
    <3>2. n \in since + 1 .. Len(log) /\ Business(log[x[1]][x[2]].op)
      BY <2>1, <2>2 DEF Due
    <3> QED BY <3>1, <3>2 DEF Due
  <2> QED BY <2>2
<1>4. \A x \in Due' : x[1] > since' /\ x[1] \in Nat
  <2>1. ASSUME NEW x \in Due' PROVE x[1] > since' /\ x[1] \in Nat
    <3>1. PICK n \in since' + 1 .. Len(log) : x \in {n} \X DOMAIN log[n]
      BY DEF Due
    <3>2. x[1] = n
      <4>1. PICK D : x \in {n} \X D
        BY <3>1
      <4>2. PICK i \in {n}, d \in D : x = <<i, d>>
        BY ONLY <4>1
      <4> QED BY ONLY <4>2
    <3>3. n > since' /\ n \in Nat
      <4>1. PICK k \in Nat, l \in Nat : k = since' /\ l = Len(log)
        BY <1>1
      <4>2. n \in k + 1 .. l
        BY <3>1, <4>1
      <4>3. k \in Nat /\ l \in Nat
        OBVIOUS
      <4>4. n > k /\ n \in Nat
        BY ONLY <4>2, <4>3
      <4> QED BY ONLY <4>1, <4>4
    <3> QED BY <3>2, <3>3
  <2> QED BY <2>1
<1>5. \A x : LastRow(x)' = LastRow(x)
  BY DEF LastRow
<1>6. /\ \A p, x : Reaches(p, x)' <=> Reaches(p, x)
      /\ \A x, n : Arrives(x, n)' <=> Arrives(x, n)
      /\ \A at : Place(at)' = Place(at)
  BY DEF Reaches, LastRow, Arrives, Place
<1>7. FlightKept'
  BY <1>3, <1>6 DEF FlightKept
<1>8. CheckpointKept'
  BY <1>3, <1>6 DEF CheckpointKept
<1> QED BY <1>2, <1>3, <1>4, <1>5, <1>7, <1>8

\* The stream begins behind a commit, or at the beginning of a transaction with what is
\* to be skipped of it.
LEMMA StreamStarts ==
    ASSUME LogKept, NEW c \in Cursors, NEW resume \in Positions, NEW safe \in Positions,
           StreamFrom(c, resume, safe), c.commit <= captured, UNCHANGED <<log, captured>>,
           c = AtSnapshot(c.commit) \/ c = Cursor(c.commit, 0, 0),
           \A x \in Due' : ~Precedes(c, LastRow(x)) => x \in delivered',
           ~resume.snap, resume.commit <= captured,
           resume # None =>
              \A x \in Due' : IsAtOrBefore(Position(x[1], x[2], LastRow(x).code, FALSE), resume) => x \in delivered',
           safe.commit <= c.commit
    PROVE  conv' \in Conversions /\ CursorKept' /\ BatchKept' /\ TxnKept'
<1>1. conv' = NewConversion(c, resume) /\ batch' = <<>> /\ lastSafe' = safe
  BY DEF StreamFrom
<1>2. conv'.cursor = c /\ conv'.resume = resume /\ conv'.txn = NoTxn /\ conv' \in Conversions
  BY <1>1 DEF NewConversion, Conversions, NoTxn
<1>3. \A x : LastRow(x)' = LastRow(x)
  BY DEF LastRow
<1>4. \A x \in Due' : x \in delivered' => Arrives(x, Len(flight))'
  BY DEF Arrives
<1>5. CursorKept'
  BY <1>1, <1>2, <1>3, <1>4 DEF CursorKept
<1>6. BatchKept'
  BY <1>1 DEF BatchKept
<1>7. TxnKept'
  BY <1>2 DEF TxnKept, NoTxn, AtSnapshot, Cursor, Cursors
<1> QED BY <1>2, <1>5, <1>6, <1>7

\* A snapshot begins: nothing that is due has been captured yet.
LEMMA BeginKept ==
    ASSUME Kept, NEW recovery, BeginSnapshot(recovery),
           UNCHANGED <<setup, log, captured, cleaned, wrote, offset, delivered, ckpt, flight, prep>>
    PROVE  Kept'
<1>1. /\ since' = captured /\ phase' = "snapshot" /\ inc' = NewIncremental(NoProgress, <<>>) /\ conv' = conv
      /\ snapshot'.anchor = captured /\ snapshot'.ordinal = 1
      /\ snapshot' = [anchor |-> snapshot'.anchor, ordinal |-> snapshot'.ordinal, recovery |-> snapshot'.recovery,
                      moment |-> snapshot'.moment, rows |-> snapshot'.rows]
  BY DEF BeginSnapshot
<1>2. LogKept' /\ FlightKept' /\ CheckpointKept'
  BY <1>1, SinceMoves DEF Kept
<1>3. IncrementalKept'
  BY <1>1, ShapeOfNew DEF Kept, IncrementalKept
<1>4. SnapshotKept'
  BY <1>1 DEF SnapshotKept
<1>5. QuietKept'
  BY <1>1 DEF Kept, QuietKept
<1> QED BY <1>1, <1>2, <1>3, <1>4, <1>5 DEF Kept

\* The checkpoint says where the stream goes on.
LEMMA ResumesKept ==
    ASSUME Kept, StreamFrom(ResumeCursor, Resume, IF ckpt.pos.snap THEN SafePosition(ResumeCursor) ELSE ckpt.pos),
           UNCHANGED <<setup, log, captured, since, delivered>>
    PROVE  conv' \in Conversions /\ CursorKept' /\ BatchKept' /\ TxnKept'
<1> DEFINE p == ckpt.pos
           c == ResumeCursor
           safe == IF p.snap THEN SafePosition(c) ELSE p
<1>1. /\ p \in Positions /\ p.commit \in Nat /\ p.change \in Nat /\ p.serial \in Nat /\ p.commit <= captured
      /\ LogKept /\ captured \in Nat
      /\ \A x \in Due : Reaches(p, x) => x \in delivered
  BY LogFacts DEF Kept, CheckpointKept, Positions
<1>2. Due' = Due
  BY DEF Due
<1>3. \A x \in Due : /\ x[1] \in Nat \ {0} /\ x[2] \in Nat \ {0} /\ LastRow(x) \in Cursors /\ LastRow(x).commit = x[1]
                     /\ LastRow(x).change = x[2] /\ LastRow(x).code \in {1, 2, 4} /\ x[2] < Top
  BY <1>1, DueFacts
<1>4. None \in Positions /\ ~None.snap /\ None.commit = 0
  BY DEF None, Position, Positions
<1>5. CASE p.snap \/ p.serial = CommitSerial \/ ckpt.state # NoState
  <2>1. c = AtSnapshot(p.commit) /\ CommitComplete(c) /\ Resume = None
    BY <1>5 DEF ResumeCursor, Resume, CommitComplete, AtSnapshot, Cursor
  <2>2. c \in Cursors /\ c.commit = p.commit
    BY <1>1, <2>1, EndFacts
  <2>3. ~setup.cuts \/ p.snap \/ p.serial = CommitSerial
    BY <1>5 DEF Kept, QuietKept
  <2>4. \A x \in Due : ~Precedes(c, LastRow(x)) => x \in delivered
    <3>1. ASSUME NEW x \in Due, ~Precedes(c, LastRow(x)) PROVE x \in delivered
      <4>1. ~(p.commit < x[1])
        BY <1>1, <1>3, <2>1, <3>1, EndFacts
      <4>2. x[1] < p.commit \/ x[1] = p.commit
        BY <1>1, <1>3, <4>1
      <4>3. Reaches(p, x)
        BY <2>3, <4>2 DEF Reaches
      <4> QED BY <1>1, <4>3
    <3> QED BY <3>1
  <2>5. StreamFrom(c, None, safe) /\ c = AtSnapshot(c.commit) /\ c.commit <= captured
    BY <1>1, <2>1, <2>2
  <2> HIDE DEF c
  <2>6. safe \in Positions /\ safe.commit <= c.commit
    <3>1. SafePosition(c) \in Positions /\ SafePosition(c).commit = c.commit
      BY <2>2, MarkSent
    <3>2. p.commit <= c.commit /\ c.commit <= c.commit
      BY <1>1, <2>2
    <3> HIDE DEF p
    <3> QED BY <1>1, <3>1, <3>2
  <2> HIDE DEF safe
  <2>7. \A x \in Due' : ~Precedes(c, LastRow(x)) => x \in delivered'
    BY <1>2, <2>4
  <2>8. None.commit <= captured
    BY <1>1, <1>4
  <2> QED BY <1>1, <1>4, <2>2, <2>5, <2>6, <2>7, <2>8, StreamStarts
<1>6. CASE ~(p.snap \/ p.serial = CommitSerial \/ ckpt.state # NoState)
  <2>1. c = Cursor(p.commit, 0, 0) /\ c.commit = p.commit /\ c.change = 0 /\ c.code = 0 /\ Resume = p
    BY <1>6 DEF ResumeCursor, Resume, CommitComplete, Cursor, Top
  <2>2. c \in Cursors
    BY <1>1, <2>1 DEF Cursors, Cursor
  <2>3. \A x \in Due : ~Precedes(c, LastRow(x)) => x \in delivered
    <3>1. ASSUME NEW x \in Due, ~Precedes(c, LastRow(x)) PROVE x \in delivered
      <4> HIDE DEF c, p
      <4>1. x[1] < p.commit
        BY <1>1, <1>3, <2>1, <2>2, <3>1, CursorOrder
      <4>2. Reaches(p, x)
        BY <4>1 DEF Reaches
      <4> QED BY <1>1, <4>2
    <3> QED BY <3>1
  <2>4. \A x \in Due : IsAtOrBefore(Position(x[1], x[2], LastRow(x).code, FALSE), p) => x \in delivered
    <3>1. ASSUME NEW x \in Due, IsAtOrBefore(Position(x[1], x[2], LastRow(x).code, FALSE), p) PROVE x \in delivered
      <4> DEFINE q == Position(x[1], x[2], LastRow(x).code, FALSE)
                 b == Cursor(p.commit, p.change, p.serial)
      <4>1. q \in Positions /\ ~q.snap /\ q.commit = x[1] /\ q.change = x[2] /\ q.serial = LastRow(x).code
        BY <1>3 DEF Position, Positions
      <4> HIDE DEF q
      <4>2. \/ x[1] < p.commit
            \/ x[1] = p.commit /\ x[2] < p.change
            \/ x[1] = p.commit /\ x[2] = p.change /\ LastRow(x).code <= p.serial
        BY <1>1, <1>6, <3>1, <4>1, PositionOrder DEF q
      <4>3. b.commit = p.commit /\ b.change = p.change /\ b.code = p.serial
        BY DEF Cursor
      <4>4. {b.commit, b.change, b.code, LastRow(x).commit, LastRow(x).change, LastRow(x).code} \subseteq Nat
        BY <1>1, <1>3, <4>3
      <4> HIDE DEF b, p
      <4>5. x[1] = p.commit => ~Precedes(b, LastRow(x))
        BY <1>1, <1>3, <4>2, <4>3, <4>4, OrderOfThree
      <4>6. Reaches(p, x)
        BY <4>2, <4>5 DEF Reaches, b
      <4> QED BY <1>1, <4>6
    <3> QED BY <3>1
  <2>5. safe = p /\ safe.commit <= c.commit
    BY <1>1, <1>6, <2>1
  <2> HIDE DEF c, safe
  <2> QED BY <1>1, <1>2, <1>6, <2>1, <2>2, <2>3, <2>4, <2>5, StreamStarts DEF c, safe
<1> QED BY <1>5, <1>6

LEMMA StartKept ==
    ASSUME Kept, Start
    PROVE  Kept'
<1>1. UNCHANGED <<setup, log, captured, cleaned, wrote, offset, delivered, ckpt, flight, prep>>
  BY DEF Start, StartSnapshot, StartFromCheckpoint, StartAtEnd, server
<1>2. CASE \E recovery : BeginSnapshot(recovery)
  BY <1>1, <1>2, BeginKept
<1>3. CASE StartFromCheckpoint /\ ~\E recovery : BeginSnapshot(recovery)
  <2>1. CASE phase' = "failed"
    <3>1. UNCHANGED <<since, lastSafe, conv, batch, snapshot, inc>>
      BY <1>3, <2>1 DEF StartFromCheckpoint, StreamFrom
    <3>2. LogKept' /\ captured <= captured'
      BY <1>1, <3>1, LogStays, LogFacts DEF Kept
    <3> QED BY <1>1, <2>1, <3>1, <3>2, OthersKept, SideStays, SnapshotStays
  <2>2. CASE phase' # "failed"
    <3>1. /\ StreamFrom(ResumeCursor, Resume, IF ckpt.pos.snap THEN SafePosition(ResumeCursor) ELSE ckpt.pos)
          /\ inc' = IF ckpt.state = NoState THEN NewIncremental(NoProgress, <<>>)
                    ELSE NewIncremental(ckpt.state.progress, ckpt.state.completed)
          /\ UNCHANGED <<since, snapshot>>
      BY <1>3, <2>2 DEF StartFromCheckpoint, Fails
    <3>2. conv' \in Conversions /\ CursorKept' /\ BatchKept' /\ TxnKept'
      BY <1>1, <3>1, ResumesKept
    <3>3. LogKept' /\ FlightKept' /\ CheckpointKept'
      BY <1>1, <3>1, SinceMoves DEF Kept
    <3>4. IncrementalKept'
      BY <1>1, <3>1, ShapeOfNew DEF Kept, IncrementalKept
    <3>5. QuietKept'
      BY <1>1, <3>1 DEF Kept, QuietKept
    <3>6. SnapshotKept'
      BY <3>1, SnapshotStays DEF StreamFrom
    <3> QED BY <3>2, <3>3, <3>4, <3>5, <3>6 DEF Kept
  <2> QED BY <2>1, <2>2
<1>4. CASE StartAtEnd
  <2> DEFINE c == AtSnapshot(captured)
  <2>1. /\ since' = captured /\ inc' = NewIncremental(NoProgress, <<>>) /\ StreamFrom(c, None, SafePosition(c))
        /\ UNCHANGED snapshot
    BY <1>4 DEF StartAtEnd
  <2>2. LogKept /\ captured \in Nat
    BY LogFacts DEF Kept
  <2>3. /\ LogKept' /\ FlightKept' /\ CheckpointKept' /\ Due' \subseteq Due
        /\ \A x \in Due' : x[1] > since'
    BY <1>1, <2>1, SinceMoves DEF Kept
  <2>4. c \in Cursors /\ c.commit = captured
    BY <2>2, EndFacts
  <2>5. None \in Positions /\ ~None.snap /\ None.commit = 0
    BY DEF None, Position, Positions
  <2>6. SafePosition(c) \in Positions /\ SafePosition(c).commit = captured
    BY <2>4, MarkSent
  <2>7. \A x \in Due' : Precedes(c, LastRow(x))
    BY <2>1, <2>2, <2>3, DueFacts, EndFacts
  <2>8. conv' \in Conversions /\ CursorKept' /\ BatchKept' /\ TxnKept'
    <3> DEFINE safe == SafePosition(c)
    <3>1. StreamFrom(c, None, safe) /\ c = AtSnapshot(c.commit) /\ c.commit <= captured
      BY <2>1, <2>2, <2>4
    <3>2. safe \in Positions /\ safe.commit <= c.commit
      BY <2>2, <2>4, <2>6
    <3>3. None.commit <= captured
      BY <2>2, <2>5
    <3> HIDE DEF c, safe
    <3> QED BY <1>1, <2>2, <2>4, <2>5, <2>7, <3>1, <3>2, <3>3, StreamStarts
  <2>9. IncrementalKept'
    BY <1>1, <2>1, ShapeOfNew DEF Kept, IncrementalKept
  <2>10. QuietKept'
    BY <1>1, <2>1 DEF Kept, QuietKept
  <2>11. SnapshotKept'
    BY <2>1 DEF Kept, SnapshotKept, StreamFrom
  <2> QED BY <2>3, <2>8, <2>9, <2>10, <2>11 DEF Kept
<1> QED BY <1>2, <1>3, <1>4 DEF Start, StartSnapshot

\* Rows of a snapshot have the anchor, behind which everything is still due.
LEMMA SnapshotsKept ==
    ASSUME Kept, Snapshot
    PROVE  Kept'
<1> DEFINE p == Position(snapshot.anchor, 0, snapshot.ordinal, TRUE)
<1>1. /\ UNCHANGED <<setup, log, captured, cleaned, wrote, since, offset, delivered, ckpt, inc, prep>>
      /\ phase = "snapshot"
  BY DEF Snapshot, SnapshotRow, SnapshotEnd, server, durable, side
<1>2. /\ LogKept /\ FlightKept /\ CheckpointKept /\ conv \in Conversions /\ snapshot.anchor = since
      /\ snapshot.ordinal \in Nat /\ since \in Nat /\ since <= captured /\ captured \in Nat
  BY <1>1, LogFacts DEF Kept, SnapshotKept, LogKept
<1>3. p \in Positions /\ p.commit = since /\ p.commit <= captured
  BY <1>2 DEF Position, Positions
<1>4. \A x \in Due : x[1] > since /\ x[1] \in Nat
  BY <1>2, DueFacts
<1>5. \A x \in Due : ~Reaches(p, x)
  <2> HIDE DEF p
  <2> QED BY <1>2, <1>3, <1>4, NotReached
<1>6. LogKept' /\ CheckpointKept' /\ IncrementalKept'
  BY <1>1, <1>2, LogStays, CheckpointStays DEF Kept, IncrementalKept
<1>7. ASSUME NEW r, r.pos = p, r.at = <<0, 0>>, r.order = 0, r.paired = TRUE, r.state = NoState, flight' = Append(flight, r)
      PROVE  FlightKept' /\ QuietKept'
  <2> DEFINE s == <<r>>
  <2>1. s \in Seq({r}) /\ DOMAIN s = {1} /\ s[1] = r
    OBVIOUS
  <2>2. flight' = flight \o s
    BY <1>2, <1>7 DEF FlightKept
  <2>3. Place(<<0, 0>>) = 0
    BY PlaceFirst
  <2> HIDE DEF s, p
  <2>4. FlightKept'
    <3>1. \A n \in DOMAIN s :
            /\ s[n].pos \in Positions /\ s[n].pos.commit <= captured
            /\ \A x \in Due : Reaches(s[n].pos, x) => Arrives(x, Len(flight)) \/ s[n].at = x
            /\ s[n].at = <<0, 0>> /\ s[n].paired /\ s[n].order = Place(s[n].at)
      BY <1>3, <1>5, <1>7, <2>1, <2>3
    <3>2. UNCHANGED <<setup, log, captured, since, delivered>>
      BY <1>1
    <3> QED BY <1>2, <2>1, <2>2, <3>1, <3>2, Sends
  <2>5. ASSUME \A n \in DOMAIN flight : flight[n].state = NoState
        PROVE  \A n \in DOMAIN flight' : flight'[n].state = NoState
    BY <1>2, <1>7, <2>5 DEF FlightKept
  <2>6. QuietKept'
    BY <1>1, <2>5 DEF Kept, QuietKept
  <2> QED BY <2>4, <2>6
<1>8. CASE SnapshotRow
  <2>1. SnapshotKept'
    <3>1. /\ UNCHANGED since
          /\ \/ snapshot' = [snapshot EXCEPT !.rows = Tail(@)]
             \/ snapshot' = [snapshot EXCEPT !.rows = Tail(@), !.ordinal = @ + 1]
      BY <1>8 DEF SnapshotRow, durable
    <3>2. PICK a, o, r, m, w : snapshot = [anchor |-> a, ordinal |-> o, recovery |-> r, moment |-> m, rows |-> w]
      BY DEF Kept, SnapshotKept
    <3>3. snapshot.anchor = a /\ snapshot.ordinal = o /\ snapshot.rows = w /\ a = since /\ o \in Nat
      BY <1>2, <3>2
    <3>4. PICK t, i : t = Tail(w) /\ i = o + 1
      OBVIOUS
    <3>5. \/ snapshot' = [snapshot EXCEPT !.rows = t]
          \/ snapshot' = [snapshot EXCEPT !.rows = t, !.ordinal = i]
      BY <3>1, <3>3, <3>4
    <3>6. /\ [snapshot EXCEPT !.rows = t] = [anchor |-> a, ordinal |-> o, recovery |-> r, moment |-> m, rows |-> t]
          /\ [snapshot EXCEPT !.rows = t, !.ordinal = i] =
               [anchor |-> a, ordinal |-> i, recovery |-> r, moment |-> m, rows |-> t]
      <4>1. [snapshot EXCEPT !.rows = t] = [anchor |-> a, ordinal |-> o, recovery |-> r, moment |-> m, rows |-> t]
        BY ONLY <3>2
      <4>2. PICK f : f = [snapshot EXCEPT !.rows = t]
        OBVIOUS
      <4>3. f = [anchor |-> a, ordinal |-> o, recovery |-> r, moment |-> m, rows |-> t]
        BY <4>1, <4>2
      <4>4. [f EXCEPT !.ordinal = i] = [anchor |-> a, ordinal |-> i, recovery |-> r, moment |-> m, rows |-> t]
        BY ONLY <4>3
      <4> QED BY <4>1, <4>2, <4>4
    <3>7. \E j \in Nat : snapshot' = [anchor |-> a, ordinal |-> j, recovery |-> r, moment |-> m, rows |-> t]
      BY <3>3, <3>4, <3>5, <3>6
    <3> QED BY <3>1, <3>3, <3>7 DEF SnapshotKept
  <2>2. FlightKept' /\ QuietKept'
    <3>1. CASE flight' = flight
      BY <1>1, <1>2, <3>1, FlightStays, SideStays
    <3>2. CASE \E key, val : flight' = Append(flight, Item(p, key, val))
      <4>1. PICK key, val : flight' = Append(flight, Item(p, key, val))
        BY <3>2
      <4> DEFINE r == Item(p, key, val)
      <4>2. r.pos = p /\ r.at = <<0, 0>> /\ r.order = 0 /\ r.paired = TRUE /\ r.state = NoState
        BY DEF Item
      <4> HIDE DEF r, p
      <4> QED BY <1>7, <4>1, <4>2 DEF r
    <3> QED BY <1>8, <3>1, <3>2 DEF SnapshotRow
  <2>3. phase' = phase /\ conv' = conv
    BY <1>8 DEF SnapshotRow, task
  <2> QED BY <1>1, <1>2, <1>6, <2>1, <2>2, <2>3 DEF Kept
<1>9. CASE SnapshotEnd
  <2> DEFINE c == AtSnapshot(snapshot.anchor)
             m == Mark(p, TRUE, NoState)
             r == [m EXCEPT !.snapshotEnd = TRUE]
  <2>1. /\ flight' = Append(flight, r) /\ UNCHANGED snapshot
        /\ \/ StreamFrom(c, None, SafePosition(c))
           \/ phase' = "failed" /\ UNCHANGED conv
    BY <1>9 DEF SnapshotEnd, Fails, side
  <2>2. FlightKept' /\ QuietKept'
    <3>1. r.pos = p /\ r.at = <<0, 0>> /\ r.order = 0 /\ r.paired = TRUE /\ r.state = NoState
      BY DEF Mark, Item
    <3> HIDE DEF r, p
    <3> QED BY <1>7, <2>1, <3>1
  <2>3. SnapshotKept'
    BY <1>1, <2>1, SnapshotStays DEF StreamFrom
  <2>4. CASE phase' = "failed" /\ UNCHANGED conv
    BY <1>2, <1>6, <2>2, <2>3, <2>4 DEF Kept
  <2>5. CASE StreamFrom(c, None, SafePosition(c))
    <3> DEFINE safe == SafePosition(c)
    <3>1. c \in Cursors /\ c.commit = since /\ c = AtSnapshot(c.commit)
      BY <1>2, EndFacts
    <3>2. \A x \in Due' : Precedes(c, LastRow(x))
      <4>1. Due' = Due
        BY <1>1 DEF Due
      <4> QED BY <1>2, <1>4, <4>1, DueFacts, EndFacts
    <3>3. None \in Positions /\ ~None.snap /\ None.commit <= captured
      BY <1>2 DEF None, Position, Positions
    <3> HIDE DEF c
    <3>4. safe \in Positions /\ safe.commit = c.commit
      BY <3>1, MarkSent
    <3>5. safe.commit <= c.commit /\ c.commit <= captured
      BY <1>2, <3>1, <3>4
    <3>6. StreamFrom(c, None, safe)
      BY <2>5
    <3> HIDE DEF safe
    <3>7. conv' \in Conversions /\ CursorKept' /\ BatchKept' /\ TxnKept'
      BY <1>1, <1>2, <3>1, <3>2, <3>3, <3>4, <3>5, <3>6, StreamStarts
    <3> QED BY <1>6, <2>2, <2>3, <3>7 DEF Kept
  <2> QED BY <2>1, <2>4, <2>5
<1> QED BY <1>8, <1>9 DEF Snapshot

\* A watermark is written.
LEMMA WatermarkKept ==
    ASSUME LogKept, NEW op \in {"open", "close"}, NEW id \in Nat, Apply(Watermark(op, id)), UNCHANGED chunkRest
    PROVE  LogKept' /\ \E txn : log' = Append(log, txn)
<1> DEFINE txn == Watermark(op, id)
<1>1. log' = Append(log, txn) /\ UNCHANGED <<setup, captured, cleaned, since, offset, wrote>> /\ wrote \in Nat
  BY DEF Apply, chunkRest, durable, LogKept
<1>2. txn \in Seq(Changes) /\ Len(txn) < Top /\ \A m \in DOMAIN txn : ~Business(txn[m].op) /\ txn[m].op # "signal"
  BY WatermarkFacts
<1> HIDE DEF txn
<1> QED BY <1>1, <1>2, LogAppends

\* The steps of a chunk, none of which there is where batches may end anywhere.
LEMMA ChunkKept ==
    ASSUME Kept, Chunk
    PROVE  Kept'
<1>1. /\ UNCHANGED <<setup, captured, cleaned, wrote, since, offset, delivered, ckpt, conv, batch, lastSafe, flight,
                     snapshot>>
      /\ phase' \in {phase, "failed"} /\ UNCHANGED chunkRest
  BY DEF Chunk, StartChunk, ChunkMax, ChunkRows, CloseMark, chunkRest, durable, Fails
<1>2. LogKept /\ captured \in Nat /\ Len(log) \in Nat /\ Shaped(inc) /\ prep.id \in Nat /\ IncrementalKept
  BY LogFacts DEF Kept, IncrementalKept
<1>3. ~setup.cuts
  <2>1. SUFFICES ASSUME setup.cuts PROVE FALSE
    OBVIOUS
  <2>2. inc = NewIncremental(NoProgress, <<>>) /\ prep = NoPrep
    BY <2>1 DEF Kept, QuietKept
  <2> QED BY <2>2 DEF Chunk, StartChunk, ChunkMax, ChunkRows, CloseMark, Preparing, Active, NewIncremental, NoPrep
<1>4. QuietKept'
  BY <1>1, <1>3 DEF QuietKept
<1>5. LogKept' /\ (log' = log \/ \E txn : log' = Append(log, txn))
  <2>1. CASE StartChunk
    <3>1. Apply(Watermark("open", Len(log) + 1)) /\ Len(log) + 1 \in Nat
      BY <1>2, <2>1 DEF StartChunk
    <3> QED BY <1>1, <1>2, <3>1, WatermarkKept
  <2>2. CASE CloseMark
    <3>1. Apply(Watermark("close", prep.id))
      BY <2>2 DEF CloseMark
    <3> QED BY <1>1, <1>2, <3>1, WatermarkKept
  <2>3. CASE ChunkMax \/ ChunkRows
    <3>1. log' = log
      BY <2>3 DEF ChunkMax, ChunkRows
    <3> QED BY <1>1, <1>2, <3>1, LogStays
  <2> QED BY <2>1, <2>2, <2>3 DEF Chunk
<1>6. IncrementalKept'
  <2>1. CASE StartChunk
    <3>1. inc' = [inc EXCEPT !.opening = Len(log) + 1] /\ prep' = prep /\ Len(log) + 1 \in Nat
      BY <1>2, <2>1 DEF StartChunk
    <3> QED BY <1>2, <3>1, Reshaped DEF IncrementalKept
  <2>2. PICK step, id, max : prep = [step |-> step, id |-> id, max |-> max] /\ id \in Nat
    BY <1>2 DEF IncrementalKept
  <2>3. CASE ChunkMax
    <3>1. inc' = inc
      BY <2>3 DEF ChunkMax
    <3> DEFINE largest == IF inc.progress.max # 0 THEN inc.progress.max
                          ELSE Max({0} \cup {key.k : key \in Present(ThisTable)})
    <3>2. prep' = prep \/ prep' = [prep EXCEPT !.step = "rows", !.max = largest]
      BY <2>3 DEF ChunkMax
    <3> HIDE DEF largest
    <3>3. PICK f, rows : f = [prep EXCEPT !.step = rows] /\ rows = "rows"
      OBVIOUS
    <3>4. f = [step |-> rows, id |-> id, max |-> max]
      BY ONLY <2>2, <3>3
    <3>5. [f EXCEPT !.max = largest] = [step |-> rows, id |-> id, max |-> largest]
      BY ONLY <3>4
    <3>6. \E s, m : prep' = [step |-> s, id |-> id, max |-> m]
      BY <2>2, <3>2, <3>3, <3>5
    <3> QED BY <1>2, <2>2, <3>1, <3>6 DEF IncrementalKept
  <2>4. CASE CloseMark
    <3>1. inc' = inc /\ prep' = [step |-> "none", id |-> 0, max |-> 0]
      BY <2>4 DEF CloseMark, NoPrep
    <3> QED BY <1>2, <3>1 DEF IncrementalKept
  <2>5. CASE ChunkRows
    <3> DEFINE due == {key \in Present(ThisTable) : key.k > inc.progress.last /\ key.k <= prep.max}
               keys == {key \in due : Cardinality({x \in due : x.k < key.k}) < ChunkSize}
               rows == {[key |-> key, val |-> table[key]] : key \in keys}
               w == [id |-> prep.id, table |-> ThisTable, rows |-> rows,
                     max |-> prep.max, last |-> Max({0} \cup {key.k : key \in keys}),
                     count |-> Cardinality(keys), closeAt |-> 0]
    <3>1. inc' = [inc EXCEPT !.window = w] /\ prep' = [prep EXCEPT !.step = "close"]
      BY <2>5 DEF ChunkRows
    <3>2. IsFiniteSet(keys)
      <4>1. IsFiniteSet(DOMAIN setup.rows)
        BY <1>2, ScriptAssumption DEF LogKept
      <4>2. keys \subseteq DOMAIN setup.rows
        BY DEF Present, Keys
      <4> HIDE DEF keys
      <4> QED BY <4>1, <4>2, FS_Subset
    <3>3. IsFiniteSet(rows)
      <4> DEFINE f == [key \in keys |-> [key |-> key, val |-> table[key]]]
      <4> HIDE DEF keys
      <4>1. f \in Surjection(keys, rows)
        BY DEF Surjection
      <4> HIDE DEF f, rows
      <4> QED BY <3>2, <4>1, FS_Surjection
    <3>4. ShapedWindow(w)
      <4> HIDE DEF rows, keys
      <4> QED BY <3>3 DEF ShapedWindow
    <3>5. prep' = [step |-> "close", id |-> id, max |-> max]
      BY <2>2, <3>1
    <3> HIDE DEF w
    <3> QED BY <1>2, <2>2, <3>1, <3>4, <3>5, Reshaped DEF IncrementalKept
  <2> QED BY <2>1, <2>3, <2>4, <2>5 DEF Chunk
<1>7. SnapshotKept'
  BY <1>1, SnapshotStays
<1>8. captured <= captured'
  BY <1>1, <1>2
<1> QED BY <1>1, <1>4, <1>5, <1>6, <1>7, <1>8, OthersKept

-----------------------------------------------------------------------------
(* A file of signals, line by line.                                         *)

\* Where there is a number up to a bound there is a least, as cursors can be put in order.
LEMMA Least ==
    ASSUME NEW L \in Nat, NEW T, T \subseteq 0 .. L, T # {}
    PROVE  \E m \in T : \A k \in T : m <= k
<1> DEFINE S == {Cursor(n, 0, 0) : n \in T}
           q == InOrder(S, Precedes)
<1>1. S \subseteq {c \in Cursors : c.commit <= L /\ c.change <= Top}
  BY DEF Cursor, Cursors, Top
<1>2. IsFiniteSet(S)
  <2> HIDE DEF S
  <2> QED BY <1>1, CursorsFinite
<1>3. S \subseteq Cursors
  BY <1>1
<1>4. /\ q \in Seq(S)
      /\ \A n, m \in DOMAIN q : n < m => Precedes(q[n], q[m])
      /\ \A c \in S : \E n \in DOMAIN q : q[n] = c
  <2> HIDE DEF S
  <2> QED BY <1>2, <1>3, InOrderFacts
<1> HIDE DEF q
<1>5. 1 \in DOMAIN q /\ q[1] \in S
  <2>1. PICK n \in DOMAIN q : TRUE
    BY <1>4
  <2> HIDE DEF S
  <2> QED BY <1>4, <2>1
<1>6. PICK m \in T : q[1] = Cursor(m, 0, 0)
  BY <1>5
<1>7. ASSUME NEW k \in T PROVE m <= k
  <2>1. PICK n \in DOMAIN q : q[n] = Cursor(k, 0, 0)
    BY <1>4
  <2>2. n = 1 \/ 1 < n
    BY <1>4
  <2>3. m \in Nat /\ k \in Nat
    OBVIOUS
  <2>4. Cursor(m, 0, 0) \in Cursors /\ Cursor(k, 0, 0) \in Cursors
    BY <1>3
  <2>5. CASE n = 1
    BY <1>6, <2>1, <2>3, <2>5 DEF Cursor
  <2>6. CASE 1 < n
    <3>1. Precedes(Cursor(m, 0, 0), Cursor(k, 0, 0))
      BY <1>4, <1>5, <1>6, <2>1, <2>6
    <3>2. m < k \/ m = k
      BY <2>3, <2>4, <3>1, CursorOrder DEF Cursor
    <3> QED BY <2>3, <3>2
  <2> QED BY <2>2, <2>5, <2>6
<1> QED BY <1>7

\* The states behind the lines are what the lines make of each other.
LEMMA AppliedFacts ==
    ASSUME NEW lines, Len(lines) \in Nat
    PROVE  Applied(lines) =
              [n \in 0 .. Len(lines) |-> IF n = 0 THEN inc ELSE Handle(Applied(lines)[n - 1], lines[n])]
<1> DEFINE L == Len(lines)
           Run(c, n) == c = [i \in 0 .. n |-> IF i = 0 THEN inc ELSE Handle(c[i - 1], lines[i])]
           T == {n \in 0 .. L : ~\E c : Run(c, n)}
<1>1. T = {}
  <2>1. SUFFICES ASSUME T # {} PROVE FALSE
    OBVIOUS
  <2>2. T \subseteq 0 .. L
    OBVIOUS
  <2> HIDE DEF T
  <2>3. PICK m \in T : \A k \in T : m <= k
    BY <2>1, <2>2, Least
  <2>4. m \in 0 .. L /\ ~\E c : Run(c, m)
    BY <2>3 DEF T
  <2>5. m # 0
    <3>1. SUFFICES ASSUME m = 0 PROVE FALSE
      OBVIOUS
    <3> DEFINE c == [i \in 0 .. 0 |-> inc]
    <3>2. c = [i \in 0 .. 0 |-> IF i = 0 THEN inc ELSE Handle(c[i - 1], lines[i])]
      OBVIOUS
    <3>3. Run(c, m)
      BY <3>1, <3>2
    <3> QED BY <2>4, <3>3
  <2>6. m - 1 \in 0 .. L /\ m - 1 \notin T
    BY <2>3, <2>4, <2>5
  <2>7. PICK g : Run(g, m - 1)
    BY <2>6 DEF T
  <2> DEFINE last == Handle(g[m - 1], lines[m])
             c == [i \in 0 .. m |-> IF i = m THEN last ELSE g[i]]
  <2>8. /\ \A i \in 0 .. m - 1 : g[i] = IF i = 0 THEN inc ELSE Handle(g[i - 1], lines[i])
        /\ \A i \in 0 .. m - 1 : c[i] = g[i]
    <3>1. \A i \in 0 .. m - 1 : i \in 0 .. m /\ i # m
      BY <2>4
    <3> QED BY <2>7, <3>1
  <2>9. \A i \in 0 .. m : c[i] = IF i = 0 THEN inc ELSE Handle(c[i - 1], lines[i])
    <3>1. c[m] = last /\ m - 1 \in 0 .. m - 1
      BY <2>4, <2>5
    <3>2. ASSUME NEW i \in 0 .. m PROVE c[i] = IF i = 0 THEN inc ELSE Handle(c[i - 1], lines[i])
      <4>1. CASE i = m
        <5>1. c[m - 1] = g[m - 1]
          BY <2>8, <3>1
        <5> QED BY <2>5, <3>1, <4>1, <5>1
      <4>2. CASE i # m
        <5>1. i \in 0 .. m - 1
          BY <2>4, <4>2
        <5>2. c[i] = g[i]
          BY <2>8, <5>1
        <5>3. i # 0 => i - 1 \in 0 .. m - 1
          BY <2>4, <5>1
        <5>4. i # 0 => c[i - 1] = g[i - 1]
          BY <2>8, <5>3
        <5> HIDE DEF c
        <5> QED BY <2>8, <5>1, <5>2, <5>4
      <4> QED BY <4>1, <4>2
    <3> QED BY <3>2
  <2>10. Run(c, m)
    <3>1. c = [i \in 0 .. m |-> c[i]]
      OBVIOUS
    <3> HIDE DEF c
    <3> QED BY <2>9, <3>1
  <2> HIDE DEF c, Run
  <2> QED BY <2>4, <2>10
<1>2. \E c : Run(c, L)
  BY <1>1
<1>3. Applied(lines) = CHOOSE c : Run(c, L)
  BY DEF Applied
<1>4. Run(Applied(lines), L)
  <2> HIDE DEF Run
  <2> QED BY <1>2, <1>3
<1> QED BY <1>4

LEMMA ShapeOfApplied ==
    ASSUME Shaped(inc), NEW lines, Len(lines) \in Nat
    PROVE  Shaped(Applied(lines)[Len(lines)])
<1> DEFINE c == Applied(lines)
           L == Len(lines)
           T == {n \in 0 .. L : ~Shaped(c[n])}
<1>1. \A n \in 0 .. L : c[n] = IF n = 0 THEN inc ELSE Handle(c[n - 1], lines[n])
  <2>1. c = [n \in 0 .. L |-> IF n = 0 THEN inc ELSE Handle(c[n - 1], lines[n])]
    BY AppliedFacts
  <2> HIDE DEF c
  <2> QED BY <2>1
<1> HIDE DEF c
<1>2. T = {}
  <2>1. SUFFICES ASSUME T # {} PROVE FALSE
    OBVIOUS
  <2>2. T \subseteq 0 .. L
    OBVIOUS
  <2> HIDE DEF T
  <2>3. PICK m \in T : \A k \in T : m <= k
    BY <2>1, <2>2, Least
  <2>4. m \in 0 .. L /\ ~Shaped(c[m])
    BY <2>3 DEF T
  <2>5. m # 0
    BY <1>1, <2>4
  <2>6. m - 1 \in 0 .. L /\ m - 1 \notin T
    BY <2>3, <2>4, <2>5
  <2>7. Shaped(c[m - 1])
    BY <2>6 DEF T
  <2> QED BY <1>1, <2>4, <2>5, <2>7, ShapeOfHandle
<1>3. L \in 0 .. L
  OBVIOUS
<1> QED BY <1>2, <1>3 DEF c

-----------------------------------------------------------------------------
(* Heartbeats, signals of the channel, the runtime and crashes.             *)

LEMMA OffsetMoves ==
    ASSUME LogKept, UNCHANGED <<setup, log, captured, cleaned, since, wrote>>, offset' \in Nat
    PROVE  LogKept'
  BY DEF LogKept, Rejected

\* What is sent at the last safe position, between transactions.
LEMMA SafeSent ==
    ASSUME Kept, phase = "streaming", phase' = phase, CommitComplete(conv.cursor), NEW r, r.pos = lastSafe, r.at = <<0, 0>>,
           r.order = 0, r.paired = TRUE, flight' = Append(flight, r), IncrementalKept', QuietKept', offset' \in Nat,
           UNCHANGED <<setup, log, captured, cleaned, since, wrote, delivered, ckpt, conv, batch, lastSafe, snapshot>>
    PROVE  Kept'
<1> DEFINE s == <<r>>
<1>1. /\ LogKept /\ FlightKept /\ CheckpointKept /\ conv \in Conversions /\ CursorKept /\ BatchKept /\ TxnKept
      /\ lastSafe \in Positions /\ lastSafe.commit <= conv.cursor.commit /\ conv.cursor.commit <= captured
  BY DEF Kept, CursorKept
<1>2. conv.cursor \in Cursors /\ conv.cursor.commit \in Nat /\ lastSafe.commit \in Nat /\ captured \in Nat
  BY <1>1, LogFacts DEF Conversions, Cursors, Positions
<1>3. \A x \in Due : Reaches(lastSafe, x) => Arrives(x, Len(flight))
  BY <1>1, <1>2, MarkCovers DEF CursorKept
<1>4. s \in Seq({r}) /\ DOMAIN s = {1} /\ s[1] = r
  OBVIOUS
<1>5. flight' = flight \o s
  BY <1>1 DEF FlightKept
<1>6. Place(<<0, 0>>) = 0
  BY PlaceFirst
<1>7. lastSafe.commit <= captured
  BY <1>1, <1>2
<1> HIDE DEF s
<1>8. FlightKept' /\ \A x : Arrives(x, Len(flight)) => Arrives(x, Len(flight))'
  <2>1. \A n \in DOMAIN s :
          /\ s[n].pos \in Positions /\ s[n].pos.commit <= captured
          /\ \A x \in Due : Reaches(s[n].pos, x) => Arrives(x, Len(flight)) \/ s[n].at = x
          /\ s[n].at = <<0, 0>> /\ s[n].paired /\ s[n].order = Place(s[n].at)
    BY <1>1, <1>3, <1>4, <1>6, <1>7
  <2>2. UNCHANGED <<setup, log, captured, since, delivered>>
    OBVIOUS
  <2> QED BY <1>1, <1>4, <1>5, <2>1, <2>2, Sends
<1>9. LogKept'
  BY <1>1, OffsetMoves
<1>10. CheckpointKept'
  BY <1>1, CheckpointStays
<1>11. CursorKept'
  <2>1. (\A x : LastRow(x)' = LastRow(x)) /\ Due' = Due
    BY DEF LastRow, Due
  <2> QED BY <1>1, <1>8, <2>1 DEF CursorKept
<1>12. BatchKept' /\ TxnKept'
  <2>1. (\A i : RowsOf(i)' = RowsOf(i)) /\ \A at : Place(at)' = Place(at)
    BY DEF RowsOf, Place
  <2>2. BatchKept'
    BY <1>1, <2>1 DEF BatchKept
  <2>3. TxnKept'
    BY <1>1, <2>1 DEF TxnKept
  <2> QED BY <2>2, <2>3
<1>13. SnapshotKept'
  BY SnapshotStays
<1> QED BY <1>1, <1>8, <1>9, <1>10, <1>11, <1>12, <1>13 DEF Kept

LEMMA HeartbeatKept ==
    ASSUME Kept, Heartbeat
    PROVE  Kept'
<1> DEFINE r == Mark(lastSafe, FALSE, NoState)
<1>1. /\ phase = "streaming" /\ phase' = phase /\ CommitComplete(conv.cursor) /\ flight' = Append(flight, r)
      /\ UNCHANGED <<setup, log, captured, cleaned, since, wrote, delivered, ckpt, conv, batch, lastSafe, snapshot, inc,
                     prep, offset>>
  BY DEF Heartbeat, Ready, Idle, server, durable, task, side
<1>2. r.pos = lastSafe /\ r.at = <<0, 0>> /\ r.order = 0 /\ r.paired = TRUE /\ r.state = NoState
  BY DEF Mark, Item
<1> HIDE DEF r
<1>3. IncrementalKept'
  BY <1>1 DEF Kept, IncrementalKept
<1>4. QuietKept'
  <2>1. flight \in Seq(Range(flight))
    BY DEF Kept, FlightKept
  <2>2. ASSUME \A n \in DOMAIN flight : flight[n].state = NoState
        PROVE  \A n \in DOMAIN flight' : flight'[n].state = NoState
    BY <1>1, <1>2, <2>1, <2>2
  <2> QED BY <1>1, <2>2 DEF Kept, QuietKept
<1>5. offset' \in Nat
  BY <1>1 DEF Kept, LogKept
<1> QED BY <1>1, <1>2, <1>3, <1>4, <1>5, SafeSent

\* Signals of the topic and of the file.
LEMMA SignalsKept ==
    ASSUME SetupsOrdinary, Kept, ExternalSignals
    PROVE  Kept'
<1>1. /\ UNCHANGED <<setup, log, captured, cleaned, since, wrote, delivered, ckpt, conv, batch, lastSafe, snapshot, prep>>
      /\ phase' = phase \/ phase' = "failed"
  BY DEF ExternalSignals, TakeExternal, CommitOffset, TakeFile, externalRest, server, Fails
<1>2. /\ setup \in Setups /\ offset \in Nat /\ External \in Seq(Signals) /\ Len(External) \in Nat
      /\ DOMAIN External = 1 .. Len(External) /\ Ordinary(setup) /\ LogKept /\ Shaped(inc) /\ captured \in Nat
  <2>1. setup \in Setups /\ offset \in Nat /\ LogKept /\ Shaped(inc) /\ captured \in Nat
    BY LogFacts DEF Kept, LogKept, IncrementalKept
  <2>2. External \in Seq(Signals)
    BY <2>1, ScriptAssumption DEF External
  <2>3. Ordinary(setup)
    BY <2>1 DEF SetupsOrdinary
  <2> QED BY <2>1, <2>2, <2>3
<1>3. offset' \in Nat
  <2>1. offset + 1 \in Nat
    BY <1>2
  <2>2. offset' = offset \/ offset' = offset + 1 \/ offset' = Len(External)
    BY DEF ExternalSignals, TakeExternal, CommitOffset, TakeFile
  <2> QED BY <1>2, <2>1, <2>2
<1>4. LogKept' /\ captured <= captured'
  BY <1>1, <1>2, <1>3, OffsetMoves
<1>5. CASE UNCHANGED <<inc, flight>>
  BY <1>1, <1>4, <1>5, OthersKept, SideStays, SnapshotStays
<1>6. ASSUME NEW all, Shaped(all), inc' = [all EXCEPT !.dirty = FALSE], phase' = phase, ~setup.cuts, Ready, BetweenTxns,
             flight' = flight \/ \E r : /\ flight' = Append(flight, r) /\ r.pos = lastSafe /\ r.at = <<0, 0>>
                                        /\ r.order = 0 /\ r.paired = TRUE
      PROVE  Kept'
  <2>1. IncrementalKept'
    BY <1>1, <1>6, Reshaped DEF Kept, IncrementalKept
  <2>2. QuietKept'
    BY <1>1, <1>6 DEF QuietKept
  <2>3. phase = "streaming" /\ CommitComplete(conv.cursor)
    BY <1>6 DEF Ready, Idle, BetweenTxns
  <2>4. CASE flight' = flight
    BY <1>1, <1>4, <1>6, <2>1, <2>2, <2>4, OthersKept, SnapshotStays
  <2>5. CASE flight' # flight
    <3>1. PICK r : /\ flight' = Append(flight, r) /\ r.pos = lastSafe /\ r.at = <<0, 0>>
                   /\ r.order = 0 /\ r.paired = TRUE
      BY <1>6, <2>5
    <3> QED BY <1>1, <1>3, <1>6, <2>1, <2>2, <2>3, <3>1, SafeSent
  <2> QED BY <2>4, <2>5
<1>7. \A state : LET r == Mark(lastSafe, FALSE, state)
                 IN r.pos = lastSafe /\ r.at = <<0, 0>> /\ r.order = 0 /\ r.paired = TRUE
  BY DEF Mark, Item
<1>8. CASE TakeExternal /\ ~UNCHANGED <<inc, flight>>
  <2> DEFINE s == External[offset + 1]
             m == Mark(lastSafe, FALSE, State(inc'))
             r == [m EXCEPT !.ack = TRUE]
  <2>1. /\ ~Refused(inc, s) /\ inc' = [Handle(inc, s) EXCEPT !.dirty = FALSE] /\ flight' = Append(flight, r)
        /\ phase' = phase /\ Ready /\ BetweenTxns /\ offset < Len(External)
    BY <1>8 DEF TakeExternal
  <2>2. ~setup.cuts
    <3>1. SUFFICES ASSUME setup.cuts PROVE FALSE
      OBVIOUS
    <3>2. offset + 1 \in DOMAIN setup.external
      BY <1>2, <2>1 DEF External
    <3>3. Rejected(setup, s)
      BY <1>2, <3>1, <3>2 DEF Ordinary, External
    <3>4. inc = NewIncremental(NoProgress, <<>>)
      BY <3>1 DEF Kept, QuietKept
    <3> HIDE DEF s
    <3> QED BY <2>1, <3>3, <3>4, RejectedRefused
  <2>3. r.pos = lastSafe /\ r.at = <<0, 0>> /\ r.order = 0 /\ r.paired = TRUE
    BY DEF Mark, Item
  <2>4. Shaped(Handle(inc, s))
    BY <1>2, ShapeOfHandle
  <2> HIDE DEF r, s
  <2> QED BY <1>6, <2>1, <2>2, <2>3, <2>4
<1>9. CASE TakeFile /\ ~UNCHANGED <<inc, flight>>
  <2> DEFINE lines == SubSeq(External, offset + 1, Len(External))
             all == Applied(lines)[Len(lines)]
  <2>1. /\ inc' = [all EXCEPT !.dirty = FALSE] /\ phase' = phase /\ Ready /\ BetweenTxns /\ offset < Len(External)
        /\ flight' = IF all.dirty THEN Append(flight, Mark(lastSafe, FALSE, State(inc'))) ELSE flight
        /\ setup.channel = "file"
    BY <1>9 DEF TakeFile
  <2>2. ~setup.cuts
    <3>1. SUFFICES ASSUME setup.cuts PROVE FALSE
      OBVIOUS
    <3>2. External = <<>>
      BY <1>2, <2>1, <3>1 DEF Ordinary, External
    <3> QED BY <1>2, <2>1, <3>2
  <2>3. Len(lines) \in Nat
    <3>1. lines \in Seq(Signals)
      BY <1>2, <2>1
    <3> HIDE DEF lines
    <3> QED BY <3>1
  <2> HIDE DEF lines
  <2>4. Shaped(all)
    BY <1>2, <2>3, ShapeOfApplied
  <2> HIDE DEF all
  <2>5. flight' = flight \/ \E r : /\ flight' = Append(flight, r) /\ r.pos = lastSafe /\ r.at = <<0, 0>>
                                   /\ r.order = 0 /\ r.paired = TRUE
    BY <1>7, <2>1
  <2> QED BY <1>6, <2>1, <2>2, <2>4, <2>5
<1>10. CASE CommitOffset
  BY <1>5, <1>10 DEF CommitOffset
<1> QED BY <1>5, <1>8, <1>9, <1>10 DEF ExternalSignals

\* The runtime writes a batch, which makes its last position the checkpoint.
LEMMA FlushKept ==
    ASSUME Kept, Flush
    PROVE  Kept'
<1>1. PICK n \in Batches :
        /\ delivered' = delivered \cup ({flight[m].at : m \in 1 .. n} \ {<<0, 0>>})
        /\ ckpt' = [pos |-> flight[n].pos, snap |-> ckpt.snap \/ flight[n].snapshotEnd, state |-> SavedState(n)]
        /\ flight' = SubSeq(flight, n + 1, Len(flight))
  BY DEF Flush, Deliver
<1>2. /\ UNCHANGED <<setup, log, captured, cleaned, since, wrote, offset, conv, batch, lastSafe, snapshot, inc, prep, phase>>
  BY DEF Flush, server, task
<1>3. /\ LogKept /\ FlightKept /\ CheckpointKept /\ flight \in Seq(Range(flight)) /\ Len(flight) \in Nat
      /\ DOMAIN flight = 1 .. Len(flight)
  BY DEF Kept, FlightKept
<1>4. n \in 1 .. Len(flight) /\ (setup.cuts \/ flight[n].commit \/ flight[n].key = NoKey)
  BY DEF Batches
<1>5. /\ flight' \in Seq(Range(flight)) /\ Len(flight') = Len(flight) - n /\ DOMAIN flight' = 1 .. Len(flight) - n
      /\ \A k \in 1 .. Len(flight) - n : k + n \in DOMAIN flight /\ flight'[k] = flight[k + n]
  <2>1. PICK rs : flight \in Seq(rs)
    BY <1>3
  <2>2. n + 1 \in 1 .. Len(flight) + 1 /\ n + 1 \in Nat \ {0} /\ n \in Nat /\ n <= Len(flight)
    BY <1>3, <1>4
  <2>3. \A k \in 1 .. Len(flight) - n : k + n \in 1 .. Len(flight) /\ k + (n + 1) - 1 = k + n
    BY <1>3, <2>2
  <2>4. flight' \in Seq(rs) /\ Len(flight') = Len(flight) - n
    <3>1. PICK rest, m, l : rest = flight' /\ m = n + 1 /\ l = Len(flight) /\ rest = SubSeq(flight, m, l)
      BY <1>1
    <3>2. m \in 1 .. l + 1 /\ l \in Nat /\ m \in Nat
      BY ONLY <2>2, <3>1
    <3>3. \A k \in m .. l : flight[k] \in rs
      BY ONLY <2>1, <3>1, <3>2
    <3>4. rest \in Seq(rs) /\ Len(rest) = IF m <= l THEN l - m + 1 ELSE 0
      BY ONLY <3>1, <3>2, <3>3, SubSeqProperties
    <3>5. (IF m <= l THEN l - m + 1 ELSE 0) = l - n
      BY ONLY <2>2, <3>1, <3>2
    <3> QED BY ONLY <3>1, <3>4, <3>5
  <2>5. DOMAIN flight' = 1 .. Len(flight) - n
    BY <2>4
  <2>6. \A k \in 1 .. Len(flight) - n : flight'[k] = flight[k + n]
    BY ONLY <1>1, <1>3, <2>1, <2>2, <2>3
  <2>7. \A k \in 1 .. Len(flight) - n : flight'[k] \in Range(flight)
    BY <1>3, <2>3, <2>6 DEF Range
  <2>8. flight' \in Seq(Range(flight))
    BY <2>4, <2>5, <2>7
  <2> QED BY <1>3, <2>3, <2>4, <2>5, <2>6, <2>8
<1>6. /\ Due' = Due /\ (\A x : LastRow(x)' = LastRow(x)) /\ (\A at : Place(at)' = Place(at))
      /\ (\A p, x : Reaches(p, x)' <=> Reaches(p, x)) /\ (\A i : RowsOf(i)' = RowsOf(i))
  BY <1>2 DEF Due, LastRow, Place, Reaches, RowsOf
<1>7. \A x \in Due : x # <<0, 0>>
  BY <1>3, DueFacts
<1>8. ASSUME NEW x \in Due, NEW k \in 0 .. Len(flight) - n, Arrives(x, k + n)
      PROVE  Arrives(x, k)'
  <2>1. CASE x \in delivered
    BY <1>1, <2>1 DEF Arrives
  <2>2. CASE \E j \in 1 .. k + n : flight[j].at = x
    <3>1. PICK j \in 1 .. k + n : flight[j].at = x
      BY <2>2
    <3>2. CASE j <= n
      <4>1. j \in 1 .. n
        BY <1>3, <1>4, <3>2
      <4>2. x \in delivered'
        BY <1>1, <1>7, <3>1, <4>1
      <4> QED BY <4>2 DEF Arrives
    <3>3. CASE j > n
      <4>1. j - n \in 1 .. k /\ j - n \in 1 .. Len(flight) - n /\ (j - n) + n = j
        BY <1>3, <1>4, <3>3
      <4>2. flight'[j - n].at = x
        BY <1>5, <3>1, <4>1
      <4> QED BY <4>1, <4>2 DEF Arrives
    <3>4. j <= n \/ j > n
      BY <1>3, <1>4
    <3> QED BY <3>2, <3>3, <3>4
  <2> QED BY <1>8, <2>1, <2>2 DEF Arrives
<1>9. ASSUME NEW x \in Due, Arrives(x, n)
      PROVE  x \in delivered'
  <2>1. CASE x \in delivered
    BY <1>1, <2>1
  <2>2. CASE \E j \in 1 .. n : flight[j].at = x
    BY <1>1, <1>7, <2>2
  <2> QED BY <1>9, <2>1, <2>2 DEF Arrives
<1>10. delivered \subseteq delivered'
  BY <1>1
<1>11. FlightKept'
  <2>1. flight' \in Seq(Range(flight'))
    BY <1>5, OfItsRange
  <2>2. ASSUME NEW k \in DOMAIN flight'
        PROVE  LET r == flight'[k]
               IN  /\ r.pos \in Positions /\ r.pos.commit <= captured
                   /\ setup.cuts \/ r.commit \/ r.key = NoKey =>
                        \A x \in Due : Reaches(r.pos, x) => Arrives(x, k)'
                   /\ r.at = <<0, 0>> \/ (r.at[1] \in DOMAIN log /\ r.at[2] \in DOMAIN log[r.at[1]])
                   /\ r.paired /\ r.order = Place(r.at)
    <3>1. k \in 0 .. Len(flight) - n /\ k + n \in DOMAIN flight /\ flight'[k] = flight[k + n]
      BY <1>3, <1>4, <1>5
    <3> QED BY <1>3, <1>8, <3>1 DEF FlightKept
  <2> QED BY <1>2, <1>6, <2>1, <2>2 DEF FlightKept
<1>12. CheckpointKept'
  <2>1. ckpt'.pos = flight[n].pos
    BY <1>1
  <2>2. n \in DOMAIN flight
    BY <1>3, <1>4
  <2>3. \A x \in Due : Reaches(flight[n].pos, x) => Arrives(x, n)
    BY <1>3, <1>4, <2>2 DEF FlightKept
  <2> QED BY <1>2, <1>3, <1>6, <1>9, <2>1, <2>2, <2>3 DEF CheckpointKept, FlightKept
<1>13. phase' = "streaming" => CursorKept' /\ BatchKept' /\ TxnKept'
  <2>1. SUFFICES ASSUME phase' = "streaming" PROVE CursorKept' /\ BatchKept' /\ TxnKept'
    OBVIOUS
  <2>2. CursorKept /\ BatchKept /\ TxnKept
    BY <1>2, <2>1 DEF Kept
  <2>3. CursorKept'
    <3>1. \A x \in Due : Arrives(x, Len(flight)) => Arrives(x, Len(flight))'
      <4>1. Len(flight) - n \in 0 .. Len(flight) - n /\ (Len(flight) - n) + n = Len(flight)
        BY <1>3, <1>4
      <4>2. ASSUME NEW x \in Due, Arrives(x, Len(flight)) PROVE Arrives(x, Len(flight))'
        <5>1. PICK k \in 0 .. Len(flight) - n : k = Len(flight) - n /\ k + n = Len(flight)
          BY <4>1
        <5>2. Arrives(x, k)'
          BY <1>8, <4>2, <5>1
        <5> QED BY <1>5, <5>1, <5>2
      <4> QED BY <4>2
    <3> QED BY <1>2, <1>6, <1>10, <2>2, <3>1 DEF CursorKept
  <2>4. BatchKept'
    BY <1>2, <1>6, <2>2 DEF BatchKept
  <2>5. TxnKept'
    BY <1>2, <1>6, <2>2 DEF TxnKept
  <2> QED BY <2>3, <2>4, <2>5
<1>14. LogKept' /\ SnapshotKept' /\ IncrementalKept'
  BY <1>2, <1>3, LogStays, SnapshotStays DEF Kept, IncrementalKept
<1>15. QuietKept'
  <2>1. SUFFICES ASSUME setup.cuts
                 PROVE  ckpt'.state = NoState /\ \A k \in DOMAIN flight' : flight'[k].state = NoState
    BY <1>2 DEF Kept, QuietKept
  <2>2. ckpt.state = NoState /\ \A k \in DOMAIN flight : flight[k].state = NoState
    BY <2>1 DEF Kept, QuietKept
  <2>3. SavedState(n) = NoState
    <3>1. {m \in 1 .. n : flight[m].state # NoState} = {}
      <4>1. 1 .. n \subseteq DOMAIN flight
        BY <1>3, <1>4
      <4> QED BY <2>2, <4>1
    <3> QED BY <2>2, <3>1 DEF SavedState
  <2> QED BY <1>1, <1>5, <2>2, <2>3
<1> QED BY <1>2, <1>11, <1>12, <1>13, <1>14, <1>15 DEF Kept

\* What a crash leaves, and what there is at first.
LEMMA ClearedFacts ==
    ASSUME Cleared, prep' = NoPrep
    PROVE  IncrementalKept' /\ conv' \in Conversions /\ flight' = <<>>
<1>1. None \in Positions
  BY DEF None, Position, Positions
<1>2. AtSnapshot(0) \in Cursors
  BY EndFacts
<1>3. NewConversion(AtSnapshot(0), None) \in Conversions
  BY <1>1, <1>2 DEF NewConversion, Conversions, NoTxn
<1> QED BY <1>3, ShapeOfNew DEF Cleared, IncrementalKept, NoPrep

LEMMA CrashKept ==
    ASSUME Kept, Crash
    PROVE  Kept'
<1>1. /\ Cleared /\ phase' = "down" /\ delivered \subseteq delivered'
      /\ UNCHANGED <<setup, log, captured, cleaned, since, wrote, offset, ckpt>>
      /\ prep' = NoPrep /\ inc' = NewIncremental(NoProgress, <<>>)
      /\ snapshot' = [anchor |-> 0, ordinal |-> 0, recovery |-> FALSE, moment |-> setup'.rows, rows |-> <<>>]
  BY DEF Crash, Cleared, Deliver, server, NoSnapshot
<1>2. IncrementalKept' /\ conv' \in Conversions /\ flight' = <<>>
  BY <1>1, ClearedFacts
<1>3. LogKept' /\ CheckpointKept'
  BY <1>1, LogStays, CheckpointStays DEF Kept
<1>4. FlightKept'
  <2>1. flight' \in Seq(Range(flight')) /\ DOMAIN flight' = {}
    BY <1>2
  <2> QED BY <2>1 DEF FlightKept
<1>5. SnapshotKept'
  BY <1>1 DEF SnapshotKept
<1>6. QuietKept'
  BY <1>1, <1>2 DEF Kept, QuietKept
<1> QED BY <1>1, <1>2, <1>3, <1>4, <1>5, <1>6 DEF Kept

-----------------------------------------------------------------------------
(* The theorems.                                                            *)

LEMMA InitKept == Init => Kept
<1> SUFFICES ASSUME Init PROVE Kept
  OBVIOUS
<1>1. log = <<<<>>>> /\ Len(log) = 1 /\ DOMAIN log = {1} /\ log[1] = <<>> /\ log \in Seq(Seq(Changes))
  <2>1. <<>> \in Seq(Changes)
    OBVIOUS
  <2> QED BY <2>1 DEF Init
<1>2. LogKept
  BY <1>1 DEF Init, LogKept, Top
<1>3. None \in Positions /\ None.commit = 0
  BY DEF None, Position, Positions
<1>4. AtSnapshot(0) \in Cursors
  BY EndFacts
<1>5. conv \in Conversions
  BY <1>3, <1>4 DEF Init, NewConversion, Conversions, NoTxn
<1>6. Due = {}
  <2>1. \A x \in Due : x[1] \in DOMAIN log /\ x[2] \in DOMAIN log[x[1]]
    BY <1>2, DueFacts
  <2> QED BY <1>1, <2>1
<1>7. CheckpointKept
  BY <1>3, <1>6 DEF Init, NoCheckpoint, CheckpointKept
<1>8. FlightKept
  <2>1. flight \in Seq(Range(flight)) /\ DOMAIN flight = {}
    BY DEF Init
  <2> QED BY <2>1 DEF FlightKept
<1>9. IncrementalKept /\ SnapshotKept /\ QuietKept
  <2>1. IncrementalKept
    BY ShapeOfNew DEF Init, IncrementalKept, NoPrep
  <2>2. SnapshotKept
    BY DEF Init, SnapshotKept, NoSnapshot
  <2>3. QuietKept
    BY DEF Init, QuietKept, NoCheckpoint
  <2> QED BY <2>1, <2>2, <2>3
<1>10. phase # "streaming"
  BY DEF Init
<1> QED BY <1>2, <1>5, <1>7, <1>8, <1>9, <1>10 DEF Kept

LEMMA StepKept ==
    ASSUME SetupsOrdinary, Kept, [Next]_vars
    PROVE  Kept'
<1>1. CASE UNCHANGED vars
  <2>1. UNCHANGED <<setup, log, captured, cleaned, since, wrote, offset, delivered, ckpt, conv, batch, lastSafe, snapshot,
                    inc, prep, phase, flight>>
    BY <1>1 DEF vars, server, durable, task, side
  <2>2. LogKept' /\ captured <= captured'
    BY <2>1, LogStays, LogFacts DEF Kept
  <2> QED BY <2>1, <2>2, OthersKept, SideStays, SnapshotStays
<1>2. CASE Write
  BY <1>2, WriteKept
<1>3. CASE Capture \/ Cleanup
  BY <1>3, ServerKept
<1>4. CASE Validate \/ PollFails \/ PollNothing \/ PollRefused \/ WatermarkFails
  BY <1>4, WaitsKept
<1>5. CASE Start
  BY <1>5, StartKept
<1>6. CASE Snapshot
  BY <1>6, SnapshotsKept
<1>7. CASE Poll
  BY <1>7, PollsKept
<1>8. CASE Records
  BY <1>8, RecordsKept
<1>9. CASE Chunk
  BY <1>9, ChunkKept
<1>10. CASE Heartbeat
  BY <1>10, HeartbeatKept
<1>11. CASE ExternalSignals
  BY <1>11, SignalsKept
<1>12. CASE Flush
  BY <1>12, FlushKept
<1>13. CASE Crash
  BY <1>13, CrashKept
<1> QED BY <1>1, <1>2, <1>3, <1>4, <1>5, <1>6, <1>7, <1>8, <1>9, <1>10, <1>11, <1>12, <1>13 DEF Next

LEMMA AlwaysKept == SetupsOrdinary => (Spec => []Kept)
<1> SUFFICES ASSUME SetupsOrdinary
             PROVE  Spec => []Kept
  OBVIOUS
<1>1. Kept /\ [Next]_vars => Kept'
  BY StepKept
<1> QED BY <1>1, InitKept, PTL DEF Spec

\* In every behaviour of the source, whatever the setups, a change of a captured table
\* that the cursor of the stream has passed has been sent or is about to be: no poll that
\* ends within a transaction or between the halves of an update, no restart and no replay
\* filter skips one (read_change_batch, change_query, should_skip).  Where batches may end
\* anywhere, incremental snapshots are left out (Ordinary).
THEOREM NeverAGap == SetupsOrdinary => (Spec => []NoGap)
<1>1. Kept => NoGap
  <2> SUFFICES ASSUME Kept, phase = "streaming", NEW x \in Passed
               PROVE  x \in delivered \cup {r.at : r \in Range(flight)}
    BY DEF NoGap
  <2>1. LogKept /\ conv \in Conversions /\ CursorKept /\ x \in Due
    BY DEF Kept, Passed
  <2>2. /\ x[1] \in Nat /\ x[2] \in Nat /\ LastRow(x) \in Cursors /\ LastRow(x).commit = x[1]
        /\ LastRow(x).change = x[2] /\ LastRow(x).code \in {1, 2, 4} /\ conv.cursor \in Cursors
    BY <2>1, DueFacts DEF Conversions
  <2> DEFINE c == Cursor(x[1], x[2], 4)
  <2>3. c \in Cursors /\ c.commit = x[1] /\ c.change = x[2] /\ c.code = 4 /\ ~Precedes(conv.cursor, c)
    BY <2>2 DEF Cursor, Cursors, Passed
  <2> HIDE DEF c
  <2>4. ~Precedes(conv.cursor, LastRow(x))
    <3>1. ~Precedes(c, LastRow(x))
      BY <2>2, <2>3, CursorOrder
    <3> QED BY <2>2, <2>3, <3>1, CursorTransitive
  <2>5. x \in delivered \/ \E k \in 1 .. Len(flight) : flight[k].at = x
    BY <2>1, <2>4 DEF CursorKept, Arrives
  <2>6. \A k \in 1 .. Len(flight) : flight[k] \in Range(flight)
    <3>1. flight \in Seq(Range(flight))
      BY DEF Kept, FlightKept
    <3> QED BY <3>1
  <2> QED BY <2>5, <2>6
<1> QED BY <1>1, AlwaysKept, PTL

\* Every event in flight has both images of its update and its place in its transaction
\* as its order, whichever polls, retries and restarts the transaction was read in
\* (pending updates and transaction_metadata of StreamingState).
THEOREM WholeEvents == SetupsOrdinary => (Spec => []EventsWhole)
<1>1. Kept => EventsWhole
  <2> SUFFICES ASSUME Kept, NEW r \in Range(flight) PROVE r.paired /\ r.order = Place(r.at)
    BY DEF EventsWhole
  <2>1. PICK n \in DOMAIN flight : r = flight[n]
    BY DEF Range
  <2> QED BY <2>1 DEF Kept, FlightKept
<1> QED BY <1>1, AlwaysKept, PTL

=============================================================================
