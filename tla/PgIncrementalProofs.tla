------------------------- MODULE PgIncrementalProofs -------------------------
(***************************************************************************)
(* Theorems about PgIncremental: a checkpoint's progress never runs ahead  *)
(* of the rows at the sink, a pause holds, a process opens each chunk      *)
(* once, and the checkpoint forgets no snapshot.                           *)
(*                                                                         *)
(* R is the table as it was in the beginning, W the keys transactions have *)
(* written since, v the rows at the sink and f the records in flight.  A   *)
(* row that was there in the beginning and has not been written has to     *)
(* reach the sink by a chunk: the invariant follows it from the chunk that *)
(* reads it through the window and the flight to the sink.                 *)
(*                                                                         *)
(* For the chunks, states are put in an order: what the checkpoint has is  *)
(* Remembered by every state in flight behind it and by the controller,    *)
(* and a controller Follows another when no chunk is due again that was    *)
(* Spent.                                                                  *)
(***************************************************************************)
EXTENDS PgIncremental, SequenceTheorems, FiniteSetTheorems, TLAPS

TableSet == STRING \cup {"none"}
KeySet == [table : TableSet, k : Nat]
MarkSet == [id : Nat, chunk : Nat]
SignalSet == [type : {"none", "execute", "stop", "pause", "resume"}, id : Nat, tables : Seq(STRING)]
WalRecords ==
    [kind : {"put", "signal", "commit", "open", "close"}, xid : Nat, key : KeySet, val : Nat, signal : SignalSet, mark : MarkSet]
ProgressSet ==
    [id : Nat, tables : Seq(STRING), current : Nat \ {0}, last : Nat, max : Nat, chunk : Nat, paused : BOOLEAN]
RowSet == [key : KeySet, val : Nat]
Events == [kind : {"begin", "start", "put", "signal", "commit", "open", "close"}, i : Nat]
Watermarks == [xmin : Nat, xmax : Nat]
StateSet == [progress : ProgressSet, completed : Seq(Nat)]
Controllers ==
    [progress : ProgressSet, completed : Seq(Nat), window : SUBSET RowSet, table : TableSet, end : Nat,
     complete : BOOLEAN, chunk : MarkSet, open : BOOLEAN, dirty : BOOLEAN, prepare : BOOLEAN,
     low : Watermarks, high : Watermarks]
Items == [pos : Nat, key : KeySet, val : Nat, commit : BOOLEAN, state : StateSet, ack : BOOLEAN]
Preps ==
    [step : {"none", "open", "low", "max", "read", "close"}, rows : SUBSET RowSet, end : Nat, max : Nat,
     complete : BOOLEAN, low : Watermarks]

-----------------------------------------------------------------------------
(* The inductive invariant.                                                 *)

\* Rows only a chunk can show the sink.
Untouched(R, W) == {key \in DOMAIN R \ W : R[key] # 0}

\* The progress lies behind the row.
Behind(p, key) ==
    \E n \in DOMAIN p.tables :
        key.table = p.tables[n] /\ (n < p.current \/ (n = p.current /\ key.k <= p.last))

\* The sink has the row, or will with the first n records in flight.
Arrives(R, v, f, n, key) == v[key] = R[key] \/ \E m \in DOMAIN f : m <= n /\ f[m].key = key

\* Progress is behind the rows that have been sent, and its maximum is not below one
\* that is still to be read.
ProgressKept(R, W, v, f, n, p) ==
    /\ \A key \in Untouched(R, W) : Behind(p, key) => Arrives(R, v, f, n, key)
    /\ p.max # 0 => \A key \in Untouched(R, W) : key.table = p.tables[p.current] => key.k <= p.max
    /\ p = NoProgress \/ (p.chunk # 0 /\ p.current \in DOMAIN p.tables)

\* The rows of a chunk: those of the current table from the last key to the end, or all
\* that follow.
ChunkKept(R, W, p, rows, end, complete) ==
    \A key \in Untouched(R, W) :
        key.table = p.tables[p.current] /\ key.k > p.last /\ (complete \/ key.k <= end)
            => [key |-> key, val |-> R[key]] \in rows

RowsTrue(R, W, rows) ==
    /\ \A r \in rows : r.key \in DOMAIN R /\ (r.key \notin W => r.val = R[r.key])
    /\ \A q, r \in rows : q.key.k = r.key.k => q = r

\* The rows of the table have keys above the first progress.
IsTable(R) ==
    /\ IsFiniteSet(DOMAIN R) /\ DOMAIN R \subseteq [table : STRING, k : Nat \ {0}]
    /\ \A key \in DOMAIN R : R[key] \in Nat

\* The controller.
ControllerKept(R, W, v, f, c) ==
    /\ c \in Controllers
    /\ c.prepare => Active(c) /\ ~c.progress.paused
    /\ Watched(c) => c.chunk # NoChunk
    /\ c.chunk # NoChunk => Active(c) /\ ChunkKept(R, W, c.progress, c.window, c.end, c.complete)
    /\ RowsTrue(R, W, c.window)
    /\ ProgressKept(R, W, v, f, Len(f), c.progress)

\* The chunk being prepared.
PrepKept(R, W, c, q) ==
    /\ q \in Preps
    /\ q.step # "none" => Active(c)
    /\ RowsTrue(R, W, q.rows)
    /\ q.step \in {"read", "close"} /\ c.progress.max = 0 =>
        \A key \in Untouched(R, W) : key.table = c.progress.tables[c.progress.current] => key.k <= q.max
    /\ q.step = "close" => ChunkKept(R, W, c.progress, q.rows, q.end, q.complete)

\* The database: what its log and its statements look like, and that a row changes only
\* where a transaction writes it.
DatabaseKept(R, W) ==
    /\ step \in Nat \ {0} /\ nextXid \in Nat /\ lastDone \in Nat
    /\ open \in [{s.tx : s \in Range(Script)} -> Nat]
    /\ wal \in Seq(WalRecords) /\ table \in [DOMAIN R -> Nat]
    /\ \A n \in DOMAIN wal :
        /\ wal[n].kind = "signal" => wal[n].signal \in Signals
        /\ wal[n].kind = "close" => wal[n].mark # NoChunk
    /\ \A key \in DOMAIN R \ W : table[key] = R[key]

\* What the connection carries.
WireKept ==
    /\ from \in Nat /\ decoded \in Nat /\ wire \in Seq(Events)
    /\ \A n \in DOMAIN wire :
        /\ wire[n].i \in DOMAIN wal
        /\ wire[n].kind \in {"put", "signal", "open", "close"} => wire[n].kind = wal[wire[n].i].kind

\* The records in flight, and the sink.
FlightKept(R, W, v, f) ==
    /\ f \in Seq(Items)
    /\ \A n \in DOMAIN f :
        /\ f[n].key \in DOMAIN R \ W => f[n].val = R[f[n].key]
        /\ ProgressKept(R, W, v, f, n, f[n].state.progress)

SinkKept(R, W) ==
    /\ view \in [DOMAIN R -> Nat] /\ \A key \in DOMAIN R \ W : view[key] \in {0, R[key]}
    /\ FlightKept(R, W, view, flight)
    /\ ckpt \in [pos : Nat, state : StateSet]
    /\ ProgressKept(R, W, view, flight, 0, ckpt.state.progress)

TaskKept(s) ==
    /\ setup = s /\ phase \in {"down", "running", "failed"}
    /\ txn \in Nat /\ resume \in Nat /\ lastSafe \in Nat /\ offset \in Nat
    /\ lines \in Seq(Signals) /\ ext \in {"idle", "taken", "sent", "acked"}

SnapshotKept(s) ==
    /\ TaskKept(s) /\ DatabaseKept(s.rows, Written) /\ WireKept /\ SinkKept(s.rows, Written)
    /\ ControllerKept(s.rows, Written, view, flight, ctl)
    /\ PrepKept(s.rows, Written, ctl, prep)

Kept == \E s \in Setups : SnapshotKept(s)

-----------------------------------------------------------------------------
(* Numbers and sequences.                                                   *)

\* InOrder enumerates its set in ascending order.
LEMMA InOrderFacts ==
    ASSUME NEW S, IsFiniteSet(S), S \subseteq Nat
    PROVE  /\ InOrder(S) \in Seq(S)
           /\ \A n, m \in DOMAIN InOrder(S) : n < m => InOrder(S)[n] < InOrder(S)[m]
           /\ \A i \in S : \E n \in DOMAIN InOrder(S) : InOrder(S)[n] = i
           /\ Cardinality(S) \in Nat /\ DOMAIN InOrder(S) = 1 .. Cardinality(S)
           /\ \A n \in DOMAIN InOrder(S) : Cardinality({j \in S : j <= InOrder(S)[n]}) = n
<1> DEFINE R(i) == {j \in S : j <= i}
           N == Cardinality(S)
           f == [i \in S |-> Cardinality(R(i))]
<1>0. N \in Nat
  BY FS_CardinalityType
<1>n. \A i \in S : i \in Nat
  OBVIOUS
<1>1. ASSUME NEW i \in S
      PROVE  IsFiniteSet(R(i)) /\ Cardinality(R(i)) \in 1 .. N
  <2>1. R(i) \in SUBSET S /\ i \in R(i)
    OBVIOUS
  <2>2. IsFiniteSet(R(i)) /\ Cardinality(R(i)) <= N
    BY <2>1, FS_Subset
  <2>3. Cardinality(R(i)) \in Nat /\ Cardinality(R(i)) # 0
    BY <2>1, <2>2, FS_CardinalityType, FS_EmptySet
  <2> HIDE DEF R, N
  <2> QED BY <1>0, <2>2, <2>3
<1>2. ASSUME NEW i \in S, NEW k \in S, i < k
      PROVE  Cardinality(R(i)) < Cardinality(R(k))
  <2>1. R(i) \in SUBSET R(k) /\ k \in R(k) /\ k \notin R(i)
    <3>1. i \in Nat /\ k \in Nat
      BY <1>n
    <3>2. \A j \in S : j <= i => j <= k
      BY <1>n, <1>2, <3>1
    <3>3. R(i) \in SUBSET R(k)
      BY <3>2
    <3>4. k \in R(k)
      BY <3>1
    <3>5. k \notin R(i)
      BY <1>2, <3>1
    <3> QED BY <3>3, <3>4, <3>5
  <2>2. /\ Cardinality(R(i)) <= Cardinality(R(k))
        /\ Cardinality(R(k)) = Cardinality(R(i)) => R(k) = R(i)
    BY <1>1, <2>1, FS_Subset
  <2>3. Cardinality(R(i)) \in Nat /\ Cardinality(R(k)) \in Nat
    BY <1>1
  <2> HIDE DEF R
  <2> QED BY <2>1, <2>2, <2>3
<1>3. \A n \in 1 .. N : \E i \in S : Cardinality(R(i)) = n
  <2>1. f \in [S -> 1 .. N]
    BY <1>1
  <2>2. \A i, k \in S : i # k => f[i] # f[k]
    <3>1. SUFFICES ASSUME NEW i \in S, NEW k \in S, i # k PROVE Cardinality(R(i)) # Cardinality(R(k))
      OBVIOUS
    <3>2. i < k \/ k < i
      BY <3>1
    <3>3. Cardinality(R(i)) \in Nat /\ Cardinality(R(k)) \in Nat
      BY <1>1
    <3>4. i < k => Cardinality(R(i)) < Cardinality(R(k))
      BY <1>2
    <3>5. k < i => Cardinality(R(k)) < Cardinality(R(i))
      BY <1>2
    <3> HIDE DEF R
    <3> QED BY <3>2, <3>3, <3>4, <3>5
  <2>3. f \in Injection(S, 1 .. N)
    BY <2>1, <2>2 DEF Injection, IsInjective
  <2>4. IsFiniteSet(1 .. N) /\ Cardinality(1 .. N) = Cardinality(S)
    BY <1>0, FS_Interval
  <2>5. f \in Surjection(S, 1 .. N)
    BY <2>3, <2>4, FS_Injection
  <2> QED BY <2>5 DEF Surjection
<1>4. ASSUME NEW n \in 1 .. N
      PROVE  InOrder(S)[n] \in S /\ Cardinality(R(InOrder(S)[n])) = n
  <2>1. InOrder(S)[n] = CHOOSE i \in S : Cardinality(R(i)) = n
    BY DEF InOrder
  <2>2. \E i \in S : Cardinality(R(i)) = n
    BY <1>3
  <2> HIDE DEF R
  <2> QED BY <2>1, <2>2
<1>5. DOMAIN InOrder(S) = 1 .. N
  BY DEF InOrder
<1>6. InOrder(S) \in Seq(S)
  <2>1. \A n \in 1 .. N : InOrder(S)[n] \in S
    BY <1>4
  <2>2. InOrder(S) \in [1 .. N -> S]
    <3> DEFINE e(n) == CHOOSE i \in S : Cardinality({j \in S : j <= i}) = n
    <3>1. InOrder(S) = [n \in 1 .. N |-> e(n)]
      BY DEF InOrder
    <3> HIDE DEF e, N
    <3> QED BY <2>1, <3>1
  <2> HIDE DEF N
  <2> QED BY <1>0, <2>2
<1>7. ASSUME NEW n \in 1 .. N, NEW m \in 1 .. N, n < m
      PROVE  InOrder(S)[n] < InOrder(S)[m]
  <2> DEFINE a == InOrder(S)[n]
             b == InOrder(S)[m]
  <2>1. a \in S /\ b \in S /\ Cardinality(R(a)) = n /\ Cardinality(R(b)) = m
    BY <1>4
  <2>2. b < a => Cardinality(R(b)) < Cardinality(R(a))
    BY <1>2, <2>1
  <2>3. a \in Nat /\ b \in Nat /\ a # b
    <3>1. a = b => n = m
      BY <2>1
    <3>2. n \in Nat /\ m \in Nat
      BY <1>0
    <3> HIDE DEF a, b, N
    <3> QED BY <1>n, <1>7, <2>1, <3>1, <3>2
  <2> HIDE DEF a, b, R
  <2>4. a < b
    BY <1>0, <1>7, <2>1, <2>2, <2>3
  <2> QED BY <2>4 DEF a, b
<1>8. ASSUME NEW i \in S PROVE \E n \in 1 .. N : InOrder(S)[n] = i
  <2> DEFINE n == Cardinality(R(i))
  <2>1. n \in 1 .. N
    BY <1>1
  <2>2. InOrder(S)[n] \in S /\ Cardinality(R(InOrder(S)[n])) = n
    BY <1>4, <2>1
  <2>3. InOrder(S)[n] = i
    <3>1. InOrder(S)[n] < i => Cardinality(R(InOrder(S)[n])) < n
      BY <1>2, <2>2
    <3>2. i < InOrder(S)[n] => n < Cardinality(R(InOrder(S)[n]))
      BY <1>2, <2>2
    <3>3. i \in Nat /\ InOrder(S)[n] \in Nat
      BY <1>n, <2>2
    <3>4. Cardinality(R(i)) \in Nat
      BY <1>0, <1>1
    <3> HIDE DEF R
    <3> QED BY <2>2, <3>1, <3>2, <3>3, <3>4
  <2> QED BY <2>1, <2>3
<1> QED BY <1>0, <1>4, <1>5, <1>6, <1>7, <1>8

\* The largest and the smallest of some numbers.
LEMMA Extremes ==
    ASSUME NEW S, IsFiniteSet(S), S \subseteq Nat, S # {}
    PROVE  /\ Max(S) \in S /\ \A i \in S : i <= Max(S)
           /\ Min(S) \in S /\ \A i \in S : Min(S) <= i
<1> DEFINE f == InOrder(S)
           N == Cardinality(S)
<1>1. /\ f \in Seq(S) /\ \A n, m \in DOMAIN f : n < m => f[n] < f[m]
      /\ \A i \in S : \E n \in DOMAIN f : f[n] = i
      /\ N \in Nat /\ DOMAIN f = 1 .. N
  BY InOrderFacts
<1> HIDE DEF f, N
<1>2. N >= 1
  <2>1. PICK i \in S : TRUE
    OBVIOUS
  <2>2. PICK n \in 1 .. N : f[n] = i
    BY <1>1
  <2> QED BY <1>1, <2>2
<1>3. f[1] \in S /\ f[N] \in S
  BY <1>1, <1>2
<1>4. ASSUME NEW i \in S PROVE f[1] <= i /\ i <= f[N]
  <2>1. PICK n \in 1 .. N : f[n] = i
    BY <1>1
  <2>2. f[1] \in Nat /\ f[N] \in Nat /\ i \in Nat
    BY <1>3
  <2>3. n = 1 \/ 1 < n
    OBVIOUS
  <2>4. n = N \/ n < N
    BY <1>1
  <2> QED BY <1>1, <1>2, <2>1, <2>2, <2>3, <2>4
<1>5. \E x \in S : \A y \in S : x >= y
  <2>1. \A y \in S : f[N] >= y
    BY <1>3, <1>4
  <2> QED BY <1>3, <2>1
<1>6. \E x \in S : \A y \in S : x =< y
  BY <1>3, <1>4
<1>7. Max(S) \in S /\ \A y \in S : Max(S) >= y
  BY <1>5 DEF Max
<1>8. Min(S) \in S /\ \A y \in S : Min(S) =< y
  BY <1>6 DEF Min
<1> QED BY <1>7, <1>8

\* Of the places retained, those before the current one come first, and it comes next.
LEMMA RetainFacts ==
    ASSUME NEW T, NEW seq \in Seq(T), NEW places \in SUBSET (DOMAIN seq), NEW current \in Nat,
           NEW Earlier \in SUBSET places, \A n \in places : n \in Earlier <=> n < current,
           NEW before, before = Cardinality(Earlier)
    PROVE  /\ IsFiniteSet(places) /\ Cardinality(places) \in Nat
           /\ Retain(seq, places) \in Seq(T) /\ DOMAIN Retain(seq, places) = 1 .. Cardinality(places)
           /\ before \in 0 .. Cardinality(places)
           /\ \A n \in DOMAIN Retain(seq, places) : n <= before =>
                \E i \in DOMAIN seq : i < current /\ Retain(seq, places)[n] = seq[i]
           /\ current \in places => /\ before + 1 \in DOMAIN Retain(seq, places)
                                    /\ Retain(seq, places)[before + 1] = seq[current]
<1> DEFINE f == InOrder(places)
           N == Cardinality(places)
           L(i) == {j \in places : j <= i}
<1>1. IsFiniteSet(places) /\ places \subseteq Nat /\ DOMAIN seq = 1 .. Len(seq) /\ Len(seq) \in Nat
  <2>1. DOMAIN seq = 1 .. Len(seq) /\ Len(seq) \in Nat
    OBVIOUS
  <2>2. IsFiniteSet(1 .. Len(seq))
    BY <2>1, FS_Interval
  <2> QED BY <2>1, <2>2, FS_Subset
<1>2. /\ f \in Seq(places) /\ N \in Nat /\ DOMAIN f = 1 .. N
      /\ \A i \in places : \E n \in DOMAIN f : f[n] = i
      /\ \A n \in DOMAIN f : Cardinality(L(f[n])) = n
  BY <1>1, InOrderFacts
<1>3. \A n \in 1 .. N : f[n] \in places
  BY <1>2
<1>4. IsFiniteSet(Earlier) /\ before \in Nat /\ before <= N
  <2>2. IsFiniteSet(Earlier) /\ Cardinality(Earlier) <= Cardinality(places)
    BY <1>1, FS_Subset
  <2> QED BY <2>2, FS_CardinalityType
<1>5. Retain(seq, places) = [n \in 1 .. N |-> seq[f[n]]]
  BY <1>2 DEF Retain
<1>6. Retain(seq, places) \in Seq(T) /\ DOMAIN Retain(seq, places) = 1 .. N
  <2>1. \A n \in 1 .. N : seq[f[n]] \in T
    BY <1>1, <1>3
  <2> HIDE DEF f, N
  <2> QED BY <1>2, <1>5, <2>1
<1>7. ASSUME NEW n \in 1 .. N, n <= before
      PROVE  f[n] < current
  <2>1. SUFFICES ASSUME f[n] >= current PROVE FALSE
    BY <1>1, <1>3
  <2>2. Earlier \in SUBSET L(f[n]) /\ f[n] \in L(f[n]) /\ f[n] \notin Earlier
    <3>1. f[n] \in places /\ f[n] \in Nat
      BY <1>1, <1>3
    <3>2. \A j \in places : j < current => j <= f[n]
      BY <1>1, <2>1, <3>1
    <3> HIDE DEF f
    <3> QED BY <2>1, <3>1, <3>2
  <2>3. IsFiniteSet(L(f[n]))
    <3>1. L(f[n]) \in SUBSET places
      OBVIOUS
    <3> QED BY <1>1, <3>1, FS_Subset
  <2>4. before <= n /\ (n = before => L(f[n]) = Earlier)
    <3>1. /\ Cardinality(Earlier) <= Cardinality(L(f[n]))
          /\ Cardinality(L(f[n])) = Cardinality(Earlier) => L(f[n]) = Earlier
      BY <2>2, <2>3, FS_Subset
    <3>2. Cardinality(L(f[n])) = n
      BY <1>2
    <3> HIDE DEF L, f
    <3> QED BY <3>1, <3>2
  <2> HIDE DEF f, L
  <2> QED BY <1>2, <1>4, <1>7, <2>2, <2>4
<1>8. ASSUME current \in places
      PROVE  before + 1 \in 1 .. N /\ f[before + 1] = current
  <2>1. PICK n \in 1 .. N : f[n] = current
    BY <1>2, <1>8
  <2>2. Cardinality(L(current)) = n
    BY <1>2, <2>1
  <2>3. L(current) = Earlier \cup {current} /\ current \notin Earlier
    BY <1>1, <1>8
  <2>4. Cardinality(Earlier \cup {current}) = before + 1
    BY <1>4, <2>3, FS_AddElement
  <2> HIDE DEF L, f
  <2> QED BY <2>1, <2>2, <2>3, <2>4
<1>9. ASSUME NEW n \in 1 .. N, n <= before
      PROVE  \E i \in DOMAIN seq : i < current /\ Retain(seq, places)[n] = seq[i]
  <2>1. f[n] \in DOMAIN seq /\ f[n] < current /\ Retain(seq, places)[n] = seq[f[n]]
    BY <1>3, <1>5, <1>7, <1>9
  <2> HIDE DEF f
  <2> QED BY <2>1
<1>10. ASSUME current \in places
       PROVE  before + 1 \in 1 .. N /\ Retain(seq, places)[before + 1] = seq[current]
  BY <1>5, <1>8, <1>10
<1> HIDE DEF f, N, L
<1>11. before \in 0 .. N
  BY <1>2, <1>4
<1> QED BY <1>1, <1>2, <1>6, <1>9, <1>10, <1>11 DEF N

\* A sequence that gets longer by one, or by another, and one that loses its head.
LEMMA Longer ==
    ASSUME NEW T, NEW f \in Seq(T), NEW e \in T
    PROVE  /\ Append(f, e) \in Seq(T) /\ Len(f) \in Nat /\ Len(Append(f, e)) = Len(f) + 1
           /\ DOMAIN f = 1 .. Len(f) /\ DOMAIN Append(f, e) = 1 .. Len(f) + 1
           /\ \A n \in DOMAIN f : n \in DOMAIN Append(f, e) /\ Append(f, e)[n] = f[n]
           /\ Append(f, e)[Len(f) + 1] = e
           /\ \A n \in DOMAIN Append(f, e) : n \in DOMAIN f \/ n = Len(f) + 1
OBVIOUS

LEMMA Joined ==
    ASSUME NEW T, NEW f \in Seq(T), NEW g \in Seq(T)
    PROVE  /\ f \o g \in Seq(T) /\ Len(f) \in Nat /\ Len(g) \in Nat /\ Len(f \o g) = Len(f) + Len(g)
           /\ DOMAIN f = 1 .. Len(f) /\ DOMAIN g = 1 .. Len(g) /\ DOMAIN (f \o g) = 1 .. Len(f) + Len(g)
           /\ \A n \in DOMAIN f : n \in DOMAIN (f \o g) /\ (f \o g)[n] = f[n]
           /\ \A n \in DOMAIN g : Len(f) + n \in DOMAIN (f \o g) /\ (f \o g)[Len(f) + n] = g[n]
           /\ \A n \in DOMAIN (f \o g) : n \in DOMAIN f \/ (n - Len(f) \in DOMAIN g /\ (f \o g)[n] = g[n - Len(f)])
OBVIOUS

LEMMA Shorter ==
    ASSUME NEW T, NEW f \in Seq(T), f # <<>>
    PROVE  /\ Tail(f) \in Seq(T) /\ Head(f) = f[1] /\ 1 \in DOMAIN f /\ Head(f) \in T
           /\ \A n \in DOMAIN Tail(f) : n + 1 \in DOMAIN f /\ Tail(f)[n] = f[n + 1]
OBVIOUS

-----------------------------------------------------------------------------
(* What is kept while more is written and sent.                             *)

\* A row stays kept when transactions write more rows and records are sent behind.
LEMMA ProgressStays ==
    ASSUME NEW R, NEW W, NEW X, W \subseteq X, NEW v, NEW f, NEW g, NEW n, NEW m, NEW p,
           \A i \in DOMAIN f : i <= n => i \in DOMAIN g /\ i <= m /\ g[i].key = f[i].key,
           ProgressKept(R, W, v, f, n, p)
    PROVE  ProgressKept(R, X, v, g, m, p)
<1>1. Untouched(R, X) \subseteq Untouched(R, W)
  BY DEF Untouched
<1>2. \A key : Arrives(R, v, f, n, key) => Arrives(R, v, g, m, key)
  BY DEF Arrives
<1> QED BY <1>1, <1>2 DEF ProgressKept

LEMMA RowsStay ==
    ASSUME NEW R, NEW W, NEW X, W \subseteq X, NEW rows, RowsTrue(R, W, rows)
    PROVE  RowsTrue(R, X, rows)
BY DEF RowsTrue

LEMMA ChunkStays ==
    ASSUME NEW R, NEW W, NEW X, W \subseteq X, NEW p, NEW rows, NEW end, NEW complete,
           ChunkKept(R, W, p, rows, end, complete)
    PROVE  ChunkKept(R, X, p, rows, end, complete)
BY DEF ChunkKept, Untouched

LEMMA ControllerStays ==
    ASSUME NEW R, NEW W, NEW X, W \subseteq X, NEW v, NEW f, NEW g, NEW c, Len(f) \in Nat, Len(g) \in Nat, Len(f) <= Len(g),
           DOMAIN f = 1 .. Len(f), DOMAIN g = 1 .. Len(g), \A i \in DOMAIN f : g[i].key = f[i].key,
           ControllerKept(R, W, v, f, c)
    PROVE  ControllerKept(R, X, v, g, c)
<1>1. ProgressKept(R, X, v, g, Len(g), c.progress)
  <2>1. \A i \in DOMAIN f : i <= Len(f) => i \in DOMAIN g /\ i <= Len(g) /\ g[i].key = f[i].key
    OBVIOUS
  <2>2. ProgressKept(R, W, v, f, Len(f), c.progress)
    BY DEF ControllerKept
  <2> QED BY <2>1, <2>2, ProgressStays
<1>2. RowsTrue(R, X, c.window) /\ (c.chunk # NoChunk => ChunkKept(R, X, c.progress, c.window, c.end, c.complete))
  BY RowsStay, ChunkStays DEF ControllerKept
<1> QED BY <1>1, <1>2 DEF ControllerKept

LEMMA PrepStays ==
    ASSUME NEW R, NEW W, NEW X, W \subseteq X, NEW c, NEW q, PrepKept(R, W, c, q)
    PROVE  PrepKept(R, X, c, q)
<1>1. Untouched(R, X) \subseteq Untouched(R, W)
  BY DEF Untouched
<1>2. RowsTrue(R, X, q.rows)
  BY RowsStay DEF PrepKept
<1>3. q.step = "close" => ChunkKept(R, X, c.progress, q.rows, q.end, q.complete)
  BY ChunkStays DEF PrepKept
<1> QED BY <1>1, <1>2, <1>3 DEF PrepKept

\* Nothing has to be kept of no progress.
LEMMA NoneKept ==
    ASSUME NEW R, NEW W, NEW v, NEW f, NEW n
    PROVE  /\ ProgressKept(R, W, v, f, n, NoProgress) /\ NoProgress \in ProgressSet
           /\ RowsTrue(R, W, {}) /\ NoChunk \in MarkSet /\ NoSnapshot \in Watermarks
BY DEF ProgressKept, Behind, NoProgress, ProgressSet, RowsTrue, NoChunk, MarkSet, NoSnapshot, Watermarks

\* A controller read from a checkpoint.
LEMMA NewKept ==
    ASSUME NEW R, NEW W, NEW v, NEW f, NEW saved \in StateSet,
           ProgressKept(R, W, v, f, Len(f), saved.progress)
    PROVE  /\ ControllerKept(R, W, v, f, New(saved)) /\ New(saved).progress = saved.progress
           /\ New(saved).dirty = FALSE
<1> DEFINE c == New(saved)
<1>1. /\ saved.progress \in ProgressSet /\ saved.completed \in Seq(Nat)
      /\ NoChunk \in MarkSet /\ NoSnapshot \in Watermarks /\ RowsTrue(R, W, {})
  BY NoneKept DEF StateSet
<1>2. c \in Controllers
  <2>1. {} \in SUBSET RowSet /\ "none" \in TableSet
    BY DEF TableSet
  <2> HIDE DEF c
  <2>2. c = [progress |-> saved.progress, completed |-> saved.completed, window |-> {}, table |-> "none",
             end |-> 0, complete |-> FALSE, chunk |-> NoChunk, open |-> FALSE, dirty |-> FALSE,
             prepare |-> FALSE, low |-> NoSnapshot, high |-> NoSnapshot]
    BY DEF c, New
  <2> QED BY <1>1, <2>1, <2>2 DEF Controllers
<1>3. /\ c.prepare = FALSE /\ c.high = NoSnapshot /\ c.chunk = NoChunk /\ c.window = {} /\ c.dirty = FALSE
      /\ c.progress = saved.progress
  BY DEF New
<1> HIDE DEF c
<1>4. ControllerKept(R, W, v, f, c)
  BY <1>1, <1>2, <1>3 DEF ControllerKept, Watched
<1> QED BY <1>3, <1>4 DEF c

-----------------------------------------------------------------------------
(* The operations of the controller.                                        *)

\* A controller whose chunk is as it was, and whose progress is or has been paused or
\* resumed.
LEMMA SameChunk ==
    ASSUME NEW R, NEW W, NEW v, NEW f, NEW c, ControllerKept(R, W, v, f, c), NEW d, d \in Controllers,
           d.chunk = c.chunk, d.high = c.high, d.window = c.window, d.end = c.end, d.complete = c.complete,
           d.progress = c.progress \/ (Active(c) /\ d.progress = [c.progress EXCEPT !.paused = d.progress.paused]),
           d.prepare => Active(d) /\ ~d.progress.paused
    PROVE  ControllerKept(R, W, v, f, d) /\ (Active(c) => Active(d))
<1>1. /\ c \in Controllers /\ c.progress \in ProgressSet /\ d.progress \in ProgressSet
      /\ ProgressKept(R, W, v, f, Len(f), c.progress)
  BY DEF ControllerKept, Controllers
<1>2. /\ d.progress.tables = c.progress.tables /\ d.progress.current = c.progress.current
      /\ d.progress.last = c.progress.last /\ d.progress.max = c.progress.max
      /\ d.progress.chunk = c.progress.chunk
  BY <1>1 DEF ProgressSet
<1>3. Active(c) => /\ d.progress.chunk # 0 /\ d.progress.current \in DOMAIN d.progress.tables
                   /\ Active(d)
  <2>1. Active(c) => c.progress.chunk # 0 /\ c.progress.current \in DOMAIN c.progress.tables
    BY <1>1 DEF ProgressKept, Active
  <2>2. NoProgress.chunk = 0
    BY DEF NoProgress
  <2> QED BY <1>2, <2>1, <2>2 DEF Active
<1>4. ProgressKept(R, W, v, f, Len(f), d.progress)
  BY <1>1, <1>2, <1>3 DEF ProgressKept, Behind, Active
<1>5. c.chunk # NoChunk => ChunkKept(R, W, d.progress, d.window, d.end, d.complete)
  BY <1>2 DEF ControllerKept, ChunkKept
<1> QED BY <1>3, <1>4, <1>5 DEF ControllerKept, Watched

LEMMA PauseKept ==
    ASSUME NEW R, NEW W, NEW v, NEW f, NEW c, ControllerKept(R, W, v, f, c)
    PROVE  ControllerKept(R, W, v, f, Pause(c))
<1>1. c \in Controllers /\ c.progress \in ProgressSet
  BY DEF ControllerKept, Controllers
<1>2. CASE Active(c) /\ ~c.progress.paused
  <2> DEFINE p == [c.progress EXCEPT !.paused = TRUE]
  <2>1. p \in ProgressSet /\ p.paused = TRUE
    BY <1>1 DEF ProgressSet
  <2>2. Pause(c) = [c EXCEPT !.progress = p, !.prepare = FALSE, !.dirty = TRUE]
    BY <1>1, <1>2 DEF Pause, Controllers
  <2>3. p = [c.progress EXCEPT !.paused = p.paused]
    BY <2>1
  <2> HIDE DEF p
  <2>4. /\ Pause(c) \in Controllers /\ Pause(c).chunk = c.chunk /\ Pause(c).high = c.high
        /\ Pause(c).window = c.window /\ Pause(c).end = c.end /\ Pause(c).complete = c.complete
        /\ Pause(c).progress = p /\ Pause(c).prepare = FALSE
    BY <1>1, <2>1, <2>2 DEF Controllers
  <2> QED BY <1>2, <2>3, <2>4, SameChunk
<1> QED BY <1>2 DEF Pause

LEMMA ResumeKept ==
    ASSUME NEW R, NEW W, NEW v, NEW f, NEW c, ControllerKept(R, W, v, f, c)
    PROVE  ControllerKept(R, W, v, f, Resume(c))
<1>1. c \in Controllers /\ c.progress \in ProgressSet
  BY DEF ControllerKept, Controllers
<1>2. CASE Active(c) /\ c.progress.paused
  <2> DEFINE p == [c.progress EXCEPT !.paused = FALSE]
             b == (c.table = "none")
  <2>1. p \in ProgressSet /\ p.paused = FALSE /\ b \in BOOLEAN
    BY <1>1 DEF ProgressSet
  <2>2. Resume(c) = [c EXCEPT !.progress = p, !.prepare = b, !.dirty = TRUE]
    BY <1>1, <1>2 DEF Resume, Controllers
  <2>3. p = [c.progress EXCEPT !.paused = p.paused]
    BY <2>1
  <2>4. p # NoProgress
    <3>1. c.progress.chunk # 0
      BY <1>2 DEF ControllerKept, ProgressKept, Active
    <3>2. p.chunk = c.progress.chunk /\ NoProgress.chunk = 0
      BY <1>1 DEF ProgressSet, NoProgress
    <3> QED BY <3>1, <3>2
  <2> HIDE DEF p, b
  <2>5. /\ Resume(c) \in Controllers /\ Resume(c).chunk = c.chunk /\ Resume(c).high = c.high
        /\ Resume(c).window = c.window /\ Resume(c).end = c.end /\ Resume(c).complete = c.complete
        /\ Resume(c).progress = p
    BY <1>1, <2>1, <2>2 DEF Controllers
  <2> QED BY <1>2, <2>1, <2>3, <2>4, <2>5, SameChunk DEF Active
<1> QED BY <1>2 DEF Resume

\* A progress that has just begun is behind no row.
LEMMA ExecuteKept ==
    ASSUME NEW R, IsTable(R), NEW W, NEW v, NEW f, NEW c, ControllerKept(R, W, v, f, c), ~Active(c),
           NEW s \in Signals, s.type = "execute"
    PROVE  /\ ControllerKept(R, W, v, f, Execute(c, s)) /\ Active(Execute(c, s))
           /\ ~Execute(c, s).progress.paused
<1> DEFINE p == [NoProgress EXCEPT !.id = s.id, !.tables = s.tables, !.chunk = 1]
<1>1. c \in Controllers
  BY DEF ControllerKept
<1>2. s.id \in Nat /\ s.tables \in Seq(STRING) /\ 1 \in DOMAIN s.tables
  <2>1. s.tables # <<>> /\ s.tables \in Seq(STRING) /\ s.id \in Nat
    BY DEF Signals
  <2> QED BY <2>1
<1>3. /\ p \in ProgressSet /\ p.current = 1 /\ p.last = 0 /\ p.max = 0 /\ p.chunk = 1
      /\ p.tables = s.tables /\ p.paused = FALSE
  <2>1. /\ NoProgress \in ProgressSet /\ NoProgress.current = 1 /\ NoProgress.last = 0 /\ NoProgress.max = 0
        /\ NoProgress.paused = FALSE
    BY NoneKept DEF NoProgress
  <2> QED BY <1>2, <2>1 DEF ProgressSet
<1>4. Execute(c, s) = [c EXCEPT !.progress = p, !.dirty = TRUE]
  BY DEF Execute
<1> HIDE DEF p
<1>5. p # NoProgress
  <2>1. NoProgress.chunk = 0
    BY DEF NoProgress
  <2> QED BY <1>3, <2>1
<1>6. /\ Execute(c, s) \in Controllers /\ Execute(c, s).progress = p /\ Execute(c, s).prepare = c.prepare
      /\ Execute(c, s).chunk = c.chunk /\ Execute(c, s).high = c.high /\ Execute(c, s).window = c.window
  BY <1>1, <1>3, <1>4 DEF Controllers
<1>7. ProgressKept(R, W, v, f, Len(f), p)
  <2>1. \A key \in DOMAIN R : key.k \in Nat /\ key.k > 0
    BY DEF IsTable
  <2>2. ASSUME NEW key \in DOMAIN R PROVE ~Behind(p, key)
    <3>1. DOMAIN p.tables \subseteq Nat \ {0}
      BY <1>2, <1>3
    <3> QED BY <1>3, <2>1, <3>1 DEF Behind
  <2> QED BY <1>2, <1>3, <2>2 DEF ProgressKept, Untouched
<1>8. c.chunk = NoChunk /\ ~Watched(c) /\ ~c.prepare /\ RowsTrue(R, W, c.window)
  BY DEF ControllerKept
<1> QED BY <1>3, <1>5, <1>6, <1>7, <1>8 DEF ControllerKept, Watched, Active

\* A chunk that is dropped leaves the progress as it is.
LEMMA ClearFacts ==
    ASSUME NEW c \in Controllers
    PROVE  /\ ClearChunk(c) \in Controllers /\ ClearChunk(c).chunk = NoChunk /\ ClearChunk(c).high = NoSnapshot
           /\ ClearChunk(c).window = {} /\ ClearChunk(c).prepare = FALSE
<1>1. NoChunk \in MarkSet /\ NoSnapshot \in Watermarks /\ "none" \in TableSet /\ {} \in SUBSET RowSet
  BY NoneKept DEF TableSet
<1>2. PICK none \in TableSet : none = "none"
  BY <1>1
<1>3. ClearChunk(c) = [c EXCEPT !.window = {}, !.table = none, !.end = 0, !.complete = FALSE, !.chunk = NoChunk,
                               !.open = FALSE, !.prepare = FALSE, !.low = NoSnapshot, !.high = NoSnapshot]
  BY <1>2 DEF ClearChunk
<1>4. ClearChunk(c) \in Controllers
  <2> DEFINE d == [c EXCEPT !.window = {}, !.table = none, !.end = 0, !.complete = FALSE, !.chunk = NoChunk]
  <2>1. d \in Controllers
    BY <1>1 DEF Controllers
  <2>2. ClearChunk(c) = [d EXCEPT !.open = FALSE, !.prepare = FALSE, !.low = NoSnapshot, !.high = NoSnapshot]
    BY <1>3
  <2> HIDE DEF d
  <2> QED BY <1>1, <2>1, <2>2 DEF Controllers
<1>5. /\ ClearChunk(c).chunk = NoChunk /\ ClearChunk(c).high = NoSnapshot
      /\ ClearChunk(c).window = {} /\ ClearChunk(c).prepare = FALSE
  BY <1>3 DEF Controllers
<1> QED BY <1>4, <1>5

\* The signals completed are a sequence of numbers.
LEMMA RememberType ==
    ASSUME NEW ids \in Seq(Nat), NEW id \in Nat
    PROVE  RememberCompleted(ids, id) \in Seq(Nat)
<1> DEFINE places == {n \in DOMAIN ids : ids[n] # id}
           all == Append(Retain(ids, places), id)
<1>1. Retain(ids, places) \in Seq(Nat)
  <2>1. places \in SUBSET DOMAIN ids /\ 0 \in Nat
    OBVIOUS
  <2>2. PICK none : none = {n \in places : n < 0}
    OBVIOUS
  <2>3. none \in SUBSET places /\ \A n \in places : n \in none <=> n < 0
    BY <2>2
  <2> HIDE DEF places
  <2> QED BY <2>1, <2>3, RetainFacts
<1>2. all \in Seq(Nat) /\ all # <<>>
  <2> HIDE DEF places
  <2> QED BY <1>1
<1>3. RememberCompleted(ids, id) \in {all, Tail(all)}
  BY DEF RememberCompleted
<1> HIDE DEF all
<1>4. Tail(all) \in Seq(Nat)
  BY <1>2
<1> QED BY <1>2, <1>3, <1>4

\* Collections are taken out of a snapshot: what is left was behind the progress only if
\* it had been before, and the current collection stays where it is, with its chunk, or
\* is followed from its start.
LEMMA StopKept ==
    ASSUME NEW R, IsTable(R), NEW W, NEW v, NEW f, NEW c, ControllerKept(R, W, v, f, c), NEW s \in Signals
    PROVE  ControllerKept(R, W, v, f, Stop(c, s))
<1> DEFINE p == c.progress
           kept == {n \in DOMAIN p.tables : ~(s.tables = <<>> \/ p.tables[n] \in Range(s.tables))}
           before == Cardinality({n \in kept : n < p.current})
           current == IF before + 1 < Cardinality(kept) THEN before + 1 ELSE Cardinality(kept)
           rest == [p EXCEPT !.tables = Retain(p.tables, kept), !.current = current]
           next == [rest EXCEPT !.last = 0, !.max = 0, !.chunk = p.chunk + 1]
           done == RememberCompleted(c.completed, p.id)
           e == ClearChunk(c)
           stopped == [e EXCEPT !.progress = NoProgress, !.dirty = TRUE, !.completed = done]
           moved == [e EXCEPT !.progress = next, !.prepare = ~p.paused, !.dirty = TRUE]
           fewer == [c EXCEPT !.progress = rest, !.dirty = TRUE]
<1>1. /\ c \in Controllers /\ p \in ProgressSet /\ c.completed \in Seq(Nat)
      /\ p.tables \in Seq(STRING) /\ p.current \in Nat \ {0} /\ p.id \in Nat /\ p.last \in Nat
      /\ p.chunk \in Nat /\ p.paused \in BOOLEAN
      /\ ProgressKept(R, W, v, f, Len(f), p)
  BY SMTT(30) DEF ControllerKept, Controllers, ProgressSet
<1>2. Stop(c, s) \in {c} \cup (IF ~Active(c) THEN {} ELSE IF kept = {} THEN {stopped} ELSE
                               IF p.current \notin kept THEN {moved} ELSE {fewer})
  BY DEF Stop
<1>3. done \in Seq(Nat)
  BY <1>1, RememberType
<1>4. /\ e \in Controllers /\ e.chunk = NoChunk /\ e.high = NoSnapshot /\ e.window = {} /\ e.prepare = FALSE
  BY <1>1, ClearFacts
<1>5. /\ IsFiniteSet(kept) /\ Cardinality(kept) \in Nat
      /\ Retain(p.tables, kept) \in Seq(STRING) /\ DOMAIN Retain(p.tables, kept) = 1 .. Cardinality(kept)
      /\ before \in 0 .. Cardinality(kept)
      /\ \A n \in DOMAIN Retain(p.tables, kept) : n <= before =>
            \E i \in DOMAIN p.tables : i < p.current /\ Retain(p.tables, kept)[n] = p.tables[i]
      /\ p.current \in kept => /\ before + 1 \in DOMAIN Retain(p.tables, kept)
                               /\ Retain(p.tables, kept)[before + 1] = p.tables[p.current]
  <2>1. kept \in SUBSET DOMAIN p.tables /\ p.current \in Nat
    BY <1>1
  <2> DEFINE earlier == {n \in kept : n < p.current}
  <2>2. earlier \in SUBSET kept /\ (\A n \in kept : n \in earlier <=> n < p.current) /\ before = Cardinality(earlier)
    OBVIOUS
  <2>3. PICK T : T = STRING
    OBVIOUS
  <2>4. p.tables \in Seq(T)
    BY <1>1, <2>3
  <2> HIDE DEF kept, p, before, earlier
  <2>5. Retain(p.tables, kept) \in Seq(T)
    BY <2>1, <2>2, <2>4, RetainFacts
  <2> QED BY <2>1, <2>2, <2>3, <2>4, <2>5, RetainFacts, SMTT(30)
<1> HIDE DEF kept, before, done, e
<1>6. CASE kept # {}
  <2>1. Cardinality(kept) >= 1
    BY <1>5, <1>6, FS_EmptySet
  <2>2. current \in 1 .. Cardinality(kept) /\ current <= before + 1
    BY <1>5, <2>1
  <2>3. /\ rest \in ProgressSet /\ rest.tables = Retain(p.tables, kept) /\ rest.current = current
        /\ rest.last = p.last /\ rest.max = p.max /\ rest.chunk = p.chunk /\ rest.paused = p.paused
    <3>1. current \in Nat \ {0} /\ Retain(p.tables, kept) \in Seq(STRING)
      BY <1>5, <2>2
    <3> HIDE DEF current, p
    <3> QED BY <1>1, <3>1 DEF ProgressSet
  <2> HIDE DEF p, rest, current
  <2>4. /\ next \in ProgressSet /\ next.tables = Retain(p.tables, kept) /\ next.current = current
        /\ next.last = 0 /\ next.max = 0 /\ next.chunk = p.chunk + 1 /\ next.paused = p.paused
    <3>1. p.chunk + 1 \in Nat /\ 0 \in Nat
      BY <1>1
    <3> QED BY <2>3, <3>1 DEF ProgressSet
  <2>5. ASSUME NEW key \in DOMAIN R, NEW q \in {rest, next}, Behind(q, key),
               (q.current = before + 1 /\ p.current \in kept /\ q.last = p.last) \/ q.last = 0
        PROVE  Behind(p, key)
    <3>1. PICK n \in DOMAIN q.tables : /\ key.table = q.tables[n]
                                       /\ n < q.current \/ (n = q.current /\ key.k <= q.last)
      BY <2>5 DEF Behind
    <3>2. /\ q.tables = Retain(p.tables, kept) /\ q.current = current /\ n \in 1 .. Cardinality(kept)
          /\ key.k \in Nat /\ key.k > 0
      <4>1. key.k \in Nat /\ key.k > 0
        BY DEF IsTable
      <4>2. q.tables = Retain(p.tables, kept) /\ q.current = current
        BY <2>3, <2>4
      <4>3. n \in 1 .. Cardinality(kept)
        BY <1>5, <3>1, <4>2
      <4> QED BY <4>1, <4>2, <4>3
    <3>3. CASE n < q.current
      <4>1. n <= before
        BY <1>5, <2>2, <3>2, <3>3
      <4>2. PICK i \in DOMAIN p.tables : i < p.current /\ q.tables[n] = p.tables[i]
        BY <1>5, <3>2, <4>1
      <4> QED BY <3>1, <4>2 DEF Behind
    <3>4. CASE n = q.current /\ key.k <= q.last
      <4>1. q.current = before + 1 /\ p.current \in kept /\ q.last = p.last
        BY <2>5, <3>2, <3>4
      <4>2. q.tables[n] = p.tables[p.current] /\ p.current \in DOMAIN p.tables
        BY <1>5, <3>2, <3>4, <4>1 DEF kept
      <4> QED BY <3>1, <3>4, <4>1, <4>2 DEF Behind
    <3> QED BY <3>1, <3>3, <3>4
  <2>6. CASE Active(c) /\ p.current \notin kept
    <3>1. ProgressKept(R, W, v, f, Len(f), next)
      <4>1. \A key \in Untouched(R, W) : Behind(next, key) => Behind(p, key)
        BY <2>4, <2>5 DEF Untouched
      <4> QED BY <1>1, <1>5, <2>2, <2>4, <4>1 DEF ProgressKept
    <3>2. next # NoProgress
      <4>1. NoProgress.chunk = 0
        BY DEF NoProgress
      <4>2. next.chunk # 0
        BY <1>1, <2>4
      <4> HIDE DEF next
      <4> QED BY <4>1, <4>2
    <3> HIDE DEF next
    <3>3. /\ moved \in Controllers /\ moved.progress = next /\ moved.prepare = (~p.paused) /\ moved.chunk = NoChunk
          /\ moved.high = NoSnapshot /\ moved.window = {}
      BY <1>1, <1>4, <2>4 DEF Controllers
    <3> HIDE DEF moved
    <3>4. ControllerKept(R, W, v, f, moved)
      BY <2>4, <3>1, <3>2, <3>3, NoneKept DEF ControllerKept, Active, Watched
    <3> QED BY <1>2, <1>6, <2>6, <3>4
  <2>7. CASE Active(c) /\ p.current \in kept
    <3>1. rest.current = before + 1 /\ rest.tables[rest.current] = p.tables[p.current]
      <4>1. before + 1 \in 1 .. Cardinality(kept) /\ Retain(p.tables, kept)[before + 1] = p.tables[p.current]
        BY <1>5, <2>7
      <4> QED BY <1>5, <2>3, <4>1 DEF current
    <3>2. ProgressKept(R, W, v, f, Len(f), rest)
      <4>1. \A key \in Untouched(R, W) : Behind(rest, key) => Behind(p, key)
        BY <2>3, <2>5, <2>7, <3>1 DEF Untouched
      <4>2. p # NoProgress
        BY <2>7 DEF p, Active
      <4> QED BY <1>1, <1>5, <2>2, <2>3, <3>1, <4>1, <4>2 DEF ProgressKept
    <3>3. rest # NoProgress
      <4>1. NoProgress.chunk = 0
        BY DEF NoProgress
      <4>2. p.chunk # 0
        BY <1>1, <2>7 DEF ProgressKept, Active, p
      <4> QED BY <2>3, <4>1, <4>2
    <3>4. /\ fewer \in Controllers /\ fewer.progress = rest /\ fewer.prepare = c.prepare /\ fewer.chunk = c.chunk
          /\ fewer.high = c.high /\ fewer.window = c.window /\ fewer.end = c.end /\ fewer.complete = c.complete
      BY <1>1, <2>3 DEF Controllers
    <3>5. c.chunk # NoChunk => ChunkKept(R, W, rest, c.window, c.end, c.complete)
      BY <2>3, <3>1 DEF ControllerKept, ChunkKept, p
    <3> HIDE DEF fewer
    <3>6. ControllerKept(R, W, v, f, fewer)
      <4>2. (c.prepare => ~c.progress.paused) /\ (Watched(c) => c.chunk # NoChunk) /\ RowsTrue(R, W, c.window)
        BY DEF ControllerKept
      <4> QED BY <2>3, <3>2, <3>3, <3>4, <3>5, <4>2 DEF ControllerKept, Active, Watched, p
    <3> QED BY <1>2, <1>6, <2>7, <3>6
  <2> QED BY <1>2, <1>6, <2>6, <2>7
<1>7. CASE kept = {} /\ Active(c)
  <2>1. /\ stopped \in Controllers /\ stopped.progress = NoProgress /\ stopped.prepare = FALSE /\ stopped.chunk = NoChunk
        /\ stopped.high = NoSnapshot /\ stopped.window = {}
    BY <1>3, <1>4, NoneKept DEF Controllers
  <2> HIDE DEF stopped
  <2>2. ControllerKept(R, W, v, f, stopped)
    BY <2>1, NoneKept DEF ControllerKept, Watched
  <2> QED BY <1>2, <1>7, <2>2
<1> QED BY <1>2, <1>6, <1>7

\* The numbers of finitely many keys.
LEMMA NumbersFinite ==
    ASSUME NEW T, IsFiniteSet(T)
    PROVE  IsFiniteSet({key.k : key \in T})
<1> DEFINE S == {key.k : key \in T}
           g == [key \in T |-> key.k]
<1>1. g \in Surjection(T, S)
  BY DEF Surjection
<1> HIDE DEF g, S
<1>2. IsFiniteSet(S)
  BY <1>1, FS_Surjection
<1> QED BY <1>2 DEF S

\* The rows of a window are sent, each with the value the table had.
LEMMA WindowFacts ==
    ASSUME NEW R, IsTable(R), NEW W, NEW rows \in SUBSET RowSet, RowsTrue(R, W, rows), NEW pos \in Nat
    PROVE  /\ WindowRecords(pos, rows) \in Seq(Items)
           /\ \A n \in DOMAIN WindowRecords(pos, rows) :
                LET e == WindowRecords(pos, rows)[n]
                IN  (e.key \in DOMAIN R \ W => e.val = R[e.key]) /\ e.state.progress = NoProgress
           /\ \A r \in rows : \E n \in DOMAIN WindowRecords(pos, rows) : WindowRecords(pos, rows)[n].key = r.key
<1> DEFINE ks == {r.key.k : r \in rows}
           f == InOrder(ks)
           N == Cardinality(ks)
           Row(k) == CHOOSE r \in rows : r.key.k = k
           e(n) == Item(pos, Row(f[n]).key, Row(f[n]).val, FALSE, NoState, FALSE)
<1>1. IsFiniteSet(ks) /\ ks \subseteq Nat
  <2> DEFINE all == {key.k : key \in DOMAIN R}
  <2>1. IsFiniteSet(all)
    <3>1. IsFiniteSet(DOMAIN R)
      BY DEF IsTable
    <3> QED BY <3>1, NumbersFinite
  <2>2. ks \in SUBSET all
    BY DEF RowsTrue
  <2>3. ks \subseteq Nat
    BY DEF RowSet, KeySet
  <2> HIDE DEF ks, all
  <2> QED BY <2>1, <2>2, <2>3, FS_Subset
<1>2. /\ f \in Seq(ks) /\ N \in Nat /\ DOMAIN f = 1 .. N
      /\ \A k \in ks : \E n \in DOMAIN f : f[n] = k
  <2> HIDE DEF ks
  <2> QED BY <1>1, InOrderFacts
<1>3. \A k \in ks : Row(k) \in rows /\ Row(k).key.k = k
  OBVIOUS
<1>4. WindowRecords(pos, rows) = [n \in 1 .. N |-> e(n)]
  BY <1>2 DEF WindowRecords
<1>5. NoState \in StateSet /\ NoState.progress = NoProgress
  <2>1. NoState = [progress |-> NoProgress, completed |-> <<0>>]
    BY DEF NoState, State, New
  <2>2. <<0>> \in Seq(Nat)
    OBVIOUS
  <2> QED BY <2>1, <2>2, NoneKept DEF StateSet
<1>6. ASSUME NEW n \in 1 .. N
      PROVE  /\ e(n) \in Items /\ e(n).state.progress = NoProgress
             /\ e(n).key = Row(f[n]).key /\ Row(f[n]) \in rows
             /\ e(n).key \in DOMAIN R \ W => e(n).val = R[e(n).key]
  <2>1. f[n] \in ks
    <3> HIDE DEF f, N, ks
    <3> QED BY <1>2
  <2>2. PICK r \in rows : r = Row(f[n])
    BY <1>3, <2>1
  <2>3. r.key \in KeySet /\ r.val \in Nat
    BY DEF RowSet
  <2>4. e(n) = [pos |-> pos, key |-> r.key, val |-> r.val, commit |-> FALSE, state |-> NoState, ack |-> FALSE]
    BY <2>2 DEF Item
  <2> HIDE DEF e, Row
  <2>5. e(n) \in Items
    BY <1>5, <2>3, <2>4 DEF Items
  <2>6. e(n).key = r.key /\ e(n).val = r.val /\ e(n).state = NoState
    BY <2>4
  <2> QED BY <1>5, <2>2, <2>5, <2>6 DEF RowsTrue
<1>7. ASSUME NEW r \in rows PROVE \E n \in 1 .. N : e(n).key = r.key
  <2>1. r.key.k \in ks
    OBVIOUS
  <2>2. PICK n \in 1 .. N : f[n] = r.key.k
    BY <1>2, <2>1
  <2>3. Row(f[n]) \in rows /\ Row(f[n]).key.k = r.key.k
    BY <1>3, <2>1, <2>2
  <2>4. Row(f[n]) = r
    BY <2>3 DEF RowsTrue
  <2> HIDE DEF e, Row
  <2> QED BY <1>6, <2>4
<1> HIDE DEF e, N, f, Row, ks
<1>8. WindowRecords(pos, rows) \in Seq(Items) /\ DOMAIN WindowRecords(pos, rows) = 1 .. N
  <2>1. \A n \in 1 .. N : e(n) \in Items
    BY <1>6
  <2> QED BY <1>2, <1>4, <2>1
<1>9. \A n \in 1 .. N : WindowRecords(pos, rows)[n] = e(n)
  BY <1>4
<1> QED BY <1>6, <1>7, <1>8, <1>9, SMTT(30)

\* Records sent behind others.
LEMMA FlightJoined ==
    ASSUME NEW R, NEW W, NEW v, NEW f, FlightKept(R, W, v, f), NEW h \in Seq(Items),
           \A n \in DOMAIN h :
                /\ h[n].key \in DOMAIN R \ W => h[n].val = R[h[n].key]
                /\ ProgressKept(R, W, v, f \o h, Len(f) + n, h[n].state.progress)
    PROVE  FlightKept(R, W, v, f \o h)
<1> DEFINE g == f \o h
<1>1. f \in Seq(Items)
  BY DEF FlightKept
<1>2. /\ g \in Seq(Items) /\ Len(f) \in Nat /\ DOMAIN f = 1 .. Len(f) /\ DOMAIN h = 1 .. Len(h) /\ Len(h) \in Nat
      /\ \A n \in DOMAIN f : n \in DOMAIN g /\ g[n] = f[n]
      /\ \A n \in DOMAIN g : n \in DOMAIN f \/ (n - Len(f) \in DOMAIN h /\ g[n] = h[n - Len(f)])
  BY <1>1, Joined
<1> HIDE DEF g
<1>3. ASSUME NEW n \in DOMAIN f
      PROVE  ProgressKept(R, W, v, g, n, g[n].state.progress) /\ (g[n].key \in DOMAIN R \ W => g[n].val = R[g[n].key])
  <2>1. \A i \in DOMAIN f : i <= n => i \in DOMAIN g /\ i <= n /\ g[i].key = f[i].key
    BY <1>2
  <2>2. ProgressKept(R, W, v, f, n, f[n].state.progress) /\ g[n] = f[n]
    BY <1>2 DEF FlightKept
  <2>3. ProgressKept(R, W, v, g, n, f[n].state.progress)
    BY <2>1, <2>2, ProgressStays
  <2> QED BY <2>2, <2>3 DEF FlightKept
<1>4. ASSUME NEW n \in DOMAIN g, n - Len(f) \in DOMAIN h, g[n] = h[n - Len(f)]
      PROVE  ProgressKept(R, W, v, g, n, g[n].state.progress) /\ (g[n].key \in DOMAIN R \ W => g[n].val = R[g[n].key])
  <2>1. n = Len(f) + (n - Len(f))
    <3>1. n \in Int
      BY <1>2
    <3> QED BY <1>2, <3>1
  <2> QED BY <1>4, <2>1 DEF g
<1>5. FlightKept(R, W, v, g)
  BY <1>2, <1>3, <1>4 DEF FlightKept
<1> QED BY <1>5 DEF g

LEMMA FlightAppended ==
    ASSUME NEW R, NEW W, NEW v, NEW f, FlightKept(R, W, v, f), NEW e \in Items,
           e.key \in DOMAIN R \ W => e.val = R[e.key],
           ProgressKept(R, W, v, f, Len(f), e.state.progress)
    PROVE  FlightKept(R, W, v, Append(f, e))
<1>1. f \in Seq(Items)
  BY DEF FlightKept
<1> DEFINE h == <<e>>
           g == f \o h
<1>2. h \in Seq(Items) /\ DOMAIN h = {1} /\ h[1] = e /\ g = Append(f, e)
  BY <1>1
<1>3. /\ Len(f) \in Nat /\ DOMAIN f = 1 .. Len(f)
      /\ \A n \in DOMAIN f : n \in DOMAIN g /\ g[n] = f[n]
  BY <1>1, <1>2, Joined
<1> HIDE DEF h, g
<1>4. ProgressKept(R, W, v, g, Len(f) + 1, e.state.progress)
  <2>1. \A i \in DOMAIN f : i <= Len(f) => i \in DOMAIN g /\ i <= Len(f) + 1 /\ g[i].key = f[i].key
    BY <1>3
  <2> QED BY <2>1, ProgressStays
<1>5. FlightKept(R, W, v, f \o h)
  BY <1>2, <1>4, FlightJoined DEF g
<1> QED BY <1>2, <1>5 DEF g


\* A sequence that another begins with.
Begins(f, g) ==
    /\ Len(f) \in Nat /\ Len(g) \in Nat /\ Len(f) <= Len(g) /\ DOMAIN f = 1 .. Len(f) /\ DOMAIN g = 1 .. Len(g)
    /\ \A i \in DOMAIN f : g[i] = f[i]

\* Records that show all rows of a window.
Shows(g, rows) == \A r \in rows : \E m \in DOMAIN g : g[m].key = r.key

\* The rows of a window are in flight once they have been sent.
LEMMA WindowSent ==
    ASSUME NEW R, IsTable(R), NEW W, NEW v, NEW f, FlightKept(R, W, v, f), NEW rows \in SUBSET RowSet,
           RowsTrue(R, W, rows), NEW pos \in Nat, NEW g, g = f \o WindowRecords(pos, rows)
    PROVE  FlightKept(R, W, v, g) /\ Begins(f, g) /\ Shows(g, rows)
<1> DEFINE h == WindowRecords(pos, rows)
<1>1. /\ h \in Seq(Items)
      /\ \A n \in DOMAIN h : (h[n].key \in DOMAIN R \ W => h[n].val = R[h[n].key]) /\ h[n].state.progress = NoProgress
      /\ \A r \in rows : \E n \in DOMAIN h : h[n].key = r.key
  BY WindowFacts
<1>2. f \in Seq(Items)
  BY DEF FlightKept
<1> HIDE DEF h
<1>3. /\ g \in Seq(Items) /\ Len(f) \in Nat /\ Len(h) \in Nat /\ Len(g) = Len(f) + Len(h)
      /\ DOMAIN f = 1 .. Len(f) /\ DOMAIN g = 1 .. Len(f) + Len(h)
      /\ \A n \in DOMAIN f : g[n] = f[n]
      /\ \A n \in DOMAIN h : Len(f) + n \in DOMAIN g /\ g[Len(f) + n] = h[n]
  BY <1>1, <1>2, Joined DEF h
<1>4. FlightKept(R, W, v, g)
  <2>1. FlightKept(R, W, v, f \o h)
    BY <1>1, NoneKept, FlightJoined
  <2> QED BY <2>1 DEF h
<1>5. Shows(g, rows)
  BY <1>1, <1>3, ZenonT(40) DEF Shows
<1>6. Len(g) \in Nat /\ Len(f) <= Len(g) /\ DOMAIN g = 1 .. Len(g) /\ DOMAIN f = 1 .. Len(f) /\ Len(f) \in Nat
  BY ONLY <1>3
<1>7. Begins(f, g)
  <2>1. \A i \in DOMAIN f : g[i] = f[i]
    BY ONLY <1>3
  <2> QED BY ONLY <1>6, <2>1 DEF Begins
<1> QED BY <1>4, <1>5, <1>7

\* The chunk's rows have been sent, and the progress moves behind them.
LEMMA CloseKept ==
    ASSUME NEW R, IsTable(R), NEW W, NEW v, NEW f, FlightKept(R, W, v, f), NEW c, ControllerKept(R, W, v, f, c),
           c.chunk # NoChunk, NEW pos \in Nat, NEW g, g = f \o WindowRecords(pos, c.window)
    PROVE  ControllerKept(R, W, v, g, Close(c)) /\ (Close(c).prepare => Continues(Close(c)))
<1> DEFINE p == c.progress
           next == IF c.complete
                   THEN [p EXCEPT !.current = p.current + 1, !.last = 0, !.max = 0, !.chunk = p.chunk + 1]
                   ELSE [p EXCEPT !.last = c.end, !.chunk = p.chunk + 1]
           done == RememberCompleted(c.completed, p.id)
           a == Advance(c)
           continues == Continues(a)
           d == Close(c)
<1>1. /\ c \in Controllers /\ p \in ProgressSet /\ c.completed \in Seq(Nat) /\ c.window \in SUBSET RowSet
      /\ p.tables \in Seq(STRING) /\ p.current \in Nat \ {0} /\ p.id \in Nat /\ p.last \in Nat /\ p.max \in Nat
      /\ p.chunk \in Nat /\ c.end \in Nat /\ c.complete \in BOOLEAN
      /\ ProgressKept(R, W, v, f, Len(f), p) /\ RowsTrue(R, W, c.window)
      /\ ChunkKept(R, W, p, c.window, c.end, c.complete) /\ p # NoProgress
  BY DEF ControllerKept, Controllers, ProgressSet, Active
<1>2. /\ Len(f) \in Nat /\ Len(g) \in Nat /\ Len(f) <= Len(g) /\ DOMAIN f = 1 .. Len(f) /\ DOMAIN g = 1 .. Len(g)
      /\ \A i \in DOMAIN f : g[i] = f[i]
      /\ \A r \in c.window : \E m \in DOMAIN g : g[m].key = r.key
  <2>1. PICK rows \in SUBSET RowSet : rows = c.window
    BY <1>1
  <2>2. RowsTrue(R, W, rows) /\ g = f \o WindowRecords(pos, rows)
    BY <1>1, <2>1
  <2>3. Begins(f, g) /\ Shows(g, rows)
    BY ONLY <2>2, IsTable(R), FlightKept(R, W, v, f), pos \in Nat, WindowSent
  <2> QED BY <2>1, <2>3 DEF Begins, Shows
<1>3. done \in Seq(Nat)
  BY <1>1, RememberType
<1>4. /\ next \in ProgressSet /\ next.tables = p.tables /\ next.chunk = p.chunk + 1
      /\ c.complete => next.current = p.current + 1 /\ next.last = 0 /\ next.max = 0
      /\ ~c.complete => next.current = p.current /\ next.last = c.end /\ next.max = p.max
  <2> HIDE DEF p
  <2>1. p.current + 1 \in Nat \ {0} /\ p.chunk + 1 \in Nat
    BY <1>1
  <2> QED BY <1>1, <2>1 DEF ProgressSet
<1>5. a \in {[c EXCEPT !.progress = NoProgress, !.completed = done]} \cup
            (IF next.current > Len(p.tables) THEN {} ELSE {[c EXCEPT !.progress = next]})
  <2>1. a = IF next.current > Len(p.tables) THEN [c EXCEPT !.progress = NoProgress, !.completed = done]
            ELSE [c EXCEPT !.progress = next]
    BY DEF Advance
  <2> HIDE DEF a, next, done, p
  <2> QED BY <2>1
<1> HIDE DEF done, next, a, p
<1>6. /\ a \in Controllers
      /\ a.progress = NoProgress \/ (a.progress = next /\ next.current <= Len(p.tables))
  <2>1. next.current \in Nat /\ Len(p.tables) \in Nat
    BY <1>1, <1>4 DEF ProgressSet
  <2>2. [c EXCEPT !.progress = NoProgress, !.completed = done] \in Controllers
    BY <1>1, <1>3, NoneKept DEF Controllers
  <2>3. [c EXCEPT !.progress = next] \in Controllers
    BY <1>1, <1>4 DEF Controllers
  <2>4. /\ [c EXCEPT !.progress = NoProgress, !.completed = done].progress = NoProgress
        /\ [c EXCEPT !.progress = next].progress = next
    BY <1>1 DEF Controllers
  <2>5. CASE next.current > Len(p.tables)
    BY <1>5, <2>2, <2>4, <2>5
  <2>6. CASE ~(next.current > Len(p.tables))
    <3>1. next.current <= Len(p.tables)
      BY <2>1, <2>6
    <3> QED BY <1>5, <2>2, <2>3, <2>4, <2>6, <3>1
  <2> QED BY <2>5, <2>6
<1>7. /\ d \in Controllers /\ d.progress = a.progress /\ d.prepare = continues
      /\ d.chunk = NoChunk /\ d.high = NoSnapshot /\ d.window = {}
  <2>1. NoChunk \in MarkSet /\ NoSnapshot \in Watermarks /\ "none" \in TableSet /\ {} \in SUBSET RowSet
    BY NoneKept DEF TableSet
  <2>2. PICK none \in TableSet : none = "none"
    BY <2>1
  <2>3. continues \in BOOLEAN
    BY <1>6 DEF Continues, Active, Controllers, ProgressSet
  <2>4. d = [a EXCEPT !.window = {}, !.table = none, !.open = FALSE, !.chunk = NoChunk,
                      !.low = NoSnapshot, !.high = NoSnapshot, !.dirty = TRUE, !.prepare = continues]
    BY <2>2 DEF Close, a
  <2> HIDE DEF d, continues
  <2> QED BY <1>6, <2>1, <2>3, <2>4 DEF Controllers
<1>8. d.prepare => Continues(d)
  BY <1>7 DEF Continues, Active
<1> HIDE DEF d, continues
<1>9. ASSUME next.current <= Len(p.tables)
      PROVE  ProgressKept(R, W, v, g, Len(g), next)
  <2>1. \A key : Arrives(R, v, f, Len(f), key) => Arrives(R, v, g, Len(g), key)
    BY <1>2 DEF Arrives
  <2>2. ASSUME NEW key \in Untouched(R, W), Behind(next, key) PROVE Arrives(R, v, g, Len(g), key)
    <3>1. key.k \in Nat /\ key.k > 0
      BY DEF IsTable, Untouched
    <3>2. PICK n \in DOMAIN p.tables : /\ key.table = p.tables[n]
                                       /\ n < next.current \/ (n = next.current /\ key.k <= next.last)
      BY <1>4, <2>2 DEF Behind
    <3>3. CASE Behind(p, key)
      BY <1>1, <2>1, <3>3 DEF ProgressKept
    <3>4. CASE ~Behind(p, key)
      <4>1. n \in Nat
        BY <1>1
      <4>2. n = p.current /\ key.k > p.last /\ (c.complete \/ key.k <= c.end)
        <5>1. ~(n < p.current) /\ (n = p.current => ~(key.k <= p.last))
          BY <3>2, <3>4 DEF Behind
        <5>2. p.current \in Nat /\ p.last \in Nat /\ c.end \in Nat /\ c.complete \in BOOLEAN
          BY <1>1
        <5>3. CASE c.complete
          BY ONLY <1>4, <3>1, <3>2, <4>1, <5>1, <5>2, <5>3
        <5>4. CASE ~c.complete
          BY ONLY <1>4, <3>1, <3>2, <4>1, <5>1, <5>2, <5>4
        <5> QED BY <5>2, <5>3, <5>4
      <4>3. [key |-> key, val |-> R[key]] \in c.window
        BY <1>1, <3>2, <4>2 DEF ChunkKept
      <4>4. PICK m \in DOMAIN g : g[m].key = key
        BY <1>2, <4>3
      <4> QED BY <1>2, <4>4 DEF Arrives
    <3> QED BY <3>3, <3>4
  <2>3. next.max # 0 => \A key \in Untouched(R, W) : key.table = next.tables[next.current] => key.k <= next.max
    BY <1>1, <1>4 DEF ProgressKept
  <2>4. next.chunk # 0 /\ next.current \in DOMAIN next.tables
    BY <1>1, <1>4, <1>9 DEF ProgressSet
  <2> QED BY <2>2, <2>3, <2>4 DEF ProgressKept
<1>10. ProgressKept(R, W, v, g, Len(g), d.progress)
  BY <1>6, <1>7, <1>9, NoneKept
<1>11. ControllerKept(R, W, v, g, d)
  BY <1>7, <1>8, <1>10, NoneKept DEF ControllerKept, Watched, Continues
<1> QED BY <1>8, <1>11 DEF d


\* A row that transactions have written is taken out of the window.
LEMMA DeduplicateKept ==
    ASSUME NEW R, NEW W, NEW v, NEW f, NEW c, ControllerKept(R, W, v, f, c), NEW key \in W
    PROVE  /\ ControllerKept(R, W, v, f, Deduplicate(c, key))
           /\ Deduplicate(c, key).progress = c.progress /\ Deduplicate(c, key).prepare = c.prepare
<1> DEFINE left == {r \in c.window : r.key # key}
           d == [c EXCEPT !.window = left]
<1>1. c \in Controllers /\ c.window \in SUBSET RowSet
  BY DEF ControllerKept, Controllers
<1>2. left \in SUBSET RowSet /\ left \subseteq c.window
  BY <1>1
<1>3. Deduplicate(c, key) \in {c, d}
  BY DEF Deduplicate
<1>4. RowsTrue(R, W, left)
  BY <1>2 DEF ControllerKept, RowsTrue
<1>5. c.chunk # NoChunk => ChunkKept(R, W, c.progress, left, c.end, c.complete)
  <2>1. ASSUME NEW k \in Untouched(R, W), [key |-> k, val |-> R[k]] \in c.window
        PROVE  [key |-> k, val |-> R[k]] \in left
    BY <2>1 DEF Untouched
  <2> HIDE DEF left
  <2> QED BY <2>1 DEF ControllerKept, ChunkKept
<1> HIDE DEF left
<1>6. /\ d \in Controllers /\ d.progress = c.progress /\ d.prepare = c.prepare /\ d.chunk = c.chunk /\ d.high = c.high
      /\ d.window = left /\ d.end = c.end /\ d.complete = c.complete
  BY <1>1, <1>2 DEF Controllers
<1> HIDE DEF d
<1>7. ControllerKept(R, W, v, f, d)
  BY <1>4, <1>5, <1>6 DEF ControllerKept, Watched, Active
<1> QED BY <1>3, <1>6, <1>7

\* A window that is opened.
LEMMA ObserveKept ==
    ASSUME NEW R, NEW W, NEW v, NEW f, NEW c, ControllerKept(R, W, v, f, c), NEW b \in BOOLEAN,
           NEW d, d = [c EXCEPT !.open = b]
    PROVE  ControllerKept(R, W, v, f, d)
<1>1. c \in Controllers
  BY DEF ControllerKept
<1>2. /\ d \in Controllers /\ d.progress = c.progress /\ d.prepare = c.prepare /\ d.chunk = c.chunk /\ d.high = c.high
      /\ d.window = c.window /\ d.end = c.end /\ d.complete = c.complete
  BY <1>1 DEF Controllers
<1>3. d.prepare => Active(d) /\ ~d.progress.paused
  BY <1>2 DEF ControllerKept, Active
<1> QED BY <1>2, <1>3, SameChunk

\* The flags of a controller say nothing of its rows.
LEMMA FlagsKept ==
    ASSUME NEW R, NEW W, NEW v, NEW f, NEW c, ControllerKept(R, W, v, f, c), NEW d \in Controllers,
           d.chunk = c.chunk, d.high = c.high, d.window = c.window, d.end = c.end, d.complete = c.complete,
           d.progress = c.progress, d.prepare => c.prepare
    PROVE  ControllerKept(R, W, v, f, d)
<1>1. d.prepare => Active(d) /\ ~d.progress.paused
  BY DEF ControllerKept, Active
<1> QED BY <1>1, SameChunk

LEMMA HandleKept ==
    ASSUME NEW R, IsTable(R), NEW W, NEW v, NEW f, NEW c, ControllerKept(R, W, v, f, c), NEW s \in Signals
    PROVE  /\ ControllerKept(R, W, v, f, Handle(c, s))
           /\ Accepts(c, s) => Active(Handle(c, s)) /\ ~Handle(c, s).progress.paused
<1>1. s.type \in {"execute", "stop", "pause", "resume"}
  BY DEF Signals
<1>2. CASE s.type = "execute"
  <2>1. Handle(c, s) = IF Accepts(c, s) THEN Execute(c, s) ELSE c
    BY <1>2 DEF Handle
  <2>2. Accepts(c, s) => ~Active(c)
    BY DEF Accepts
  <2>3. ~Active(c) => /\ ControllerKept(R, W, v, f, Execute(c, s)) /\ Active(Execute(c, s))
                      /\ ~Execute(c, s).progress.paused
    BY <1>2, ExecuteKept
  <2> QED BY <2>1, <2>2, <2>3
<1>3. s.type # "execute" => ~Accepts(c, s)
  BY DEF Accepts
<1>4. CASE s.type = "stop"
  BY <1>3, <1>4, StopKept DEF Handle
<1>5. CASE s.type = "pause"
  BY <1>3, <1>5, PauseKept DEF Handle
<1>6. CASE s.type = "resume"
  BY <1>3, <1>6, ResumeKept DEF Handle
<1> QED BY <1>1, <1>2, <1>4, <1>5, <1>6

\* A read-only event may open the window and close it.
LEMMA EventKept ==
    ASSUME NEW R, IsTable(R), NEW W, NEW v, FlightKept(R, W, v, flight), ControllerKept(R, W, v, flight, ctl),
           NEW xid, NEW pos \in Nat, NEW sent, sent = flight \o WindowRecords(pos, RowsAtEvent(xid))
    PROVE  FlightKept(R, W, v, sent) /\ ControllerKept(R, W, v, sent, AfterEvent(xid))
<1> DEFINE c == Observed(xid)
<1>1. ControllerKept(R, W, v, flight, c)
  <2>1. c \in {ctl, [ctl EXCEPT !.open = TRUE]}
    BY DEF Observed, Observe
  <2> HIDE DEF c
  <2> QED BY <2>1, ObserveKept
<1> HIDE DEF c
<1>2. CASE ClosesAtEvent(c, xid)
  <2>1. AfterEvent(xid) = Close(c) /\ RowsAtEvent(xid) = c.window /\ c.chunk # NoChunk
    BY <1>1, <1>2 DEF AfterEvent, RowsAtEvent, c, ClosesAtEvent, ControllerKept
  <2>2. c.window \in SUBSET RowSet /\ RowsTrue(R, W, c.window)
    BY <1>1 DEF ControllerKept, Controllers
  <2>3. PICK rows \in SUBSET RowSet : rows = c.window
    BY <2>2
  <2>4. sent = flight \o WindowRecords(pos, rows) /\ RowsTrue(R, W, rows)
    BY <2>1, <2>2, <2>3
  <2>5. FlightKept(R, W, v, sent)
    BY ONLY <2>4, IsTable(R), FlightKept(R, W, v, flight), pos \in Nat, WindowSent
  <2>6. ControllerKept(R, W, v, sent, Close(c))
    BY <1>1, <2>1, CloseKept
  <2> QED BY <2>1, <2>5, <2>6
<1>3. CASE ~ClosesAtEvent(c, xid)
  <2>1. AfterEvent(xid) = c /\ RowsAtEvent(xid) = {}
    BY <1>3 DEF AfterEvent, RowsAtEvent, c
  <2>2. PICK rows \in SUBSET RowSet : rows = {}
    OBVIOUS
  <2>3. sent = flight \o WindowRecords(pos, rows) /\ RowsTrue(R, W, rows)
    BY <2>1, <2>2, NoneKept
  <2>4. FlightKept(R, W, v, sent) /\ Begins(flight, sent)
    BY ONLY <2>3, IsTable(R), FlightKept(R, W, v, flight), pos \in Nat, WindowSent
  <2>5. \A i \in DOMAIN flight : sent[i].key = flight[i].key
    BY ONLY <2>4 DEF Begins
  <2>6. ControllerKept(R, W, v, sent, c)
    BY <1>1, <2>4, <2>5, ControllerStays, ZenonT(40) DEF Begins
  <2> QED BY <2>1, <2>4, <2>6
<1> QED BY <1>2, <1>3

\* A record goes out with the state of a controller that has changed.
LEMMA ConvertKept ==
    ASSUME NEW R, IsTable(R), NEW W, NEW v, NEW sent, FlightKept(R, W, v, flight \o sent),
           NEW c, ControllerKept(R, W, v, flight \o sent, c),
           NEW pos \in Nat, NEW key \in KeySet, NEW val \in Nat, NEW commit \in BOOLEAN,
           commit => key = NoKey, ~commit => key \in W,
           Convert(pos, key, val, commit, c, sent)
    PROVE  /\ FlightKept(R, W, v, flight') /\ ControllerKept(R, W, v, flight', ctl')
           /\ ctl'.progress = c.progress
<1> DEFINE g == flight \o sent
           d == IF commit THEN c ELSE Deduplicate(c, key)
           state == IF d.dirty THEN State(d) ELSE NoState
           e == Item(pos, key, val, commit, state, FALSE)
           prepare == d.prepare /\ ~(commit /\ ~ReadOnly)
<1>1. FlightKept(R, W, v, g) /\ ControllerKept(R, W, v, g, c)
  OBVIOUS
<1> HIDE DEF g
<1>2. CASE ShouldSkip(pos)
  BY <1>1, <1>2 DEF Convert, g
<1>3. CASE ~ShouldSkip(pos)
  <2>1. /\ ControllerKept(R, W, v, g, d) /\ d.progress = c.progress
    BY <1>1, DeduplicateKept
  <2>2. flight' = Append(g, e) /\ ctl' = [d EXCEPT !.dirty = FALSE, !.prepare = prepare]
    BY <1>3 DEF Convert, g
  <2> HIDE DEF d
  <2>3. d \in Controllers /\ ProgressKept(R, W, v, g, Len(g), d.progress) /\ g \in Seq(Items)
    BY <1>1, <2>1 DEF ControllerKept, FlightKept
  <2>4. state \in StateSet /\ ProgressKept(R, W, v, g, Len(g), state.progress)
    <3>1. State(d) \in StateSet /\ State(d).progress = d.progress
      BY <2>3 DEF State, StateSet, Controllers
    <3>2. NoState \in StateSet /\ NoState.progress = NoProgress
      <4>1. NoState = [progress |-> NoProgress, completed |-> <<0>>]
        BY DEF NoState, State, New
      <4>2. <<0>> \in Seq(Nat)
        OBVIOUS
      <4> QED BY <4>1, <4>2, NoneKept DEF StateSet
    <3> QED BY <2>3, <3>1, <3>2, NoneKept
  <2> HIDE DEF state
  <2>5. e \in Items /\ e.key = key /\ e.state = state
    BY <2>4 DEF Item, Items
  <2>6. key \notin DOMAIN R \ W
    <3>1. NoKey \notin DOMAIN R
      BY DEF NoKey, IsTable
    <3> QED BY <3>1
  <2> HIDE DEF e
  <2>7. FlightKept(R, W, v, flight')
    BY <1>1, <2>2, <2>4, <2>5, <2>6, FlightAppended
  <2>8. ControllerKept(R, W, v, flight', d)
    <3>1. /\ Len(g) \in Nat /\ Len(flight') \in Nat /\ Len(g) <= Len(flight') /\ DOMAIN g = 1 .. Len(g)
          /\ DOMAIN flight' = 1 .. Len(flight') /\ \A i \in DOMAIN g : flight'[i].key = g[i].key
      BY <2>2, <2>3, <2>5, Longer
    <3> QED BY <2>1, <3>1, ControllerStays
  <2>9. prepare \in BOOLEAN /\ (prepare => d.prepare)
    BY <2>3 DEF Controllers
  <2> HIDE DEF prepare
  <2>10. ControllerKept(R, W, v, flight', ctl') /\ ctl'.progress = d.progress
    <3>1. PICK f, x : f = flight' /\ x = [d EXCEPT !.dirty = FALSE, !.prepare = prepare]
      OBVIOUS
    <3>2. /\ x \in Controllers /\ x.chunk = d.chunk /\ x.high = d.high /\ x.window = d.window /\ x.end = d.end
          /\ x.complete = d.complete /\ x.progress = d.progress /\ x.prepare = prepare
      BY <2>3, <2>9, <3>1 DEF Controllers
    <3>3. (x.prepare => d.prepare) /\ ControllerKept(R, W, v, f, d)
      BY <2>8, <2>9, <3>1, <3>2
    <3>4. ControllerKept(R, W, v, f, x)
      BY <3>2, <3>3, FlagsKept
    <3> QED BY <2>2, <3>1, <3>2, <3>4
  <2> QED BY <2>1, <2>7, <2>10
<1> QED BY <1>2, <1>3


-----------------------------------------------------------------------------
(* The database.                                                            *)

LEMMA SetupFacts ==
    ASSUME NEW s \in Setups
    PROVE  /\ IsTable(s.rows) /\ s.external \in Seq(Signals) /\ s.script \in Seq(Statements)
           /\ s.chunkSize \in Nat \ {0} /\ s.rows \in [DOMAIN s.rows -> Nat]
<1>1. Capacity \in Nat
  BY IncrementalAssumption
<1>2. s.chunkSize \in 1 .. Capacity - 1
  BY IncrementalAssumption
<1>3. s.rows \in [DOMAIN s.rows -> Nat] /\ \A key \in DOMAIN s.rows : s.rows[key] \in Nat
  BY IncrementalAssumption
<1> QED BY <1>1, <1>2, <1>3, IncrementalAssumption DEF IsTable

\* More of the log: what was written stays written.
LEMMA LogGrows ==
    ASSUME NEW more \in Seq(WalRecords), wal \in Seq(WalRecords), wal' = wal \o more
    PROVE  /\ wal' \in Seq(WalRecords) /\ Written \subseteq Written'
           /\ \A n \in DOMAIN wal : n \in DOMAIN wal' /\ wal'[n] = wal[n]
           /\ \A n \in DOMAIN wal' : n \in DOMAIN wal \/ \E m \in DOMAIN more : wal'[n] = more[m]
<1>1. /\ wal' \in Seq(WalRecords)
      /\ \A n \in DOMAIN wal : n \in DOMAIN wal' /\ wal'[n] = wal[n]
      /\ \A n \in DOMAIN wal' : n \in DOMAIN wal \/ (n - Len(wal) \in DOMAIN more /\ wal'[n] = more[n - Len(wal)])
  BY Joined
<1>2. Written \subseteq Written'
  BY <1>1 DEF Written
<1> QED BY <1>1, <1>2

\* The log and the transactions go on, and everything else is as before.
LEMMA LogKept ==
    ASSUME NEW s \in Setups, SnapshotKept(s), NEW more \in Seq(WalRecords), wal' = wal \o more,
           \A n \in DOMAIN more : /\ more[n].kind = "signal" => more[n].signal \in Signals
                                  /\ more[n].kind = "close" => more[n].mark # NoChunk,
           table' \in [DOMAIN s.rows -> Nat],
           \A key \in DOMAIN s.rows \ Written' : table'[key] = table[key],
           step' \in Nat \ {0}, nextXid' \in Nat, lastDone' \in Nat,
           open' \in [{x.tx : x \in Range(Script)} -> Nat], UNCHANGED <<setup, conn>>
    PROVE  DatabaseKept(s.rows, Written)' /\ WireKept' /\ Written \subseteq Written'
<1>1. DatabaseKept(s.rows, Written) /\ WireKept
  BY DEF SnapshotKept
<1>2. /\ wal' \in Seq(WalRecords) /\ Written \subseteq Written'
      /\ \A n \in DOMAIN wal : n \in DOMAIN wal' /\ wal'[n] = wal[n]
      /\ \A n \in DOMAIN wal' : n \in DOMAIN wal \/ \E m \in DOMAIN more : wal'[n] = more[m]
  BY <1>1, LogGrows DEF DatabaseKept
<1>3. Script' = Script
  BY DEF Script
<1>4. DatabaseKept(s.rows, Written)'
  <2>1. \A key \in DOMAIN s.rows \ Written' : table'[key] = s.rows[key]
    BY <1>1, <1>2 DEF DatabaseKept
  <2>2. \A n \in DOMAIN wal' : /\ wal'[n].kind = "signal" => wal'[n].signal \in Signals
                               /\ wal'[n].kind = "close" => wal'[n].mark # NoChunk
    BY <1>1, <1>2 DEF DatabaseKept
  <2> QED BY <1>2, <1>3, <2>1, <2>2 DEF DatabaseKept
<1>5. WireKept'
  BY <1>1, <1>2 DEF WireKept, conn
<1> QED BY <1>2, <1>4, <1>5 DEF DatabaseKept

\* What is kept of the sink, the controller and the chunk while the log grows.
LEMMA RestStays ==
    ASSUME NEW s \in Setups, SnapshotKept(s), NEW X, Written \subseteq X
    PROVE  /\ SinkKept(s.rows, X) /\ ControllerKept(s.rows, X, view, flight, ctl)
           /\ PrepKept(s.rows, X, ctl, prep)
<1> DEFINE R == s.rows
           W == Written
<1>1. SinkKept(R, W) /\ ControllerKept(R, W, view, flight, ctl) /\ PrepKept(R, W, ctl, prep)
  BY DEF SnapshotKept
<1> HIDE DEF R, W
<1>2. flight \in Seq(Items) /\ W \subseteq X
  BY <1>1 DEF SinkKept, FlightKept, W
<1>3. \A n, p : ProgressKept(R, W, view, flight, n, p) => ProgressKept(R, X, view, flight, n, p)
  <2> TAKE n, p
  <2>1. \A i \in DOMAIN flight : i <= n => i \in DOMAIN flight /\ i <= n /\ flight[i].key = flight[i].key
    OBVIOUS
  <2> QED BY <1>2, <2>1, ProgressStays
<1>4. SinkKept(R, X)
  BY <1>1, <1>2, <1>3 DEF SinkKept, FlightKept
<1>5. ControllerKept(R, X, view, flight, ctl)
  <2>1. /\ Len(flight) \in Nat /\ Len(flight) <= Len(flight) /\ DOMAIN flight = 1 .. Len(flight)
        /\ \A i \in DOMAIN flight : flight[i].key = flight[i].key
    BY <1>2
  <2> QED BY <1>1, <1>2, <2>1, ControllerStays
<1>6. PrepKept(R, X, ctl, prep)
  BY <1>1, <1>2, PrepStays
<1> QED BY <1>4, <1>5, <1>6 DEF R

\* A transaction writes, signals, or commits.
LEMMA WriteKept ==
    ASSUME NEW s \in Setups, SnapshotKept(s), Write
    PROVE  SnapshotKept(s)'
<1> DEFINE st == Script[step]
           begins == open[st.tx] = 0
           xid == IF begins THEN nextXid ELSE open[st.tx]
           r == Record(st.op, xid, st.key, st.val, st.signal, NoChunk)
           more == <<r>>
<1>1. /\ TaskKept(s) /\ DatabaseKept(s.rows, Written)
      /\ IsTable(s.rows) /\ s.script \in Seq(Statements)
  BY SetupFacts DEF SnapshotKept
<1>2. /\ step <= Len(Script) /\ step' = step + 1 /\ nextXid' = (IF begins THEN nextXid + 1 ELSE nextXid)
      /\ wal' = Append(wal, r) /\ open' = [open EXCEPT ![st.tx] = IF st.op = "commit" THEN 0 ELSE xid]
      /\ lastDone' = (IF st.op = "commit" THEN Larger(xid, lastDone) ELSE lastDone)
      /\ table' = (IF st.op = "commit" THEN AfterCommit(xid) ELSE table)
      /\ UNCHANGED <<setup, durable, connector, conn, flight, stops>>
  BY DEF Write
<1>3. /\ step \in Nat \ {0} /\ nextXid \in Nat /\ lastDone \in Nat /\ open \in [{x.tx : x \in Range(Script)} -> Nat]
      /\ wal \in Seq(WalRecords) /\ table \in [DOMAIN s.rows -> Nat] /\ setup = s
  BY <1>1 DEF DatabaseKept, TaskKept
<1>4. st \in Statements /\ st.tx \in {x.tx : x \in Range(Script)}
  <2>1. Script = s.script
    BY <1>3 DEF Script
  <2>2. step \in DOMAIN Script
    BY <1>1, <1>2, <1>3, <2>1
  <2>3. st \in Range(Script)
    BY <2>2 DEF Range
  <2> QED BY <1>1, <2>1, <2>2, <2>3
<1> HIDE DEF st
<1>5. xid \in Nat
  BY <1>3, <1>4
<1> HIDE DEF xid
<1>6. more \in Seq(WalRecords) /\ DOMAIN more = {1} /\ more[1] = r /\ wal' = wal \o more
  <2>1. /\ st.op \in {"put", "signal", "commit"} /\ st.val \in Nat /\ st.key \in KeySet /\ st.signal \in SignalSet
        /\ NoChunk \in MarkSet
    <3>1. st.key \in [table : STRING, k : Nat] /\ st.signal \in Signals \cup {NoSignal} /\ st.val \in Nat
          /\ st.op \in {"put", "signal", "commit"}
      BY <1>4 DEF Statements
    <3>2. NoSignal \in SignalSet /\ Signals \subseteq SignalSet
      <4>1. <<>> \in Seq(STRING)
        OBVIOUS
      <4> QED BY <4>1 DEF NoSignal, SignalSet, Signals
    <3>3. [table : STRING, k : Nat] \subseteq KeySet
      BY DEF KeySet, TableSet
    <3> QED BY <3>1, <3>2, <3>3, NoneKept
  <2>2. r \in WalRecords
    BY <1>5, <2>1 DEF Record, WalRecords
  <2> HIDE DEF r
  <2> QED BY <1>2, <1>3, <2>2
<1>7. Written \subseteq Written' /\ \A n \in DOMAIN wal : n \in DOMAIN wal' /\ wal'[n] = wal[n]
  <2> HIDE DEF more
  <2> QED BY <1>3, <1>6, LogGrows
<1>8. /\ table' \in [DOMAIN s.rows -> Nat]
      /\ \A key \in DOMAIN s.rows \ Written' : table'[key] = table[key]
  <2>1. ASSUME NEW key \in DOMAIN s.rows
        PROVE  AfterCommit(xid)[key] \in Nat /\ (key \notin Written => AfterCommit(xid)[key] = table[key])
    <3> DEFINE writes == {i \in RecordsOf(xid, wal) : wal[i].kind = "put" /\ wal[i].key = key}
    <3>1. AfterCommit(xid)[key] = IF writes = {} THEN table[key] ELSE wal[Max(writes)].val
      BY <1>3 DEF AfterCommit, Keys
    <3>2. writes \subseteq DOMAIN wal
      BY DEF RecordsOf
    <3>3. key \notin Written => writes = {}
      BY <3>2 DEF Written
    <3>4. writes # {} => Max(writes) \in DOMAIN wal
      <4>1. DOMAIN wal = 1 .. Len(wal) /\ Len(wal) \in Nat
        BY <1>3
      <4>2. IsFiniteSet(1 .. Len(wal))
        BY <4>1, FS_Interval
      <4> HIDE DEF writes
      <4>3. IsFiniteSet(writes) /\ writes \subseteq Nat
        BY <3>2, <4>1, <4>2, FS_Subset
      <4> QED BY <3>2, <4>3, Extremes
    <3>5. \A n \in DOMAIN wal : wal[n].val \in Nat
      <4>1. \A n \in DOMAIN wal : wal[n] \in WalRecords
        BY <1>3
      <4> QED BY <4>1 DEF WalRecords
    <3> HIDE DEF writes
    <3> QED BY <1>3, <3>1, <3>3, <3>4, <3>5
  <2>2. AfterCommit(xid) = [key \in DOMAIN s.rows |-> AfterCommit(xid)[key]]
    BY <1>3 DEF AfterCommit, Keys
  <2>3. AfterCommit(xid) \in [DOMAIN s.rows -> Nat]
    BY <2>1, <2>2
  <2> QED BY <1>2, <1>3, <1>7, <2>1, <2>3
<1>9. /\ step' \in Nat \ {0} /\ nextXid' \in Nat /\ lastDone' \in Nat /\ open' \in [{x.tx : x \in Range(Script)} -> Nat]
  BY <1>2, <1>3, <1>4, <1>5 DEF Larger
<1>10. \A n \in DOMAIN more : /\ more[n].kind = "signal" => more[n].signal \in Signals
                              /\ more[n].kind = "close" => more[n].mark # NoChunk
  BY <1>4, <1>6 DEF Record, Statements
<1> HIDE DEF more, r
<1>11. DatabaseKept(s.rows, Written)' /\ WireKept'
  BY <1>2, <1>6, <1>8, <1>9, <1>10, LogKept
<1>12. /\ SinkKept(s.rows, Written') /\ ControllerKept(s.rows, Written', view, flight, ctl)
       /\ PrepKept(s.rows, Written', ctl, prep)
  BY <1>7, RestStays
<1>13. SinkKept(s.rows, Written)' /\ ControllerKept(s.rows, Written, view, flight, ctl)' /\ PrepKept(s.rows, Written, ctl, prep)'
  BY <1>2, <1>12 DEF SinkKept, durable, connector
<1>14. TaskKept(s)'
  BY <1>1, <1>2 DEF TaskKept, durable, connector
<1> QED BY <1>11, <1>13, <1>14 DEF SnapshotKept


\* What the connection may carry.
WireItems ==
    {e \in Events : /\ e.i \in DOMAIN wal
                    /\ e.kind \in {"put", "signal", "open", "close"} => e.kind = wal[e.i].kind}

LEMMA ChangesSent ==
    ASSUME wal \in Seq(WalRecords), NEW indices \in SUBSET DOMAIN wal
    PROVE  Changes(indices) \in Seq(WireItems)
<1> DEFINE order == InOrder(indices)
<1>1. DOMAIN wal = 1 .. Len(wal) /\ Len(wal) \in Nat
  OBVIOUS
<1>2. IsFiniteSet(indices) /\ indices \subseteq Nat
  <2>1. IsFiniteSet(1 .. Len(wal))
    BY <1>1, FS_Interval
  <2> QED BY <1>1, <2>1, FS_Subset
<1>3. order \in Seq(indices) /\ Cardinality(indices) \in Nat /\ DOMAIN order = 1 .. Cardinality(indices)
  BY <1>2, InOrderFacts
<1> DEFINE N == Cardinality(indices)
<1>4. Changes(indices) = [n \in 1 .. N |-> Event(wal[order[n]].kind, order[n])]
  BY <1>3 DEF Changes
<1> HIDE DEF order, N
<1>5. ASSUME NEW n \in 1 .. N PROVE Event(wal[order[n]].kind, order[n]) \in WireItems
  <2>1. order[n] \in indices
    BY <1>3 DEF N
  <2>2. order[n] \in DOMAIN wal /\ order[n] \in Nat
    BY <1>2, <2>1
  <2>3. wal[order[n]] \in WalRecords
    BY <2>2
  <2>4. wal[order[n]].kind \in {"put", "signal", "commit", "open", "close"}
    BY <2>3 DEF WalRecords
  <2> QED BY <2>2, <2>4 DEF WireItems, Events, Event
<1>6. N \in Nat
  BY <1>3 DEF N
<1> QED BY <1>4, <1>5, <1>6

LEMMA SendKept ==
    ASSUME NEW s \in Setups, SnapshotKept(s), Send
    PROVE  SnapshotKept(s)'
<1>1. /\ TaskKept(s) /\ DatabaseKept(s.rows, Written) /\ WireKept /\ SinkKept(s.rows, Written)
      /\ ControllerKept(s.rows, Written, view, flight, ctl) /\ PrepKept(s.rows, Written, ctl, prep)
  BY DEF SnapshotKept
<1>2. /\ decoded < Len(wal) /\ wire' = Decode(decoded + 1) /\ decoded' = decoded + 1
      /\ UNCHANGED <<setup, database, durable, connector, from, flight, stops>>
  BY DEF Send
<1>3. wal \in Seq(WalRecords) /\ decoded \in Nat /\ from \in Nat
  BY <1>1 DEF DatabaseKept, WireKept
<1> DEFINE i == decoded + 1
           others == RecordsOf(wal[i].xid, wal) \ {i}
<1>4. i \in Nat /\ i \in DOMAIN wal
  BY <1>2, <1>3
<1> HIDE DEF i
<1>5. Changes(others) \in Seq(WireItems) /\ Changes({i}) \in Seq(WireItems)
  <2>1. others \in SUBSET DOMAIN wal /\ {i} \in SUBSET DOMAIN wal
    BY <1>4 DEF RecordsOf
  <2> HIDE DEF others
  <2> QED BY <1>3, <2>1, ChangesSent
<1>6. <<Event("begin", i)>> \in Seq(WireItems) /\ <<Event("start", i)>> \in Seq(WireItems)
      /\ <<Event("commit", i)>> \in Seq(WireItems)
  BY <1>4 DEF Event, Events, WireItems
<1>7. Decode(i) \in Seq(WireItems)
  <2>1. CASE i < from
    <3>1. ~(i >= from)
      BY <1>3, <1>4, <2>1
    <3>2. Decode(i) = <<>>
      BY <2>1, <3>1 DEF Decode
    <3> QED BY <3>2
  <2>2. CASE i >= from /\ wal[i].kind = "commit" /\ InProgressSent(wal[i].xid)
    <3>1. Decode(i) = <<Event("commit", i)>>
      BY <1>3, <1>4, <2>2 DEF Decode
    <3> QED BY <1>6, <3>1
  <2>3. CASE i >= from /\ wal[i].kind = "commit" /\ ~InProgressSent(wal[i].xid)
    <3>1. Decode(i) = <<Event("begin", i)>> \o Changes(others) \o <<Event("commit", i)>>
      BY <1>3, <1>4, <2>3 DEF Decode
    <3> HIDE DEF others
    <3> QED BY <1>5, <1>6, <3>1
  <2>4. CASE i >= from /\ wal[i].kind # "commit"
    <3>1. Decode(i) = IF InProgressSent(wal[i].xid) THEN <<Event("start", i)>> \o Changes({i}) ELSE <<>>
      BY <1>3, <1>4, <2>4 DEF Decode
    <3> QED BY <1>5, <1>6, <3>1
  <2> QED BY <1>3, <1>4, <2>1, <2>2, <2>3, <2>4
<1>8. WireKept'
  <2>1. wire' \in Seq(WireItems)
    BY <1>2, <1>7 DEF i
  <2>2. wire' \in Seq(Events)
    <3>1. \A x \in WireItems : x \in Events
      BY DEF WireItems
    <3>2. wire' \in [1 .. Len(wire') -> WireItems] /\ Len(wire') \in Nat
      BY <2>1
    <3>3. wire' \in [1 .. Len(wire') -> Events]
      BY <3>1, <3>2
    <3> QED BY <3>2, <3>3
  <2>3. \A n \in DOMAIN wire' : wire'[n] \in WireItems
    BY <2>1
  <2> QED BY <1>2, <1>3, <1>4, <2>2, <2>3 DEF WireKept, WireItems, i, database
<1>9. /\ TaskKept(s)' /\ DatabaseKept(s.rows, Written)' /\ SinkKept(s.rows, Written)'
      /\ ControllerKept(s.rows, Written, view, flight, ctl)' /\ PrepKept(s.rows, Written, ctl, prep)'
  <2>1. Written' = Written
    BY <1>2 DEF Written, database
  <2> QED BY <1>1, <1>2, <2>1 DEF TaskKept, DatabaseKept, SinkKept, database, durable, connector, Script
<1> QED BY <1>8, <1>9 DEF SnapshotKept


-----------------------------------------------------------------------------
(* The statements that prepare a chunk.                                     *)

LEMMA SnapshotType ==
    ASSUME open \in [DOMAIN open -> Nat], lastDone \in Nat
    PROVE  CurrentSnapshot \in Watermarks
<1> DEFINE xmax == lastDone + 1
           running == {open[t] : t \in DOMAIN open} \ {0}
           ids == {x \in running : x < xmax} \cup {xmax}
<1>1. xmax \in Nat
  OBVIOUS
<1>2. ids \in SUBSET (0 .. xmax)
  <2>1. \A x \in running : x \in Nat
    OBVIOUS
  <2> HIDE DEF running, xmax
  <2> QED BY <1>1, <2>1
<1>3. IsFiniteSet(ids) /\ ids \subseteq Nat /\ ids # {}
  <2>1. IsFiniteSet(0 .. xmax)
    BY <1>1, FS_Interval
  <2>2. IsFiniteSet(ids)
    BY <1>2, <2>1, FS_Subset
  <2> HIDE DEF running
  <2> QED BY <1>2, <2>2
<1>4. CurrentSnapshot = [xmin |-> Min(ids), xmax |-> xmax]
  BY DEF CurrentSnapshot
<1> HIDE DEF ids, xmax
<1>5. Min(ids) \in Nat
  BY <1>3, Extremes
<1> QED BY <1>1, <1>4, <1>5 DEF Watermarks

\* Rows of the current table that no transaction has written are in it.
LEMMA CurrentRows ==
    ASSUME NEW s \in Setups, SnapshotKept(s), prep.step # "none"
    PROVE  /\ IsFiniteSet(Present(ThisTable))
           /\ \A key \in Present(ThisTable) : /\ key \in DOMAIN s.rows /\ key.table = ThisTable
                                              /\ key \in KeySet /\ key.k \in Nat \ {0} /\ table[key] \in Nat
                                              /\ key \notin Written => table[key] = s.rows[key]
           /\ \A key \in Untouched(s.rows, Written) : key.table = ThisTable => key \in Present(ThisTable)
           /\ ThisTable = ctl.progress.tables[ctl.progress.current] /\ ThisTable \in TableSet
           /\ ctl \in Controllers /\ ctl.progress \in ProgressSet /\ prep \in Preps /\ Active(ctl)
           /\ ctl.progress.chunk # 0
<1>1. /\ TaskKept(s) /\ DatabaseKept(s.rows, Written) /\ ControllerKept(s.rows, Written, view, flight, ctl)
      /\ PrepKept(s.rows, Written, ctl, prep) /\ IsTable(s.rows)
  BY SetupFacts DEF SnapshotKept
<1>2. setup.rows = s.rows /\ Keys = DOMAIN s.rows
  BY <1>1 DEF TaskKept, Keys
<1>3. Present(ThisTable) \in SUBSET (DOMAIN s.rows) /\ IsFiniteSet(DOMAIN s.rows)
  BY <1>1, <1>2 DEF Present, IsTable
<1>4. IsFiniteSet(Present(ThisTable))
  BY <1>3, FS_Subset
<1>5. ASSUME NEW key \in Present(ThisTable)
      PROVE  /\ key \in DOMAIN s.rows /\ key.table = ThisTable
             /\ key \in KeySet /\ key.k \in Nat \ {0} /\ table[key] \in Nat
             /\ key \notin Written => table[key] = s.rows[key]
  <2>1. key \in DOMAIN s.rows /\ key.table = ThisTable
    BY <1>2 DEF Present
  <2>2. key \in [table : STRING, k : Nat \ {0}]
    BY <1>1, <2>1 DEF IsTable
  <2>3. key \in KeySet /\ key.k \in Nat \ {0}
    BY <2>2 DEF KeySet, TableSet
  <2> QED BY <1>1, <2>1, <2>3 DEF DatabaseKept
<1>6. ASSUME NEW key \in Untouched(s.rows, Written), key.table = ThisTable
      PROVE  key \in Present(ThisTable)
  BY <1>1, <1>2, <1>6 DEF Present, Untouched, DatabaseKept
<1>7. /\ ctl \in Controllers /\ ctl.progress \in ProgressSet /\ prep \in Preps /\ Active(ctl)
      /\ ctl.progress.chunk # 0 /\ ctl.progress.current \in DOMAIN ctl.progress.tables
  BY <1>1 DEF ControllerKept, PrepKept, Controllers, ProgressKept, Active
<1>8. ThisTable \in TableSet
  <2>1. ctl.progress.tables \in Seq(STRING)
    BY <1>7 DEF ProgressSet
  <2>2. ThisTable \in STRING
    BY <1>7, <2>1 DEF ThisTable
  <2> QED BY <2>2 DEF TableSet
<1>9. ThisTable = ctl.progress.tables[ctl.progress.current]
  BY DEF ThisTable
<1> QED BY <1>4, <1>5, <1>6, <1>7, <1>8, <1>9

\* A statement that changes nothing but what is prepared.
LEMMA PreparedKept ==
    ASSUME NEW s \in Setups, SnapshotKept(s), UNCHANGED prepareRest,
           PrepKept(s.rows, Written, ctl, prep')
    PROVE  SnapshotKept(s)'
<1>1. Written' = Written
  BY DEF Written, prepareRest, database
<1>2. PrepKept(s.rows, Written, ctl, prep)'
  BY <1>1 DEF prepareRest
<1> QED BY <1>1, <1>2 DEF SnapshotKept, TaskKept, DatabaseKept, WireKept, SinkKept, prepareRest, database, durable, conn,
                          Script

LEMMA PrepareLowKept ==
    ASSUME NEW s \in Setups, SnapshotKept(s), PrepareLow
    PROVE  SnapshotKept(s)'
<1>1. /\ DatabaseKept(s.rows, Written) /\ PrepKept(s.rows, Written, ctl, prep)
  BY DEF SnapshotKept
<1>2. prep.step = "low" /\ prep' = [prep EXCEPT !.step = AfterOpen, !.low = CurrentSnapshot] /\ UNCHANGED prepareRest
  BY DEF PrepareLow
<1>3. CurrentSnapshot \in Watermarks
  BY <1>1, SnapshotType DEF DatabaseKept
<1>4. Active(ctl) /\ prep \in Preps /\ RowsTrue(s.rows, Written, prep.rows)
  BY <1>1, <1>2 DEF PrepKept
<1>5. AfterOpen \in {"max", "read"} /\ (AfterOpen = "read" => ctl.progress.max # 0)
  BY DEF AfterOpen
<1>6. /\ prep' \in Preps /\ prep'.step = AfterOpen /\ prep'.rows = prep.rows
  BY <1>2, <1>3, <1>4, <1>5 DEF Preps
<1>7. PrepKept(s.rows, Written, ctl, prep')
  BY <1>4, <1>5, <1>6 DEF PrepKept
<1> QED BY <1>2, <1>7, PreparedKept

LEMMA PrepareMaxKept ==
    ASSUME NEW s \in Setups, SnapshotKept(s), PrepareMax
    PROVE  SnapshotKept(s)'
<1> DEFINE ks == {key.k : key \in Present(ThisTable)}
           max == Max({0} \cup ks)
<1>1. /\ PrepKept(s.rows, Written, ctl, prep)
  BY DEF SnapshotKept
<1>2. prep.step = "max" /\ prep' = [prep EXCEPT !.step = "read", !.max = max] /\ UNCHANGED prepareRest
  BY DEF PrepareMax
<1>3. /\ IsFiniteSet(Present(ThisTable)) /\ \A key \in Present(ThisTable) : key.k \in Nat
      /\ \A key \in Untouched(s.rows, Written) : key.table = ThisTable => key \in Present(ThisTable)
      /\ ThisTable = ctl.progress.tables[ctl.progress.current] /\ prep \in Preps /\ Active(ctl)
  BY <1>2, CurrentRows
<1>4. IsFiniteSet({0} \cup ks) /\ {0} \cup ks \subseteq Nat
  <2>1. IsFiniteSet(ks)
    BY <1>3, NumbersFinite
  <2>2. IsFiniteSet(ks \cup {0})
    BY <2>1, FS_AddElement
  <2>3. ks \subseteq Nat
    BY <1>3
  <2>4. ks \cup {0} = {0} \cup ks
    OBVIOUS
  <2> HIDE DEF ks
  <2> QED BY <2>2, <2>3, <2>4
<1>5. max \in Nat /\ \A k \in ks : k <= max
  <2> HIDE DEF ks
  <2> QED BY <1>4, Extremes
<1>6. \A key \in Present(ThisTable) : key.k <= max
  <2> HIDE DEF max
  <2> QED BY <1>5
<1> HIDE DEF max, ks
<1>7. prep' \in Preps /\ prep'.step = "read" /\ prep'.max = max /\ prep'.rows = prep.rows
  BY <1>2, <1>3, <1>5 DEF Preps
<1>8. PrepKept(s.rows, Written, ctl, prep')
  BY <1>1, <1>3, <1>6, <1>7 DEF PrepKept
<1> QED BY <1>2, <1>8, PreparedKept


\* The first rows of those that are due, as many as a chunk has, and the key they end with.
FirstOf(due, size) == {key \in due : Cardinality({x \in due : x.k < key.k}) < size}
EndOf(rows) == Max({0} \cup {key.k : key \in rows})

\* They are all below the end, and all that are due if they are fewer than a chunk has.
LEMMA FirstRows ==
    ASSUME NEW due, IsFiniteSet(due), \A key \in due : key.k \in Nat \ {0}, NEW size \in Nat \ {0},
           NEW rows, rows = FirstOf(due, size), NEW end, end = EndOf(rows)
    PROVE  /\ end \in Nat /\ \A key \in due : key.k <= end => key \in rows
           /\ Cardinality(rows) < size \/ end = 0 => due \subseteq rows
           /\ IsFiniteSet(rows) /\ Cardinality(rows) \in Nat
<1> DEFINE L(key) == {x \in due : x.k < key.k}
           ks == {key.k : key \in rows}
<1>1. rows \in SUBSET due /\ IsFiniteSet(rows) /\ Cardinality(rows) \in Nat
  <2>1. rows \in SUBSET due
    BY DEF FirstOf
  <2> QED BY <2>1, FS_Subset, FS_CardinalityType
<1>2. \A key \in due : key.k \in Nat /\ key.k > 0
  OBVIOUS
<1>3. \A key \in due : key \in rows <=> Cardinality(L(key)) < size
  BY DEF FirstOf
<1>4. \A key \in due : IsFiniteSet(L(key)) /\ Cardinality(L(key)) \in Nat
  <2> TAKE key \in due
  <2>1. L(key) \in SUBSET due
    OBVIOUS
  <2> HIDE DEF L
  <2> QED BY <2>1, FS_Subset, FS_CardinalityType
<1>5. ASSUME NEW T \in SUBSET due, NEW key \in due, L(key) \subseteq T
      PROVE  Cardinality(L(key)) <= Cardinality(T)
  <2>1. IsFiniteSet(T)
    BY FS_Subset
  <2> HIDE DEF L
  <2>2. L(key) \in SUBSET T
    BY <1>5
  <2> QED BY <2>1, <2>2, FS_Subset
<1>6. /\ IsFiniteSet({0} \cup ks) /\ {0} \cup ks \subseteq Nat
  <2>1. IsFiniteSet(ks)
    BY <1>1, NumbersFinite
  <2>2. IsFiniteSet(ks \cup {0})
    BY <2>1, FS_AddElement
  <2>3. ks \subseteq Nat
    BY <1>1, <1>2
  <2> HIDE DEF ks
  <2>4. ks \cup {0} = {0} \cup ks /\ {0} \cup ks \subseteq Nat
    BY <2>3
  <2> QED BY <2>2, <2>4
<1>7. end \in {0} \cup ks /\ end \in Nat /\ \A k \in ks : k <= end
  <2>1. end = Max({0} \cup ks)
    BY DEF EndOf
  <2> HIDE DEF ks
  <2> QED BY <1>6, <2>1, Extremes
<1>8. ASSUME NEW key \in due, key.k <= end PROVE key \in rows
  <2>1. PICK last \in rows : last.k = end
    <3>1. end # 0
      BY <1>2, <1>7, <1>8
    <3> QED BY <1>7, <3>1
  <2>2. last \in due /\ last.k \in Nat /\ key.k \in Nat
    BY <1>1, <1>2, <2>1
  <2>3. L(key) \subseteq L(last)
    <3>1. \A x \in due : x.k < key.k => x.k < last.k
      BY <1>2, <1>8, <2>1, <2>2
    <3> QED BY <3>1
  <2>4. L(last) \in SUBSET due
    OBVIOUS
  <2>5. Cardinality(L(key)) <= Cardinality(L(last)) /\ Cardinality(L(last)) < size
    <3> HIDE DEF L
    <3> QED BY <1>3, <1>5, <2>1, <2>2, <2>3, <2>4
  <2>6. Cardinality(L(key)) \in Nat /\ Cardinality(L(last)) \in Nat
    BY <1>4, <2>2
  <2> HIDE DEF L
  <2> QED BY <1>3, <2>5, <2>6
<1>9. ASSUME Cardinality(rows) < size \/ end = 0 PROVE due \subseteq rows
  <2> DEFINE rest == due \ rows
             ms == {key.k : key \in rest}
  <2>1. Cardinality(rows) < size
    <3>1. CASE end = 0
      <4>1. rows = {}
        <5>1. \A key \in rows : key.k \in ks /\ key.k \in Nat /\ key.k > 0
          BY <1>1, <1>2
        <5> HIDE DEF ks
        <5>2. \A key \in rows : FALSE
          BY <1>7, <3>1, <5>1
        <5> QED BY <5>2
      <4> QED BY <4>1, FS_EmptySet
    <3> QED BY <1>9, <3>1
  <2>2. SUFFICES ASSUME rest # {} PROVE FALSE
    OBVIOUS
  <2>3. IsFiniteSet(ms) /\ ms \subseteq Nat /\ ms # {}
    <3>1. rest \in SUBSET due /\ rest # {}
      BY <2>2
    <3>2. IsFiniteSet(rest)
      BY <3>1, FS_Subset
    <3>3. ms \subseteq Nat /\ ms # {}
      BY <1>2, <3>1
    <3> HIDE DEF rest
    <3>4. IsFiniteSet(ms)
      BY <3>2, NumbersFinite
    <3> QED BY <3>3, <3>4
  <2>4. Min(ms) \in ms /\ \A k \in ms : Min(ms) <= k
    <3> HIDE DEF ms
    <3> QED BY <2>3, Extremes
  <2>5. PICK first \in rest : first.k = Min(ms)
    BY <2>4
  <2>6. first \in due /\ first \notin rows /\ \A x \in rest : first.k <= x.k
    BY <2>4, <2>5
  <2>7. L(first) \subseteq rows
    <3>1. ASSUME NEW x \in due, x.k < first.k PROVE x \in rows
      <4>1. x \in rest => first.k <= x.k
        BY <2>6
      <4>2. x.k \in Nat /\ first.k \in Nat
        BY <1>2, <2>6
      <4> QED BY <3>1, <4>1, <4>2
    <3> QED BY <3>1
  <2>8. Cardinality(L(first)) <= Cardinality(rows) /\ Cardinality(L(first)) \in Nat
    <3> HIDE DEF L
    <3> QED BY <1>1, <1>4, <1>5, <2>6, <2>7
  <2>9. Cardinality(L(first)) < size
    <3> HIDE DEF L
    <3> QED BY <1>1, <2>1, <2>8
  <2> QED BY <1>3, <2>6, <2>9
<1> QED BY <1>1, <1>7, <1>8, <1>9

\* The rows that are read are those from the last key to the end of the chunk.
LEMMA PrepareReadKept ==
    ASSUME NEW s \in Setups, SnapshotKept(s), PrepareRead
    PROVE  SnapshotKept(s)'
<1> DEFINE p == ctl.progress
           max == Larger(ctl.progress.max, prep.max)
           due == NextKeys(ThisTable, ctl.progress.last, max) \cap Present(ThisTable)
           rows == {key \in due : Cardinality({x \in due : x.k < key.k}) < ChunkSize}
           end == Max({0} \cup {key.k : key \in rows})
           read == {[key |-> key, val |-> table[key]] : key \in rows}
           complete == end \in {0, max} \/ Cardinality(rows) < ChunkSize
<1>1. /\ PrepKept(s.rows, Written, ctl, prep) /\ ControllerKept(s.rows, Written, view, flight, ctl) /\ TaskKept(s)
  BY DEF SnapshotKept
<1>2. /\ prep.step = "read" /\ UNCHANGED prepareRest
      /\ prep' = [prep EXCEPT !.step = "close", !.end = end, !.rows = read, !.complete = complete]
  BY DEF PrepareRead
<1>3. /\ IsFiniteSet(Present(ThisTable))
      /\ \A key \in Present(ThisTable) : /\ key \in DOMAIN s.rows /\ key.table = ThisTable
                                         /\ key \in KeySet /\ key.k \in Nat \ {0} /\ table[key] \in Nat
                                         /\ key \notin Written => table[key] = s.rows[key]
      /\ \A key \in Untouched(s.rows, Written) : key.table = ThisTable => key \in Present(ThisTable)
      /\ ThisTable = p.tables[p.current] /\ p \in ProgressSet /\ prep \in Preps /\ Active(ctl)
  BY <1>2, CurrentRows
<1>4. p.last \in Nat /\ p.max \in Nat /\ prep.max \in Nat /\ ChunkSize \in Nat \ {0}
  <2>1. ChunkSize \in Nat \ {0}
    BY <1>1, SetupFacts DEF TaskKept, ChunkSize
  <2> QED BY <1>3, <2>1 DEF ProgressSet, Preps
<1>5. due \subseteq Present(ThisTable) /\ IsFiniteSet(due) /\ \A key \in due : key.k \in Nat \ {0}
  <2>1. due \in SUBSET Present(ThisTable)
    OBVIOUS
  <2> HIDE DEF due
  <2>2. IsFiniteSet(due)
    BY <1>3, <2>1, FS_Subset
  <2> QED BY <1>3, <2>1, <2>2
<1>6. ASSUME NEW key \in Untouched(s.rows, Written), key.table = ThisTable
      PROVE  key.k \in Nat \ {0} /\ key \in Present(ThisTable) /\ key.k <= max /\ (key.k > p.last => key \in due)
  <2>1. key \in Present(ThisTable) /\ key.k \in Nat \ {0} /\ key.table = ThisTable /\ key \in DOMAIN s.rows
    BY <1>3, <1>6
  <2>2. key.k <= max
    <3>1. p.max # 0 => key.k <= p.max
      BY <1>1, <1>3, <1>6 DEF ControllerKept, ProgressKept
    <3>2. p.max = 0 => key.k <= prep.max
      BY <1>1, <1>2, <1>3, <1>6 DEF PrepKept
    <3> QED BY <1>4, <2>1, <3>1, <3>2 DEF Larger
  <2>3. Keys = DOMAIN s.rows
    BY <1>1 DEF TaskKept, Keys
  <2> QED BY <2>1, <2>2, <2>3 DEF NextKeys
<1>7. max \in Nat
  BY <1>4 DEF Larger
<1> HIDE DEF due, max
<1>r. rows = FirstOf(due, ChunkSize) /\ end = EndOf(rows) /\ rows \subseteq due
  BY DEF FirstOf, EndOf
<1> HIDE DEF rows, end
<1>8. /\ end \in Nat /\ \A key \in due : key.k <= end => key \in rows
      /\ Cardinality(rows) < ChunkSize \/ end = 0 => due \subseteq rows
      /\ IsFiniteSet(rows) /\ Cardinality(rows) \in Nat
  BY <1>4, <1>5, <1>r, FirstRows
<1>9. rows \subseteq due
  BY <1>r
<1>10. \A key \in rows : key \in Present(ThisTable)
  BY <1>5, <1>9
<1>11. /\ read \in SUBSET RowSet /\ complete \in BOOLEAN
  BY <1>3, <1>10 DEF RowSet
<1>12. ASSUME NEW key \in Untouched(s.rows, Written), key.table = ThisTable, key.k > p.last, complete \/ key.k <= end
       PROVE  [key |-> key, val |-> s.rows[key]] \in read
  <2>1. key.k \in Nat \ {0} /\ key \in due /\ key.k <= max /\ key \in Present(ThisTable)
    BY <1>6, <1>12
  <2>2. key \in rows
    <3>1. CASE key.k <= end
      BY <1>8, <2>1, <3>1
    <3>2. CASE complete /\ ~(key.k <= end)
      <4>1. end # max
        BY <2>1, <3>2
      <4> QED BY <1>8, <2>1, <3>2, <4>1
    <3> QED BY <1>12, <3>1, <3>2
  <2>3. table[key] = s.rows[key]
    BY <1>3, <2>1 DEF Untouched
  <2> QED BY <2>2, <2>3
<1>13. RowsTrue(s.rows, Written, read)
  <2>1. \A r \in read : \E key \in rows : r.key = key /\ r.val = table[key]
    OBVIOUS
  <2>2. ASSUME NEW q \in read, NEW r \in read, q.key.k = r.key.k PROVE q = r
    <3>1. PICK x \in rows : q = [key |-> x, val |-> table[x]]
      OBVIOUS
    <3>2. PICK y \in rows : r = [key |-> y, val |-> table[y]]
      OBVIOUS
    <3>3. x.k = y.k /\ x.table = y.table /\ x \in KeySet /\ y \in KeySet
      BY <1>3, <1>10, <2>2, <3>1, <3>2
    <3>4. x = y
      BY <3>3 DEF KeySet
    <3> QED BY <3>1, <3>2, <3>4
  <2> HIDE DEF read
  <2> QED BY <1>3, <1>10, <2>1, <2>2 DEF RowsTrue
<1> HIDE DEF read, complete
<1>14. /\ prep' \in Preps /\ prep'.step = "close" /\ prep'.max = prep.max /\ prep'.rows = read /\ prep'.end = end
       /\ prep'.complete = complete
  BY <1>2, <1>3, <1>8, <1>11 DEF Preps
<1>15. ChunkKept(s.rows, Written, p, read, end, complete)
  BY <1>3, <1>12 DEF ChunkKept
<1>16. PrepKept(s.rows, Written, ctl, prep')
  BY <1>1, <1>2, <1>3, <1>13, <1>14, <1>15 DEF PrepKept
<1> QED BY <1>2, <1>16, PreparedKept


\* A watermark and its commit, or nothing, are added to the log.
LEMMA MarkFacts ==
    ASSUME NEW s \in Setups, SnapshotKept(s), prep.step # "none", NEW kind \in {"open", "close"},
           Mark(kind) \/ UNCHANGED wal
    PROVE  \E more \in Seq(WalRecords) :
                /\ wal' = wal \o more
                /\ \A n \in DOMAIN more : more[n].kind = "close" => more[n].mark # NoChunk
                /\ \A n \in DOMAIN more : more[n].kind # "signal"
<1>1. DatabaseKept(s.rows, Written) /\ ctl.progress \in ProgressSet /\ ctl.progress.chunk # 0
  BY CurrentRows DEF SnapshotKept
<1>2. wal \in Seq(WalRecords) /\ nextXid \in Nat
  BY <1>1 DEF DatabaseKept
<1>3. CASE UNCHANGED wal
  <2> DEFINE more == <<>>
  <2>1. more \in Seq(WalRecords) /\ wal' = wal \o more /\ DOMAIN more = {}
    BY <1>2, <1>3
  <2> QED BY <2>1
<1>4. CASE Mark(kind)
  <2> DEFINE id == [id |-> ctl.progress.id, chunk |-> ctl.progress.chunk]
             a == Record(kind, nextXid, NoKey, 0, NoSignal, id)
             b == Record("commit", nextXid, NoKey, 0, NoSignal, NoChunk)
             more == <<a, b>>
  <2>1. wal' = wal \o more
    BY <1>4 DEF Mark
  <2>2. id \in MarkSet /\ id # NoChunk
    BY <1>1 DEF ProgressSet, MarkSet, NoChunk
  <2>3. NoKey \in KeySet /\ NoSignal \in SignalSet /\ NoChunk \in MarkSet
    <3>1. <<>> \in Seq(STRING) /\ "none" \in TableSet
      BY DEF TableSet
    <3>2. NoKey \in KeySet
      BY <3>1 DEF NoKey, KeySet
    <3> QED BY <3>1, <3>2, NoneKept DEF NoSignal, SignalSet
  <2> HIDE DEF id
  <2>4. a \in WalRecords /\ a.kind \in {"open", "close"} /\ a.mark = id
    BY <1>2, <2>2, <2>3 DEF Record, WalRecords
  <2>5. b \in WalRecords /\ b.kind = "commit"
    BY <1>2, <2>3 DEF Record, WalRecords
  <2> HIDE DEF a, b
  <2>6. more \in Seq(WalRecords) /\ DOMAIN more = {1, 2} /\ more[1] = a /\ more[2] = b
    BY <2>4, <2>5
  <2> HIDE DEF more
  <2>7. \A n \in DOMAIN more : more[n].kind = "close" => more[n].mark # NoChunk
    BY <2>2, <2>4, <2>5, <2>6
  <2>8. \A n \in DOMAIN more : more[n].kind # "signal"
    BY <2>4, <2>5, <2>6
  <2> QED BY <2>1, <2>6, <2>7, <2>8
<1> QED BY <1>3, <1>4

LEMMA PrepareOpenKept ==
    ASSUME NEW s \in Setups, SnapshotKept(s), PrepareOpen
    PROVE  SnapshotKept(s)'
<1>1. /\ TaskKept(s) /\ DatabaseKept(s.rows, Written) /\ PrepKept(s.rows, Written, ctl, prep)
  BY DEF SnapshotKept
<1>2. /\ prep.step = "open" /\ nextXid' = nextXid + 1 /\ lastDone' = nextXid
      /\ Mark("open") \/ UNCHANGED wal
      /\ prep' \in {[prep EXCEPT !.step = AfterOpen], [prep EXCEPT !.step = "low"]}
      /\ UNCHANGED <<setup, step, open, table, durable, phase, ctl, txn, resume, lastSafe, ext, lines, conn,
                     flight, stops>>
  BY DEF PrepareOpen
<1>3. PICK more \in Seq(WalRecords) :
                /\ wal' = wal \o more
                /\ \A n \in DOMAIN more : more[n].kind = "close" => more[n].mark # NoChunk
                /\ \A n \in DOMAIN more : more[n].kind # "signal"
  BY <1>2, MarkFacts
<1>4. /\ step \in Nat \ {0} /\ nextXid \in Nat /\ lastDone \in Nat /\ open \in [{x.tx : x \in Range(Script)} -> Nat]
      /\ wal \in Seq(WalRecords) /\ table \in [DOMAIN s.rows -> Nat] /\ setup = s
  BY <1>1 DEF DatabaseKept, TaskKept
<1>5. nextXid + 1 \in Nat
  BY <1>4
<1>6. DatabaseKept(s.rows, Written)' /\ WireKept' /\ Written \subseteq Written'
  BY <1>2, <1>3, <1>4, <1>5, LogKept
<1>7. /\ SinkKept(s.rows, Written') /\ ControllerKept(s.rows, Written', view, flight, ctl)
      /\ PrepKept(s.rows, Written', ctl, prep)
  BY <1>6, RestStays
<1>8. AfterOpen \in {"max", "read"} /\ (AfterOpen = "read" => ctl.progress.max # 0)
  BY DEF AfterOpen
<1>9. Active(ctl) /\ prep \in Preps /\ RowsTrue(s.rows, Written', prep.rows)
  BY <1>2, <1>7 DEF PrepKept
<1>10. /\ prep' \in Preps /\ prep'.step \in {AfterOpen, "low"} /\ prep'.rows = prep.rows
  BY <1>2, <1>8, <1>9 DEF Preps
<1>11. PrepKept(s.rows, Written', ctl, prep')
  BY <1>8, <1>9, <1>10 DEF PrepKept
<1>12. SinkKept(s.rows, Written)' /\ ControllerKept(s.rows, Written, view, flight, ctl)' /\ PrepKept(s.rows, Written, ctl, prep)'
  BY <1>2, <1>7, <1>11 DEF SinkKept, durable
<1>13. TaskKept(s)'
  BY <1>1, <1>2 DEF TaskKept, durable
<1> QED BY <1>6, <1>12, <1>13 DEF SnapshotKept

\* The chunk that was prepared becomes the controller's.
LEMMA PrepareCloseKept ==
    ASSUME NEW s \in Setups, SnapshotKept(s), PrepareClose
    PROVE  SnapshotKept(s)'
<1> DEFINE p == ctl.progress
           id == [id |-> ctl.progress.id, chunk |-> ctl.progress.chunk]
           high == IF ReadOnly THEN CurrentSnapshot ELSE NoSnapshot
           max == IF ctl.progress.max = 0 THEN prep.max ELSE ctl.progress.max
           dirty == ctl.dirty \/ ctl.progress.max = 0
           next == [p EXCEPT !.max = max]
           X == Written'
           R == s.rows
<1>1. /\ TaskKept(s) /\ DatabaseKept(s.rows, Written) /\ PrepKept(s.rows, Written, ctl, prep)
  BY DEF SnapshotKept
<1>2. /\ prep.step = "close" /\ prep' = NoPrep
      /\ Mark("close") \/ UNCHANGED wal
      /\ nextXid' \in {nextXid, nextXid + 1} /\ lastDone' \in {lastDone, nextXid}
      /\ ctl' = [ctl EXCEPT !.window = prep.rows, !.end = prep.end, !.complete = prep.complete, !.chunk = id,
                            !.table = ThisTable, !.open = FALSE, !.low = prep.low, !.high = high,
                            !.progress.max = max, !.dirty = dirty]
      /\ UNCHANGED <<setup, step, open, table, durable, phase, txn, resume, lastSafe, ext, lines, conn, flight, stops>>
  BY DEF PrepareClose
<1>3. PICK more \in Seq(WalRecords) :
                /\ wal' = wal \o more
                /\ \A n \in DOMAIN more : more[n].kind = "close" => more[n].mark # NoChunk
                /\ \A n \in DOMAIN more : more[n].kind # "signal"
  BY <1>2, MarkFacts
<1>4. /\ step \in Nat \ {0} /\ nextXid \in Nat /\ lastDone \in Nat /\ open \in [{x.tx : x \in Range(Script)} -> Nat]
      /\ wal \in Seq(WalRecords) /\ table \in [DOMAIN s.rows -> Nat] /\ setup = s
  BY <1>1 DEF DatabaseKept, TaskKept
<1>5. nextXid' \in Nat /\ lastDone' \in Nat
  BY <1>2, <1>4
<1>6. DatabaseKept(s.rows, Written)' /\ WireKept' /\ Written \subseteq Written'
  BY <1>2, <1>3, <1>4, <1>5, LogKept
<1>7. /\ SinkKept(R, X) /\ ControllerKept(R, X, view, flight, ctl)
      /\ PrepKept(R, X, ctl, prep)
  BY <1>6, RestStays
<1>8. /\ ThisTable = p.tables[p.current] /\ ThisTable \in TableSet
      /\ ctl \in Controllers /\ p \in ProgressSet /\ prep \in Preps /\ Active(ctl)
      /\ p.chunk # 0
  BY <1>2, CurrentRows
<1>9. CurrentSnapshot \in Watermarks
  BY <1>4, SnapshotType
<1> HIDE DEF X, R
<1>10. /\ id \in MarkSet /\ id # NoChunk /\ high \in Watermarks /\ max \in Nat /\ dirty \in BOOLEAN
  <2>1. id \in MarkSet /\ id # NoChunk
    BY <1>8 DEF ProgressSet, MarkSet, NoChunk
  <2>2. high \in Watermarks
    BY <1>9, NoneKept
  <2> QED BY <1>8, <2>1, <2>2 DEF ProgressSet, Preps, Controllers
<1> HIDE DEF id, high, dirty
<1>11. /\ next \in ProgressSet /\ next.tables = p.tables /\ next.current = p.current /\ next.last = p.last
       /\ next.max = max /\ next.chunk = p.chunk /\ next.paused = p.paused
  <2> HIDE DEF max, p
  <2> QED BY <1>8, <1>10 DEF ProgressSet
<1>12. next # NoProgress
  <2>1. NoProgress.chunk = 0
    BY DEF NoProgress
  <2> HIDE DEF next, p
  <2> QED BY <1>8, <1>11, <2>1
<1>13. /\ ctl' \in Controllers /\ ctl'.progress = next /\ ctl'.window = prep.rows /\ ctl'.end = prep.end
       /\ ctl'.complete = prep.complete /\ ctl'.chunk = id /\ ctl'.high = high /\ ctl'.prepare = ctl.prepare
  <2> DEFINE d == [ctl EXCEPT !.window = prep.rows, !.end = prep.end, !.complete = prep.complete, !.chunk = id,
                              !.table = ThisTable]
             e == [d EXCEPT !.open = FALSE, !.low = prep.low, !.high = high, !.progress = next, !.dirty = dirty]
  <2>1. ctl' = e
    BY <1>2, <1>8 DEF Controllers
  <2> HIDE DEF next, p
  <2>2. d \in Controllers /\ d.window = prep.rows /\ d.end = prep.end /\ d.complete = prep.complete /\ d.chunk = id
        /\ d.prepare = ctl.prepare
    BY <1>8, <1>10 DEF Controllers, Preps
  <2> HIDE DEF d
  <2>3. /\ e \in Controllers /\ e.progress = next /\ e.window = d.window /\ e.end = d.end
        /\ e.complete = d.complete /\ e.chunk = d.chunk /\ e.high = high /\ e.prepare = d.prepare
    BY <1>8, <1>10, <1>11, <2>2 DEF Controllers, Preps
  <2> HIDE DEF e
  <2> QED BY <2>1, <2>2, <2>3
<1>14. ProgressKept(R, X, view, flight, Len(flight), next)
  <2>1. ProgressKept(R, X, view, flight, Len(flight), p)
    BY <1>7 DEF ControllerKept
  <2>2. max # 0 => \A key \in Untouched(R, X) : key.table = p.tables[p.current] => key.k <= max
    BY <1>2, <1>7, <2>1 DEF PrepKept, ProgressKept
  <2>3. p.current \in DOMAIN p.tables
    BY <1>8, <2>1 DEF ProgressKept, Active
  <2> HIDE DEF next, p, max
  <2> QED BY <1>8, <1>11, <2>1, <2>2, <2>3 DEF ProgressKept, Behind
<1>15. ChunkKept(R, X, next, prep.rows, prep.end, prep.complete)
  <2>1. ChunkKept(R, X, p, prep.rows, prep.end, prep.complete)
    BY <1>2, <1>7 DEF PrepKept
  <2> HIDE DEF next, p
  <2> QED BY <1>11, <2>1 DEF ChunkKept
<1>16. RowsTrue(R, X, prep.rows)
  BY <1>7 DEF PrepKept
<1>17. ctl.prepare => Active(ctl) /\ ~p.paused
  BY <1>7 DEF ControllerKept
<1> HIDE DEF next, p
<1>18. ControllerKept(R, X, view, flight, ctl')
  BY <1>10, <1>11, <1>12, <1>13, <1>14, <1>15, <1>16, <1>17 DEF ControllerKept, Active, Watched
<1>19. PrepKept(R, X, ctl', prep')
  <2>1. NoPrep \in Preps /\ NoPrep.step = "none" /\ NoPrep.rows = {}
    BY NoneKept DEF NoPrep, Preps
  <2> QED BY <1>2, <2>1, NoneKept DEF PrepKept
<1>20. SinkKept(s.rows, Written)' /\ ControllerKept(s.rows, Written, view, flight, ctl)' /\ PrepKept(s.rows, Written, ctl, prep)'
  BY <1>2, <1>7, <1>18, <1>19 DEF SinkKept, durable, R, X
<1>21. TaskKept(s)'
  BY <1>1, <1>2 DEF TaskKept, durable
<1> QED BY <1>6, <1>20, <1>21 DEF SnapshotKept


-----------------------------------------------------------------------------
(* The turns of the select loop.                                            *)

\* What a step has to keep that leaves the database, the sink and the checkpoint alone.
LEMMA TurnKept ==
    ASSUME NEW s \in Setups, SnapshotKept(s), UNCHANGED <<setup, database, view, ckpt>>,
           FlightKept(s.rows, Written, view, flight'), ControllerKept(s.rows, Written, view, flight', ctl'),
           PrepKept(s.rows, Written, ctl', prep'), WireKept', TaskKept(s)'
    PROVE  SnapshotKept(s)'
<1>1. DatabaseKept(s.rows, Written) /\ SinkKept(s.rows, Written)
  BY DEF SnapshotKept
<1>2. Written' = Written
  BY DEF Written, database
<1>3. DatabaseKept(s.rows, Written)'
  BY <1>1, <1>2 DEF DatabaseKept, database, Script
<1>4. ProgressKept(s.rows, Written, view, flight', 0, ckpt.state.progress)
  <2>1. ProgressKept(s.rows, Written, view, flight, 0, ckpt.state.progress) /\ flight \in Seq(Items)
    BY <1>1 DEF SinkKept, FlightKept
  <2>2. \A i \in DOMAIN flight : ~(i <= 0)
    BY <2>1
  <2>3. \A i \in DOMAIN flight : i <= 0 => i \in DOMAIN flight' /\ i <= 0 /\ flight'[i].key = flight[i].key
    BY <2>2
  <2> QED BY <2>1, <2>3, ProgressStays
<1>5. SinkKept(s.rows, Written)'
  BY <1>1, <1>2, <1>4 DEF SinkKept
<1> QED BY <1>2, <1>3, <1>5 DEF SnapshotKept

\* What is being prepared before a chunk is, and when none is.
LEMMA PrepStarts ==
    ASSUME NEW R, NEW W, NEW c
    PROVE  /\ Active(c) => PrepKept(R, W, c, StartPrep)
           /\ PrepKept(R, W, c, NoPrep)
           /\ \A d, q : PrepKept(R, W, d, q) /\ q.step = "none" => PrepKept(R, W, c, q)
           /\ StartPrep.step = "open" /\ NoPrep.step = "none"
<1>1. NoPrep \in Preps /\ NoPrep.step = "none" /\ NoPrep.rows = {}
  BY NoneKept DEF NoPrep, Preps
<1>2. StartPrep \in Preps /\ StartPrep.step = "open" /\ StartPrep.rows = {}
  BY <1>1 DEF StartPrep, Preps
<1> QED BY <1>1, <1>2, NoneKept DEF PrepKept

\* What the loop finds when it takes an event.
LEMMA Taken ==
    ASSUME NEW s \in Setups, SnapshotKept(s), wire # <<>>
    PROVE  /\ Head(wire).i \in DOMAIN wal /\ Head(wire).i \in Nat
           /\ wal[Head(wire).i] \in WalRecords
           /\ Head(wire).kind \in {"put", "signal", "open", "close"} => Head(wire).kind = wal[Head(wire).i].kind
           /\ Min(RecordsOf(wal[Head(wire).i].xid, wal)) \in Nat
           /\ wire' \in {wire, Tail(wire)} /\ UNCHANGED <<wal, from, decoded>> => WireKept'
           /\ IsTable(s.rows) /\ FlightKept(s.rows, Written, view, flight)
           /\ ControllerKept(s.rows, Written, view, flight, ctl) /\ PrepKept(s.rows, Written, ctl, prep)
           /\ TaskKept(s) /\ DatabaseKept(s.rows, Written)
<1>1. /\ WireKept /\ IsTable(s.rows) /\ FlightKept(s.rows, Written, view, flight)
      /\ ControllerKept(s.rows, Written, view, flight, ctl) /\ PrepKept(s.rows, Written, ctl, prep)
      /\ TaskKept(s) /\ DatabaseKept(s.rows, Written)
  BY SetupFacts DEF SnapshotKept, SinkKept
<1>2. wire \in Seq(Events) /\ wal \in Seq(WalRecords)
  BY <1>1 DEF WireKept, DatabaseKept
<1>3. /\ Tail(wire) \in Seq(Events) /\ Head(wire) = wire[1] /\ 1 \in DOMAIN wire
      /\ \A n \in DOMAIN Tail(wire) : n + 1 \in DOMAIN wire /\ Tail(wire)[n] = wire[n + 1]
  BY <1>2, Shorter
<1> DEFINE i == Head(wire).i
<1>4. i \in DOMAIN wal /\ (Head(wire).kind \in {"put", "signal", "open", "close"} => Head(wire).kind = wal[i].kind)
  BY <1>1, <1>3 DEF WireKept
<1>5. DOMAIN wal = 1 .. Len(wal) /\ Len(wal) \in Nat /\ wal[i] \in WalRecords
  BY <1>2, <1>4
<1>6. Min(RecordsOf(wal[i].xid, wal)) \in Nat
  <2> HIDE DEF i
  <2>1. RecordsOf(wal[i].xid, wal) \in SUBSET (1 .. Len(wal)) /\ i \in RecordsOf(wal[i].xid, wal)
    BY <1>4, <1>5 DEF RecordsOf
  <2>2. IsFiniteSet(1 .. Len(wal)) /\ 1 .. Len(wal) \subseteq Nat
    BY <1>5, FS_Interval
  <2>3. IsFiniteSet(RecordsOf(wal[i].xid, wal))
    BY <2>1, <2>2, FS_Subset
  <2>4. RecordsOf(wal[i].xid, wal) \subseteq Nat /\ RecordsOf(wal[i].xid, wal) # {}
    BY <2>1, <2>2
  <2>5. Min(RecordsOf(wal[i].xid, wal)) \in RecordsOf(wal[i].xid, wal)
    BY <2>3, <2>4, Extremes
  <2> QED BY <2>4, <2>5
<1>7. ASSUME wire' \in {wire, Tail(wire)}, UNCHANGED <<wal, from, decoded>> PROVE WireKept'
  <2>1. CASE wire' = wire
    BY <1>1, <1>7, <2>1 DEF WireKept
  <2>2. CASE wire' = Tail(wire)
    BY <1>1, <1>3, <1>7, <2>2 DEF WireKept
  <2> QED BY <1>7, <2>1, <2>2
<1>8. i \in Nat
  BY <1>4, <1>5
<1> QED BY <1>1, <1>4, <1>5, <1>6, <1>7, <1>8

\* The begin of a transaction, which may close a window without writes.
LEMMA BeginKept ==
    ASSUME NEW s \in Setups, SnapshotKept(s), Begin \/ StreamStart
    PROVE  SnapshotKept(s)'
<1> DEFINE i == Head(wire).i
           xid == wal[i].xid
<1>1. PICK lsn \in {i, Min(RecordsOf(xid, wal))}, id \in {txn, xid} :
            /\ wire # <<>> /\ wire' = Tail(wire) /\ Ready
            /\ txn' = id /\ ctl' = AfterEvent(xid)
            /\ flight' = flight \o WindowRecords(WindowAt(lsn), RowsAtEvent(xid))
            /\ UNCHANGED <<loopRest, prep, resume, lastSafe>>
  BY DEF Begin, StreamStart, Take, BeginAt
<1>2. /\ i \in Nat /\ wal[i] \in WalRecords /\ Min(RecordsOf(xid, wal)) \in Nat
      /\ wire' \in {wire, Tail(wire)} /\ UNCHANGED <<wal, from, decoded>> => WireKept'
      /\ IsTable(s.rows) /\ FlightKept(s.rows, Written, view, flight)
      /\ ControllerKept(s.rows, Written, view, flight, ctl) /\ PrepKept(s.rows, Written, ctl, prep)
      /\ TaskKept(s)
  BY <1>1, Taken
<1>3. xid \in Nat /\ WindowAt(lsn) \in Nat
  <2>1. lsn \in Nat
    BY <1>2
  <2> QED BY <1>2, <2>1 DEF WalRecords, WindowAt
<1> HIDE DEF i, xid
<1>4. FlightKept(s.rows, Written, view, flight') /\ ControllerKept(s.rows, Written, view, flight', ctl')
  <2>1. PICK f : f = flight'
    OBVIOUS
  <2>2. f = flight \o WindowRecords(WindowAt(lsn), RowsAtEvent(xid))
    BY <1>1, <2>1
  <2>3. FlightKept(s.rows, Written, view, f) /\ ControllerKept(s.rows, Written, view, f, AfterEvent(xid))
    BY <1>2, <1>3, <2>2, EventKept
  <2> QED BY <1>1, <2>1, <2>3
<1>5. PrepKept(s.rows, Written, ctl', prep')
  BY <1>1, <1>2, PrepStarts DEF Ready
<1>6. WireKept' /\ TaskKept(s)'
  BY <1>1, <1>2, <1>3 DEF loopRest, database, durable, TaskKept
<1>7. UNCHANGED <<setup, database, view, ckpt>>
  BY <1>1 DEF loopRest, durable
<1> QED BY <1>4, <1>5, <1>6, <1>7, TurnKept, SMTT(30)

LEMMA ChangeKept ==
    ASSUME NEW s \in Setups, SnapshotKept(s), Change
    PROVE  SnapshotKept(s)'
<1> DEFINE i == Head(wire).i
           sent == WindowRecords(WindowAt(i), RowsAtEvent(txn))
<1>1. /\ wire # <<>> /\ wire' = Tail(wire) /\ Ready /\ Head(wire).kind = "put"
      /\ Convert(ChangeAt(i), wal[i].key, wal[i].val, FALSE, AfterEvent(txn), sent)
      /\ UNCHANGED <<loopRest, prep, txn>>
  BY DEF Change, Take
<1>2. /\ i \in Nat /\ i \in DOMAIN wal /\ wal[i] \in WalRecords /\ wal[i].kind = "put"
      /\ wire' \in {wire, Tail(wire)} /\ UNCHANGED <<wal, from, decoded>> => WireKept'
      /\ IsTable(s.rows) /\ FlightKept(s.rows, Written, view, flight)
      /\ ControllerKept(s.rows, Written, view, flight, ctl) /\ PrepKept(s.rows, Written, ctl, prep)
      /\ TaskKept(s)
  BY <1>1, Taken
<1>3. /\ wal[i].key \in KeySet /\ wal[i].val \in Nat /\ wal[i].key \in Written
      /\ WindowAt(i) \in Nat /\ ChangeAt(i) \in Nat
  BY <1>2 DEF WalRecords, Written, WindowAt, ChangeAt
<1> HIDE DEF i
<1>4. /\ FlightKept(s.rows, Written, view, flight \o sent)
      /\ ControllerKept(s.rows, Written, view, flight \o sent, AfterEvent(txn))
  <2>1. PICK f : f = flight \o sent
    OBVIOUS
  <2>2. FlightKept(s.rows, Written, view, f) /\ ControllerKept(s.rows, Written, view, f, AfterEvent(txn))
    BY <1>2, <1>3, <2>1, EventKept
  <2> QED BY <2>1, <2>2
<1> HIDE DEF sent
<1>5. FlightKept(s.rows, Written, view, flight') /\ ControllerKept(s.rows, Written, view, flight', ctl')
  <2>1. PICK no \in BOOLEAN : no = FALSE
    OBVIOUS
  <2>2. Convert(ChangeAt(i), wal[i].key, wal[i].val, no, AfterEvent(txn), sent)
    BY <1>1, <2>1
  <2>3. (no => wal[i].key = NoKey) /\ (~no => wal[i].key \in Written)
    BY <1>3, <2>1
  <2> QED BY <1>2, <1>3, <1>4, <2>2, <2>3, ConvertKept
<1>6. PrepKept(s.rows, Written, ctl', prep')
  BY <1>1, <1>2, PrepStarts DEF Ready
<1>7. WireKept' /\ TaskKept(s)'
  <2>1. resume' \in {resume, 0} /\ lastSafe' \in {lastSafe, ChangeAt(i)}
    BY <1>1 DEF Convert
  <2> QED BY <1>1, <1>2, <1>3, <2>1 DEF loopRest, database, durable, TaskKept
<1>8. UNCHANGED <<setup, database, view, ckpt>>
  BY <1>1 DEF loopRest, durable
<1> QED BY <1>5, <1>6, <1>7, <1>8, TurnKept


LEMMA SourceSignalKept ==
    ASSUME NEW s \in Setups, SnapshotKept(s), SourceSignal
    PROVE  SnapshotKept(s)'
<1> DEFINE i == Head(wire).i
           g == wal[i].signal
           c == AfterEvent(txn)
<1>1. /\ wire # <<>> /\ wire' = Tail(wire) /\ Ready /\ Head(wire).kind = "signal"
      /\ ctl' = Handle(c, g) /\ prep' = (IF Accepts(c, g) THEN StartPrep ELSE prep)
      /\ flight' = flight \o WindowRecords(WindowAt(i), RowsAtEvent(txn))
      /\ UNCHANGED <<loopRest, txn, resume, lastSafe>>
  BY DEF SourceSignal, Take
<1>2. /\ i \in Nat /\ i \in DOMAIN wal /\ wal[i] \in WalRecords /\ wal[i].kind = "signal"
      /\ wire' \in {wire, Tail(wire)} /\ UNCHANGED <<wal, from, decoded>> => WireKept'
      /\ IsTable(s.rows) /\ FlightKept(s.rows, Written, view, flight)
      /\ ControllerKept(s.rows, Written, view, flight, ctl) /\ PrepKept(s.rows, Written, ctl, prep)
      /\ TaskKept(s) /\ DatabaseKept(s.rows, Written)
  BY <1>1, Taken
<1>3. /\ g \in Signals /\ WindowAt(i) \in Nat
  BY <1>2 DEF DatabaseKept, WindowAt
<1> HIDE DEF i, g
<1>4. PICK f : f = flight'
  OBVIOUS
<1>5. FlightKept(s.rows, Written, view, f) /\ ControllerKept(s.rows, Written, view, f, c)
  <2>1. f = flight \o WindowRecords(WindowAt(i), RowsAtEvent(txn))
    BY <1>1, <1>4
  <2> QED BY <1>2, <1>3, <2>1, EventKept
<1> HIDE DEF c
<1>6. /\ ControllerKept(s.rows, Written, view, f, Handle(c, g))
      /\ Accepts(c, g) => Active(Handle(c, g))
  BY <1>2, <1>3, <1>5, HandleKept
<1>7. FlightKept(s.rows, Written, view, flight') /\ ControllerKept(s.rows, Written, view, flight', ctl')
  BY <1>1, <1>4, <1>5, <1>6
<1>8. PrepKept(s.rows, Written, ctl', prep')
  BY <1>1, <1>2, <1>6, PrepStarts DEF Ready
<1>9. WireKept' /\ TaskKept(s)'
  BY <1>1, <1>2 DEF loopRest, database, durable, TaskKept
<1>10. UNCHANGED <<setup, database, view, ckpt>>
  BY <1>1 DEF loopRest, durable
<1> QED BY <1>7, <1>8, <1>9, <1>10, TurnKept

LEMMA WindowOpenKept ==
    ASSUME NEW s \in Setups, SnapshotKept(s), WindowOpen
    PROVE  SnapshotKept(s)'
<1> DEFINE b == ctl.open \/ wal[Head(wire).i].mark = ctl.chunk
<1>1. /\ wire # <<>> /\ wire' = Tail(wire) /\ Ready /\ ctl' = [ctl EXCEPT !.open = b]
      /\ UNCHANGED <<loopRest, prep, txn, resume, lastSafe, flight>>
  BY DEF WindowOpen, Take
<1>2. /\ wire' \in {wire, Tail(wire)} /\ UNCHANGED <<wal, from, decoded>> => WireKept'
      /\ FlightKept(s.rows, Written, view, flight)
      /\ ControllerKept(s.rows, Written, view, flight, ctl) /\ PrepKept(s.rows, Written, ctl, prep)
      /\ TaskKept(s)
  BY <1>1, Taken
<1>3. b \in BOOLEAN
  BY <1>2 DEF ControllerKept, Controllers
<1> HIDE DEF b
<1>4. ControllerKept(s.rows, Written, view, flight, ctl')
  <2>1. PICK d : d = [ctl EXCEPT !.open = b]
    OBVIOUS
  <2>2. ControllerKept(s.rows, Written, view, flight, d)
    BY <1>2, <1>3, <2>1, ObserveKept
  <2> QED BY <1>1, <2>1, <2>2
<1>5. PrepKept(s.rows, Written, ctl', prep')
  BY <1>1, <1>2, PrepStarts DEF Ready
<1>6. WireKept' /\ TaskKept(s)' /\ UNCHANGED <<setup, database, view, ckpt>>
  BY <1>1, <1>2 DEF loopRest, database, durable, TaskKept
<1> QED BY <1>1, <1>2, <1>4, <1>5, <1>6, TurnKept

\* A window is closed, and its rows are sent: what both closing actions do.
LEMMA ClosedKept ==
    ASSUME NEW R, IsTable(R), NEW W, NEW v, NEW f, FlightKept(R, W, v, f), NEW c,
           ControllerKept(R, W, v, f, c), c.chunk # NoChunk, NEW pos \in Nat,
           NEW g, g = f \o WindowRecords(pos, c.window)
    PROVE  FlightKept(R, W, v, g) /\ ControllerKept(R, W, v, g, Close(c))
<1>1. PICK rows \in SUBSET RowSet : rows = c.window
  BY DEF ControllerKept, Controllers
<1>2. g = f \o WindowRecords(pos, rows) /\ RowsTrue(R, W, rows)
  BY <1>1 DEF ControllerKept
<1>3. FlightKept(R, W, v, g)
  BY ONLY <1>2, IsTable(R), FlightKept(R, W, v, f), pos \in Nat, WindowSent
<1>4. ControllerKept(R, W, v, g, Close(c))
  BY CloseKept
<1> QED BY <1>3, <1>4

LEMMA WindowCloseKept ==
    ASSUME NEW s \in Setups, SnapshotKept(s), WindowClose
    PROVE  SnapshotKept(s)'
<1> DEFINE i == Head(wire).i
<1>1. /\ wire # <<>> /\ wire' = Tail(wire) /\ Ready /\ Head(wire).kind = "close"
      /\ \/ UNCHANGED <<ctl, flight>>
         \/ /\ ClosesWindow(ctl, wal[i].mark) /\ ctl' = Close(ctl)
            /\ flight' = flight \o WindowRecords(WindowAt(i), ctl.window)
      /\ UNCHANGED <<loopRest, prep, txn, resume, lastSafe>>
  BY DEF WindowClose, Take
<1>2. /\ i \in Nat /\ i \in DOMAIN wal /\ wal[i].kind = "close"
      /\ wire' \in {wire, Tail(wire)} /\ UNCHANGED <<wal, from, decoded>> => WireKept'
      /\ IsTable(s.rows) /\ FlightKept(s.rows, Written, view, flight)
      /\ ControllerKept(s.rows, Written, view, flight, ctl) /\ PrepKept(s.rows, Written, ctl, prep)
      /\ TaskKept(s) /\ DatabaseKept(s.rows, Written)
  BY <1>1, Taken
<1>3. wal[i].mark # NoChunk /\ WindowAt(i) \in Nat
  BY <1>2 DEF DatabaseKept, WindowAt
<1> HIDE DEF i
<1>4. FlightKept(s.rows, Written, view, flight') /\ ControllerKept(s.rows, Written, view, flight', ctl')
  <2>1. CASE UNCHANGED <<ctl, flight>>
    BY <1>2, <2>1
  <2>2. CASE ~UNCHANGED <<ctl, flight>>
    <3>1. ctl.chunk # NoChunk /\ ctl' = Close(ctl) /\ flight' = flight \o WindowRecords(WindowAt(i), ctl.window)
      BY <1>1, <1>3, <2>2 DEF ClosesWindow
    <3>2. FlightKept(s.rows, Written, view, flight') /\ ControllerKept(s.rows, Written, view, flight', Close(ctl))
      BY <1>2, <1>3, <3>1, ClosedKept
    <3> QED BY <3>1, <3>2
  <2> QED BY <2>1, <2>2
<1>5. PrepKept(s.rows, Written, ctl', prep')
  BY <1>1, <1>2, PrepStarts DEF Ready
<1>6. WireKept' /\ TaskKept(s)' /\ UNCHANGED <<setup, database, view, ckpt>>
  BY <1>1, <1>2 DEF loopRest, database, durable, TaskKept
<1> QED BY <1>4, <1>5, <1>6, TurnKept


\* The flag of a controller that asks for the next chunk is cleared.
LEMMA ClearedKept ==
    ASSUME NEW R, NEW W, NEW v, NEW f, NEW c, ControllerKept(R, W, v, f, c), NEW d, d = [c EXCEPT !.prepare = FALSE]
    PROVE  ControllerKept(R, W, v, f, d) /\ d.progress = c.progress /\ (Active(c) => Active(d))
<1>1. c \in Controllers
  BY DEF ControllerKept
<1>2. /\ d \in Controllers /\ d.progress = c.progress /\ ~d.prepare /\ d.chunk = c.chunk /\ d.high = c.high
      /\ d.window = c.window /\ d.end = c.end /\ d.complete = c.complete
  BY <1>1 DEF Controllers
<1>3. d.prepare => c.prepare
  BY <1>2
<1> QED BY <1>2, <1>3, FlagsKept DEF Active

LEMMA CommitClosesKept ==
    ASSUME NEW s \in Setups, SnapshotKept(s), CommitClosesWindow
    PROVE  SnapshotKept(s)'
<1> DEFINE i == Head(wire).i
           c == Close(ctl)
<1>1. /\ wire # <<>> /\ Ready /\ ClosesAtCommit(ctl, CommitXid)
      /\ ctl' = [c EXCEPT !.prepare = FALSE] /\ prep' = (IF c.prepare THEN StartPrep ELSE prep)
      /\ flight' = flight \o WindowRecords(WindowAtEnd(i), ctl.window)
      /\ UNCHANGED <<loopRest, wire, txn, resume, lastSafe>>
  BY DEF CommitClosesWindow
<1>2. /\ i \in Nat
      /\ wire' \in {wire, Tail(wire)} /\ UNCHANGED <<wal, from, decoded>> => WireKept'
      /\ IsTable(s.rows) /\ FlightKept(s.rows, Written, view, flight)
      /\ ControllerKept(s.rows, Written, view, flight, ctl) /\ PrepKept(s.rows, Written, ctl, prep)
      /\ TaskKept(s)
  BY <1>1, Taken
<1>3. ctl.chunk # NoChunk /\ WindowAtEnd(i) \in Nat
  BY <1>1, <1>2 DEF ClosesAtCommit, ControllerKept, WindowAtEnd
<1> HIDE DEF i
<1>4. FlightKept(s.rows, Written, view, flight') /\ ControllerKept(s.rows, Written, view, flight', c)
  BY <1>1, <1>2, <1>3, ClosedKept
<1> HIDE DEF c
<1>5. ControllerKept(s.rows, Written, view, flight', ctl') /\ (c.prepare => Active(ctl'))
  <2>1. PICK f, d : f = flight' /\ d = [c EXCEPT !.prepare = FALSE]
    OBVIOUS
  <2>2. ControllerKept(s.rows, Written, view, f, c)
    BY <1>4, <2>1
  <2>3. ControllerKept(s.rows, Written, view, f, d) /\ (Active(c) => Active(d))
    BY <2>1, <2>2, ClearedKept
  <2>4. c.prepare => Active(c)
    BY <1>4 DEF ControllerKept
  <2> QED BY <1>1, <2>1, <2>3, <2>4
<1>6. PrepKept(s.rows, Written, ctl', prep')
  BY <1>1, <1>2, <1>5, PrepStarts DEF Ready
<1>7. WireKept' /\ TaskKept(s)' /\ UNCHANGED <<setup, database, view, ckpt>>
  BY <1>1, <1>2 DEF loopRest, database, durable, TaskKept
<1> QED BY <1>4, <1>5, <1>6, <1>7, TurnKept

LEMMA CommitContinuesKept ==
    ASSUME NEW s \in Setups, SnapshotKept(s), CommitContinues
    PROVE  SnapshotKept(s)'
<1>1. /\ wire # <<>> /\ Ready /\ ctl.prepare
      /\ ctl' = [ctl EXCEPT !.prepare = FALSE] /\ prep' = StartPrep
      /\ UNCHANGED <<loopRest, wire, txn, resume, lastSafe, flight>>
  BY DEF CommitContinues
<1>2. /\ wire' \in {wire, Tail(wire)} /\ UNCHANGED <<wal, from, decoded>> => WireKept'
      /\ FlightKept(s.rows, Written, view, flight)
      /\ ControllerKept(s.rows, Written, view, flight, ctl) /\ PrepKept(s.rows, Written, ctl, prep)
      /\ TaskKept(s)
  BY <1>1, Taken
<1>3. ControllerKept(s.rows, Written, view, flight', ctl') /\ Active(ctl')
  <2>1. PICK d : d = [ctl EXCEPT !.prepare = FALSE]
    OBVIOUS
  <2>2. ControllerKept(s.rows, Written, view, flight, d) /\ (Active(ctl) => Active(d))
    BY <1>2, <2>1, ClearedKept
  <2>3. Active(ctl)
    BY <1>1, <1>2 DEF ControllerKept
  <2> QED BY <1>1, <2>1, <2>2, <2>3
<1>4. PrepKept(s.rows, Written, ctl', prep')
  BY <1>1, <1>3, PrepStarts
<1>5. FlightKept(s.rows, Written, view, flight')
  BY <1>1, <1>2
<1>6. WireKept' /\ TaskKept(s)' /\ UNCHANGED <<setup, database, view, ckpt>>
  BY <1>1, <1>2 DEF loopRest, database, durable, TaskKept
<1> QED BY <1>3, <1>4, <1>5, <1>6, TurnKept

LEMMA CommitKept ==
    ASSUME NEW s \in Setups, SnapshotKept(s), Commit
    PROVE  SnapshotKept(s)'
<1> DEFINE i == Head(wire).i
           p == CommitAt(i)
<1>1. /\ wire # <<>> /\ wire' = Tail(wire) /\ Ready /\ txn' = 0
      /\ Convert(p, NoKey, 0, TRUE, ctl, <<>>)
      /\ prep' = (IF ctl.prepare /\ ~ReadOnly /\ ~ShouldSkip(p) THEN StartPrep ELSE prep)
      /\ UNCHANGED loopRest
  BY DEF Commit, Take
<1>2. /\ i \in Nat
      /\ wire' \in {wire, Tail(wire)} /\ UNCHANGED <<wal, from, decoded>> => WireKept'
      /\ IsTable(s.rows) /\ FlightKept(s.rows, Written, view, flight)
      /\ ControllerKept(s.rows, Written, view, flight, ctl) /\ PrepKept(s.rows, Written, ctl, prep)
      /\ TaskKept(s)
  BY <1>1, Taken
<1>3. p \in Nat /\ NoKey \in KeySet
  BY <1>2 DEF CommitAt, NoKey, KeySet, TableSet
<1> HIDE DEF i, p
<1>4. /\ FlightKept(s.rows, Written, view, flight') /\ ControllerKept(s.rows, Written, view, flight', ctl')
      /\ ctl'.progress = ctl.progress
  <2>1. PICK yes \in BOOLEAN : yes = TRUE
    OBVIOUS
  <2>2. PICK sent : sent = <<>>
    OBVIOUS
  <2>3. flight \o sent = flight
    BY <1>2, <2>2 DEF FlightKept
  <2>4. PICK val \in Nat : val = 0
    OBVIOUS
  <2>5. Convert(p, NoKey, val, yes, ctl, sent) /\ (yes => NoKey = NoKey) /\ (~yes => NoKey \in Written)
    BY <1>1, <2>1, <2>2, <2>4
  <2>6. /\ FlightKept(s.rows, Written, view, flight \o sent)
        /\ ControllerKept(s.rows, Written, view, flight \o sent, ctl)
        /\ IsTable(s.rows)
    BY <1>2, <2>3
  <2> QED BY <1>3, <2>5, <2>6, ConvertKept
<1>5. PrepKept(s.rows, Written, ctl', prep')
  <2>1. ctl.prepare => Active(ctl')
    BY <1>2, <1>4 DEF ControllerKept, Active
  <2> QED BY <1>1, <1>2, <2>1, PrepStarts DEF Ready
<1>6. WireKept' /\ TaskKept(s)' /\ UNCHANGED <<setup, database, view, ckpt>>
  <2>1. resume' \in {resume, 0} /\ lastSafe' \in {lastSafe, p}
    BY <1>1 DEF Convert
  <2> QED BY <1>1, <1>2, <1>3, <2>1 DEF loopRest, database, durable, TaskKept
<1> QED BY <1>4, <1>5, <1>6, TurnKept

\* A record without a row goes out, with the controller's state or none.
LEMMA StateSent ==
    ASSUME NEW R, IsTable(R), NEW W, NEW v, NEW f, FlightKept(R, W, v, f), NEW c, ControllerKept(R, W, v, f, c),
           NEW pos \in Nat, NEW commit \in BOOLEAN, NEW ack \in BOOLEAN, NEW state \in {NoState, State(c)},
           NEW g, g = Append(f, Item(pos, NoKey, 0, commit, state, ack))
    PROVE  FlightKept(R, W, v, g) /\ ControllerKept(R, W, v, g, c)
<1> DEFINE e == Item(pos, NoKey, 0, commit, state, ack)
<1>1. f \in Seq(Items) /\ c \in Controllers /\ ProgressKept(R, W, v, f, Len(f), c.progress)
  BY DEF FlightKept, ControllerKept
<1>2. state \in StateSet /\ ProgressKept(R, W, v, f, Len(f), state.progress)
  <2>1. NoState = [progress |-> NoProgress, completed |-> <<0>>] /\ <<0>> \in Seq(Nat)
    BY DEF NoState, State, New
  <2>2. NoState \in StateSet /\ NoState.progress = NoProgress
    BY <2>1, NoneKept DEF StateSet
  <2>3. State(c) \in StateSet /\ State(c).progress = c.progress
    BY <1>1 DEF State, StateSet, Controllers
  <2> QED BY <1>1, <2>2, <2>3, NoneKept
<1>3. e \in Items /\ e.key = NoKey /\ e.state = state
  <2>1. NoKey \in KeySet
    BY DEF NoKey, KeySet, TableSet
  <2>2. e = [pos |-> pos, key |-> NoKey, val |-> 0, commit |-> commit, state |-> state, ack |-> ack]
    BY DEF Item
  <2> HIDE DEF e
  <2> QED BY <1>2, <2>1, <2>2 DEF Items
<1>4. NoKey \notin DOMAIN R
  BY DEF NoKey, IsTable
<1> HIDE DEF e
<1>5. FlightKept(R, W, v, Append(f, e))
  BY <1>2, <1>3, <1>4, FlightAppended
<1>6. ControllerKept(R, W, v, Append(f, e), c)
  <2>1. /\ Len(f) \in Nat /\ Len(Append(f, e)) \in Nat /\ Len(f) <= Len(Append(f, e))
        /\ DOMAIN f = 1 .. Len(f) /\ DOMAIN Append(f, e) = 1 .. Len(Append(f, e))
        /\ \A n \in DOMAIN f : Append(f, e)[n].key = f[n].key
    BY <1>1, <1>3, Longer
  <2> QED BY <2>1, ControllerStays
<1> QED BY <1>5, <1>6 DEF e

LEMMA HeartbeatKept ==
    ASSUME NEW s \in Setups, SnapshotKept(s), Heartbeat
    PROVE  SnapshotKept(s)'
<1>1. /\ flight' = Append(flight, Item(lastSafe, NoKey, 0, FALSE, NoState, FALSE))
      /\ UNCHANGED <<setup, database, durable, connector, conn, stops>>
  BY DEF Heartbeat
<1>2. /\ IsTable(s.rows) /\ FlightKept(s.rows, Written, view, flight)
      /\ ControllerKept(s.rows, Written, view, flight, ctl) /\ PrepKept(s.rows, Written, ctl, prep)
      /\ TaskKept(s) /\ WireKept
  BY SetupFacts DEF SnapshotKept, SinkKept
<1>3. lastSafe \in Nat
  BY <1>2 DEF TaskKept
<1>4. FlightKept(s.rows, Written, view, flight') /\ ControllerKept(s.rows, Written, view, flight', ctl)
  <2>1. PICK no \in BOOLEAN : no = FALSE
    OBVIOUS
  <2>2. PICK state \in {NoState, State(ctl)} : state = NoState
    OBVIOUS
  <2>3. flight' = Append(flight, Item(lastSafe, NoKey, 0, no, state, no))
    BY <1>1, <2>1, <2>2
  <2> QED BY <1>2, <1>3, <2>3, StateSent
<1>5. /\ ControllerKept(s.rows, Written, view, flight', ctl') /\ PrepKept(s.rows, Written, ctl', prep')
  BY <1>1, <1>2, <1>4 DEF connector
<1>6. WireKept' /\ TaskKept(s)' /\ UNCHANGED <<setup, database, view, ckpt>>
  BY <1>1, <1>2 DEF connector, conn, database, durable, TaskKept, WireKept
<1> QED BY <1>4, <1>5, <1>6, TurnKept

-----------------------------------------------------------------------------
(* Signals of the topic and the file.                                       *)

LEMMA AppliedKept ==
    ASSUME NEW s \in Setups, SnapshotKept(s), NEW g \in Signals, prep.step = "none", Apply(g)
    PROVE  /\ ControllerKept(s.rows, Written, view, flight, ctl') /\ PrepKept(s.rows, Written, ctl', prep')
           /\ prep'.step # "none" => ~ctl'.progress.paused
<1> DEFINE c == Handle(ctl, g)
<1>1. IsTable(s.rows) /\ ControllerKept(s.rows, Written, view, flight, ctl) /\ PrepKept(s.rows, Written, ctl, prep)
  BY SetupFacts DEF SnapshotKept
<1>2. ctl' = [c EXCEPT !.prepare = FALSE] /\ prep' = (IF Accepts(ctl, g) \/ c.prepare THEN StartPrep ELSE prep)
  BY DEF Apply
<1>3. /\ ControllerKept(s.rows, Written, view, flight, c)
      /\ Accepts(ctl, g) => Active(c) /\ ~c.progress.paused
  BY <1>1, HandleKept
<1> HIDE DEF c
<1>4. c.prepare => Active(c) /\ ~c.progress.paused
  BY <1>3 DEF ControllerKept
<1>5. PICK d : d = [c EXCEPT !.prepare = FALSE]
  OBVIOUS
<1>6. ControllerKept(s.rows, Written, view, flight, d) /\ d.progress = c.progress /\ (Active(c) => Active(d))
  BY <1>3, <1>5, ClearedKept
<1>7. PrepKept(s.rows, Written, ctl', prep')
  BY <1>1, <1>2, <1>3, <1>4, <1>5, <1>6, PrepStarts
<1>8. prep'.step # "none" => ~ctl'.progress.paused
  BY <1>2, <1>3, <1>4, <1>5, <1>6
<1> QED BY <1>2, <1>5, <1>6, <1>7, <1>8

LEMMA ExternalKept ==
    ASSUME NEW s \in Setups, SnapshotKept(s), ExternalSignals
    PROVE  SnapshotKept(s)'
<1>1. /\ IsTable(s.rows) /\ FlightKept(s.rows, Written, view, flight)
      /\ ControllerKept(s.rows, Written, view, flight, ctl) /\ PrepKept(s.rows, Written, ctl, prep)
      /\ TaskKept(s) /\ WireKept /\ External \in Seq(Signals)
  BY SetupFacts DEF SnapshotKept, SinkKept, TaskKept, External
<1>2. offset \in Nat /\ lines \in Seq(Signals) /\ lastSafe \in Nat
  BY <1>1 DEF TaskKept
<1>3. CASE TakeExternal
  <2>1. /\ offset < Len(External) /\ prep.step = "none" /\ Apply(External[offset + 1]) /\ ext' = "taken"
        /\ UNCHANGED <<setup, database, durable, phase, txn, resume, lastSafe, lines, conn, flight, stops>>
    BY <1>3 DEF TakeExternal, Pending, Ready
  <2>2. External[offset + 1] \in Signals
    BY <1>1, <1>2, <2>1
  <2>3. ControllerKept(s.rows, Written, view, flight, ctl') /\ PrepKept(s.rows, Written, ctl', prep')
    BY <2>1, <2>2, AppliedKept
  <2>4. WireKept' /\ TaskKept(s)' /\ UNCHANGED <<setup, database, view, ckpt>> /\ flight' = flight
    BY <1>1, <2>1 DEF conn, database, durable, TaskKept, WireKept
  <2> QED BY <1>1, <2>3, <2>4, TurnKept
<1>4. CASE TakeFile
  <2>1. PICK n \in offset + 1 .. Len(External) :
            lines' = SubSeq(External, offset + 1, n) /\ offset' \in n .. Len(External)
    BY <1>4 DEF TakeFile
  <2>2. /\ ext' = "taken"
        /\ UNCHANGED <<setup, database, view, ckpt, phase, ctl, prep, txn, resume, lastSafe, conn, flight, stops>>
    BY <1>4 DEF TakeFile
  <2>3. lines' \in Seq(Signals) /\ offset' \in Nat
    BY <1>1, <1>2, <2>1
  <2>4. WireKept' /\ TaskKept(s)' /\ UNCHANGED <<setup, database, view, ckpt>>
    BY <1>1, <2>2, <2>3 DEF conn, database, TaskKept, WireKept
  <2> QED BY <1>1, <2>2, <2>4, TurnKept
<1>5. CASE ApplyLine
  <2>1. /\ prep.step = "none" /\ lines # <<>> /\ lines' = Tail(lines) /\ Apply(Head(lines))
        /\ UNCHANGED <<setup, database, durable, phase, txn, resume, lastSafe, ext, conn, flight, stops>>
    BY <1>5 DEF ApplyLine
  <2>2. Head(lines) \in Signals /\ lines' \in Seq(Signals)
    BY <1>2, <2>1, Shorter
  <2>3. ControllerKept(s.rows, Written, view, flight, ctl') /\ PrepKept(s.rows, Written, ctl', prep')
    BY <2>1, <2>2, AppliedKept
  <2>4. WireKept' /\ TaskKept(s)' /\ UNCHANGED <<setup, database, view, ckpt>> /\ flight' = flight
    BY <1>1, <2>1, <2>2 DEF conn, database, durable, TaskKept, WireKept
  <2> QED BY <1>1, <2>3, <2>4, TurnKept
<1>6. CASE CheckpointSignal
  <2>1. PICK asked \in BOOLEAN :
            \/ /\ ctl.dirty /\ ctl' = [ctl EXCEPT !.dirty = FALSE]
               /\ flight' = Append(flight, Item(lastSafe, NoKey, 0, TRUE, State(ctl), asked))
            \/ UNCHANGED <<ctl, flight>>
    BY <1>6 DEF CheckpointSignal
  <2>2. /\ prep.step = "none" /\ ext' \in {"sent", "idle", "acked"}
        /\ UNCHANGED <<setup, database, durable, phase, prep, txn, resume, lastSafe, lines, conn, stops>>
    BY <1>6 DEF CheckpointSignal
  <2>3. FlightKept(s.rows, Written, view, flight') /\ ControllerKept(s.rows, Written, view, flight', ctl')
    <3>1. CASE UNCHANGED <<ctl, flight>>
      BY <1>1, <3>1
    <3>2. CASE ~UNCHANGED <<ctl, flight>>
      <4>1. PICK yes \in BOOLEAN : yes = TRUE
        OBVIOUS
      <4>2. PICK state \in {NoState, State(ctl)} : state = State(ctl)
        OBVIOUS
      <4>3. PICK f, d : f = flight' /\ d = [ctl EXCEPT !.dirty = FALSE]
        OBVIOUS
      <4>4. f = Append(flight, Item(lastSafe, NoKey, 0, yes, state, asked)) /\ ctl' = d
        BY <2>1, <3>2, <4>1, <4>2, <4>3
      <4>5. FlightKept(s.rows, Written, view, f) /\ ControllerKept(s.rows, Written, view, f, ctl)
        BY <1>1, <1>2, <4>4, StateSent
      <4>6. /\ d \in Controllers /\ d.chunk = ctl.chunk /\ d.high = ctl.high /\ d.window = ctl.window
            /\ d.end = ctl.end /\ d.complete = ctl.complete /\ d.progress = ctl.progress /\ d.prepare = ctl.prepare
        <5>1. ctl \in Controllers
          BY <1>1 DEF ControllerKept
        <5> QED BY <4>3, <5>1 DEF Controllers
      <4>7. ControllerKept(s.rows, Written, view, f, d)
        BY <4>5, <4>6, FlagsKept
      <4> QED BY <4>3, <4>4, <4>5, <4>7
    <3> QED BY <3>1, <3>2
  <2>4. PrepKept(s.rows, Written, ctl', prep')
    BY <1>1, <2>2, PrepStarts
  <2>5. WireKept' /\ TaskKept(s)' /\ UNCHANGED <<setup, database, view, ckpt>>
    BY <1>1, <2>2 DEF conn, database, durable, TaskKept, WireKept
  <2> QED BY <2>3, <2>4, <2>5, TurnKept
<1>7. CASE CommitOffset
  <2>1. /\ ext' = "idle" /\ offset' = offset + 1
        /\ UNCHANGED <<setup, database, view, ckpt, phase, ctl, prep, txn, resume, lastSafe, lines, conn,
                       flight, stops>>
    BY <1>7 DEF CommitOffset
  <2>2. WireKept' /\ TaskKept(s)' /\ UNCHANGED <<setup, database, view, ckpt>>
    BY <1>1, <1>2, <2>1, SMTT(30) DEF conn, database, TaskKept, WireKept
  <2> QED BY <1>1, <2>1, <2>2, TurnKept
<1> QED BY <1>3, <1>4, <1>5, <1>6, <1>7 DEF ExternalSignals


-----------------------------------------------------------------------------
(* The runtime, and stops.                                                  *)

\* A batch reaches the sink: what would arrive with it has arrived.
LEMMA DeliverFacts ==
    ASSUME NEW s \in Setups, SnapshotKept(s), NEW n \in Nat, n <= Len(flight),
           NEW w, w = Deliver(n), NEW g, g = SubSeq(flight, n + 1, Len(flight))
    PROVE  /\ w \in [DOMAIN s.rows -> Nat] /\ \A key \in DOMAIN s.rows \ Written : w[key] \in {0, s.rows[key]}
           /\ g \in Seq(Items) /\ Len(g) = Len(flight) - n /\ Len(flight) \in Nat /\ Len(g) \in Nat
           /\ flight \in Seq(Items) /\ DOMAIN flight = 1 .. Len(flight)
           /\ \A m \in DOMAIN g : n + m \in DOMAIN flight /\ g[m] = flight[n + m] /\ m \in Nat
           /\ \A p : \A k, j \in Nat : k <= n + j /\ ProgressKept(s.rows, Written, view, flight, k, p)
                => ProgressKept(s.rows, Written, w, g, j, p)
<1> DEFINE R == s.rows
           shown(key) == {m \in 1 .. n : flight[m].key = key}
<1>1. /\ flight \in Seq(Items) /\ view \in [DOMAIN R -> Nat] /\ Keys = DOMAIN R
      /\ \A key \in DOMAIN R \ Written : view[key] \in {0, R[key]}
      /\ \A m \in DOMAIN flight : flight[m].key \in DOMAIN R \ Written => flight[m].val = R[flight[m].key]
  BY DEF SnapshotKept, SinkKept, FlightKept, TaskKept, Keys
<1>2. /\ g \in Seq(Items) /\ Len(g) = Len(flight) - n /\ Len(g) \in Nat /\ Len(flight) \in Nat
      /\ DOMAIN g = 1 .. Len(g) /\ DOMAIN flight = 1 .. Len(flight)
      /\ \A m \in DOMAIN g : n + m \in DOMAIN flight /\ g[m] = flight[n + m] /\ m \in Nat
  BY <1>1
<1>n. n \in Nat /\ Len(flight) \in Nat /\ n <= Len(flight) /\ DOMAIN flight = 1 .. Len(flight)
  BY <1>1
<1>3. w = [key \in DOMAIN R |-> IF shown(key) = {} THEN view[key] ELSE flight[Max(shown(key))].val]
  BY <1>1 DEF Deliver
<1> HIDE DEF R
<1>4. ASSUME NEW key \in DOMAIN R, shown(key) # {}
      PROVE  Max(shown(key)) \in DOMAIN flight /\ flight[Max(shown(key))].key = key
  <2> DEFINE S == shown(key)
  <2>1. S \in SUBSET (1 .. n) /\ S # {}
    BY <1>4
  <2>2. IsFiniteSet(1 .. n)
    BY FS_Interval
  <2>3. \A m \in S : m \in DOMAIN flight /\ flight[m].key = key
    <3>1. \A m \in 1 .. n : m \in 1 .. Len(flight)
      BY ONLY <1>n
    <3> QED BY <1>n, <3>1
  <2> HIDE DEF S
  <2>4. IsFiniteSet(S) /\ S \subseteq Nat
    <3>1. IsFiniteSet(S)
      BY <2>1, <2>2, FS_Subset
    <3>2. 1 .. n \subseteq Nat
      OBVIOUS
    <3> QED BY <2>1, <3>1, <3>2
  <2>5. Max(S) \in S
    BY <2>1, <2>4, Extremes
  <2>6. Max(S) \in DOMAIN flight /\ flight[Max(S)].key = key
    BY <2>3, <2>5
  <2> QED BY <2>6 DEF S
<1>5. ASSUME NEW key \in DOMAIN R
      PROVE  /\ w[key] \in Nat
             /\ shown(key) = {} => w[key] = view[key]
             /\ shown(key) # {} /\ key \notin Written => w[key] = R[key]
  <2>1. w[key] = IF shown(key) = {} THEN view[key] ELSE flight[Max(shown(key))].val
    BY <1>3
  <2>2. shown(key) # {} => flight[Max(shown(key))].val \in Nat
    <3>1. \A m \in DOMAIN flight : flight[m] \in Items
      BY <1>1
    <3> HIDE DEF shown
    <3> QED BY <1>4, <3>1 DEF Items
  <2> HIDE DEF shown
  <2> QED BY <1>1, <1>4, <2>1, <2>2
<1>6. w \in [DOMAIN R -> Nat]
  <2>1. DOMAIN w = DOMAIN R
    BY <1>3
  <2>2. w = [key \in DOMAIN R |-> w[key]]
    BY <1>3
  <2> QED BY <1>5, <2>2
<1>7. \A key \in DOMAIN R \ Written : w[key] \in {0, R[key]}
  <2> HIDE DEF shown
  <2> QED BY <1>1, <1>5
<1>8. ASSUME NEW k \in Nat, NEW j \in Nat, NEW p, k <= n + j, ProgressKept(R, Written, view, flight, k, p)
      PROVE  ProgressKept(R, Written, w, g, j, p)
  <2>1. ASSUME NEW key \in Untouched(R, Written), Arrives(R, view, flight, k, key) PROVE Arrives(R, w, g, j, key)
    <3>1. key \in DOMAIN R /\ key \notin Written
      BY DEF Untouched
    <3>2. CASE shown(key) # {}
      BY <1>5, <3>1, <3>2 DEF Arrives
    <3>3. CASE shown(key) = {} /\ view[key] = R[key]
      BY <1>5, <3>1, <3>3, SMTT(30) DEF Arrives
    <3>4. CASE shown(key) = {} /\ view[key] # R[key]
      <4>1. PICK m \in DOMAIN flight : m <= k /\ flight[m].key = key
        BY <2>1, <3>4, SMTT(30) DEF Arrives
      <4>2. m \in 1 .. Len(flight) /\ ~(m \in 1 .. n)
        BY <1>2, <3>4, <4>1
      <4>3. m - n \in 1 .. Len(g) /\ m - n <= j /\ n + (m - n) = m
        <5>1. m \in Nat /\ m <= Len(flight) /\ m > n
          BY ONLY <1>n, <4>2
        <5>2. Len(g) = Len(flight) - n /\ Len(flight) \in Nat
          BY <1>2
        <5> HIDE DEF shown
        <5> QED BY <1>8, <4>1, <5>1, <5>2, SMTT(30)
      <4>4. g[m - n].key = key
        BY <1>2, <4>1, <4>3
      <4> QED BY <1>2, <4>3, <4>4 DEF Arrives
    <3> QED BY <3>2, <3>3, <3>4
  <2> QED BY <1>8, <2>1 DEF ProgressKept
<1>9. \A p : \A k, j \in Nat : k <= n + j /\ ProgressKept(R, Written, view, flight, k, p)
                => ProgressKept(R, Written, w, g, j, p)
  BY <1>8
<1> QED BY <1>2, <1>1, <1>6, <1>7, <1>9 DEF R

\* The checkpoint of a batch has the last state the batch carries.
LEMMA FlushKept ==
    ASSUME NEW s \in Setups, SnapshotKept(s), Flush
    PROVE  SnapshotKept(s)'
<1> DEFINE R == s.rows
<1>1. PICK n \in Batches :
        /\ view' = Deliver(n) /\ ckpt' = [pos |-> flight[n].pos, state |-> SavedState(n)]
        /\ ext' = (IF \E m \in 1 .. n : flight[m].ack THEN "acked" ELSE ext)
        /\ flight' = SubSeq(flight, n + 1, Len(flight))
  BY DEF Flush
<1>2. UNCHANGED <<setup, database, offset, phase, ctl, prep, txn, resume, lastSafe, lines, conn, stops>>
  BY DEF Flush
<1>3. /\ TaskKept(s) /\ DatabaseKept(R, Written) /\ WireKept /\ SinkKept(R, Written)
      /\ ControllerKept(R, Written, view, flight, ctl) /\ PrepKept(R, Written, ctl, prep)
  BY DEF SnapshotKept
<1>4. n \in Nat /\ n <= Len(flight) /\ n \in DOMAIN flight
  <2>1. flight \in Seq(Items)
    BY <1>3 DEF SinkKept, FlightKept
  <2>2. n \in 1 .. Len(flight)
    BY DEF Batches
  <2> QED BY <2>1, <2>2
<1>5. PICK w, g : w = Deliver(n) /\ g = SubSeq(flight, n + 1, Len(flight))
  OBVIOUS
<1>v. w = view' /\ g = flight'
  BY <1>1, <1>5
<1>6. /\ w \in [DOMAIN R -> Nat] /\ \A key \in DOMAIN R \ Written : w[key] \in {0, R[key]}
      /\ g \in Seq(Items) /\ Len(g) = Len(flight) - n /\ Len(flight) \in Nat /\ Len(g) \in Nat
      /\ flight \in Seq(Items) /\ DOMAIN flight = 1 .. Len(flight)
      /\ \A m \in DOMAIN g : n + m \in DOMAIN flight /\ g[m] = flight[n + m] /\ m \in Nat
      /\ \A p : \A k, j \in Nat : k <= n + j /\ ProgressKept(R, Written, view, flight, k, p)
            => ProgressKept(R, Written, w, g, j, p)
  <2>1. n \in Nat /\ n <= Len(flight)
    BY <1>4
  <2>2. /\ w \in [DOMAIN R -> Nat] /\ \A key \in DOMAIN R \ Written : w[key] \in {0, R[key]}
        /\ g \in Seq(Items)
        /\ \A p : \A k, j \in Nat : k <= n + j /\ ProgressKept(R, Written, view, flight, k, p)
              => ProgressKept(R, Written, w, g, j, p)
    BY <1>5, <2>1, DeliverFacts
  <2>3. /\ Len(g) = Len(flight) - n /\ Len(flight) \in Nat /\ Len(g) \in Nat
        /\ flight \in Seq(Items) /\ DOMAIN flight = 1 .. Len(flight)
    BY <1>5, <2>1, DeliverFacts
  <2>4. \A m \in DOMAIN g : n + m \in DOMAIN flight /\ g[m] = flight[n + m] /\ m \in Nat
    BY <1>5, <2>1, DeliverFacts
  <2> QED BY <2>2, <2>3, <2>4
<1> HIDE DEF R
<1>7. FlightKept(R, Written, w, g)
  <2>1. FlightKept(R, Written, view, flight)
    BY <1>3 DEF SinkKept
  <2>2. ASSUME NEW m \in DOMAIN g
        PROVE  /\ g[m].key \in DOMAIN R \ Written => g[m].val = R[g[m].key]
               /\ ProgressKept(R, Written, w, g, m, g[m].state.progress)
    <3>1. /\ n + m \in DOMAIN flight /\ g[m] = flight[n + m] /\ m \in Nat /\ n + m \in Nat
      BY <1>4, <1>6
    <3>2. ProgressKept(R, Written, view, flight, n + m, flight[n + m].state.progress)
      BY <2>1, <3>1 DEF FlightKept
    <3>3. n + m <= n + m
      BY <3>1
    <3>4. ProgressKept(R, Written, w, g, m, flight[n + m].state.progress)
      BY <1>6, <3>1, <3>2, <3>3
    <3> QED BY <2>1, <3>1, <3>4 DEF FlightKept
  <2> QED BY <1>6, <2>2 DEF FlightKept
<1>8. ControllerKept(R, Written, w, g, ctl)
  <2>1. ProgressKept(R, Written, view, flight, Len(flight), ctl.progress)
    BY <1>3 DEF ControllerKept
  <2>2. Len(flight) <= n + Len(g)
    BY <1>4, <1>6
  <2>3. ProgressKept(R, Written, w, g, Len(g), ctl.progress)
    BY <1>6, <2>1, <2>2
  <2> QED BY <1>3, <2>3 DEF ControllerKept
<1>9. /\ SavedState(n) \in StateSet
      /\ ProgressKept(R, Written, w, g, 0, SavedState(n).progress)
  <2> DEFINE states == {m \in 1 .. n : flight[m].state # NoState}
  <2>1. SavedState(n) = IF states = {} THEN ckpt.state ELSE flight[Max(states)].state
    BY DEF SavedState
  <2>2. CASE states = {}
    <3>1. ckpt.state \in StateSet /\ ProgressKept(R, Written, view, flight, 0, ckpt.state.progress)
      BY <1>3 DEF SinkKept
    <3>2. 0 <= n + 0
      BY <1>4
    <3>3. ProgressKept(R, Written, w, g, 0, ckpt.state.progress)
      BY <1>6, <3>1, <3>2
    <3> QED BY <2>1, <2>2, <3>1, <3>3
  <2>3. CASE states # {}
    <3>1. IsFiniteSet(1 .. n) /\ states \in SUBSET (1 .. n)
      BY <1>4, FS_Interval
    <3> HIDE DEF states
    <3>2. IsFiniteSet(states) /\ states \subseteq Nat
      <4>1. IsFiniteSet(states)
        BY <3>1, FS_Subset
      <4>2. 1 .. n \subseteq Nat
        BY <1>4
      <4> QED BY <3>1, <4>1, <4>2
    <3>3. Max(states) \in states
      BY <2>3, <3>2, Extremes
    <3>4. PICK k : k = Max(states)
      OBVIOUS
    <3>5. k \in 1 .. n /\ k \in DOMAIN flight /\ k \in Nat /\ k <= n + 0
      <4>1. k \in 1 .. n
        BY <3>1, <3>3, <3>4
      <4>2. k \in 1 .. Len(flight) /\ k \in Nat /\ k <= n + 0
        BY <1>4, <1>6, <4>1
      <4> QED BY <1>6, <4>1, <4>2
    <3>6. flight[k] \in Items /\ ProgressKept(R, Written, view, flight, k, flight[k].state.progress)
      BY <1>3, <1>6, <3>5 DEF SinkKept, FlightKept
    <3>7. ProgressKept(R, Written, w, g, 0, flight[k].state.progress)
      BY <1>6, <3>5, <3>6
    <3>8. flight[k].state \in StateSet
      BY <3>6 DEF Items
    <3> QED BY <2>1, <2>3, <3>4, <3>7, <3>8
  <2> QED BY <2>2, <2>3
<1>10. Written' = Written
  BY <1>2 DEF Written, database
<1>11. SinkKept(R, Written)'
  <2>1. flight[n] \in Items
    BY <1>4, <1>6
  <2>2. flight[n].pos \in Nat
    BY <2>1 DEF Items
  <2>3. ckpt' \in [pos : Nat, state : StateSet] /\ ckpt'.state = SavedState(n)
    BY <1>1, <1>9, <2>2
  <2> QED BY <1>v, <1>6, <1>7, <1>9, <1>10, <2>3 DEF SinkKept, R
<1>12. ControllerKept(R, Written, view, flight, ctl)' /\ PrepKept(R, Written, ctl, prep)'
  BY <1>2, <1>3, <1>v, <1>8, <1>10 DEF R
<1>13. TaskKept(s)' /\ DatabaseKept(R, Written)' /\ WireKept'
  <2>1. ext' \in {ext, "acked"}
    BY <1>1
  <2> QED BY <1>2, <1>3, <1>10, <2>1 DEF TaskKept, DatabaseKept, WireKept, database, conn, Script, R
<1> QED BY <1>11, <1>12, <1>13 DEF SnapshotKept, R

LEMMA RegressKept ==
    ASSUME NEW s \in Setups, SnapshotKept(s), Regress
    PROVE  SnapshotKept(s)'
<1>1. /\ TaskKept(s) /\ DatabaseKept(s.rows, Written) /\ WireKept /\ SinkKept(s.rows, Written)
      /\ ControllerKept(s.rows, Written, view, flight, ctl) /\ PrepKept(s.rows, Written, ctl, prep)
  BY DEF SnapshotKept
<1>2. phase' = "failed"
      /\ UNCHANGED <<setup, database, durable, ctl, prep, txn, resume, lastSafe, ext, lines, conn, flight, stops>>
  BY DEF Regress
<1>3. WireKept' /\ TaskKept(s)' /\ UNCHANGED <<setup, database, view, ckpt>>
  BY <1>1, <1>2 DEF conn, database, durable, TaskKept, WireKept
<1>4. FlightKept(s.rows, Written, view, flight)
  BY <1>1 DEF SinkKept
<1> QED BY <1>1, <1>2, <1>3, <1>4, TurnKept

\* Nothing is in flight after a crash, and the controller has what the checkpoint has.
LEMMA CrashKept ==
    ASSUME NEW s \in Setups, SnapshotKept(s), Crash
    PROVE  SnapshotKept(s)'
<1> DEFINE R == s.rows
<1>1. PICK n \in {0} \cup Batches : view' = Deliver(n)
  BY DEF Crash
<1>2. /\ phase' = "down" /\ ctl' = New(ckpt.state) /\ prep' = NoPrep
      /\ txn' = 0 /\ resume' = 0 /\ lastSafe' = 0 /\ ext' = "idle" /\ lines' = <<>>
      /\ from' = 0 /\ decoded' = 0 /\ wire' = <<>> /\ flight' = <<>>
      /\ UNCHANGED <<setup, database, ckpt, offset>>
  BY DEF Crash
<1>3. /\ TaskKept(s) /\ DatabaseKept(R, Written) /\ SinkKept(R, Written)
  BY DEF SnapshotKept
<1>4. n \in Nat /\ n <= Len(flight)
  <2>1. flight \in Seq(Items)
    BY <1>3 DEF SinkKept, FlightKept
  <2>2. n = 0 \/ n \in 1 .. Len(flight)
    BY DEF Batches
  <2> QED BY <2>1, <2>2
<1>5. PICK w, g, none : w = view' /\ g = SubSeq(flight, n + 1, Len(flight)) /\ none = <<>>
  OBVIOUS
<1>6. /\ w \in [DOMAIN R -> Nat] /\ \A key \in DOMAIN R \ Written : w[key] \in {0, R[key]}
      /\ g \in Seq(Items)
      /\ \A p : \A k, j \in Nat : k <= n + j /\ ProgressKept(R, Written, view, flight, k, p)
            => ProgressKept(R, Written, w, g, j, p)
  <2>1. w = Deliver(n)
    BY <1>1, <1>5
  <2> QED BY <1>4, <1>5, <2>1, DeliverFacts
<1> HIDE DEF R
<1>7. ckpt.state \in StateSet /\ ProgressKept(R, Written, w, none, 0, ckpt.state.progress)
  <2>1. ckpt.state \in StateSet /\ ProgressKept(R, Written, view, flight, 0, ckpt.state.progress)
    BY <1>3 DEF SinkKept
  <2>2. 0 <= n + 0
    BY <1>4
  <2>3. ProgressKept(R, Written, w, g, 0, ckpt.state.progress)
    BY <1>6, <2>1, <2>2
  <2>4. \A i \in DOMAIN g : i <= 0 => i \in DOMAIN none /\ i <= 0 /\ none[i].key = g[i].key
    BY <1>6
  <2> QED BY <2>1, <2>3, <2>4, ProgressStays
<1>8. ControllerKept(R, Written, w, none, New(ckpt.state))
  <2>1. Len(none) = 0
    BY <1>5
  <2> QED BY <1>7, <2>1, NewKept
<1>9. Written' = Written
  BY <1>2 DEF Written, database
<1>10. SinkKept(R, Written)'
  <2>1. none \in Seq(Items) /\ DOMAIN none = {}
    BY <1>5
  <2>2. FlightKept(R, Written, w, none)
    BY <2>1 DEF FlightKept
  <2>3. view' = w /\ flight' = none /\ ckpt' = ckpt
    BY <1>2, <1>5
  <2> QED BY <1>3, <1>6, <1>7, <1>9, <2>2, <2>3 DEF SinkKept, R
<1>11. ControllerKept(R, Written, view, flight, ctl)' /\ PrepKept(R, Written, ctl, prep)'
  BY <1>2, <1>5, <1>8, <1>9, PrepStarts DEF R
<1>12. TaskKept(s)' /\ DatabaseKept(R, Written)' /\ WireKept'
  BY <1>2, <1>3, <1>9 DEF TaskKept, DatabaseKept, WireKept, database, Script, R
<1> QED BY <1>10, <1>11, <1>12 DEF SnapshotKept, R

LEMMA BootKept ==
    ASSUME NEW s \in Setups, SnapshotKept(s), Boot
    PROVE  SnapshotKept(s)' /\ (prep'.step # "none" => ~ctl'.progress.paused)
<1> DEFINE c == New(ckpt.state)
           dirty == (ckpt.pos = 0)
           safe == IF ckpt.pos = 0 THEN SafeAt(0) ELSE SafePosition(ckpt.pos)
<1>1. /\ phase' = "running" /\ ctl' = [c EXCEPT !.dirty = dirty]
      /\ prep' = (IF Active(ctl') /\ ~ctl'.progress.paused THEN StartPrep ELSE NoPrep)
      /\ resume' = ckpt.pos /\ lastSafe' = safe /\ from' = FirstRecord(ckpt.pos)
      /\ UNCHANGED <<setup, database, durable, txn, ext, lines, decoded, wire, flight, stops>>
  BY DEF Boot
<1>2. /\ TaskKept(s) /\ WireKept /\ SinkKept(s.rows, Written)
  BY DEF SnapshotKept
<1>3. /\ ckpt.pos \in Nat /\ ckpt.state \in StateSet /\ flight \in Seq(Items)
      /\ FlightKept(s.rows, Written, view, flight)
      /\ ProgressKept(s.rows, Written, view, flight, 0, ckpt.state.progress)
  BY <1>2 DEF SinkKept, FlightKept
<1>4. ControllerKept(s.rows, Written, view, flight, c)
  <2>1. \A i \in DOMAIN flight : i <= 0 => i \in DOMAIN flight /\ i <= Len(flight) /\ flight[i].key = flight[i].key
    BY <1>3
  <2>2. ProgressKept(s.rows, Written, view, flight, Len(flight), ckpt.state.progress)
    BY <1>3, <2>1, ProgressStays
  <2> QED BY <1>3, <2>2, NewKept
<1> HIDE DEF c
<1>5. ControllerKept(s.rows, Written, view, flight, ctl')
  <2>1. PICK d : d = [c EXCEPT !.dirty = dirty]
    OBVIOUS
  <2>2. c \in Controllers /\ dirty \in BOOLEAN
    BY <1>4 DEF ControllerKept
  <2> HIDE DEF dirty
  <2>3. /\ d \in Controllers /\ d.chunk = c.chunk /\ d.high = c.high /\ d.window = c.window
        /\ d.end = c.end /\ d.complete = c.complete /\ d.progress = c.progress /\ d.prepare = c.prepare
    BY <2>1, <2>2 DEF Controllers
  <2>4. ControllerKept(s.rows, Written, view, flight, d)
    BY <1>4, <2>3, FlagsKept
  <2> QED BY <1>1, <2>1, <2>4
<1>6. PrepKept(s.rows, Written, ctl', prep')
  BY <1>1, PrepStarts
<1>7. safe \in Nat /\ FirstRecord(ckpt.pos) \in Nat
  BY <1>3 DEF SafeAt, SafePosition, IsWindow, FirstRecord
<1>8. WireKept' /\ TaskKept(s)' /\ UNCHANGED <<setup, database, view, ckpt>>
  BY <1>1, <1>2, <1>3, <1>7 DEF database, durable, TaskKept, WireKept
<1>9. flight' = flight
  BY <1>1
<1>10. SnapshotKept(s)'
  BY <1>3, <1>5, <1>6, <1>8, <1>9, TurnKept
<1>11. prep'.step # "none" => ~ctl'.progress.paused
  BY <1>1, PrepStarts
<1> QED BY <1>10, <1>11


-----------------------------------------------------------------------------
(* The theorems.                                                            *)

\* Nothing has been written, read or sent.
LEMMA InitKept == Init => Kept
<1> SUFFICES ASSUME Init PROVE SnapshotKept(setup)
  BY DEF Init, Kept
<1> DEFINE R == setup.rows
<1>1. /\ setup \in Setups
      /\ step = 1 /\ open = [t \in {s.tx : s \in Range(Script)} |-> 0] /\ nextXid = 1 /\ lastDone = 0
      /\ wal = <<>> /\ table = R /\ view = [key \in DOMAIN R |-> 0] /\ offset = 0
      /\ ckpt = [pos |-> 0, state |-> [progress |-> NoProgress, completed |-> <<>>]]
      /\ phase = "down" /\ ctl = New(ckpt.state) /\ prep = NoPrep /\ txn = 0 /\ resume = 0 /\ lastSafe = 0
      /\ ext = "idle" /\ lines = <<>> /\ from = 0 /\ decoded = 0 /\ wire = <<>> /\ flight = <<>>
  BY DEF Init, Keys
<1>2. IsTable(R)
  BY <1>1, SetupFacts
<1>3. PICK none : none = <<>>
  OBVIOUS
<1>4. flight = none /\ none \in Seq(Items) /\ Len(none) = 0 /\ DOMAIN none = {}
  BY <1>1, <1>3
<1>5. TaskKept(setup)
  BY <1>1 DEF TaskKept
<1>6. DatabaseKept(R, Written)
  <2>1. open \in [{s.tx : s \in Range(Script)} -> Nat]
    BY <1>1
  <2>2. table \in [DOMAIN R -> Nat]
    BY <1>1, SetupFacts
  <2>3. wal \in Seq(WalRecords) /\ DOMAIN wal = {}
    BY <1>1
  <2> HIDE DEF R
  <2> QED BY <1>1, <2>1, <2>2, <2>3 DEF DatabaseKept
<1>7. WireKept
  BY <1>1 DEF WireKept
<1>8. /\ ckpt \in [pos : Nat, state : StateSet] /\ ckpt.state \in StateSet /\ ckpt.state.progress = NoProgress
  <2>1. ckpt.state = [progress |-> NoProgress, completed |-> <<>>] /\ <<>> \in Seq(Nat)
    BY <1>1
  <2>2. ckpt.state \in StateSet /\ ckpt.state.progress = NoProgress
    BY <2>1, NoneKept DEF StateSet
  <2> QED BY <1>1, <2>2
<1>9. \A n : ProgressKept(R, Written, view, flight, n, ckpt.state.progress)
  BY <1>8, NoneKept
<1>10. SinkKept(R, Written)
  <2>1. view \in [DOMAIN R -> Nat] /\ \A key \in DOMAIN R \ Written : view[key] \in {0, R[key]}
    BY <1>1
  <2>2. FlightKept(R, Written, view, flight)
    BY <1>4 DEF FlightKept
  <2> HIDE DEF R
  <2> QED BY <1>8, <1>9, <2>1, <2>2 DEF SinkKept
<1>11. ControllerKept(R, Written, view, flight, ctl)
  <2>1. ControllerKept(R, Written, view, flight, New(ckpt.state))
    BY <1>8, <1>9, NewKept
  <2> QED BY <1>1, <2>1
<1>12. PrepKept(R, Written, ctl, prep)
  BY <1>1, PrepStarts
<1> QED BY <1>5, <1>6, <1>7, <1>10, <1>11, <1>12 DEF SnapshotKept

\* A step of the database, the server, the task, the runtime, or a stop.
LEMMA StepKept == Kept /\ [Next]_vars => Kept'
<1> SUFFICES ASSUME Kept, [Next]_vars PROVE Kept'
  OBVIOUS
<1>1. PICK s \in Setups : SnapshotKept(s)
  BY DEF Kept
<1>2. SnapshotKept(s)'
  <2>1. CASE Write
    BY <1>1, <2>1, WriteKept
  <2>2. CASE Send
    BY <1>1, <2>2, SendKept
  <2>3. CASE Prepare
    BY <1>1, <2>3, PrepareOpenKept, PrepareLowKept, PrepareMaxKept, PrepareReadKept, PrepareCloseKept DEF Prepare
  <2>4. CASE Stream
    <3>1. CASE Begin \/ StreamStart
      BY <1>1, <3>1, BeginKept
    <3>2. CASE Change
      BY <1>1, <3>2, ChangeKept
    <3>3. CASE SourceSignal
      BY <1>1, <3>3, SourceSignalKept
    <3>4. CASE WindowOpen
      BY <1>1, <3>4, WindowOpenKept
    <3>5. CASE WindowClose
      BY <1>1, <3>5, WindowCloseKept
    <3>6. CASE CommitClosesWindow
      BY <1>1, <3>6, CommitClosesKept
    <3>7. CASE CommitContinues
      BY <1>1, <3>7, CommitContinuesKept
    <3>8. CASE Commit
      BY <1>1, <3>8, CommitKept
    <3> QED BY <2>4, <3>1, <3>2, <3>3, <3>4, <3>5, <3>6, <3>7, <3>8 DEF Stream
  <2>5. CASE Heartbeat
    BY <1>1, <2>5, HeartbeatKept
  <2>6. CASE ExternalSignals
    BY <1>1, <2>6, ExternalKept
  <2>7. CASE Flush
    BY <1>1, <2>7, FlushKept
  <2>8. CASE Regress
    BY <1>1, <2>8, RegressKept
  <2>9. CASE Crash
    BY <1>1, <2>9, CrashKept
  <2>10. CASE Boot
    BY <1>1, <2>10, BootKept
  <2>11. CASE UNCHANGED vars
    BY <1>1, <2>11
       DEF vars, database, durable, connector, conn, SnapshotKept, TaskKept, DatabaseKept, WireKept, SinkKept,
           Written, Script
  <2> QED BY <2>1, <2>2, <2>3, <2>4, <2>5, <2>6, <2>7, <2>8, <2>9, <2>10, <2>11 DEF Next
<1> QED BY <1>2 DEF Kept

\* What the checkpointed progress lies behind, and was not changed since, is at the sink.
LEMMA KeptCovers == Kept => ProgressCovered
<1> SUFFICES ASSUME Kept, NEW key \in Passed(ckpt.state.progress) \ Written PROVE view[key] = setup.rows[key]
  BY DEF ProgressCovered
<1> DEFINE R == setup.rows
           p == ckpt.state.progress
<1>1. PICK s \in Setups : SnapshotKept(s)
  BY DEF Kept
<1>2. /\ setup = s /\ flight \in Seq(Items) /\ p.tables \in Seq(STRING)
      /\ \A x \in DOMAIN R \ Written : view[x] \in {0, R[x]}
      /\ ProgressKept(R, Written, view, flight, 0, p)
  BY <1>1 DEF SnapshotKept, TaskKept, SinkKept, FlightKept, StateSet, ProgressSet
<1>3. key \in DOMAIN R /\ key \notin Written /\ Behind(p, key)
  BY <1>2 DEF Passed, Keys, Behind
<1>4. CASE R[key] = 0
  BY <1>2, <1>3, <1>4
<1>5. CASE R[key] # 0
  <2>1. Arrives(R, view, flight, 0, key)
    BY <1>2, <1>3, <1>5 DEF Untouched, ProgressKept
  <2>2. \A m \in DOMAIN flight : ~(m <= 0)
    BY <1>2
  <2> QED BY <2>1, <2>2 DEF Arrives
<1> QED BY <1>4, <1>5

(***************************************************************************)
(* A checkpoint's progress never runs ahead of the rows at the sink: for   *)
(* every database, script of transactions and signals, chunk size, channel *)
(* capacity and number of crashes, in both ways of watermarking, what lies *)
(* behind the persisted key and was not changed since has arrived, so that *)
(* the restart that continues at the next key leaves no gap                *)
(* (IncrementalSnapshotController::advance_progress, and the state that    *)
(* goes out with the commit behind the rows).                              *)
(***************************************************************************)
THEOREM NoRowSkipped == Spec => []ProgressCovered
<1>1. Init => Kept
  BY InitKept
<1>2. Kept /\ [Next]_vars => Kept'
  BY StepKept
<1>3. Kept => ProgressCovered
  BY KeptCovers
<1> QED BY <1>1, <1>2, <1>3, PTL DEF Spec

\* A chunk is only begun for a controller that is not paused, or has been resumed.
LEMMA PausedWaits ==
    ASSUME Kept, Next, ctl.progress.paused, prep.step = "none", prep'.step # "none"
    PROVE  ~ctl'.progress.paused
<1>1. PICK s \in Setups : SnapshotKept(s)
  BY DEF Kept
<1>2. /\ IsTable(s.rows) /\ FlightKept(s.rows, Written, view, flight) /\ TaskKept(s) /\ DatabaseKept(s.rows, Written)
      /\ ControllerKept(s.rows, Written, view, flight, ctl) /\ External \in Seq(Signals)
  BY <1>1, SetupFacts DEF SnapshotKept, SinkKept, TaskKept, External
<1>3. ~ctl.prepare
  BY <1>2 DEF ControllerKept
<1>4. CASE SourceSignal
  <2> DEFINE i == Head(wire).i
             g == wal[i].signal
             c == AfterEvent(txn)
  <2>1. /\ wire # <<>> /\ Head(wire).kind = "signal" /\ ctl' = Handle(c, g)
        /\ prep' = IF Accepts(c, g) THEN StartPrep ELSE prep
    BY <1>4 DEF SourceSignal, Take
  <2>2. i \in DOMAIN wal /\ i \in Nat /\ wal[i].kind = "signal"
    BY <1>1, <2>1, Taken
  <2>3. g \in Signals /\ WindowAt(i) \in Nat
    BY <1>2, <2>2 DEF DatabaseKept, WindowAt
  <2>4. Accepts(c, g)
    BY <2>1
  <2> HIDE DEF i, g
  <2>5. PICK f : f = flight \o WindowRecords(WindowAt(i), RowsAtEvent(txn))
    OBVIOUS
  <2>6. ControllerKept(s.rows, Written, view, f, c)
    BY <1>2, <2>3, <2>5, EventKept
  <2> HIDE DEF c
  <2> QED BY <1>2, <2>1, <2>3, <2>4, <2>6, HandleKept
<1>5. CASE CommitClosesWindow
  <2> DEFINE c == Close(ctl)
             i == Head(wire).i
  <2>1. /\ wire # <<>> /\ ClosesAtCommit(ctl, CommitXid)
        /\ ctl' = [c EXCEPT !.prepare = FALSE] /\ prep' = IF c.prepare THEN StartPrep ELSE prep
    BY <1>5 DEF CommitClosesWindow
  <2>2. ctl.chunk # NoChunk /\ WindowAtEnd(i) \in Nat
    BY <1>1, <1>2, <2>1, Taken DEF ClosesAtCommit, ControllerKept, WindowAtEnd
  <2> HIDE DEF i
  <2>3. PICK f : f = flight \o WindowRecords(WindowAtEnd(i), ctl.window)
    OBVIOUS
  <2>4. ControllerKept(s.rows, Written, view, f, c) /\ (c.prepare => Continues(c))
    BY <1>2, <2>2, <2>3, CloseKept
  <2>5. c.prepare
    BY <2>1
  <2> HIDE DEF c
  <2>6. PICK d : d = [c EXCEPT !.prepare = FALSE]
    OBVIOUS
  <2>7. d.progress = c.progress
    BY <2>4, <2>6, ClearedKept
  <2> QED BY <2>1, <2>4, <2>5, <2>6, <2>7 DEF Continues
<1>6. CASE CommitContinues \/ Commit
  BY <1>3, <1>6 DEF CommitContinues, Commit
<1>7. CASE ExternalSignals
  <2>1. CASE TakeExternal
    <3>1. offset < Len(External) /\ Apply(External[offset + 1])
      BY <2>1 DEF TakeExternal, Pending
    <3>2. External[offset + 1] \in Signals
      BY <1>2, <3>1 DEF TaskKept
    <3> QED BY <1>1, <3>1, <3>2, AppliedKept
  <2>2. CASE ApplyLine
    <3>1. lines # <<>> /\ Apply(Head(lines))
      BY <2>2 DEF ApplyLine
    <3>2. Head(lines) \in Signals
      BY <1>2, <3>1, Shorter DEF TaskKept
    <3> QED BY <1>1, <3>1, <3>2, AppliedKept
  <2>3. CASE TakeFile \/ CheckpointSignal \/ CommitOffset
    BY <2>3 DEF TakeFile, CheckpointSignal, CommitOffset
  <2> QED BY <1>7, <2>1, <2>2, <2>3 DEF ExternalSignals
<1>8. CASE Boot
  BY <1>1, <1>8, BootKept
<1>9. CASE Crash
  BY <1>9, PrepStarts DEF Crash
<1>10. CASE Prepare
  BY <1>10 DEF Prepare, PrepareOpen, PrepareLow, PrepareMax, PrepareRead, PrepareClose
<1>11. CASE Write \/ Send \/ Heartbeat \/ Flush \/ Regress
  BY <1>11 DEF Write, Send, Heartbeat, Flush, Regress, connector
<1>12. CASE Begin \/ StreamStart \/ Change \/ WindowOpen \/ WindowClose
  BY <1>12 DEF Begin, StreamStart, BeginAt, Change, WindowOpen, WindowClose
<1> QED BY <1>4, <1>5, <1>6, <1>7, <1>8, <1>9, <1>10, <1>11, <1>12 DEF Next, Stream

(***************************************************************************)
(* A pause holds: from the pause to the resume no chunk is begun, at no    *)
(* commit, signal, closed window or restart (prepare_after_commit,         *)
(* handle_pause, and the restart that remains paused).                     *)
(***************************************************************************)
THEOREM PausesHold == Spec => PauseHolds
<1>1. Init => Kept
  BY InitKept
<1>2. Kept /\ [Next]_vars => Kept'
  BY StepKept
<1>3. Kept /\ [Next]_vars =>
        [ctl.progress.paused /\ ctl'.progress.paused /\ prep.step = "none" => prep'.step = "none"]_<<ctl, prep>>
  <2>1. Kept /\ UNCHANGED vars => UNCHANGED <<ctl, prep>>
    BY DEF vars, connector
  <2> QED BY <2>1, PausedWaits
<1> QED BY <1>1, <1>2, <1>3, PTL DEF Spec, PauseHolds

-----------------------------------------------------------------------------
(* Snapshots and their chunks: each is run once, and none is forgotten.     *)

\* The signals a process can be shown, and the snapshots they ask for.
Requests(s) == Range(s.external) \cup {c.signal : c \in {x \in Range(s.script) : x.op = "signal"}}
ExecuteIds(s) == {g.id : g \in {x \in Requests(s) : x.type = "execute"}}

\* No completed signal is ever dropped from the list of them.
Remembers(s) == IsFiniteSet(ExecuteIds(s)) /\ Cardinality(ExecuteIds(s)) <= MaxCompleted

Named == STRING \ {"none"}

\* A snapshot in progress was asked for and is not completed; completed ids are kept once.
StateSound(E, st) ==
    /\ st.completed \in Seq(E)
    /\ \A n, m \in DOMAIN st.completed : st.completed[n] = st.completed[m] => n = m
    /\ st.progress = NoProgress \/
        (st.progress.id \in E \ Range(st.completed) /\ st.progress.tables \in Seq(Named))

\* A chunk is due only when none is current.
ChunkSound(E, c) ==
    /\ StateSound(E, c)
    /\ c.prepare => c.table = "none"
    /\ c.table # "none" => Active(c)

\* The second state forgets nothing of the first.
Remembered(a, b) ==
    /\ Range(a.completed) \subseteq Range(b.completed)
    /\ a.progress.id # 0 => a.progress.id = b.progress.id \/ a.progress.id \in Range(b.completed)

\* The chunk is behind the controller, or its current one.
Spent(c, m) ==
    \/ m.id \in Range(c.completed)
    \/ /\ Active(c) /\ m.id = c.progress.id
       /\ m.chunk < c.progress.chunk \/ (m.chunk = c.progress.chunk /\ c.table # "none")

\* A sound controller follows another: it forgets nothing, and no chunk becomes due again.
Follows(E, c, d) ==
    ChunkSound(E, d) /\ Remembered(c, d) /\ \A m \in MarkSet : Spent(c, m) => Spent(d, m)

\* What goes from the checkpoint through the records in flight to the controller.
FlightSound(E, st, f, c) ==
    /\ StateSound(E, st) /\ Remembered(st, c)
    /\ \A n \in DOMAIN f : f[n].state # NoState =>
        /\ StateSound(E, f[n].state) /\ Remembered(st, f[n].state) /\ Remembered(f[n].state, c)
        /\ \A m \in DOMAIN f : m > n /\ f[m].state # NoState => Remembered(f[n].state, f[m].state)

\* The chunk is the one being prepared, and its open watermark is written.
BeingRead(c, q, m) ==
    q.step \in {"max", "read", "close"} /\ m = [id |-> c.progress.id, chunk |-> c.progress.chunk]

OpensOf(log, m) == {i \in DOMAIN log : log[i].kind = "open" /\ log[i].mark = m}

\* A process opens a chunk, after which the chunk is spent until the next restart.
OpensCounted ==
    \A m \in MarkSet :
        /\ Cardinality(OpensOf(wal, m)) \in 0 .. stops + 1
        /\ Cardinality(OpensOf(wal, m)) = stops + 1 => phase # "down" /\ (Spent(ctl, m) \/ BeingRead(ctl, prep, m))

OpenKept(s) ==
    /\ stops \in Nat
    /\ \A n \in DOMAIN wal : wal[n].kind = "signal" => wal[n].signal \in Requests(s)
    /\ \A n \in DOMAIN lines : lines[n] \in Requests(s)
    /\ ChunkSound(ExecuteIds(s), ctl) /\ FlightSound(ExecuteIds(s), ckpt.state, flight, ctl)
    /\ prep.step # "none" => ~ctl.prepare /\ ctl.table = "none" /\ phase # "down"
    /\ phase = "down" => flight = <<>>
    /\ OpensCounted

KeptOnce == \E s \in Setups : SnapshotKept(s) /\ Remembers(s) /\ OpenKept(s)

\* Nothing changes but what the chunks do not depend on.
LEMMA SameFollows ==
    ASSUME NEW E, NEW c, NEW d, ChunkSound(E, c),
           d.completed = c.completed, d.table = c.table, d.prepare => d.table = "none",
           d.progress = c.progress \/
             (Active(c) /\ Active(d) /\ d.progress.id = c.progress.id /\ d.progress.chunk = c.progress.chunk
                /\ d.progress.tables \in Seq(Named))
    PROVE  Follows(E, c, d)
<1>1. Active(c) <=> Active(d)
  BY DEF Active
<1>2. StateSound(E, d)
  BY <1>1 DEF ChunkSound, StateSound, Active
<1>3. d.progress.id = c.progress.id /\ d.progress.chunk = c.progress.chunk
  OBVIOUS
<1> QED BY <1>1, <1>2, <1>3 DEF Follows, ChunkSound, Remembered, Spent

\* What follows one that follows.
LEMMA FollowsOn ==
    ASSUME NEW E, NEW b, NEW c, NEW d, Follows(E, b, c), Follows(E, c, d)
    PROVE  Follows(E, b, d)
BY DEF Follows, Remembered

LEMMA RememberedOn ==
    ASSUME NEW a, NEW b, NEW c, Remembered(a, b), Remembered(b, c)
    PROVE  Remembered(a, c)
BY DEF Remembered

\* InOrder of the places of a sequence is the sequence of the places.
LEMMA AllPlaces ==
    ASSUME NEW E, NEW ids \in Seq(E)
    PROVE  Retain(ids, DOMAIN ids) = ids
<1> DEFINE N == Len(ids)
           f == InOrder(1 .. N)
<1>1. N \in Nat /\ DOMAIN ids = 1 .. N /\ ids \in [1 .. N -> E]
  OBVIOUS
<1>2. IsFiniteSet(1 .. N) /\ Cardinality(1 .. N) = N
  BY <1>1, FS_Interval
<1>3. 1 .. N \subseteq Nat
  BY <1>1
<1> HIDE DEF N
<1>4. /\ f \in Seq(1 .. N) /\ DOMAIN f = 1 .. N
      /\ \A n \in DOMAIN f : Cardinality({j \in 1 .. N : j <= f[n]}) = n
  BY <1>2, <1>3, InOrderFacts
<1> HIDE DEF f
<1>5. \A n \in 1 .. N : f[n] = n
  <2> SUFFICES ASSUME NEW n \in 1 .. N PROVE f[n] = n
    OBVIOUS
  <2>1. PICK T : T = 1 .. N
    OBVIOUS
  <2>2. f \in Seq(T) /\ n \in DOMAIN f
    BY <1>4, <2>1
  <2>3. f[n] \in T
    BY ONLY <2>2
  <2>4. f[n] \in 1 .. N
    BY <2>3, <2>1
  <2>5. PICK k \in Nat : k = f[n] /\ k >= 1 /\ k <= N
    BY <1>1, <2>4
  <2>6. {j \in 1 .. N : j <= k} = 1 .. k
    BY <1>1, <2>5
  <2>7. Cardinality(1 .. k) = k
    BY <2>5, FS_Interval
  <2> QED BY <1>4, <2>5, <2>6, <2>7
<1>6. Retain(ids, 1 .. N) = [n \in 1 .. N |-> ids[n]]
  <2>1. Retain(ids, 1 .. N) = [n \in DOMAIN f |-> ids[f[n]]]
    BY DEF Retain, f
  <2> QED BY <1>4, <1>5, <2>1
<1> QED BY <1>1, <1>6

\* While all fit, the list of completed signals only grows.
LEMMA RememberFacts ==
    ASSUME NEW E, IsFiniteSet(E), Cardinality(E) <= MaxCompleted, NEW ids \in Seq(E), NEW id \in E \ Range(ids),
           \A n, m \in DOMAIN ids : ids[n] = ids[m] => n = m, NEW all, all = RememberCompleted(ids, id)
    PROVE  /\ all \in Seq(E) /\ \A n, m \in DOMAIN all : all[n] = all[m] => n = m
           /\ Range(ids) \subseteq Range(all) /\ id \in Range(all)
<1> DEFINE more == Append(ids, id)
           N == Len(ids) + 1
<1>1. /\ more \in Seq(E) /\ DOMAIN more = 1 .. N /\ Len(more) = N /\ N \in Nat \ {0} /\ DOMAIN ids = 1 .. N - 1
      /\ more[N] = id /\ \A n \in DOMAIN ids : n \in DOMAIN more /\ more[n] = ids[n]
      /\ \A n \in DOMAIN more : n \in DOMAIN ids \/ n = N
  OBVIOUS
<1>2. {n \in DOMAIN ids : ids[n] # id} = DOMAIN ids
  BY DEF Range
<1>3. Retain(ids, DOMAIN ids) = ids
  BY AllPlaces
<1>4. all = IF Len(more) > MaxCompleted THEN Tail(more) ELSE more
  BY <1>2, <1>3 DEF RememberCompleted
<1> HIDE DEF more, N
<1>5. \A n, m \in DOMAIN more : more[n] = more[m] => n = m
  BY <1>1 DEF Range
<1>6. N <= Cardinality(E)
  <2>1. more \in Injection(1 .. N, E)
    BY <1>1, <1>5 DEF Injection, IsInjective
  <2>2. IsFiniteSet(1 .. N) /\ Cardinality(1 .. N) = N
    BY <1>1, FS_Interval
  <2> QED BY <2>1, <2>2, FS_Injection
<1>7. Cardinality(E) \in Nat /\ MaxCompleted \in Nat
  BY FS_CardinalityType, IncrementalAssumption
<1>8. all = more
  BY <1>1, <1>4, <1>6, <1>7
<1>9. N \in DOMAIN more
  BY <1>1
<1>10. Range(ids) \subseteq Range(more) /\ id \in Range(more)
  BY <1>1, <1>9, Zenon DEF Range
<1> QED BY <1>1, <1>5, <1>8, <1>10

\* A snapshot goes on with the next chunk.
LEMMA NextFollows ==
    ASSUME NEW E, NEW c \in Controllers, NEW d, ChunkSound(E, c), Active(c),
           d.completed = c.completed, d.table = "none", d.progress.id = c.progress.id,
           d.progress.chunk = c.progress.chunk + 1, d.progress.tables \in Seq(Named)
    PROVE  Follows(E, c, d)
<1>1. c.progress.chunk \in Nat
  BY DEF Controllers, ProgressSet
<1>2. Active(d)
  <2>1. d.progress.chunk # 0 /\ NoProgress.chunk = 0
    BY <1>1 DEF NoProgress
  <2> QED BY <2>1 DEF Active
<1>3. ChunkSound(E, d)
  BY DEF ChunkSound, StateSound, Active
<1>4. \A m \in MarkSet : Spent(c, m) => Spent(d, m)
  <2> SUFFICES ASSUME NEW m \in MarkSet, Spent(c, m) PROVE Spent(d, m)
    OBVIOUS
  <2>1. CASE m.id \in Range(c.completed)
    BY <2>1 DEF Spent
  <2>2. CASE m.id = c.progress.id /\ (m.chunk < c.progress.chunk \/ m.chunk = c.progress.chunk)
    <3>1. m.chunk \in Nat
      BY DEF MarkSet
    <3>2. m.chunk < d.progress.chunk
      BY <1>1, <2>2, <3>1
    <3> QED BY <1>2, <2>2, <3>2 DEF Spent
  <2> QED BY <2>1, <2>2 DEF Spent
<1> QED BY <1>3, <1>4 DEF Follows, Remembered

\* A snapshot ends.
LEMMA EndFollows ==
    ASSUME NEW E, IsFiniteSet(E), Cardinality(E) <= MaxCompleted, NEW c, NEW d, ChunkSound(E, c), Active(c),
           d.completed = RememberCompleted(c.completed, c.progress.id), d.progress = NoProgress, d.table = "none"
    PROVE  Follows(E, c, d)
<1>1. /\ c.completed \in Seq(E) /\ c.progress.id \in E \ Range(c.completed)
      /\ \A n, m \in DOMAIN c.completed : c.completed[n] = c.completed[m] => n = m
  BY DEF ChunkSound, StateSound, Active
<1>2. /\ d.completed \in Seq(E) /\ \A n, m \in DOMAIN d.completed : d.completed[n] = d.completed[m] => n = m
      /\ Range(c.completed) \subseteq Range(d.completed) /\ c.progress.id \in Range(d.completed)
  BY <1>1, RememberFacts
<1> QED BY <1>2 DEF Follows, ChunkSound, StateSound, Remembered, Spent

LEMMA PauseFollows ==
    ASSUME NEW E, 0 \notin E, NEW c \in Controllers, ChunkSound(E, c), NEW d \in {Pause(c), Resume(c)}
    PROVE  Follows(E, c, d)
<1> DEFINE q(b) == [c.progress EXCEPT !.paused = b]
           due == (c.table = "none")
<1>1. c.progress \in ProgressSet
  BY DEF Controllers
<1>2. \A b \in BOOLEAN : q(b).id = c.progress.id /\ q(b).chunk = c.progress.chunk /\ q(b).tables = c.progress.tables
  BY <1>1 DEF ProgressSet
<1>3. CASE d = c
  BY <1>3, SameFollows DEF ChunkSound
<1>4. CASE Active(c) /\ d \in {[c EXCEPT !.progress = q(TRUE), !.prepare = FALSE, !.dirty = TRUE],
                               [c EXCEPT !.progress = q(FALSE), !.prepare = due, !.dirty = TRUE]}
  <2>1. PICK b \in BOOLEAN : d.progress = q(b)
    BY <1>4 DEF Controllers
  <2>2. d.completed = c.completed /\ d.table = c.table /\ (d.prepare => d.table = "none")
    BY <1>4 DEF Controllers
  <2>3. c.progress.id \in E /\ c.progress.tables \in Seq(Named)
    BY <1>4 DEF ChunkSound, StateSound, Active
  <2>4. d.progress.id # 0 /\ NoProgress.id = 0
    BY <1>2, <2>1, <2>3 DEF NoProgress
  <2>5. Active(d)
    BY <2>4 DEF Active
  <2> HIDE DEF q
  <2> QED BY <1>2, <1>4, <2>1, <2>2, <2>3, <2>5, SameFollows
<1> QED BY <1>3, <1>4 DEF Pause, Resume

LEMMA ExecuteFollows ==
    ASSUME NEW E, 0 \notin E, NEW c \in Controllers, ChunkSound(E, c), NEW g \in Signals, Accepts(c, g),
           g.id \in E, g.tables \in Seq(Named)
    PROVE  Follows(E, c, Execute(c, g)) /\ Execute(c, g).table = "none" /\ Execute(c, g).prepare = c.prepare
<1> DEFINE d == Execute(c, g)
           p == [NoProgress EXCEPT !.id = g.id, !.tables = g.tables, !.chunk = 1]
<1>1. p.id = g.id /\ p.tables = g.tables
  BY DEF NoProgress
<1> HIDE DEF p
<1>2. d.progress = p /\ d.completed = c.completed /\ d.table = c.table /\ d.prepare = c.prepare
  BY DEF Execute, Controllers, p
<1>3. ~Active(c) /\ g.id \notin Range(c.completed)
  BY DEF Accepts, IsDuplicate
<1>4. c.table = "none"
  BY <1>3 DEF ChunkSound
<1> HIDE DEF d
<1>5. ChunkSound(E, d)
  BY <1>1, <1>2, <1>3, <1>4 DEF ChunkSound, StateSound
<1>6. c.progress.id = 0
  BY <1>3 DEF Active, NoProgress
<1> QED BY <1>2, <1>3, <1>4, <1>5, <1>6 DEF Follows, Remembered, Spent, d

\* Of the collections of a snapshot some are taken out, which may be the current one, or all.
LEMMA StopFollows ==
    ASSUME NEW E, 0 \notin E, IsFiniteSet(E), Cardinality(E) <= MaxCompleted,
           NEW c \in Controllers, ChunkSound(E, c), NEW g
    PROVE  Follows(E, c, Stop(c, g))
<1> DEFINE p == c.progress
           kept == {n \in DOMAIN p.tables : ~(g.tables = <<>> \/ p.tables[n] \in Range(g.tables))}
           before == Cardinality({n \in kept : n < p.current})
           current == IF before + 1 < Cardinality(kept) THEN before + 1 ELSE Cardinality(kept)
           rest == [p EXCEPT !.tables = Retain(p.tables, kept), !.current = current]
           next == [rest EXCEPT !.last = 0, !.max = 0, !.chunk = p.chunk + 1]
           done == RememberCompleted(c.completed, p.id)
           e == ClearChunk(c)
           stopped == [e EXCEPT !.progress = NoProgress, !.dirty = TRUE, !.completed = done]
           moved == [e EXCEPT !.progress = next, !.prepare = ~p.paused, !.dirty = TRUE]
           fewer == [c EXCEPT !.progress = rest, !.dirty = TRUE]
<1>1. Stop(c, g) \in {c} \cup (IF ~Active(c) THEN {} ELSE IF kept = {} THEN {stopped} ELSE
                               IF p.current \notin kept THEN {moved} ELSE {fewer})
  BY DEF Stop
<1>2. Follows(E, c, c)
  BY SameFollows DEF ChunkSound
<1>3. e \in Controllers /\ e.table = "none" /\ e.completed = c.completed
  BY ClearFacts DEF ClearChunk, Controllers
<1> HIDE DEF e
<1>4. ASSUME Active(c)
      PROVE  Follows(E, c, stopped) /\ Follows(E, c, moved) /\ Follows(E, c, fewer)
  <2>1. p \in ProgressSet /\ p.tables \in Seq(Named) /\ p.id \in E /\ p.current \in Nat
    BY <1>4 DEF ChunkSound, StateSound, Active, Controllers, ProgressSet
  <2>2. Retain(p.tables, kept) \in Seq(Named)
    <3> DEFINE earlier == {n \in kept : n < p.current}
    <3>1. kept \in SUBSET DOMAIN p.tables /\ earlier \in SUBSET kept
      OBVIOUS
    <3>2. (\A n \in kept : n \in earlier <=> n < p.current) /\ before = Cardinality(earlier)
      OBVIOUS
    <3> HIDE DEF kept, p, before, earlier
    <3> QED BY <2>1, <3>1, <3>2, RetainFacts
  <2> HIDE DEF kept, current, done
  <2>3. /\ rest.id = p.id /\ rest.tables = Retain(p.tables, kept) /\ rest.chunk = p.chunk
    BY <2>1 DEF ProgressSet
  <2>4. next.id = p.id /\ next.tables = Retain(p.tables, kept) /\ next.chunk = p.chunk + 1
    BY <2>1 DEF ProgressSet
  <2>5. Follows(E, c, stopped)
    <3>1. stopped.progress = NoProgress /\ stopped.table = "none" /\ stopped.completed = done
      BY <1>3 DEF Controllers
    <3> QED BY <1>4, <3>1, EndFollows DEF done
  <2>6. Follows(E, c, moved)
    <3> HIDE DEF next
    <3>1. moved.progress = next /\ moved.table = "none" /\ moved.completed = c.completed
      BY <1>3 DEF Controllers
    <3> HIDE DEF moved
    <3> QED BY <1>4, <2>2, <2>4, <3>1, NextFollows
  <2>7. Follows(E, c, fewer)
    <3> HIDE DEF rest
    <3>1. fewer.progress = rest /\ fewer.table = c.table /\ fewer.completed = c.completed /\ fewer.prepare = c.prepare
      BY DEF Controllers
    <3>2. rest.id # 0 /\ NoProgress.id = 0
      BY <2>1, <2>3 DEF NoProgress
    <3> HIDE DEF fewer
    <3>3. Active(fewer)
      BY <3>1, <3>2 DEF Active
    <3> QED BY <1>4, <2>2, <2>3, <3>1, <3>3, SameFollows DEF ChunkSound
  <2> QED BY <2>5, <2>6, <2>7
<1> QED BY <1>1, <1>2, <1>4

\* A window is closed, and the chunk after its own becomes due.
LEMMA CloseFollows ==
    ASSUME NEW E, IsFiniteSet(E), Cardinality(E) <= MaxCompleted, NEW c \in Controllers, ChunkSound(E, c), Active(c)
    PROVE  Follows(E, c, Close(c)) /\ Close(c).table = "none"
<1> DEFINE p == c.progress
           q == IF c.complete
                THEN [p EXCEPT !.current = p.current + 1, !.last = 0, !.max = 0, !.chunk = p.chunk + 1]
                ELSE [p EXCEPT !.last = c.end, !.chunk = p.chunk + 1]
           done == RememberCompleted(c.completed, p.id)
           a == Advance(c)
           d == Close(c)
<1>1. p \in ProgressSet /\ p.tables \in Seq(Named)
  BY DEF ChunkSound, StateSound, Active, Controllers
<1>2. q.id = p.id /\ q.tables = p.tables /\ q.chunk = p.chunk + 1
  BY <1>1 DEF ProgressSet
<1> HIDE DEF q, done, p
<1>3. a \in {[c EXCEPT !.progress = NoProgress, !.completed = done], [c EXCEPT !.progress = q]}
  BY DEF Advance, q, done, p
<1>4. DOMAIN a = DOMAIN c /\ \/ a.progress = NoProgress /\ a.completed = done
                             \/ a.progress = q /\ a.completed = c.completed
  BY <1>3 DEF Controllers
<1> HIDE DEF a
<1>5. d.progress = a.progress /\ d.completed = a.completed /\ d.table = "none"
  BY <1>4 DEF Close, Controllers, a
<1> HIDE DEF d
<1>6. Follows(E, c, d)
  <2>1. CASE a.progress = NoProgress /\ a.completed = done
    BY <1>5, <2>1, EndFollows DEF done, p
  <2>2. CASE a.progress = q /\ a.completed = c.completed
    BY <1>1, <1>2, <1>5, <2>2, NextFollows DEF p
  <2> QED BY <1>4, <2>1, <2>2
<1> QED BY <1>5, <1>6 DEF d

LEMMA HandleFollows ==
    ASSUME NEW E, 0 \notin E, IsFiniteSet(E), Cardinality(E) <= MaxCompleted,
           NEW c \in Controllers, ChunkSound(E, c), NEW g \in Signals,
           g.type = "execute" => g.id \in E /\ g.tables \in Seq(Named)
    PROVE  /\ Follows(E, c, Handle(c, g))
           /\ Accepts(c, g) => Handle(c, g).table = "none" /\ Handle(c, g).prepare = c.prepare
<1>1. g.type \in {"execute", "stop", "pause", "resume"}
  BY DEF Signals
<1>2. Follows(E, c, c)
  BY SameFollows DEF ChunkSound
<1>3. CASE g.type = "execute"
  <2>1. Handle(c, g) = IF Accepts(c, g) THEN Execute(c, g) ELSE c
    BY <1>3 DEF Handle
  <2>2. Accepts(c, g) => /\ Follows(E, c, Execute(c, g))
                         /\ Execute(c, g).table = "none" /\ Execute(c, g).prepare = c.prepare
    BY <1>3, ExecuteFollows
  <2> QED BY <1>2, <2>1, <2>2
<1>4. g.type # "execute" => ~Accepts(c, g)
  BY DEF Accepts
<1>5. CASE g.type = "stop"
  <2>1. Handle(c, g) = Stop(c, g)
    BY <1>5 DEF Handle
  <2> QED BY <1>4, <1>5, <2>1, StopFollows
<1>6. CASE g.type \in {"pause", "resume"}
  <2>1. Handle(c, g) \in {Pause(c), Resume(c)}
    BY <1>6 DEF Handle
  <2> QED BY <1>4, <1>6, <2>1, PauseFollows
<1> QED BY <1>1, <1>3, <1>5, <1>6

\* A window that opens or loses rows, and flags that fall.
LEMMA FlagsFollow ==
    ASSUME NEW E, NEW c \in Controllers, ChunkSound(E, c), NEW d,
           d.completed = c.completed, d.table = c.table, d.prepare => c.prepare, d.progress = c.progress
    PROVE  Follows(E, c, d)
BY SameFollows DEF ChunkSound

\* An event of a transaction, which may open the window and close it.
LEMMA EventFollows ==
    ASSUME NEW E, IsFiniteSet(E), Cardinality(E) <= MaxCompleted, ChunkSound(E, ctl),
           NEW R, NEW W, NEW v, NEW f, ControllerKept(R, W, v, f, ctl), NEW xid
    PROVE  Follows(E, ctl, AfterEvent(xid))
<1> DEFINE c == Observed(xid)
<1>1. ctl \in Controllers /\ (Watched(ctl) => Active(ctl))
  BY DEF ControllerKept
<1>2. c \in {ctl, [ctl EXCEPT !.open = TRUE]}
  BY DEF Observed, Observe
<1> HIDE DEF c
<1>3. /\ c \in Controllers /\ c.progress = ctl.progress /\ c.completed = ctl.completed /\ c.table = ctl.table
      /\ c.prepare = ctl.prepare /\ c.high = ctl.high
  BY <1>1, <1>2 DEF Controllers
<1>4. Follows(E, ctl, c)
  BY <1>1, <1>3, FlagsFollow
<1>5. CASE ClosesAtEvent(c, xid)
  <2>1. Active(c)
    BY <1>1, <1>3, <1>5 DEF ClosesAtEvent, Watched, Active
  <2>2. Follows(E, c, Close(c))
    BY <1>3, <1>4, <2>1, CloseFollows DEF Follows
  <2>3. Follows(E, ctl, Close(c))
    BY <1>4, <2>2, FollowsOn
  <2> QED BY <1>5, <2>3 DEF AfterEvent, c
<1>6. CASE ~ClosesAtEvent(c, xid)
  BY <1>4, <1>6 DEF AfterEvent, c
<1> QED BY <1>5, <1>6

\* Records are sent, none with another state than the controller's.
LEMMA SentSound ==
    ASSUME NEW E, NEW st, NEW f \in Seq(Items), NEW c, FlightSound(E, st, f, c), NEW d, Follows(E, c, d),
           NEW h \in Seq(Items), \A n \in DOMAIN h : h[n].state \in {NoState, State(d)}
    PROVE  FlightSound(E, st, f \o h, d)
<1> DEFINE g == f \o h
<1>1. /\ Len(f) \in Nat /\ DOMAIN f = 1 .. Len(f)
      /\ \A n \in DOMAIN g : n \in Nat /\ ((n \in DOMAIN f /\ g[n] = f[n])
                                           \/ (n > Len(f) /\ g[n].state \in {NoState, State(d)}))
  <2>1. /\ Len(f) \in Nat /\ Len(h) \in Nat /\ DOMAIN f = 1 .. Len(f) /\ DOMAIN h = 1 .. Len(h)
        /\ DOMAIN g = 1 .. Len(f) + Len(h)
        /\ \A n \in DOMAIN f : n \in DOMAIN g /\ g[n] = f[n]
        /\ \A n \in DOMAIN g : n \in DOMAIN f \/ (n - Len(f) \in DOMAIN h /\ g[n] = h[n - Len(f)])
    BY Joined
  <2> HIDE DEF g
  <2> SUFFICES ASSUME NEW n \in DOMAIN g
               PROVE  n \in Nat /\ ((n \in DOMAIN f /\ g[n] = f[n]) \/ (n > Len(f) /\ g[n].state \in {NoState, State(d)}))
    BY <2>1
  <2>2. n \in Nat
    BY <2>1
  <2>3. CASE n \in DOMAIN f
    BY <2>1, <2>2, <2>3
  <2>4. CASE n \notin DOMAIN f
    BY <2>1, <2>2, <2>4
  <2> QED BY <2>3, <2>4
<1> HIDE DEF g
<1>2. /\ StateSound(E, State(d)) /\ Remembered(State(d), State(d)) /\ Remembered(State(d), d)
      /\ \A x : Remembered(x, c) => Remembered(x, d) /\ Remembered(x, State(d))
  <2>1. State(d).progress = d.progress /\ State(d).completed = d.completed
    BY DEF State
  <2>2. StateSound(E, d) /\ Remembered(c, d)
    BY DEF Follows, ChunkSound
  <2>3. \A x : Remembered(x, c) => Remembered(x, d)
    BY <2>2, RememberedOn
  <2>4. Remembered(State(d), State(d)) /\ Remembered(State(d), d)
    BY <2>1 DEF Remembered
  <2>5. \A x : Remembered(x, d) => Remembered(x, State(d))
    BY <2>4, <2>1 DEF Remembered
  <2> QED BY <2>1, <2>2, <2>3, <2>4, <2>5 DEF StateSound
<1>3. StateSound(E, st) /\ Remembered(st, d) /\ Remembered(st, State(d))
  BY <1>2 DEF FlightSound
<1>4. ASSUME NEW n \in DOMAIN g, g[n].state # NoState
      PROVE  /\ StateSound(E, g[n].state) /\ Remembered(st, g[n].state) /\ Remembered(g[n].state, d)
             /\ \A m \in DOMAIN g : m > n /\ g[m].state # NoState => Remembered(g[n].state, g[m].state)
  <2>1. CASE n \in DOMAIN f /\ g[n] = f[n]
    <3>1. /\ StateSound(E, f[n].state) /\ Remembered(st, f[n].state) /\ Remembered(f[n].state, c)
          /\ \A m \in DOMAIN f : m > n /\ f[m].state # NoState => Remembered(f[n].state, f[m].state)
      BY <1>4, <2>1 DEF FlightSound
    <3> QED BY <1>1, <1>2, <2>1, <3>1
  <2>2. CASE n > Len(f) /\ g[n].state = State(d)
    <3>1. ASSUME NEW m \in DOMAIN g, m > n, g[m].state # NoState PROVE g[m].state = State(d)
      BY <1>1, <2>2, <3>1
    <3> QED BY <1>2, <1>3, <2>2, <3>1
  <2> QED BY <1>1, <1>4, <2>1, <2>2
<1>5. FlightSound(E, st, g, d)
  BY <1>3, <1>4 DEF FlightSound
<1> QED BY <1>5 DEF g

\* The rows of a window carry no state.
LEMMA WindowStates ==
    ASSUME NEW pos, NEW rows
    PROVE  \A n \in DOMAIN WindowRecords(pos, rows) : WindowRecords(pos, rows)[n].state = NoState
BY DEF WindowRecords, Item

\* A record that is dropped, or goes out with the state of the controller.
LEMMA ConvertFollows ==
    ASSUME NEW E, NEW c \in Controllers, ChunkSound(E, c), NEW pos, NEW key, NEW val, NEW commit \in BOOLEAN,
           NEW sent, Convert(pos, key, val, commit, c, sent), NEW st, FlightSound(E, st, flight \o sent, c),
           flight \o sent \in Seq(Items), flight' \in Seq(Items)
    PROVE  /\ Follows(E, c, ctl') /\ ctl'.table = c.table
           /\ commit /\ ~ReadOnly /\ ~ShouldSkip(pos) => ~ctl'.prepare
           /\ FlightSound(E, st, flight', ctl')
<1> DEFINE f == flight \o sent
<1>1. CASE ShouldSkip(pos)
  <2>1. ctl' = c /\ flight' = flight \o sent
    BY <1>1 DEF Convert
  <2> QED BY <1>1, <2>1, FlagsFollow
<1>2. CASE ~ShouldSkip(pos)
  <2> DEFINE d == IF commit THEN c ELSE Deduplicate(c, key)
             state == IF d.dirty THEN State(d) ELSE NoState
             e == Item(pos, key, val, commit, state, FALSE)
             prepare == d.prepare /\ ~(commit /\ ~ReadOnly)
  <2>1. flight' = Append(flight \o sent, e) /\ ctl' = [d EXCEPT !.dirty = FALSE, !.prepare = prepare]
    BY <1>2 DEF Convert
  <2>2. d \in {c, [c EXCEPT !.window = {r \in c.window : r.key # key}]}
    BY DEF Deduplicate, Controllers
  <2>3. d.progress = c.progress /\ d.completed = c.completed /\ d.table = c.table /\ d.prepare = c.prepare
        /\ DOMAIN d = DOMAIN c
    BY <2>2 DEF Controllers
  <2> HIDE DEF d
  <2>4. e.state = state
    BY DEF Item
  <2>5. prepare \in BOOLEAN /\ (prepare => c.prepare) /\ (commit /\ ~ReadOnly => ~prepare)
    BY <2>3 DEF Controllers
  <2> HIDE DEF e, prepare
  <2>6. ctl'.progress = c.progress /\ ctl'.completed = c.completed /\ ctl'.table = c.table /\ ctl'.prepare = prepare
    BY <2>1, <2>3 DEF Controllers
  <2>7. state \in {NoState, State(ctl')}
    BY <2>3, <2>6 DEF State
  <2>8. Follows(E, c, ctl')
    <3>1. PICK x : x = ctl'
      OBVIOUS
    <3>2. /\ x.completed = c.completed /\ x.table = c.table /\ (x.prepare => c.prepare)
          /\ x.progress = c.progress
      BY <2>5, <2>6, <3>1
    <3>3. Follows(E, c, x)
      BY <3>2, FlagsFollow
    <3> QED BY <3>1, <3>3
  <2>9. f \in Seq(Items) /\ FlightSound(E, st, f, c) /\ flight' = Append(f, e)
    BY <2>1 DEF e
  <2> HIDE DEF f
  <2>10. e \in Items
    <3>1. PICK U : U = Items \cup {e}
      OBVIOUS
    <3>2. f \in Seq(U) /\ e \in U
      <4>1. Len(f) \in Nat /\ f \in [1 .. Len(f) -> Items]
        BY <2>9
      <4>2. f \in [1 .. Len(f) -> U]
        BY <3>1, <4>1
      <4> QED BY <3>1, <4>1, <4>2
    <3>3. Len(f) \in Nat /\ DOMAIN flight' = 1 .. Len(f) + 1 /\ flight'[Len(f) + 1] = e
      BY <2>9, <3>2, Longer
    <3>4. Len(f) + 1 \in DOMAIN flight'
      BY <3>3
    <3> QED BY <3>3, <3>4
  <2>11. FlightSound(E, st, flight', ctl')
    <3> DEFINE h == <<e>>
    <3>1. h \in Seq(Items) /\ DOMAIN h = {1} /\ h[1] = e /\ flight' = f \o h
      BY <2>9, <2>10
    <3> HIDE DEF h
    <3>2. \A n \in DOMAIN h : h[n].state \in {NoState, State(ctl')}
      BY <2>4, <2>7, <3>1 DEF e
    <3>3. PICK d2, g2 : d2 = ctl' /\ g2 = flight'
      OBVIOUS
    <3>4. FlightSound(E, st, f \o h, d2)
      BY <2>8, <2>9, <3>1, <3>2, <3>3, SentSound
    <3> QED BY <3>1, <3>3, <3>4
  <2> QED BY <2>5, <2>6, <2>8, <2>11
<1> QED BY <1>1, <1>2

\* The signals of a setup, and the snapshots they ask for.
LEMMA RequestFacts ==
    ASSUME NEW s \in Setups
    PROVE  /\ 0 \notin ExecuteIds(s) /\ Requests(s) \subseteq Signals
           /\ \A g \in Requests(s) : g.type = "execute" => g.id \in ExecuteIds(s) /\ g.tables \in Seq(Named)
<1>1. s.external \in Seq(Signals) /\ s.script \in Seq(Statements)
  BY SetupFacts
<1>2. Requests(s) \subseteq Signals
  BY <1>1 DEF Requests, Range, Statements
<1>3. \A g \in Requests(s) : "none" \notin Range(g.tables)
  BY NamesAssumption DEF Requests
<1>4. \A g \in Requests(s) : g.id # 0 /\ g.tables \in Seq(STRING)
  BY <1>2 DEF Signals
<1>5. ASSUME NEW g \in Requests(s) PROVE g.tables \in Seq(Named)
  <2>1. PICK f \in Seq(STRING) : f = g.tables
    BY <1>4
  <2>2. \A n \in 1 .. Len(f) : f[n] \in Named
    <3>1. \A n \in 1 .. Len(f) : f[n] \in STRING /\ f[n] \in Range(f)
      BY DEF Range
    <3>2. "none" \notin Range(f)
      BY <1>3, <2>1
    <3> QED BY <3>1, <3>2, Zenon DEF Named
  <2>3. f \in [1 .. Len(f) -> Named] /\ Len(f) \in Nat
    BY <2>2
  <2>4. f \in Seq(Named)
    BY <2>3
  <2> QED BY <2>1, <2>4
<1> QED BY <1>2, <1>4, <1>5 DEF ExecuteIds

\* A log that goes on without an open watermark.
LEMMA OpensSame ==
    ASSUME NEW f, NEW g, DOMAIN f \subseteq DOMAIN g, \A n \in DOMAIN f : g[n] = f[n],
           \A n \in DOMAIN g : n \notin DOMAIN f => g[n].kind # "open"
    PROVE  \A m : OpensOf(g, m) = OpensOf(f, m)
BY DEF OpensOf

LEMMA TwoMore ==
    ASSUME NEW T, NEW f \in Seq(T), NEW a, NEW b, NEW g, g = f \o <<a, b>>
    PROVE  /\ Len(f) \in Nat /\ DOMAIN f = 1 .. Len(f) /\ DOMAIN g = 1 .. Len(f) + 2
           /\ g[Len(f) + 1] = a /\ g[Len(f) + 2] = b /\ \A n \in DOMAIN f : n \in DOMAIN g /\ g[n] = f[n]
           /\ \A n \in DOMAIN g : n \in DOMAIN f \/ n = Len(f) + 1 \/ n = Len(f) + 2
<1>1. PICK U : U = T \cup {a, b}
  OBVIOUS
<1>2. f \in Seq(U) /\ a \in U /\ b \in U
  <2>1. Len(f) \in Nat /\ f \in [1 .. Len(f) -> T]
    OBVIOUS
  <2>2. f \in [1 .. Len(f) -> U]
    BY <1>1, <2>1
  <2> QED BY <1>1, <2>1, <2>2
<1> DEFINE h == <<a, b>>
<1>3. h \in Seq(U) /\ DOMAIN h = {1, 2} /\ Len(h) = 2 /\ h[1] = a /\ h[2] = b
  BY <1>2
<1>4. g = f \o h
  OBVIOUS
<1> HIDE DEF h
<1>5. /\ Len(f) \in Nat /\ DOMAIN f = 1 .. Len(f) /\ DOMAIN g = 1 .. Len(f) + 2
      /\ \A n \in DOMAIN f : n \in DOMAIN g /\ g[n] = f[n]
      /\ \A n \in DOMAIN h : g[Len(f) + n] = h[n]
      /\ \A n \in DOMAIN g : n \in DOMAIN f \/ n - Len(f) \in DOMAIN h
  BY <1>2, <1>3, <1>4, Joined
<1>6. \A n \in DOMAIN g : n \in DOMAIN f \/ n = Len(f) + 1 \/ n = Len(f) + 2
  BY ONLY <1>3, <1>5
<1> QED BY <1>3, <1>5, <1>6

\* The counts stay while no open watermark is written and no chunk is due again.
LEMMA CountsStay ==
    ASSUME OpensCounted, stops \in Nat, stops' = stops, phase' = phase, \A m : OpensOf(wal', m) = OpensOf(wal, m),
           \A m \in MarkSet : Spent(ctl, m) \/ BeingRead(ctl, prep, m) => Spent(ctl', m) \/ BeingRead(ctl', prep', m)
    PROVE  OpensCounted'
BY DEF OpensCounted

\* A turn of the loop.
LEMMA TurnOpen ==
    ASSUME NEW s \in Setups, OpenKept(s), phase = "running", prep.step = "none", UNCHANGED <<wal, ckpt, stops, phase>>,
           \A n \in DOMAIN lines' : lines'[n] \in Requests(s), Follows(ExecuteIds(s), ctl, ctl'),
           FlightSound(ExecuteIds(s), ckpt.state, flight', ctl'),
           prep'.step # "none" => ~ctl'.prepare /\ ctl'.table = "none"
    PROVE  OpenKept(s)'
<1>1. \A m \in MarkSet : Spent(ctl, m) \/ BeingRead(ctl, prep, m) => Spent(ctl', m) \/ BeingRead(ctl', prep', m)
  BY DEF Follows, BeingRead
<1>2. OpensCounted'
  BY <1>1, CountsStay DEF OpenKept
<1>3. ChunkSound(ExecuteIds(s), ctl')
  BY DEF Follows
<1> QED BY <1>2, <1>3 DEF OpenKept

\* What the actions are shown to keep from.
LEMMA OpenFacts ==
    ASSUME NEW s \in Setups, SnapshotKept(s), Remembers(s), OpenKept(s)
    PROVE  /\ IsFiniteSet(ExecuteIds(s)) /\ Cardinality(ExecuteIds(s)) <= MaxCompleted /\ 0 \notin ExecuteIds(s)
           /\ ChunkSound(ExecuteIds(s), ctl) /\ FlightSound(ExecuteIds(s), ckpt.state, flight, ctl)
           /\ Follows(ExecuteIds(s), ctl, ctl)
           /\ ControllerKept(s.rows, Written, view, flight, ctl) /\ ctl \in Controllers
           /\ IsTable(s.rows) /\ flight \in Seq(Items) /\ wal \in Seq(WalRecords) /\ setup = s
           /\ \A n \in DOMAIN lines : lines[n] \in Requests(s)
<1>1. /\ TaskKept(s) /\ DatabaseKept(s.rows, Written) /\ SinkKept(s.rows, Written)
      /\ ControllerKept(s.rows, Written, view, flight, ctl) /\ IsTable(s.rows)
  BY SetupFacts DEF SnapshotKept
<1>2. ctl \in Controllers /\ flight \in Seq(Items) /\ wal \in Seq(WalRecords) /\ setup = s
  BY <1>1 DEF ControllerKept, SinkKept, FlightKept, DatabaseKept, TaskKept
<1>3. ChunkSound(ExecuteIds(s), ctl)
  BY DEF OpenKept
<1>4. Follows(ExecuteIds(s), ctl, ctl)
  BY <1>2, <1>3, FlagsFollow
<1> QED BY <1>1, <1>2, <1>3, <1>4, RequestFacts DEF Remembers, OpenKept

\* The rows that leave the window with an event.
LEMMA EventSound ==
    ASSUME NEW s \in Setups, SnapshotKept(s), Remembers(s), OpenKept(s), NEW xid, NEW pos \in Nat,
           NEW g, g = flight \o WindowRecords(pos, RowsAtEvent(xid))
    PROVE  /\ Follows(ExecuteIds(s), ctl, AfterEvent(xid)) /\ g \in Seq(Items)
           /\ FlightSound(ExecuteIds(s), ckpt.state, g, AfterEvent(xid))
<1> DEFINE E == ExecuteIds(s)
           h == WindowRecords(pos, RowsAtEvent(xid))
<1>1. /\ IsFiniteSet(E) /\ Cardinality(E) <= MaxCompleted /\ ChunkSound(E, ctl)
      /\ FlightSound(E, ckpt.state, flight, ctl) /\ ctl \in Controllers
      /\ ControllerKept(s.rows, Written, view, flight, ctl) /\ IsTable(s.rows) /\ flight \in Seq(Items)
  BY OpenFacts
<1> HIDE DEF E
<1>2. Follows(E, ctl, AfterEvent(xid))
  BY <1>1, EventFollows
<1>3. RowsAtEvent(xid) \in {{}, ctl.window}
  <2>1. Observed(xid) \in {ctl, [ctl EXCEPT !.open = TRUE]}
    BY DEF Observed, Observe
  <2>2. Observed(xid).window = ctl.window
    BY <1>1, <2>1 DEF Controllers
  <2> QED BY <2>2 DEF RowsAtEvent
<1>4. RowsAtEvent(xid) \in SUBSET RowSet /\ RowsTrue(s.rows, Written, RowsAtEvent(xid))
  BY <1>1, <1>3, NoneKept DEF ControllerKept, Controllers
<1>5. h \in Seq(Items) /\ \A n \in DOMAIN h : h[n].state = NoState
  BY <1>1, <1>4, WindowFacts, WindowStates
<1> HIDE DEF h
<1>6. FlightSound(E, ckpt.state, flight \o h, AfterEvent(xid)) /\ flight \o h \in Seq(Items)
  BY <1>1, <1>2, <1>5, SentSound, Joined
<1> QED BY <1>2, <1>6 DEF E, h

LEMMA BeginOpen ==
    ASSUME NEW s \in Setups, SnapshotKept(s), Remembers(s), OpenKept(s), Begin \/ StreamStart
    PROVE  OpenKept(s)'
<1> DEFINE i == Head(wire).i
           xid == wal[i].xid
<1>1. PICK lsn \in {i, Min(RecordsOf(xid, wal))} :
            /\ wire # <<>> /\ Ready /\ ctl' = AfterEvent(xid)
            /\ flight' = flight \o WindowRecords(WindowAt(lsn), RowsAtEvent(xid))
            /\ UNCHANGED <<loopRest, prep, resume, lastSafe>>
  BY DEF Begin, StreamStart, Take, BeginAt
<1>2. i \in Nat /\ Min(RecordsOf(xid, wal)) \in Nat
  BY <1>1, Taken
<1>3. WindowAt(lsn) \in Nat
  BY <1>1, <1>2 DEF WindowAt
<1> HIDE DEF i, xid
<1>4. Follows(ExecuteIds(s), ctl, ctl') /\ FlightSound(ExecuteIds(s), ckpt.state, flight', ctl')
  <2>1. PICK g : g = flight'
    OBVIOUS
  <2> QED BY <1>1, <1>3, <2>1, EventSound
<1>5. \A n \in DOMAIN lines : lines[n] \in Requests(s)
  BY OpenFacts
<1>6. /\ phase = "running" /\ prep.step = "none" /\ prep' = prep /\ lines' = lines
      /\ UNCHANGED <<wal, ckpt, stops, phase>>
  BY <1>1 DEF Ready, loopRest, database, durable
<1> QED BY <1>4, <1>5, <1>6, TurnOpen

LEMMA ChangeOpen ==
    ASSUME NEW s \in Setups, SnapshotKept(s), SnapshotKept(s)', Remembers(s), OpenKept(s), Change
    PROVE  OpenKept(s)'
<1> DEFINE i == Head(wire).i
           sent == WindowRecords(WindowAt(i), RowsAtEvent(txn))
           c == AfterEvent(txn)
<1>1. /\ wire # <<>> /\ Ready /\ Convert(ChangeAt(i), wal[i].key, wal[i].val, FALSE, c, sent)
      /\ UNCHANGED <<loopRest, prep, txn>>
  BY DEF Change, Take
<1>2. i \in Nat /\ WindowAt(i) \in Nat
  BY <1>1, Taken DEF WindowAt
<1> HIDE DEF i
<1>3. PICK g : g = flight \o sent
  OBVIOUS
<1>4. Follows(ExecuteIds(s), ctl, c) /\ g \in Seq(Items) /\ FlightSound(ExecuteIds(s), ckpt.state, g, c)
  BY <1>2, <1>3, EventSound
<1>5. c \in Controllers
  <2>1. ControllerKept(s.rows, Written, view, g, c)
    <3>1. /\ IsTable(s.rows) /\ FlightKept(s.rows, Written, view, flight)
          /\ ControllerKept(s.rows, Written, view, flight, ctl)
      BY <1>1, Taken
    <3> QED BY <1>2, <1>3, <3>1, EventKept
  <2> QED BY <2>1 DEF ControllerKept
<1>6. flight' \in Seq(Items)
  BY DEF SnapshotKept, SinkKept, FlightKept
<1> HIDE DEF sent, c
<1>7. Follows(ExecuteIds(s), ctl, ctl') /\ FlightSound(ExecuteIds(s), ckpt.state, flight', ctl')
  <2>1. ChunkSound(ExecuteIds(s), c)
    BY <1>4 DEF Follows
  <2>2. Follows(ExecuteIds(s), c, ctl') /\ FlightSound(ExecuteIds(s), ckpt.state, flight', ctl')
    BY <1>1, <1>3, <1>4, <1>5, <1>6, <2>1, ConvertFollows
  <2> QED BY <1>4, <2>2, FollowsOn
<1>8. \A n \in DOMAIN lines : lines[n] \in Requests(s)
  BY OpenFacts
<1>9. /\ phase = "running" /\ prep.step = "none" /\ prep' = prep /\ lines' = lines
      /\ UNCHANGED <<wal, ckpt, stops, phase>>
  BY <1>1 DEF Ready, loopRest, database, durable
<1> QED BY <1>7, <1>8, <1>9, TurnOpen

LEMMA SourceSignalOpen ==
    ASSUME NEW s \in Setups, SnapshotKept(s), Remembers(s), OpenKept(s), SourceSignal
    PROVE  OpenKept(s)'
<1> DEFINE i == Head(wire).i
           g == wal[i].signal
           c == AfterEvent(txn)
           E == ExecuteIds(s)
<1>1. /\ wire # <<>> /\ Ready /\ Head(wire).kind = "signal"
      /\ ctl' = Handle(c, g) /\ prep' = (IF Accepts(c, g) THEN StartPrep ELSE prep)
      /\ flight' = flight \o WindowRecords(WindowAt(i), RowsAtEvent(txn))
      /\ UNCHANGED <<loopRest, txn, resume, lastSafe>>
  BY DEF SourceSignal, Take
<1>2. /\ i \in Nat /\ WindowAt(i) \in Nat /\ i \in DOMAIN wal /\ wal[i].kind = "signal"
      /\ IsTable(s.rows) /\ FlightKept(s.rows, Written, view, flight)
      /\ ControllerKept(s.rows, Written, view, flight, ctl)
  BY <1>1, Taken DEF WindowAt
<1>3. g \in Requests(s)
  BY <1>2 DEF OpenKept
<1>4. g \in Signals /\ (g.type = "execute" => g.id \in E /\ g.tables \in Seq(Named))
  BY <1>3, RequestFacts
<1> HIDE DEF i, g
<1>5. PICK f : f = flight'
  OBVIOUS
<1>6. f = flight \o WindowRecords(WindowAt(i), RowsAtEvent(txn))
  BY <1>1, <1>5
<1>7. Follows(E, ctl, c) /\ f \in Seq(Items) /\ FlightSound(E, ckpt.state, f, c)
  BY <1>2, <1>6, EventSound
<1>8. ControllerKept(s.rows, Written, view, f, c)
  BY <1>2, <1>6, EventKept
<1>9. /\ IsFiniteSet(E) /\ Cardinality(E) <= MaxCompleted /\ 0 \notin E
      /\ \A n \in DOMAIN lines : lines[n] \in Requests(s)
  BY OpenFacts
<1> HIDE DEF E, c
<1>10. c \in Controllers /\ ChunkSound(E, c) /\ (c.prepare => Active(c))
  BY <1>7, <1>8 DEF ControllerKept, Follows
<1>11. PICK d : d = ctl'
  OBVIOUS
<1>12. Follows(E, c, d) /\ (Accepts(c, g) => d.table = "none" /\ d.prepare = c.prepare)
  BY <1>1, <1>4, <1>9, <1>10, <1>11, HandleFollows
<1>13. Follows(E, ctl, d) /\ FlightSound(E, ckpt.state, f, d)
  <2> DEFINE h == <<>>
  <2>1. h \in Seq(Items) /\ DOMAIN h = {} /\ f \o h = f
    BY <1>7
  <2> HIDE DEF h
  <2>2. FlightSound(E, ckpt.state, f \o h, d)
    BY <1>7, <1>12, <2>1, SentSound
  <2> QED BY <1>7, <1>12, <2>1, <2>2, FollowsOn
<1>14. Accepts(c, g) => ~d.prepare
  BY <1>10, <1>12 DEF Accepts
<1>15. /\ phase = "running" /\ prep.step = "none" /\ lines' = lines
       /\ UNCHANGED <<wal, ckpt, stops, phase>>
  BY <1>1 DEF Ready, loopRest, database, durable
<1>16. prep'.step # "none" => ~ctl'.prepare /\ ctl'.table = "none"
  BY <1>1, <1>11, <1>12, <1>14, <1>15
<1> QED BY <1>5, <1>9, <1>11, <1>13, <1>15, <1>16, TurnOpen DEF E

\* The controller follows, and what is sent has at most its state.
LEMMA LoopOpen ==
    ASSUME NEW s \in Setups, SnapshotKept(s), Remembers(s), OpenKept(s), phase = "running", prep.step = "none",
           UNCHANGED <<wal, ckpt, stops, phase>>, \A n \in DOMAIN lines' : lines'[n] \in Requests(s),
           Follows(ExecuteIds(s), ctl, ctl'), NEW h \in Seq(Items), flight' = flight \o h,
           \A n \in DOMAIN h : h[n].state \in {NoState, State(ctl')},
           prep'.step # "none" => ~ctl'.prepare /\ ctl'.table = "none"
    PROVE  OpenKept(s)'
<1>1. PICK d, f : d = ctl' /\ f = flight'
  OBVIOUS
<1>2. FlightSound(ExecuteIds(s), ckpt.state, flight, ctl) /\ flight \in Seq(Items)
  BY OpenFacts
<1>3. FlightSound(ExecuteIds(s), ckpt.state, flight \o h, d)
  BY <1>1, <1>2, SentSound
<1>4. FlightSound(ExecuteIds(s), ckpt.state, flight', ctl')
  BY <1>1, <1>3
<1> QED BY <1>4, TurnOpen

\* The same when nothing is sent.
LEMMA QuietOpen ==
    ASSUME NEW s \in Setups, SnapshotKept(s), Remembers(s), OpenKept(s), phase = "running", prep.step = "none",
           UNCHANGED <<wal, ckpt, stops, phase, flight>>, \A n \in DOMAIN lines' : lines'[n] \in Requests(s),
           Follows(ExecuteIds(s), ctl, ctl'),
           prep'.step # "none" => ~ctl'.prepare /\ ctl'.table = "none"
    PROVE  OpenKept(s)'
<1> DEFINE h == <<>>
<1>1. flight \in Seq(Items)
  BY OpenFacts
<1>2. h \in Seq(Items) /\ DOMAIN h = {} /\ flight' = flight \o h
  BY <1>1
<1> HIDE DEF h
<1> QED BY <1>2, LoopOpen

LEMMA WindowOpenOpen ==
    ASSUME NEW s \in Setups, SnapshotKept(s), Remembers(s), OpenKept(s), WindowOpen
    PROVE  OpenKept(s)'
<1> DEFINE b == ctl.open \/ wal[Head(wire).i].mark = ctl.chunk
           d == [ctl EXCEPT !.open = b]
<1>1. /\ Ready /\ ctl' = d /\ UNCHANGED <<loopRest, prep, flight>>
  BY DEF WindowOpen, Take
<1>2. ChunkSound(ExecuteIds(s), ctl) /\ ctl \in Controllers /\ \A n \in DOMAIN lines : lines[n] \in Requests(s)
  BY OpenFacts
<1> HIDE DEF b
<1>3. d.completed = ctl.completed /\ d.table = ctl.table /\ d.prepare = ctl.prepare /\ d.progress = ctl.progress
  BY <1>2 DEF Controllers
<1> HIDE DEF d
<1>4. Follows(ExecuteIds(s), ctl, d)
  BY <1>2, <1>3, FlagsFollow
<1>5. /\ phase = "running" /\ prep.step = "none" /\ lines' = lines /\ prep' = prep
      /\ UNCHANGED <<wal, ckpt, stops, phase, flight>>
  BY <1>1 DEF Ready, loopRest, database, durable
<1> QED BY <1>1, <1>2, <1>4, <1>5, QuietOpen

\* The window closes and its rows are sent.
LEMMA ClosedOpen ==
    ASSUME NEW s \in Setups, SnapshotKept(s), Remembers(s), OpenKept(s), ctl.chunk # NoChunk, NEW pos \in Nat,
           NEW h, h = WindowRecords(pos, ctl.window)
    PROVE  /\ Follows(ExecuteIds(s), ctl, Close(ctl)) /\ Close(ctl).table = "none"
           /\ h \in Seq(Items) /\ \A n \in DOMAIN h : h[n].state = NoState
<1>1. /\ IsFiniteSet(ExecuteIds(s)) /\ Cardinality(ExecuteIds(s)) <= MaxCompleted
      /\ ChunkSound(ExecuteIds(s), ctl) /\ ctl \in Controllers /\ IsTable(s.rows)
      /\ ControllerKept(s.rows, Written, view, flight, ctl)
  BY OpenFacts
<1>2. Active(ctl) /\ ctl.window \in SUBSET RowSet /\ RowsTrue(s.rows, Written, ctl.window)
  BY <1>1 DEF ControllerKept, Controllers
<1> QED BY <1>1, <1>2, CloseFollows, WindowFacts, WindowStates

LEMMA WindowCloseOpen ==
    ASSUME NEW s \in Setups, SnapshotKept(s), Remembers(s), OpenKept(s), WindowClose
    PROVE  OpenKept(s)'
<1> DEFINE i == Head(wire).i
<1>1. /\ wire # <<>> /\ Ready /\ Head(wire).kind = "close"
      /\ \/ UNCHANGED <<ctl, flight>>
         \/ /\ ClosesWindow(ctl, wal[i].mark) /\ ctl' = Close(ctl)
            /\ flight' = flight \o WindowRecords(WindowAt(i), ctl.window)
      /\ UNCHANGED <<loopRest, prep, txn, resume, lastSafe>>
  BY DEF WindowClose, Take
<1>2. i \in Nat /\ WindowAt(i) \in Nat /\ i \in DOMAIN wal /\ wal[i].kind = "close" /\ DatabaseKept(s.rows, Written)
  BY <1>1, Taken DEF WindowAt
<1>3. wal[i].mark # NoChunk
  BY <1>2 DEF DatabaseKept
<1>4. Follows(ExecuteIds(s), ctl, ctl) /\ \A n \in DOMAIN lines : lines[n] \in Requests(s)
  BY OpenFacts
<1>5. /\ phase = "running" /\ prep.step = "none" /\ lines' = lines /\ prep' = prep
      /\ UNCHANGED <<wal, ckpt, stops, phase>>
  BY <1>1 DEF Ready, loopRest, database, durable
<1>6. CASE UNCHANGED <<ctl, flight>>
  BY <1>4, <1>5, <1>6, QuietOpen
<1>7. CASE /\ ClosesWindow(ctl, wal[i].mark) /\ ctl' = Close(ctl)
           /\ flight' = flight \o WindowRecords(WindowAt(i), ctl.window)
  <2>1. ctl.chunk # NoChunk
    BY <1>3, <1>7 DEF ClosesWindow
  <2>2. PICK h : h = WindowRecords(WindowAt(i), ctl.window)
    OBVIOUS
  <2>3. /\ Follows(ExecuteIds(s), ctl, Close(ctl)) /\ h \in Seq(Items) /\ \A n \in DOMAIN h : h[n].state = NoState
    BY <1>2, <2>1, <2>2, ClosedOpen
  <2> QED BY <1>4, <1>5, <1>7, <2>2, <2>3, LoopOpen
<1> QED BY <1>1, <1>6, <1>7

LEMMA CommitClosesOpen ==
    ASSUME NEW s \in Setups, SnapshotKept(s), Remembers(s), OpenKept(s), CommitClosesWindow
    PROVE  OpenKept(s)'
<1> DEFINE i == Head(wire).i
           c == Close(ctl)
           d == [c EXCEPT !.prepare = FALSE]
<1>1. /\ Ready /\ wire # <<>> /\ ClosesAtCommit(ctl, CommitXid)
      /\ ctl' = d /\ prep' = (IF c.prepare THEN StartPrep ELSE prep)
      /\ flight' = flight \o WindowRecords(WindowAtEnd(i), ctl.window)
      /\ UNCHANGED <<loopRest, wire, txn, resume, lastSafe>>
  BY DEF CommitClosesWindow
<1>2. WindowAtEnd(i) \in Nat /\ FlightKept(s.rows, Written, view, flight)
  BY <1>1, Taken DEF WindowAtEnd
<1>3. /\ ControllerKept(s.rows, Written, view, flight, ctl) /\ ctl \in Controllers /\ IsTable(s.rows)
      /\ \A n \in DOMAIN lines : lines[n] \in Requests(s)
  BY OpenFacts
<1>4. ctl.chunk # NoChunk
  BY <1>1, <1>3 DEF ClosesAtCommit, ControllerKept
<1>5. PICK h : h = WindowRecords(WindowAtEnd(i), ctl.window)
  OBVIOUS
<1>6. /\ Follows(ExecuteIds(s), ctl, c) /\ c.table = "none"
      /\ h \in Seq(Items) /\ \A n \in DOMAIN h : h[n].state = NoState
  BY <1>2, <1>4, <1>5, ClosedOpen
<1>7. c \in Controllers
  <2>1. PICK g : g = flight \o WindowRecords(WindowAtEnd(i), ctl.window)
    OBVIOUS
  <2>2. ControllerKept(s.rows, Written, view, g, c)
    BY <1>2, <1>3, <1>4, <2>1, CloseKept
  <2> QED BY <2>2 DEF ControllerKept
<1> HIDE DEF c
<1>8. d.completed = c.completed /\ d.table = c.table /\ d.prepare = FALSE /\ d.progress = c.progress
  BY <1>7 DEF Controllers
<1> HIDE DEF d
<1>9. Follows(ExecuteIds(s), ctl, d) /\ d.table = "none"
  <2>1. Follows(ExecuteIds(s), c, d)
    BY <1>6, <1>7, <1>8, FlagsFollow DEF Follows
  <2> QED BY <1>6, <1>8, <2>1, FollowsOn
<1>10. /\ phase = "running" /\ prep.step = "none" /\ lines' = lines
       /\ UNCHANGED <<wal, ckpt, stops, phase>>
  BY <1>1 DEF Ready, loopRest, database, durable
<1> QED BY <1>1, <1>3, <1>5, <1>6, <1>8, <1>9, <1>10, LoopOpen

LEMMA CommitContinuesOpen ==
    ASSUME NEW s \in Setups, SnapshotKept(s), Remembers(s), OpenKept(s), CommitContinues
    PROVE  OpenKept(s)'
<1> DEFINE d == [ctl EXCEPT !.prepare = FALSE]
<1>1. /\ Ready /\ ctl.prepare /\ ctl' = d /\ UNCHANGED <<loopRest, flight>>
  BY DEF CommitContinues
<1>2. ChunkSound(ExecuteIds(s), ctl) /\ ctl \in Controllers /\ \A n \in DOMAIN lines : lines[n] \in Requests(s)
  BY OpenFacts
<1>3. d.completed = ctl.completed /\ d.table = ctl.table /\ d.prepare = FALSE /\ d.progress = ctl.progress
  BY <1>2 DEF Controllers
<1> HIDE DEF d
<1>4. Follows(ExecuteIds(s), ctl, d) /\ d.table = "none"
  BY <1>1, <1>2, <1>3, FlagsFollow DEF ChunkSound
<1>5. /\ phase = "running" /\ prep.step = "none" /\ lines' = lines
      /\ UNCHANGED <<wal, ckpt, stops, phase, flight>>
  BY <1>1 DEF Ready, loopRest, database, durable
<1> QED BY <1>1, <1>2, <1>3, <1>4, <1>5, QuietOpen

LEMMA CommitOpen ==
    ASSUME NEW s \in Setups, SnapshotKept(s), SnapshotKept(s)', Remembers(s), OpenKept(s), Commit
    PROVE  OpenKept(s)'
<1> DEFINE pos == CommitAt(Head(wire).i)
           none == <<>>
<1>1. /\ Ready /\ Convert(pos, NoKey, 0, TRUE, ctl, none) /\ UNCHANGED loopRest
      /\ prep' = (IF ctl.prepare /\ ~ReadOnly /\ ~ShouldSkip(pos) THEN StartPrep ELSE prep)
  BY DEF Commit, Take
<1>2. /\ ctl \in Controllers /\ ChunkSound(ExecuteIds(s), ctl) /\ flight \in Seq(Items)
      /\ FlightSound(ExecuteIds(s), ckpt.state, flight, ctl) /\ \A n \in DOMAIN lines : lines[n] \in Requests(s)
  BY OpenFacts
<1>3. flight \o none = flight
  BY <1>2
<1>4. flight' \in Seq(Items)
  BY DEF SnapshotKept, SinkKept, FlightKept
<1> HIDE DEF none, pos
<1>5. PICK yes \in BOOLEAN : yes = TRUE
  OBVIOUS
<1>6. Convert(pos, NoKey, 0, yes, ctl, none)
  BY <1>1, <1>5
<1>7. /\ Follows(ExecuteIds(s), ctl, ctl') /\ ctl'.table = ctl.table
      /\ yes /\ ~ReadOnly /\ ~ShouldSkip(pos) => ~ctl'.prepare
      /\ FlightSound(ExecuteIds(s), ckpt.state, flight', ctl')
  BY <1>2, <1>3, <1>4, <1>6, ConvertFollows
<1>8. /\ phase = "running" /\ prep.step = "none" /\ lines' = lines
      /\ UNCHANGED <<wal, ckpt, stops, phase>>
  BY <1>1 DEF Ready, loopRest, database, durable
<1>9. prep'.step # "none" => ~ctl'.prepare /\ ctl'.table = "none"
  BY <1>1, <1>2, <1>5, <1>7, <1>8 DEF ChunkSound
<1> QED BY <1>2, <1>7, <1>8, <1>9, TurnOpen

\* A heartbeat comes between any two steps of the loop.
LEMMA HeartbeatOpen ==
    ASSUME NEW s \in Setups, SnapshotKept(s), Remembers(s), OpenKept(s), Heartbeat
    PROVE  OpenKept(s)'
<1> DEFINE e == Item(lastSafe, NoKey, 0, FALSE, NoState, FALSE)
           h == <<e>>
<1>1. /\ Ready /\ flight' = Append(flight, e) /\ UNCHANGED <<setup, database, durable, connector, conn, stops>>
  BY DEF Heartbeat
<1>2. /\ Follows(ExecuteIds(s), ctl, ctl) /\ flight \in Seq(Items) /\ \A n \in DOMAIN lines : lines[n] \in Requests(s)
  BY OpenFacts
<1>3. e.state = NoState /\ e \in Items
  <2>1. NoKey \in KeySet /\ lastSafe \in Nat
    BY DEF NoKey, KeySet, TableSet, SnapshotKept, TaskKept
  <2>2. NoState \in StateSet
    <3>1. NoState = [progress |-> NoProgress, completed |-> <<0>>] /\ <<0>> \in Seq(Nat)
      BY DEF NoState, State, New
    <3> QED BY <3>1, NoneKept DEF StateSet
  <2> QED BY <2>1, <2>2 DEF Item, Items
<1> HIDE DEF e
<1>4. h \in Seq(Items) /\ DOMAIN h = {1} /\ h[1] = e /\ flight' = flight \o h
  BY <1>1, <1>2, <1>3
<1> HIDE DEF h
<1>5. /\ phase = "running" /\ prep.step = "none" /\ lines' = lines /\ prep' = prep /\ ctl' = ctl
      /\ UNCHANGED <<wal, ckpt, stops, phase>>
  BY <1>1 DEF Ready, connector, database, durable
<1>6. \A n \in DOMAIN h : h[n].state \in {NoState, State(ctl')}
  BY <1>3, <1>4
<1> QED BY <1>2, <1>4, <1>5, <1>6, LoopOpen

\* A signal from outside is applied, and the chunk that is due prepared.
LEMMA AppliedOpen ==
    ASSUME NEW s \in Setups, SnapshotKept(s), Remembers(s), OpenKept(s), NEW g \in Requests(s), prep.step = "none", Apply(g)
    PROVE  Follows(ExecuteIds(s), ctl, ctl') /\ (prep'.step # "none" => ~ctl'.prepare /\ ctl'.table = "none")
<1> DEFINE E == ExecuteIds(s)
           c == Handle(ctl, g)
           d == [c EXCEPT !.prepare = FALSE]
<1>1. ctl' = d /\ prep' = (IF Accepts(ctl, g) \/ c.prepare THEN StartPrep ELSE prep)
  BY DEF Apply
<1>2. /\ IsFiniteSet(E) /\ Cardinality(E) <= MaxCompleted /\ 0 \notin E /\ ChunkSound(E, ctl) /\ ctl \in Controllers
      /\ ControllerKept(s.rows, Written, view, flight, ctl) /\ IsTable(s.rows)
  BY OpenFacts
<1>3. g \in Signals /\ (g.type = "execute" => g.id \in E /\ g.tables \in Seq(Named))
  BY RequestFacts
<1> HIDE DEF E
<1>4. Follows(E, ctl, c) /\ (Accepts(ctl, g) => c.table = "none")
  BY <1>2, <1>3, HandleFollows
<1>5. c \in Controllers
  <2>1. ControllerKept(s.rows, Written, view, flight, c)
    BY <1>2, <1>3, HandleKept
  <2> QED BY <2>1 DEF ControllerKept
<1> HIDE DEF c
<1>6. d.completed = c.completed /\ d.table = c.table /\ d.prepare = FALSE /\ d.progress = c.progress
  BY <1>5 DEF Controllers
<1> HIDE DEF d
<1>7. Follows(E, c, d) /\ (c.prepare => c.table = "none")
  BY <1>4, <1>5, <1>6, FlagsFollow DEF Follows, ChunkSound
<1>8. Follows(E, ctl, d)
  BY <1>4, <1>7, FollowsOn
<1> QED BY <1>1, <1>4, <1>6, <1>7, <1>8 DEF E

LEMMA ExternalOpen ==
    ASSUME NEW s \in Setups, SnapshotKept(s), Remembers(s), OpenKept(s), ExternalSignals
    PROVE  OpenKept(s)'
<1>1. /\ Follows(ExecuteIds(s), ctl, ctl) /\ ctl \in Controllers /\ flight \in Seq(Items) /\ setup = s
      /\ ChunkSound(ExecuteIds(s), ctl) /\ \A n \in DOMAIN lines : lines[n] \in Requests(s)
  BY OpenFacts
<1>2. /\ External \in Seq(Signals) /\ offset \in Nat /\ lines \in Seq(Signals) /\ lastSafe \in Nat
      /\ \A n \in DOMAIN External : External[n] \in Requests(s)
  <2>1. TaskKept(s) /\ External = s.external
    BY <1>1 DEF SnapshotKept, External
  <2> QED BY <2>1, SetupFacts DEF TaskKept, Requests, Range
<1>3. CASE TakeExternal
  <2>1. /\ offset < Len(External) /\ phase = "running" /\ prep.step = "none" /\ Apply(External[offset + 1])
        /\ lines' = lines /\ UNCHANGED <<wal, ckpt, stops, phase, flight>>
    BY <1>3 DEF TakeExternal, Pending, Ready, database, durable
  <2>2. External[offset + 1] \in Requests(s)
    BY <1>2, <2>1
  <2>3. Follows(ExecuteIds(s), ctl, ctl') /\ (prep'.step # "none" => ~ctl'.prepare /\ ctl'.table = "none")
    BY <2>1, <2>2, AppliedOpen
  <2> QED BY <1>1, <2>1, <2>3, QuietOpen
<1>4. CASE TakeFile
  <2>1. PICK n \in offset + 1 .. Len(External) : lines' = SubSeq(External, offset + 1, n)
    BY <1>4 DEF TakeFile
  <2>2. /\ phase = "running" /\ prep.step = "none" /\ prep' = prep /\ ctl' = ctl
        /\ UNCHANGED <<wal, ckpt, stops, phase, flight>>
    BY <1>4 DEF TakeFile, Pending, Ready, database
  <2>3. \A m \in DOMAIN lines' : \E k \in DOMAIN External : lines'[m] = External[k]
    <3> PICK a \in Nat : a = offset
      BY <1>2
    <3>1. /\ n \in Nat /\ n <= Len(External) /\ DOMAIN lines' = 1 .. n - offset
          /\ \A m \in 1 .. n - offset : lines'[m] = External[offset + m]
      BY <1>2, <2>1
    <3>2. \A m \in 1 .. n - offset : offset + m \in DOMAIN External
      BY <1>2, <3>1
    <3> QED BY <3>1, <3>2
  <2> QED BY <1>1, <1>2, <2>2, <2>3, QuietOpen
<1>5. CASE ApplyLine
  <2>1. /\ phase = "running" /\ prep.step = "none" /\ lines # <<>> /\ lines' = Tail(lines) /\ Apply(Head(lines))
        /\ UNCHANGED <<wal, ckpt, stops, phase, flight>>
    BY <1>5 DEF ApplyLine, database, durable
  <2>2. /\ Head(lines) = lines[1] /\ 1 \in DOMAIN lines
        /\ \A n \in DOMAIN Tail(lines) : n + 1 \in DOMAIN lines /\ Tail(lines)[n] = lines[n + 1]
    BY <1>2, <2>1, Shorter
  <2>3. Head(lines) \in Requests(s) /\ \A n \in DOMAIN lines' : lines'[n] \in Requests(s)
    BY <1>1, <2>1, <2>2
  <2>4. Follows(ExecuteIds(s), ctl, ctl') /\ (prep'.step # "none" => ~ctl'.prepare /\ ctl'.table = "none")
    BY <2>1, <2>3, AppliedOpen
  <2> QED BY <2>1, <2>3, <2>4, QuietOpen
<1>6. CASE CheckpointSignal
  <2>1. PICK asked \in BOOLEAN :
            \/ /\ ctl' = [ctl EXCEPT !.dirty = FALSE]
               /\ flight' = Append(flight, Item(lastSafe, NoKey, 0, TRUE, State(ctl), asked))
            \/ UNCHANGED <<ctl, flight>>
    BY <1>6 DEF CheckpointSignal
  <2>2. /\ phase = "running" /\ prep.step = "none" /\ prep' = prep /\ lines' = lines
        /\ UNCHANGED <<wal, ckpt, stops, phase>>
    BY <1>6 DEF CheckpointSignal, database, durable
  <2>3. CASE UNCHANGED <<ctl, flight>>
    BY <1>1, <2>2, <2>3, QuietOpen
  <2>4. CASE /\ ctl' = [ctl EXCEPT !.dirty = FALSE]
             /\ flight' = Append(flight, Item(lastSafe, NoKey, 0, TRUE, State(ctl), asked))
    <3> DEFINE d == [ctl EXCEPT !.dirty = FALSE]
               e == Item(lastSafe, NoKey, 0, TRUE, State(ctl), asked)
               h == <<e>>
    <3>1. d.completed = ctl.completed /\ d.table = ctl.table /\ d.prepare = ctl.prepare /\ d.progress = ctl.progress
      BY <1>1 DEF Controllers
    <3>2. State(ctl) = State(d) /\ State(ctl) \in StateSet
      BY <1>1, <3>1 DEF State, StateSet, Controllers
    <3>3. e \in Items /\ e.state = State(d)
      <4>1. NoKey \in KeySet
        BY DEF NoKey, KeySet, TableSet
      <4> QED BY <1>2, <3>2, <4>1 DEF Item, Items
    <3>4. ctl' = d /\ flight' = Append(flight, e)
      BY <2>4
    <3> HIDE DEF d, e
    <3>5. Follows(ExecuteIds(s), ctl, d)
      BY <1>1, <3>1, FlagsFollow
    <3>6. h \in Seq(Items) /\ DOMAIN h = {1} /\ h[1] = e /\ flight' = flight \o h
      BY <1>1, <3>3, <3>4
    <3> HIDE DEF h
    <3>7. \A n \in DOMAIN h : h[n].state \in {NoState, State(ctl')}
      BY <3>3, <3>4, <3>6
    <3> QED BY <1>1, <2>2, <3>4, <3>5, <3>6, <3>7, LoopOpen
  <2> QED BY <2>1, <2>3, <2>4
<1>7. CASE CommitOffset
  <2>1. UNCHANGED <<wal, ckpt, stops, phase, ctl, prep, lines, flight>>
    BY <1>7 DEF CommitOffset, database
  <2> QED BY <2>1 DEF OpenKept, OpensCounted
<1> QED BY <1>3, <1>4, <1>5, <1>6, <1>7 DEF ExternalSignals

-----------------------------------------------------------------------------
(* The database, the statements that prepare a chunk, and stops.            *)

\* The log goes on beside the connector.
LEMMA WriteOpen ==
    ASSUME NEW s \in Setups, SnapshotKept(s), SnapshotKept(s)', Remembers(s), OpenKept(s), Write \/ Send
    PROVE  OpenKept(s)'
<1>1. UNCHANGED <<ckpt, stops, phase, ctl, prep, lines, flight>>
  BY DEF Write, Send, durable, connector
<1>2. wal \in Seq(WalRecords) /\ wal' \in Seq(WalRecords) /\ setup = s
  BY OpenFacts DEF SnapshotKept, DatabaseKept
<1>3. /\ \A n \in DOMAIN wal' : wal'[n].kind = "signal" => wal'[n].signal \in Requests(s)
      /\ \A m : OpensOf(wal', m) = OpensOf(wal, m)
  <2>1. CASE Send
    BY <2>1 DEF Send, database, OpenKept
  <2>2. CASE Write
    <3> DEFINE st == Script[step]
               xid == IF open[st.tx] = 0 THEN nextXid ELSE open[st.tx]
               r == Record(st.op, xid, st.key, st.val, st.signal, NoChunk)
    <3>1. step <= Len(Script) /\ wal' = Append(wal, r) /\ step \in Nat \ {0} /\ Script = s.script
      BY <1>2, <2>2 DEF Write, SnapshotKept, DatabaseKept, Script
    <3>2. st \in Range(s.script) /\ st.op \in {"put", "signal", "commit"}
      <4>1. s.script \in Seq(Statements)
        BY SetupFacts
      <4>2. step \in DOMAIN s.script /\ s.script[step] \in Statements
        BY <3>1, <4>1
      <4> QED BY <3>1, <4>2 DEF Range, Statements
    <3>3. r.kind = st.op /\ r.signal = st.signal
      BY DEF Record
    <3> HIDE DEF r, st
    <3>4. /\ Len(wal) \in Nat /\ DOMAIN wal = 1 .. Len(wal) /\ DOMAIN wal' = 1 .. Len(wal) + 1
          /\ wal'[Len(wal) + 1] = r /\ \A n \in DOMAIN wal : n \in DOMAIN wal' /\ wal'[n] = wal[n]
          /\ \A n \in DOMAIN wal' : n \in DOMAIN wal \/ n = Len(wal) + 1
      <4>1. PICK T : T = WalRecords \cup {r}
        OBVIOUS
      <4>2. wal \in Seq(T) /\ r \in T
        <5>1. Len(wal) \in Nat /\ wal \in [1 .. Len(wal) -> WalRecords]
          BY <1>2
        <5>2. wal \in [1 .. Len(wal) -> T]
          BY <4>1, <5>1
        <5> QED BY <4>1, <5>1, <5>2
      <4> QED BY <3>1, <4>2, Longer
    <3>5. st.op = "signal" => st.signal \in Requests(s)
      BY <3>2 DEF Requests
    <3>6. \A n \in DOMAIN wal' : n \notin DOMAIN wal => wal'[n].kind # "open"
      BY <3>2, <3>3, <3>4
    <3>7. \A m : OpensOf(wal', m) = OpensOf(wal, m)
      BY <3>4, <3>6, OpensSame
    <3> QED BY <3>3, <3>4, <3>5, <3>7 DEF OpenKept
  <2> QED BY <2>1, <2>2
<1>4. OpensCounted'
  BY <1>1, <1>3, CountsStay DEF OpenKept
<1> QED BY <1>1, <1>3, <1>4 DEF OpenKept

\* The watermarks, and what they leave of the counts.
LEMMA MarkOpens ==
    ASSUME NEW s \in Setups, SnapshotKept(s), Remembers(s), OpenKept(s), NEW kind \in {"open", "close"},
           Mark(kind) \/ UNCHANGED wal, NEW id, id = [id |-> ctl.progress.id, chunk |-> ctl.progress.chunk]
    PROVE  /\ \A n \in DOMAIN wal' : wal'[n].kind = "signal" => wal'[n].signal \in Requests(s)
           /\ kind = "close" \/ UNCHANGED wal => \A m : OpensOf(wal', m) = OpensOf(wal, m)
           /\ \A m : Cardinality(OpensOf(wal, m)) \in Nat =>
                Cardinality(OpensOf(wal', m)) \in {Cardinality(OpensOf(wal, m)),
                                                   Cardinality(OpensOf(wal, m)) + (IF id = m THEN 1 ELSE 0)}
<1>1. wal \in Seq(WalRecords) /\ \A n \in DOMAIN wal : wal[n].kind = "signal" => wal[n].signal \in Requests(s)
  BY OpenFacts DEF OpenKept
<1>2. CASE UNCHANGED wal
  BY <1>1, <1>2
<1>3. CASE Mark(kind)
  <2> DEFINE a == Record(kind, nextXid, NoKey, 0, NoSignal, id)
             b == Record("commit", nextXid, NoKey, 0, NoSignal, NoChunk)
  <2>1. wal' = wal \o <<a, b>> /\ a.kind = kind /\ a.mark = id /\ b.kind = "commit"
    BY <1>3 DEF Mark, Record
  <2> HIDE DEF a, b
  <2>2. PICK g : g = wal'
    OBVIOUS
  <2>3. /\ Len(wal) \in Nat /\ DOMAIN wal = 1 .. Len(wal) /\ DOMAIN g = 1 .. Len(wal) + 2
        /\ g[Len(wal) + 1] = a /\ g[Len(wal) + 2] = b /\ \A n \in DOMAIN wal : n \in DOMAIN g /\ g[n] = wal[n]
        /\ \A n \in DOMAIN g : n \in DOMAIN wal \/ n = Len(wal) + 1 \/ n = Len(wal) + 2
    <3>1. wal \in Seq(WalRecords) /\ g = wal \o <<a, b>>
      BY <1>1, <2>1, <2>2
    <3> QED BY ONLY <3>1, TwoMore
  <2>4. \A n \in DOMAIN g : g[n].kind = "signal" => g[n].signal \in Requests(s)
    BY <1>1, <2>1, <2>3
  <2>5. CASE kind = "close"
    <3>1. \A n \in DOMAIN g : n \notin DOMAIN wal => g[n].kind # "open"
      BY <2>1, <2>3, <2>5
    <3>2. \A m : OpensOf(g, m) = OpensOf(wal, m)
      BY <2>3, <3>1, OpensSame
    <3> QED BY <2>2, <2>4, <3>2
  <2>6. CASE kind = "open"
    <3>1. ASSUME NEW m, Cardinality(OpensOf(wal, m)) \in Nat
          PROVE  Cardinality(OpensOf(g, m)) = Cardinality(OpensOf(wal, m)) + (IF id = m THEN 1 ELSE 0)
      <4>1. PICK k \in Nat : k = Len(wal)
        BY <2>3
      <4>2. /\ DOMAIN wal = 1 .. k /\ DOMAIN g = 1 .. k + 2 /\ \A n \in DOMAIN wal : g[n] = wal[n]
            /\ g[k + 1].kind = "open" /\ g[k + 2].kind # "open" /\ g[k + 1].mark = id
        BY <2>1, <2>3, <2>6, <4>1
      <4>3. /\ \A n \in DOMAIN g : n \in DOMAIN wal \/ n = k + 1 \/ n = k + 2
            /\ DOMAIN wal \subseteq DOMAIN g /\ k + 1 \in DOMAIN g /\ k + 1 \notin DOMAIN wal
        BY <4>2
      <4>4. CASE id # m
        <5>1. OpensOf(g, m) = OpensOf(wal, m)
          BY <4>2, <4>3, <4>4 DEF OpensOf
        <5> QED BY <3>1, <4>4, <5>1
      <4>5. CASE id = m
        <5>1. OpensOf(g, m) = OpensOf(wal, m) \cup {k + 1} /\ k + 1 \notin OpensOf(wal, m)
          BY <4>2, <4>3, <4>5 DEF OpensOf
        <5>2. IsFiniteSet(OpensOf(wal, m))
          <6>1. OpensOf(wal, m) \subseteq 1 .. k /\ IsFiniteSet(1 .. k)
            BY <4>2, FS_Interval DEF OpensOf
          <6> QED BY <6>1, FS_Subset
        <5>3. Cardinality(OpensOf(wal, m) \cup {k + 1}) = Cardinality(OpensOf(wal, m)) + 1
          BY <5>1, <5>2, FS_AddElement
        <5> QED BY <4>5, <5>1, <5>3
      <4> QED BY <4>4, <4>5
    <3>2. UNCHANGED wal => \A m : OpensOf(wal', m) = OpensOf(wal, m)
      OBVIOUS
    <3> QED BY <2>2, <2>4, <2>6, <3>1, <3>2
  <2> QED BY <2>5, <2>6
<1> QED BY <1>2, <1>3

LEMMA PrepareOn ==
    ASSUME NEW s \in Setups, OpenKept(s), PrepareLow \/ PrepareMax \/ PrepareRead, prep \in Preps
    PROVE  OpenKept(s)'
<1>1. /\ UNCHANGED prepareRest /\ prep.step # "none"
      /\ prep.step \in {"max", "read", "close"} => prep'.step \in {"max", "read", "close"}
  BY DEF PrepareLow, PrepareMax, PrepareRead, Preps
<1>2. UNCHANGED <<wal, ckpt, stops, phase, ctl, lines, flight>>
  BY <1>1 DEF prepareRest, database, durable
<1>3. OpensCounted'
  <2>1. \A m : OpensOf(wal', m) = OpensOf(wal, m)
    BY <1>2
  <2>2. \A m \in MarkSet : Spent(ctl, m) \/ BeingRead(ctl, prep, m) => Spent(ctl', m) \/ BeingRead(ctl', prep', m)
    BY <1>1, <1>2 DEF BeingRead
  <2> QED BY <1>2, <2>1, <2>2, CountsStay DEF OpenKept
<1> QED BY <1>1, <1>2, <1>3 DEF OpenKept

\* The chunk to open is not spent, so that its open watermark is the first of this process.
LEMMA PrepareOpenOpen ==
    ASSUME NEW s \in Setups, SnapshotKept(s), Remembers(s), OpenKept(s), PrepareOpen
    PROVE  OpenKept(s)'
<1> DEFINE id == [id |-> ctl.progress.id, chunk |-> ctl.progress.chunk]
<1>1. /\ prep.step = "open"
      /\ Mark("open") \/ UNCHANGED wal
      /\ UNCHANGED <<durable, phase, ctl, lines, flight, stops>>
  BY DEF PrepareOpen
<1>2. /\ \A n \in DOMAIN wal' : wal'[n].kind = "signal" => wal'[n].signal \in Requests(s)
      /\ \A m : Cardinality(OpensOf(wal, m)) \in Nat =>
            Cardinality(OpensOf(wal', m)) \in {Cardinality(OpensOf(wal, m)),
                                               Cardinality(OpensOf(wal, m)) + (IF id = m THEN 1 ELSE 0)}
      /\ UNCHANGED wal => \A m : OpensOf(wal', m) = OpensOf(wal, m)
  BY <1>1, MarkOpens
<1>3. /\ prep \in Preps /\ Active(ctl) /\ ctl.progress \in ProgressSet
  BY <1>1, CurrentRows
<1>4. /\ phase # "down" /\ ctl.table = "none" /\ stops \in Nat /\ OpensCounted
      /\ ctl.progress.id \notin Range(ctl.completed)
  BY <1>1, <1>3 DEF OpenKept, ChunkSound, StateSound, Active
<1>5. ~Spent(ctl, id) /\ \A m : ~BeingRead(ctl, prep, m)
  <2>1. ctl.progress.chunk \in Nat /\ ~(ctl.progress.chunk < ctl.progress.chunk)
    BY <1>3 DEF ProgressSet
  <2> QED BY <1>1, <1>4, <2>1 DEF Spent, BeingRead
<1>6. OpensCounted'
  <2> SUFFICES ASSUME NEW m \in MarkSet
               PROVE  /\ Cardinality(OpensOf(wal', m)) \in 0 .. stops + 1
                      /\ Cardinality(OpensOf(wal', m)) = stops + 1 => Spent(ctl, m) \/ BeingRead(ctl, prep', m)
    BY <1>1, <1>4 DEF OpensCounted
  <2>1. /\ Cardinality(OpensOf(wal, m)) \in 0 .. stops + 1
        /\ Cardinality(OpensOf(wal, m)) = stops + 1 => Spent(ctl, m)
    BY <1>4, <1>5 DEF OpensCounted
  <2>2. CASE m # id
    <3>1. Cardinality(OpensOf(wal', m)) = Cardinality(OpensOf(wal, m))
      BY <1>2, <1>4, <2>1, <2>2
    <3> QED BY <2>1, <3>1
  <2>3. CASE m = id
    <3>1. Cardinality(OpensOf(wal, m)) \in 0 .. stops
      BY <1>4, <1>5, <2>1, <2>3
    <3>2. Cardinality(OpensOf(wal', m)) \in {Cardinality(OpensOf(wal, m)), Cardinality(OpensOf(wal, m)) + 1}
      BY <1>2, <1>4, <2>3, <3>1
    <3>3. CASE UNCHANGED wal
      BY <1>2, <1>4, <3>1, <3>3
    <3>4. CASE prep' = [prep EXCEPT !.step = AfterOpen]
      <4>1. prep'.step \in {"max", "read", "close"}
        BY <1>3, <3>4 DEF Preps, AfterOpen
      <4>2. BeingRead(ctl, prep', m)
        BY <2>3, <4>1 DEF BeingRead
      <4> QED BY <1>4, <3>1, <3>2, <4>2
    <3> QED BY <3>3, <3>4 DEF PrepareOpen
  <2> QED BY <2>2, <2>3
<1>7. UNCHANGED ckpt
  BY <1>1 DEF durable
<1> QED BY <1>1, <1>2, <1>4, <1>6, <1>7 DEF OpenKept

\* The chunk becomes the current one, and is spent.
LEMMA PrepareCloseOpen ==
    ASSUME NEW s \in Setups, SnapshotKept(s), Remembers(s), OpenKept(s), PrepareClose
    PROVE  OpenKept(s)'
<1> DEFINE E == ExecuteIds(s)
           p == ctl.progress
           id == [id |-> p.id, chunk |-> p.chunk]
           max == IF p.max = 0 THEN prep.max ELSE p.max
           dirty == ctl.dirty \/ p.max = 0
           high == IF ReadOnly THEN CurrentSnapshot ELSE NoSnapshot
           next == [p EXCEPT !.max = max]
           d == [ctl EXCEPT !.window = prep.rows, !.end = prep.end, !.complete = prep.complete, !.chunk = id,
                            !.table = ThisTable, !.open = FALSE, !.low = prep.low, !.high = high,
                            !.progress = next, !.dirty = dirty]
<1>1. /\ prep.step = "close" /\ prep' = NoPrep
      /\ Mark("close") \/ UNCHANGED wal
      /\ ctl' = [ctl EXCEPT !.window = prep.rows, !.end = prep.end, !.complete = prep.complete, !.chunk = id,
                            !.table = ThisTable, !.open = FALSE, !.low = prep.low, !.high = high,
                            !.progress.max = max, !.dirty = dirty]
      /\ UNCHANGED <<durable, phase, lines, flight, stops>>
  BY DEF PrepareClose
<1>2. /\ ctl \in Controllers /\ p \in ProgressSet /\ Active(ctl) /\ ThisTable = p.tables[p.current]
  BY <1>1, CurrentRows
<1>3. /\ ChunkSound(E, ctl) /\ FlightSound(E, ckpt.state, flight, ctl) /\ flight \in Seq(Items) /\ 0 \notin E
      /\ ControllerKept(s.rows, Written, view, flight, ctl)
  BY OpenFacts
<1>4. /\ \A n \in DOMAIN wal' : wal'[n].kind = "signal" => wal'[n].signal \in Requests(s)
      /\ \A m : OpensOf(wal', m) = OpensOf(wal, m)
  BY <1>1, MarkOpens
<1>5. ctl' = d
  BY <1>1, <1>2 DEF Controllers
<1>6. next.id = p.id /\ next.chunk = p.chunk /\ next.tables = p.tables
  BY <1>2 DEF ProgressSet
<1> HIDE DEF max, dirty, high, next, id
<1>7. d.progress = next /\ d.completed = ctl.completed /\ d.table = ThisTable /\ d.prepare = ctl.prepare
  BY <1>2 DEF Controllers
<1> HIDE DEF d, E
<1>8. /\ ~ctl.prepare /\ ctl.table = "none" /\ phase # "down" /\ stops \in Nat /\ OpensCounted
  BY <1>1 DEF OpenKept
<1>9. p.id \in E \ Range(ctl.completed) /\ p.tables \in Seq(Named)
  BY <1>2, <1>3 DEF ChunkSound, StateSound, Active
<1>10. ThisTable # "none"
  <2>1. p.current \in DOMAIN p.tables
    BY <1>2, <1>3 DEF ControllerKept, ProgressKept, Active
  <2>2. p.tables[p.current] \in Named
    BY <1>9, <2>1
  <2> QED BY <1>2, <2>2 DEF Named
<1>11. Active(d)
  <2>1. next.id # 0 /\ NoProgress.id = 0
    BY <1>3, <1>6, <1>9 DEF NoProgress
  <2> QED BY <1>7, <2>1 DEF Active
<1>12. ChunkSound(E, d)
  BY <1>3, <1>6, <1>7, <1>8, <1>9, <1>11 DEF ChunkSound, StateSound
<1>13. \A m \in MarkSet : Spent(ctl, m) \/ BeingRead(ctl, prep, m) => Spent(d, m)
  <2> SUFFICES ASSUME NEW m \in MarkSet, Spent(ctl, m) \/ BeingRead(ctl, prep, m) PROVE Spent(d, m)
    OBVIOUS
  <2>1. CASE Spent(ctl, m)
    BY <1>6, <1>7, <1>8, <1>11, <2>1 DEF Spent
  <2>2. CASE BeingRead(ctl, prep, m)
    <3>1. m.id = p.id /\ m.chunk = p.chunk
      BY <2>2 DEF BeingRead
    <3> QED BY <1>6, <1>7, <1>10, <1>11, <3>1 DEF Spent
  <2> QED BY <2>1, <2>2
<1>14. Follows(E, ctl, d)
  BY <1>6, <1>7, <1>12, <1>13 DEF Follows, Remembered
<1>15. FlightSound(E, ckpt.state, flight, d)
  <2> DEFINE h == <<>>
  <2>1. h \in Seq(Items) /\ DOMAIN h = {} /\ flight \o h = flight
    BY <1>3
  <2> HIDE DEF h
  <2>2. FlightSound(E, ckpt.state, flight \o h, d)
    BY <1>3, <1>14, <2>1, SentSound
  <2> QED BY <2>1, <2>2
<1>16. OpensCounted'
  BY <1>1, <1>4, <1>5, <1>8, <1>13, CountsStay
<1>17. prep'.step = "none" /\ UNCHANGED ckpt
  BY <1>1 DEF NoPrep, durable
<1> QED BY <1>1, <1>4, <1>5, <1>8, <1>12, <1>15, <1>16, <1>17 DEF OpenKept, E

\* The checkpoint of a batch forgets nothing, and nothing that follows it forgets what it has.
LEMMA SavedSound ==
    ASSUME NEW E, NEW c, FlightSound(E, ckpt.state, flight, c), flight \in Seq(Items),
           NEW n \in Nat, n <= Len(flight), NEW saved, saved = SavedState(n),
           NEW g, g = SubSeq(flight, n + 1, Len(flight))
    PROVE  Remembered(ckpt.state, saved) /\ FlightSound(E, saved, g, c)
<1> DEFINE states == {m \in 1 .. n : flight[m].state # NoState}
<1>1. /\ DOMAIN flight = 1 .. Len(flight) /\ Len(flight) \in Nat /\ 1 .. n \subseteq DOMAIN flight
      /\ \A m \in DOMAIN g : m \in Nat /\ m > 0 /\ n + m \in DOMAIN flight /\ g[m] = flight[n + m]
  OBVIOUS
<1>2. /\ StateSound(E, saved) /\ Remembered(ckpt.state, saved) /\ Remembered(saved, c)
      /\ \A m \in DOMAIN flight : m > n /\ flight[m].state # NoState => Remembered(saved, flight[m].state)
  <2>1. CASE states = {}
    <3>1. saved = ckpt.state
      BY <2>1 DEF SavedState
    <3> QED BY <3>1 DEF FlightSound, Remembered
  <2>2. CASE states # {}
    <3>1. IsFiniteSet(states) /\ states \subseteq Nat
      <4>1. IsFiniteSet(1 .. n) /\ states \subseteq 1 .. n
        BY FS_Interval
      <4> QED BY <4>1, FS_Subset
    <3>2. PICK k : k = Max(states)
      OBVIOUS
    <3>3. k \in states
      BY <2>2, <3>1, <3>2, Extremes
    <3>4. saved = flight[k].state
      BY <2>2, <3>2 DEF SavedState
    <3>5. k \in DOMAIN flight /\ k \in Nat /\ k <= n /\ flight[k].state # NoState
      BY <1>1, <3>3
    <3> HIDE DEF states
    <3>6. \A m \in DOMAIN flight : m > n => m > k
      BY <1>1, <3>5
    <3> QED BY <3>4, <3>5, <3>6 DEF FlightSound
  <2> QED BY <2>1, <2>2
<1>3. ASSUME NEW m \in DOMAIN g, g[m].state # NoState
      PROVE  /\ StateSound(E, g[m].state) /\ Remembered(saved, g[m].state) /\ Remembered(g[m].state, c)
             /\ \A k \in DOMAIN g : k > m /\ g[k].state # NoState => Remembered(g[m].state, g[k].state)
  <2>1. n + m \in DOMAIN flight /\ n + m > n /\ flight[n + m].state # NoState /\ g[m] = flight[n + m] /\ m \in Nat
    BY <1>1, <1>3
  <2>2. ASSUME NEW k \in DOMAIN g, k > m, g[k].state # NoState
        PROVE  Remembered(g[m].state, g[k].state)
    <3>1. n + k \in DOMAIN flight /\ n + k > n + m /\ g[k] = flight[n + k]
      BY <1>1, <2>1, <2>2
    <3> QED BY <2>1, <2>2, <3>1 DEF FlightSound
  <2> QED BY <1>2, <2>1, <2>2 DEF FlightSound
<1> QED BY <1>2, <1>3 DEF FlightSound

LEMMA FlushOpen ==
    ASSUME NEW s \in Setups, SnapshotKept(s), Remembers(s), OpenKept(s), Flush
    PROVE  OpenKept(s)' /\ Remembered(ckpt.state, ckpt'.state)
<1>1. PICK n \in Batches :
        /\ ckpt' = [pos |-> flight[n].pos, state |-> SavedState(n)]
        /\ flight' = SubSeq(flight, n + 1, Len(flight))
  BY DEF Flush
<1>2. phase = "running" /\ UNCHANGED <<wal, phase, ctl, prep, lines, stops>>
  BY DEF Flush, database
<1>3. flight \in Seq(Items) /\ FlightSound(ExecuteIds(s), ckpt.state, flight, ctl)
  BY OpenFacts
<1>4. n \in Nat /\ n <= Len(flight)
  <2>1. n \in 1 .. Len(flight)
    BY DEF Batches
  <2> QED BY <1>3, <2>1
<1>5. Remembered(ckpt.state, ckpt'.state) /\ FlightSound(ExecuteIds(s), ckpt'.state, flight', ctl)
  <2>1. PICK saved, g : saved = SavedState(n) /\ g = SubSeq(flight, n + 1, Len(flight))
    OBVIOUS
  <2>2. Remembered(ckpt.state, saved) /\ FlightSound(ExecuteIds(s), saved, g, ctl)
    BY <1>3, <1>4, <2>1, SavedSound
  <2>3. ckpt'.state = saved /\ flight' = g
    BY <1>1, <2>1
  <2> QED BY <2>2, <2>3
<1>6. OpensCounted'
  <2>1. OpensCounted
    BY DEF OpenKept
  <2> QED BY <1>2, <2>1 DEF OpensCounted, OpensOf, Spent, BeingRead, Active
<1>7. phase' # "down"
  BY <1>2
<1> QED BY <1>2, <1>5, <1>6, <1>7 DEF OpenKept

LEMMA RegressOpen ==
    ASSUME NEW s \in Setups, OpenKept(s), Regress
    PROVE  OpenKept(s)'
<1>1. /\ phase = "running" /\ phase' = "failed"
      /\ UNCHANGED <<wal, ckpt, ctl, prep, lines, flight, stops>>
  BY DEF Regress, database, durable
<1>2. OpensCounted'
  <2>1. OpensCounted
    BY DEF OpenKept
  <2> QED BY <1>1, <2>1 DEF OpensCounted, OpensOf, Spent, BeingRead, Active
<1> QED BY <1>1, <1>2 DEF OpenKept

\* A process starts from a checkpoint, with no chunk read.
LEMMA NewSound ==
    ASSUME NEW E, NEW st, StateSound(E, st), NEW c, NEW dirty, NEW f, f = <<>>,
           c \in {New(st), [New(st) EXCEPT !.dirty = dirty]}
    PROVE  ChunkSound(E, c) /\ FlightSound(E, st, f, c) /\ ~c.prepare /\ c.table = "none"
<1>1. /\ c.progress = st.progress /\ c.completed = st.completed /\ c.prepare = FALSE /\ c.table = "none"
      /\ DOMAIN f = {}
  BY DEF New
<1> QED BY <1>1 DEF ChunkSound, StateSound, FlightSound, Remembered, Active

LEMMA CrashOpen ==
    ASSUME NEW s \in Setups, SnapshotKept(s), Remembers(s), OpenKept(s), Crash
    PROVE  OpenKept(s)'
<1>1. /\ stops' = stops + 1 /\ phase' = "down" /\ ctl' = New(ckpt.state) /\ prep' = NoPrep
      /\ lines' = <<>> /\ flight' = <<>> /\ UNCHANGED <<wal, ckpt>>
  BY DEF Crash, database
<1>2. /\ stops \in Nat /\ OpensCounted /\ StateSound(ExecuteIds(s), ckpt.state)
      /\ \A n \in DOMAIN wal : wal[n].kind = "signal" => wal[n].signal \in Requests(s)
  BY DEF OpenKept, FlightSound
<1>3. ChunkSound(ExecuteIds(s), ctl') /\ FlightSound(ExecuteIds(s), ckpt.state, flight', ctl')
  <2>1. PICK c, f : c = ctl' /\ f = flight'
    OBVIOUS
  <2> QED BY <1>1, <1>2, <2>1, NewSound
<1>4. OpensCounted'
  <2> SUFFICES ASSUME NEW m \in MarkSet
               PROVE  Cardinality(OpensOf(wal, m)) \in 0 .. stops + 1 + 1 /\ Cardinality(OpensOf(wal, m)) # stops + 1 + 1
    BY <1>1 DEF OpensCounted
  <2>1. Cardinality(OpensOf(wal, m)) \in 0 .. stops + 1
    BY <1>2 DEF OpensCounted
  <2> QED BY <1>2, <2>1
<1>5. prep'.step = "none" /\ stops' \in Nat /\ \A n \in DOMAIN lines' : lines'[n] \in Requests(s)
  BY <1>1, <1>2 DEF NoPrep
<1> QED BY <1>1, <1>2, <1>3, <1>4, <1>5 DEF OpenKept

LEMMA BootOpen ==
    ASSUME NEW s \in Setups, OpenKept(s), Boot
    PROVE  OpenKept(s)'
<1> DEFINE dirty == (ckpt.pos = 0)
<1>1. /\ phase = "down" /\ phase' = "running" /\ ctl' = [New(ckpt.state) EXCEPT !.dirty = dirty]
      /\ UNCHANGED <<wal, ckpt, lines, flight, stops>>
  BY DEF Boot, database, durable
<1> HIDE DEF dirty
<1>2. /\ stops \in Nat /\ OpensCounted /\ StateSound(ExecuteIds(s), ckpt.state) /\ flight' = <<>>
      /\ \A n \in DOMAIN wal : wal[n].kind = "signal" => wal[n].signal \in Requests(s)
      /\ \A n \in DOMAIN lines : lines[n] \in Requests(s)
  BY <1>1 DEF OpenKept, FlightSound
<1>3. /\ ChunkSound(ExecuteIds(s), ctl') /\ FlightSound(ExecuteIds(s), ckpt.state, flight', ctl')
      /\ ~ctl'.prepare /\ ctl'.table = "none"
  <2>1. PICK c, f : c = ctl' /\ f = flight'
    OBVIOUS
  <2> QED BY <1>1, <1>2, <2>1, NewSound
<1>4. OpensCounted'
  <2> SUFFICES ASSUME NEW m \in MarkSet
               PROVE  Cardinality(OpensOf(wal, m)) \in 0 .. stops + 1 /\ Cardinality(OpensOf(wal, m)) # stops + 1
    BY <1>1 DEF OpensCounted
  <2> QED BY <1>1, <1>2 DEF OpensCounted
<1> QED BY <1>1, <1>2, <1>3, <1>4 DEF OpenKept

LEMMA InitOpen ==
    ASSUME Init, Remembers(setup)
    PROVE  KeptOnce
<1>1. SnapshotKept(setup) /\ setup \in Setups
  <2>1. PICK s \in Setups : SnapshotKept(s)
    BY InitKept DEF Kept
  <2> QED BY <2>1 DEF SnapshotKept, TaskKept
<1>2. /\ wal = <<>> /\ ckpt = [pos |-> 0, state |-> [progress |-> NoProgress, completed |-> <<>>]]
      /\ phase = "down" /\ ctl = New(ckpt.state) /\ prep = NoPrep /\ lines = <<>> /\ flight = <<>> /\ stops = 0
  BY DEF Init
<1>3. StateSound(ExecuteIds(setup), ckpt.state)
  <2>1. PICK none : none = <<>>
    OBVIOUS
  <2>2. none \in Seq(ExecuteIds(setup)) /\ DOMAIN none = {}
    BY <2>1
  <2>3. ckpt.state.completed = none /\ ckpt.state.progress = NoProgress
    BY <1>2, <2>1
  <2> QED BY <2>2, <2>3 DEF StateSound
<1>4. ChunkSound(ExecuteIds(setup), ctl) /\ FlightSound(ExecuteIds(setup), ckpt.state, flight, ctl)
  BY <1>2, <1>3, NewSound
<1>5. OpensCounted
  <2> SUFFICES ASSUME NEW m \in MarkSet PROVE Cardinality(OpensOf(wal, m)) = 0
    BY <1>2 DEF OpensCounted
  <2>1. OpensOf(wal, m) = {}
    BY <1>2 DEF OpensOf
  <2> QED BY <2>1, FS_EmptySet
<1>6. OpenKept(setup)
  BY <1>2, <1>4, <1>5 DEF OpenKept, NoPrep
<1> QED BY <1>1, <1>6 DEF KeptOnce

\* Every step keeps it, and no step lets the checkpoint forget.
LEMMA StepOpen ==
    ASSUME KeptOnce, [Next]_vars
    PROVE  KeptOnce' /\ (ckpt' # ckpt => Remembered(ckpt.state, ckpt'.state))
<1>1. PICK s \in Setups : SnapshotKept(s) /\ Remembers(s) /\ OpenKept(s)
  BY DEF KeptOnce
<1>2. SnapshotKept(s)'
  <2>1. setup = s /\ setup' = setup
    <3>1. setup' = setup
      BY DEF vars, Next, Write, Send, Prepare, PrepareOpen, PrepareLow, PrepareMax, PrepareRead, PrepareClose,
             prepareRest, Stream, Begin, StreamStart, BeginAt, Change, SourceSignal, WindowOpen, WindowClose,
             CommitClosesWindow, CommitContinues, Commit, loopRest, Heartbeat, ExternalSignals, TakeExternal,
             TakeFile, ApplyLine, CheckpointSignal, CommitOffset, Flush, Regress, Crash, Boot
    <3> QED BY <1>1, <3>1 DEF SnapshotKept, TaskKept
  <2>2. PICK t \in Setups : SnapshotKept(t)'
    BY <1>1, StepKept DEF Kept
  <2>3. setup' = t
    BY <2>2 DEF SnapshotKept, TaskKept
  <2> QED BY <2>1, <2>2, <2>3
<1>3. OpenKept(s)' /\ (ckpt' # ckpt => Remembered(ckpt.state, ckpt'.state))
  <2>1. CASE Write \/ Send
    BY <1>1, <1>2, <2>1, WriteOpen DEF Write, Send, durable
  <2>2. CASE Prepare
    <3>1. CASE PrepareLow \/ PrepareMax \/ PrepareRead
      <4>1. prep \in Preps
        BY <1>1 DEF SnapshotKept, PrepKept
      <4> QED BY <1>1, <3>1, <4>1, PrepareOn DEF PrepareLow, PrepareMax, PrepareRead, prepareRest, durable
    <3>2. CASE PrepareOpen
      BY <1>1, <3>2, PrepareOpenOpen DEF PrepareOpen, durable
    <3>3. CASE PrepareClose
      BY <1>1, <3>3, PrepareCloseOpen DEF PrepareClose, durable
    <3> QED BY <2>2, <3>1, <3>2, <3>3 DEF Prepare
  <2>3. CASE Stream
    <3>1. UNCHANGED ckpt
      BY <2>3 DEF Stream, Begin, StreamStart, BeginAt, Change, SourceSignal, WindowOpen, WindowClose,
                  CommitClosesWindow, CommitContinues, Commit, loopRest, durable
    <3>2. CASE Begin \/ StreamStart
      BY <1>1, <3>1, <3>2, BeginOpen
    <3>3. CASE Change
      BY <1>1, <1>2, <3>1, <3>3, ChangeOpen
    <3>4. CASE SourceSignal
      BY <1>1, <3>1, <3>4, SourceSignalOpen
    <3>5. CASE WindowOpen
      BY <1>1, <3>1, <3>5, WindowOpenOpen
    <3>6. CASE WindowClose
      BY <1>1, <3>1, <3>6, WindowCloseOpen
    <3>7. CASE CommitClosesWindow
      BY <1>1, <3>1, <3>7, CommitClosesOpen
    <3>8. CASE CommitContinues
      BY <1>1, <3>1, <3>8, CommitContinuesOpen
    <3>9. CASE Commit
      BY <1>1, <1>2, <3>1, <3>9, CommitOpen
    <3> QED BY <2>3, <3>2, <3>3, <3>4, <3>5, <3>6, <3>7, <3>8, <3>9 DEF Stream
  <2>4. CASE Heartbeat
    BY <1>1, <2>4, HeartbeatOpen DEF Heartbeat, durable
  <2>5. CASE ExternalSignals
    BY <1>1, <2>5, ExternalOpen
       DEF ExternalSignals, TakeExternal, TakeFile, ApplyLine, CheckpointSignal, CommitOffset, durable
  <2>6. CASE Flush
    BY <1>1, <2>6, FlushOpen
  <2>7. CASE Regress
    BY <1>1, <2>7, RegressOpen DEF Regress, durable
  <2>8. CASE Crash
    BY <1>1, <2>8, CrashOpen DEF Crash
  <2>9. CASE Boot
    BY <1>1, <2>9, BootOpen DEF Boot, durable
  <2>10. CASE UNCHANGED vars
    BY <1>1, <2>10
       DEF vars, database, durable, connector, OpenKept, OpensCounted, OpensOf, Spent, BeingRead, Active
  <2> QED BY <2>1, <2>2, <2>3, <2>4, <2>5, <2>6, <2>7, <2>8, <2>9, <2>10 DEF Next
<1> QED BY <1>1, <1>2, <1>3 DEF KeptOnce

LEMMA OnceCounted == KeptOnce => ChunkOpenedOnce
<1> SUFFICES ASSUME KeptOnce, NEW m \in {wal[i].mark : i \in {n \in DOMAIN wal : wal[n].kind = "open"}}
             PROVE  Cardinality({i \in DOMAIN wal : wal[i].kind = "open" /\ wal[i].mark = m}) <= stops + 1
  BY DEF ChunkOpenedOnce
<1>1. PICK s \in Setups : SnapshotKept(s) /\ OpenKept(s)
  BY DEF KeptOnce
<1>2. PICK i \in DOMAIN wal : m = wal[i].mark
  OBVIOUS
<1>3. wal \in Seq(WalRecords)
  BY <1>1 DEF SnapshotKept, DatabaseKept
<1>4. wal[i] \in WalRecords
  BY <1>2, <1>3
<1>5. m \in MarkSet
  BY <1>2, <1>4 DEF WalRecords
<1>6. Cardinality(OpensOf(wal, m)) \in 0 .. stops + 1 /\ stops \in Nat
  BY <1>1, <1>5 DEF OpenKept, OpensCounted
<1> QED BY <1>6 DEF OpensOf

(***************************************************************************)
(* A snapshot is run once: for every database, script, chunk size, channel *)
(* and number of crashes, a process opens each chunk at most once, however *)
(* often the log, the topic or the file delivers the signal that asked for *)
(* it, as long as no more signals ask for a snapshot than the list of      *)
(* completed ones holds; a signal dropped from that list runs again        *)
(* (is_duplicate_execute_signal, MAX_COMPLETED_SIGNAL_IDS).                *)
(***************************************************************************)
THEOREM ChunksOnce == Spec /\ Remembers(setup) => []ChunkOpenedOnce
<1>1. Init /\ Remembers(setup) => KeptOnce
  BY InitOpen
<1>2. KeptOnce /\ [Next]_vars => KeptOnce'
  BY StepOpen
<1>3. KeptOnce => ChunkOpenedOnce
  BY OnceCounted
<1> QED BY <1>1, <1>2, <1>3, PTL DEF Spec

(***************************************************************************)
(* The checkpoint forgets no snapshot: one that is in progress there stays *)
(* in progress or is completed, whatever signals, chunks, batches and      *)
(* crashes come between (the connector state is encoded with both, and     *)
(* goes out with the records in the order it arose), under the same        *)
(* bound on the signals.                                                   *)
(***************************************************************************)
THEOREM NothingForgotten == Spec /\ Remembers(setup) => NoSnapshotForgotten
<1>1. Init /\ Remembers(setup) => KeptOnce
  BY InitOpen
<1>2. KeptOnce /\ [Next]_vars => KeptOnce'
  BY StepOpen
<1>3. KeptOnce /\ [Next]_vars =>
        [ckpt.state.progress.id # 0 /\ ckpt.state.progress.id # ckpt'.state.progress.id
            => ckpt.state.progress.id \in Range(ckpt'.state.completed)]_ckpt
  BY StepOpen DEF Remembered
<1> QED BY <1>1, <1>2, <1>3, PTL DEF Spec, NoSnapshotForgotten

=============================================================================
