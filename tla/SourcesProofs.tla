----------------------------- MODULE SourcesProofs -----------------------------
(***************************************************************************)
(* Theorems about the Oracle and MongoDB connectors with the runtime       *)
(* behind them, as MCSources composes them.                                *)
(*                                                                         *)
(* The argument is about every number n of records that could be flushed   *)
(* before the process ends: what the sink then has of a key is what the    *)
(* database has, or what the connector will send again from any checkpoint *)
(* it may find.                                                            *)
(***************************************************************************)
EXTENDS MCSources, WellFoundedInduction, FiniteSetTheorems, TLAPS

-----------------------------------------------------------------------------
(* Numbers and sequences.                                                   *)

LEMMA Least ==
    ASSUME NEW S, S \subseteq Nat, S # {}
    PROVE  \E i \in S : \A j \in S : i <= j
<1>1. PICK i \in S : \A j \in S : ~(<<j, i>> \in OpToRel(<, Nat))
  BY NatLessThanWellFounded, WFMin
<1>2. ASSUME NEW j \in S PROVE i <= j
  <2>1. ~(<<j, i>> \in OpToRel(<, Nat)) /\ i \in Nat /\ j \in Nat
    BY <1>1
  <2>2. OpToRel(<, Nat) = {ss \in Nat \X Nat : ss[1] < ss[2]}
    BY DEF OpToRel
  <2>3. <<j, i>> \in Nat \X Nat /\ <<j, i>>[1] = j /\ <<j, i>>[2] = i
    BY <2>1
  <2>4. j < i => <<j, i>> \in OpToRel(<, Nat)
    BY <2>2, <2>3
  <2>5. ~(j < i)
    BY <2>1, <2>4
  <2>6. i \in Nat /\ j \in Nat
    OBVIOUS
  <2> QED
    BY <2>5, <2>6
<1> QED
  BY <1>2

LEMMA Smallest ==
    ASSUME NEW S, S \subseteq Nat, S # {}
    PROVE  Min(S) \in S /\ \A i \in S : Min(S) <= i
<1>1. \E i \in S : \A j \in S : i =< j
  BY Least
<1> QED
  BY <1>1 DEF Min

LEMMA Largest ==
    ASSUME NEW S, S \subseteq Nat, S # {}, NEW n \in Nat, \A i \in S : i <= n
    PROVE  Max(S) \in S /\ \A i \in S : i <= Max(S)
<1> DEFINE U == {u \in Nat : \A i \in S : i <= u}
<1>1. PICK u \in U : \A v \in U : u <= v
  BY Least, n \in U, U \subseteq Nat
<1>2. u \in S
  <2>1. CASE u = 0
    <3>1. PICK i : i \in S
      OBVIOUS
    <3> QED
      BY <3>1, <2>1
  <2>2. CASE u # 0
    <3>1. u - 1 \in Nat /\ u - 1 \notin U
      BY <2>2, <1>1
    <3>2. PICK i \in S : ~(i <= u - 1)
      BY <3>1
    <3> QED
      BY <3>2
  <2> QED
    BY <2>1, <2>2
<1>3. \E x \in S : \A y \in S : x >= y
  BY <1>2
<1>4. Max(S) \in S /\ \A y \in S : Max(S) >= y
  BY <1>3 DEF Max
<1> QED
  BY <1>4

LEMMA LargestIs ==
    ASSUME NEW S, S \subseteq Nat, NEW x \in S, \A i \in S : i <= x
    PROVE  Max(S) = x
<1>1. Max(S) \in S /\ \A i \in S : i <= Max(S)
  BY Largest
<1>2. Max(S) \in Nat /\ x \in Nat /\ x <= Max(S) /\ Max(S) <= x
  BY <1>1
<1> HIDE DEF Max
<1> QED
  BY <1>2

\* f is a sequence, whatever its elements are.
Sequence(f) == Len(f) \in Nat /\ f \in Seq({f[n] : n \in 1 .. Len(f)})

LEMMA Appended ==
    ASSUME NEW T, NEW f \in Seq(T), NEW e \in T
    PROVE  /\ Append(f, e) \in Seq(T) /\ Len(f) \in Nat /\ Len(Append(f, e)) = Len(f) + 1
           /\ DOMAIN Append(f, e) = 1 .. Len(f) + 1
           /\ \A n \in 1 .. Len(f) : Append(f, e)[n] = f[n]
           /\ Append(f, e)[Len(f) + 1] = e
  OBVIOUS

LEMMA Longer ==
    ASSUME NEW f, Sequence(f), NEW e
    PROVE  /\ Sequence(Append(f, e)) /\ Len(Append(f, e)) = Len(f) + 1
           /\ \A n \in 1 .. Len(f) : Append(f, e)[n] = f[n]
           /\ Append(f, e)[Len(f) + 1] = e
<1> DEFINE T == {f[n] : n \in 1 .. Len(f)} \cup {e}
           g == Append(f, e)
<1>1. f \in Seq(T) /\ e \in T
  BY DEF Sequence
<1>2. /\ g \in Seq(T) /\ Len(f) \in Nat /\ Len(g) = Len(f) + 1 /\ DOMAIN g = 1 .. Len(f) + 1
      /\ \A n \in 1 .. Len(f) : g[n] = f[n]
      /\ g[Len(f) + 1] = e
  <2> HIDE DEF T
  <2> QED
    BY <1>1, Appended
<1> HIDE DEF g, T
<1>3. g = [n \in 1 .. Len(g) |-> g[n]]
  BY <1>2
<1>4. g \in Seq({g[n] : n \in 1 .. Len(g)})
  BY <1>2, <1>3
<1> QED
  BY <1>2, <1>4 DEF Sequence, g

LEMMA Rest ==
    ASSUME NEW f, Sequence(f), NEW n \in 1 .. Len(f)
    PROVE  /\ Sequence(SubSeq(f, n + 1, Len(f))) /\ Len(SubSeq(f, n + 1, Len(f))) = Len(f) - n
           /\ \A m \in 1 .. Len(f) - n : SubSeq(f, n + 1, Len(f))[m] = f[n + m]
<1> DEFINE T == {f[m] : m \in 1 .. Len(f)}
           g == SubSeq(f, n + 1, Len(f))
<1>1. f \in Seq(T) /\ Len(f) \in Nat
  BY DEF Sequence
<1>2. /\ g \in Seq(T) /\ Len(g) = Len(f) - n /\ DOMAIN g = 1 .. Len(g) /\ Len(g) \in Nat
      /\ \A m \in 1 .. Len(f) - n : g[m] = f[n + m]
  <2> HIDE DEF T
  <2> QED
    BY <1>1
<1> HIDE DEF g, T
<1>3. g = [m \in 1 .. Len(g) |-> g[m]]
  BY <1>2
<1>4. g \in Seq({g[m] : m \in 1 .. Len(g)})
  BY <1>2, <1>3
<1> QED
  BY <1>2, <1>4 DEF Sequence, g

LEMMA Nothing == Sequence(<<>>) /\ Len(<<>>) = 0
  BY DEF Sequence

-----------------------------------------------------------------------------
(* What the sink has of a key once the first n of the records f are written *)
(* to it, when it has the values v before.                                  *)

Sees(v, f, key, n) ==
    LET of == {m \in 1 .. n : f[m].key = key}
    IN  IF of = {} THEN v[key] ELSE f[Max(of)].val

LEMMA ShownSees ==
    ASSUME NEW key, NEW n
    PROVE  Shown(key, n) = Sees(view, flight, key, n)
  BY DEF Shown, Sees

LEMMA SeesFirst ==
    ASSUME NEW v, NEW f, NEW key
    PROVE  Sees(v, f, key, 0) = v[key]
  BY DEF Sees

LEMMA SeesSame ==
    ASSUME NEW v, NEW f, NEW g, NEW key, NEW n \in Nat, \A m \in 1 .. n : f[m] = g[m]
    PROVE  Sees(v, f, key, n) = Sees(v, g, key, n)
<1> DEFINE S == {m \in 1 .. n : f[m].key = key}
<1>1. S = {m \in 1 .. n : g[m].key = key}
  OBVIOUS
<1>2. S # {} => Max(S) \in 1 .. n
  <2> SUFFICES ASSUME S # {} PROVE Max(S) \in 1 .. n
    OBVIOUS
  <2>1. Max(S) \in S
    BY Largest
  <2> QED
    BY <2>1
<1> HIDE DEF S
<1> QED
  BY <1>1, <1>2 DEF Sees, S

LEMMA SeesNext ==
    ASSUME NEW v, NEW f, NEW key, NEW n \in Nat
    PROVE  Sees(v, f, key, n + 1) = IF f[n + 1].key = key THEN f[n + 1].val ELSE Sees(v, f, key, n)
<1> DEFINE S(k) == {m \in 1 .. k : f[m].key = key}
<1>1. CASE f[n + 1].key = key
  <2>1. n + 1 \in S(n + 1) /\ \A i \in S(n + 1) : i <= n + 1
    BY <1>1
  <2>2. Max(S(n + 1)) = n + 1
    BY <2>1, LargestIs
  <2> QED
    BY <1>1, <2>1, <2>2 DEF Sees
<1>2. CASE f[n + 1].key # key
  <2>1. S(n + 1) = S(n)
    BY <1>2
  <2> QED
    BY <1>2, <2>1 DEF Sees
<1> QED
  BY <1>1, <1>2

\* The first k of g are what follows the first n of f.
Follow(g, k, f, n) == \A m \in 1 .. k : g[m] = f[n + m]

LEMMA SeesFrom ==
    ASSUME NEW v, NEW f, NEW w, NEW g, NEW key, NEW n \in Nat, NEW k \in Nat,
           w[key] = Sees(v, f, key, n), Follow(g, k, f, n)
    PROVE  Sees(w, g, key, k) = Sees(v, f, key, n + k)
<1> USE DEF Follow
<1> DEFINE S == {m \in 1 .. k : g[m].key = key}
           T == {m \in 1 .. n + k : f[m].key = key}
<1>1. CASE S = {}
  <2>1. T = {m \in 1 .. n : f[m].key = key}
    <3>1. ASSUME NEW m \in T PROVE m \in 1 .. n
      <4>1. SUFFICES ASSUME ~(m <= n) PROVE FALSE
        OBVIOUS
      <4>2. m - n \in 1 .. k /\ n + (m - n) = m
        BY <4>1
      <4>3. m - n \in S
        BY <4>2
      <4> QED
        BY <4>3, <1>1
    <3> QED
      BY <3>1
  <2> QED
    BY <1>1, <2>1 DEF Sees
<1>2. CASE S # {}
  <2>1. Max(S) \in S /\ \A i \in S : i <= Max(S)
    BY <1>2, Largest
  <2>2. n + Max(S) \in T
    BY <2>1
  <2>3. ASSUME NEW i \in T PROVE i <= n + Max(S)
    <3>1. CASE i <= n
      BY <3>1, <2>1
    <3>2. CASE ~(i <= n)
      <4>1. i - n \in 1 .. k /\ n + (i - n) = i
        BY <3>2
      <4>2. i - n \in S
        BY <4>1
      <4> QED
        BY <4>2, <2>1
    <3> QED
      BY <3>1, <3>2
  <2>4. Max(T) = n + Max(S)
    BY <2>2, <2>3, LargestIs
  <2>5. g[Max(S)] = f[n + Max(S)] /\ T # {}
    BY <2>1, <2>2
  <2> HIDE DEF S, T
  <2>6. Sees(w, g, key, k) = g[Max(S)].val
    BY <1>2 DEF Sees, S
  <2>7. Sees(v, f, key, n + k) = f[Max(T)].val
    BY <2>5 DEF Sees, T
  <2> QED
    BY <2>4, <2>5, <2>6, <2>7
<1> QED
  BY <1>1, <1>2

-----------------------------------------------------------------------------
(* What a start finds, and what the sink has, once the first n records under *)
(* way are flushed.                                                          *)

Cuts == 0 .. Len(flight)

PosAt(n) == IF n = 0 THEN ckpt.pos ELSE flight[n].pos

SnapAt(n) == ckpt.snap \/ \E m \in 1 .. n : flight[m].snapshotEnd

\* It goes on from the checkpoint, without a snapshot.
GoesOn(n) == PosAt(n) # None /\ (setup.mode = "never" \/ SnapAt(n))

TakenAt(n) == taken \cup ({flight[m].id : m \in 1 .. n} \ {0})

\* The records under way, the checkpoint and the process.
DeliveryKept ==
    /\ Sequence(flight) /\ phase \in {"down", "snapshot", "streaming", "failed"}
    /\ phase = "down" => flight = <<>>
    /\ ckpt.snap => ckpt.pos # None
    /\ \A n \in 1 .. Len(flight) : flight[n].pos # None
    /\ setup.rows \in Seq(Nat) /\ view = [key \in Keys |-> view[key]]

LEMMA StayFacts ==
    ASSUME UNCHANGED <<setup, flight, view, ckpt, taken>>
    PROVE  /\ Keys' = Keys /\ Cuts' = Cuts
           /\ \A n : /\ PosAt(n)' = PosAt(n) /\ SnapAt(n)' = SnapAt(n) /\ GoesOn(n)' = GoesOn(n)
                     /\ TakenAt(n)' = TakenAt(n) /\ \A key : Shown(key, n)' = Shown(key, n)
  BY DEF Keys, Cuts, PosAt, SnapAt, GoesOn, TakenAt, Shown

LEMMA SendFacts ==
    ASSUME Sequence(flight), NEW L, L = Len(flight),
           NEW r, flight' = Append(flight, r), UNCHANGED <<setup, view, ckpt, taken>>
    PROVE  /\ Keys' = Keys /\ L \in Nat /\ Sequence(flight)' /\ Len(flight)' = L + 1
           /\ \A n \in 1 .. L : flight'[n] = flight[n]
           /\ flight'[L + 1] = r
           /\ \A n \in Cuts : /\ PosAt(n)' = PosAt(n) /\ SnapAt(n)' = SnapAt(n) /\ GoesOn(n)' = GoesOn(n)
                                  /\ TakenAt(n)' = TakenAt(n) /\ \A key : Shown(key, n)' = Shown(key, n)
           /\ PosAt(L + 1)' = r.pos
           /\ SnapAt(L + 1)' = (SnapAt(L) \/ r.snapshotEnd)
           /\ TakenAt(L + 1)' = TakenAt(L) \cup ({r.id} \ {0})
           /\ \A key : Shown(key, L + 1)' = IF r.key = key THEN r.val ELSE Shown(key, L)
<1>1. PICK g : g = flight'
  OBVIOUS
<1>2. /\ Sequence(g) /\ Len(g) = L + 1 /\ L \in Nat /\ \A n \in 1 .. L : g[n] = flight[n]
      /\ g[L + 1] = r
  BY <1>1, Longer DEF Sequence
<1>3. ASSUME NEW n \in Cuts
      PROVE  /\ PosAt(n)' = PosAt(n) /\ SnapAt(n)' = SnapAt(n)
             /\ TakenAt(n)' = TakenAt(n) /\ \A key : Shown(key, n)' = Shown(key, n)
  <2>0. n \in Nat /\ n <= L /\ \A m \in 1 .. n : flight'[m] = flight[m]
    BY <1>1, <1>2 DEF Cuts
  <2>1. PosAt(n)' = PosAt(n)
    <3>1. n # 0 => flight'[n] = flight[n]
      BY <2>0
    <3> QED
      BY <3>1 DEF PosAt
  <2>2. SnapAt(n)' = SnapAt(n)
    BY <2>0 DEF SnapAt
  <2>3. {flight'[m].id : m \in 1 .. n} = {flight[m].id : m \in 1 .. n}
    BY <2>0
  <2>4. TakenAt(n)' = TakenAt(n)
    BY <2>3 DEF TakenAt
  <2>5. ASSUME NEW key PROVE Shown(key, n)' = Shown(key, n)
    <3>1. Sees(view, g, key, n) = Sees(view, flight, key, n)
      BY <1>1, <2>0, SeesSame
    <3> QED
      BY <1>1, <3>1 DEF Shown, Sees
  <2> QED
    BY <2>1, <2>2, <2>4, <2>5
<1>4. PosAt(L + 1)' = r.pos
  BY <1>1, <1>2 DEF PosAt
<1>5. SnapAt(L + 1)' = (SnapAt(L) \/ r.snapshotEnd)
  <2>1. \A m \in 1 .. L + 1 : m \in 1 .. L \/ m = L + 1
    BY <1>2
  <2>2. \A m \in 1 .. L : m \in 1 .. L + 1 /\ g[m] = flight[m]
    BY <1>2
  <2>3. (\E m \in 1 .. L + 1 : g[m].snapshotEnd) = ((\E m \in 1 .. L : flight[m].snapshotEnd) \/ r.snapshotEnd)
    <3>1. L + 1 \in 1 .. L + 1
      BY <1>2
    <3> QED
      BY <1>2, <2>1, <2>2, <3>1
  <2> QED
    BY <1>1, <2>3 DEF SnapAt
<1>6. TakenAt(L + 1)' = TakenAt(L) \cup ({r.id} \ {0})
  <2>1. {g[m].id : m \in 1 .. L + 1} = {flight[m].id : m \in 1 .. L} \cup {r.id}
    <3>1. \A m \in 1 .. L + 1 : m \in 1 .. L \/ m = L + 1
      BY <1>2
    <3>2. \A m \in 1 .. L : m \in 1 .. L + 1 /\ g[m] = flight[m]
      BY <1>2
    <3>3. L + 1 \in 1 .. L + 1
      BY <1>2
    <3> QED
      BY <1>2, <3>1, <3>2, <3>3
  <2> QED
    BY <1>1, <2>1 DEF TakenAt
<1>7. ASSUME NEW key
      PROVE  Shown(key, L + 1)' = IF r.key = key THEN r.val ELSE Shown(key, L)
  <2>0. L \in Nat
    BY <1>2
  <2>1. Sees(view, g, key, L + 1) = IF g[L + 1].key = key THEN g[L + 1].val ELSE Sees(view, g, key, L)
    BY ONLY <2>0, SeesNext
  <2>2. Sees(view, g, key, L) = Sees(view, flight, key, L)
    BY <1>2, SeesSame
  <2> QED
    BY <1>1, <1>2, <2>1, <2>2 DEF Shown, Sees
<1>8. \A n \in Cuts : GoesOn(n)' = GoesOn(n)
  BY <1>3 DEF GoesOn, None
<1> QED
  BY <1>1, <1>2, <1>3, <1>4, <1>5, <1>6, <1>7, <1>8 DEF Keys

\* Flush, of the first n records.
FlushOf(n) ==
    /\ view' = [key \in Keys |-> Shown(key, n)] /\ taken' = TakenAt(n)
    /\ ckpt' = [pos |-> PosAt(n), snap |-> SnapAt(n)]
    /\ flight' = SubSeq(flight, n + 1, Len(flight))
    /\ UNCHANGED <<setup, phase, stops>>

LEMMA FlushIs ==
    ASSUME Flush, DeliveryKept
    PROVE  \E n \in 1 .. Len(flight) : FlushOf(n)
<1>1. PICK n \in Batches :
        /\ Deliver(n)
        /\ ckpt' = [pos |-> flight[n].pos, snap |-> ckpt.snap \/ \E m \in 1 .. n : flight[m].snapshotEnd]
        /\ flight' = SubSeq(flight, n + 1, Len(flight))
        /\ UNCHANGED <<setup, phase, stops>>
  BY DEF Flush
<1>2. n \in 1 .. Len(flight) /\ n # 0
  BY DEF Batches, DeliveryKept, Sequence
<1> QED
  BY <1>1, <1>2 DEF FlushOf, Deliver, PosAt, SnapAt, TakenAt

LEMMA FlushFacts ==
    ASSUME DeliveryKept, NEW n \in 1 .. Len(flight), FlushOf(n)
    PROVE  /\ Keys' = Keys /\ DeliveryKept' /\ Len(flight)' = Len(flight) - n
           /\ \A m \in Cuts' :
                /\ n + m \in Cuts
                /\ PosAt(m)' = PosAt(n + m) /\ SnapAt(m)' = SnapAt(n + m) /\ GoesOn(m)' = GoesOn(n + m)
                /\ TakenAt(m)' = TakenAt(n + m) /\ \A key \in Keys : Shown(key, m)' = Shown(key, n + m)
           /\ SnapAt(Len(flight))' = SnapAt(Len(flight)) /\ TakenAt(Len(flight))' = TakenAt(Len(flight))
           /\ \A key \in Keys : Shown(key, Len(flight))' = Shown(key, Len(flight))
<1> DEFINE L == Len(flight)
<1>1. PICK g, w, d : g = flight' /\ w = view' /\ d = ckpt'
  OBVIOUS
<1>2. /\ Sequence(g) /\ Len(g) = L - n /\ L \in Nat /\ n \in Nat /\ \A m \in 1 .. L - n : g[m] = flight[n + m]
  <2>1. Sequence(flight) /\ L \in Nat /\ n \in Nat /\ g = SubSeq(flight, n + 1, Len(flight))
    BY <1>1 DEF FlushOf, DeliveryKept, Sequence
  <2>2. /\ Sequence(SubSeq(flight, n + 1, Len(flight))) /\ Len(SubSeq(flight, n + 1, Len(flight))) = Len(flight) - n
        /\ \A m \in 1 .. Len(flight) - n : SubSeq(flight, n + 1, Len(flight))[m] = flight[n + m]
    BY <2>1, Rest
  <2> QED
    BY <2>1, <2>2
<1>3. w = [key \in Keys |-> Shown(key, n)] /\ d = [pos |-> PosAt(n), snap |-> SnapAt(n)] /\ taken' = TakenAt(n)
  BY <1>1 DEF FlushOf
<1>4. setup' = setup /\ Keys' = Keys /\ phase' = phase
  BY DEF FlushOf, Keys
<1>5. ASSUME NEW m \in 0 .. L - n
      PROVE  /\ n + m \in Cuts
             /\ PosAt(m)' = PosAt(n + m) /\ SnapAt(m)' = SnapAt(n + m)
             /\ TakenAt(m)' = TakenAt(n + m) /\ \A key \in Keys : Shown(key, m)' = Shown(key, n + m)
  <2>0. m \in Nat /\ m <= L - n /\ \A k \in 1 .. m : g[k] = flight[n + k]
    BY <1>2
  <2>1. PosAt(m)' = PosAt(n + m)
    <3>1. m # 0 => g[m] = flight[n + m] /\ n + m # 0
      BY <2>0, <1>2
    <3>2. m = 0 => n + m = n /\ n # 0
      BY <1>2
    <3> QED
      BY <1>1, <1>3, <3>1, <3>2 DEF PosAt
  <2>2. \A k \in 1 .. n + m : k \in 1 .. n \/ (k - n \in 1 .. m /\ g[k - n] = flight[k])
    <3> SUFFICES ASSUME NEW k \in 1 .. n + m, k \notin 1 .. n PROVE k - n \in 1 .. m /\ g[k - n] = flight[k]
      OBVIOUS
    <3>1. k - n \in 1 .. m /\ n + (k - n) = k
      BY <1>2, <2>0
    <3> QED
      BY <2>0, <3>1
  <2>3. \A k \in 1 .. n : k \in 1 .. n + m
    BY <1>2, <2>0
  <2>4. \A k \in 1 .. m : n + k \in 1 .. n + m /\ g[k] = flight[n + k]
    BY <1>2, <2>0
  <2>5. SnapAt(m)' = SnapAt(n + m)
    <3>1. (SnapAt(n) \/ \E k \in 1 .. m : g[k].snapshotEnd) = SnapAt(n + m)
      BY <2>2, <2>3, <2>4 DEF SnapAt
    <3>2. d.snap = SnapAt(n)
      BY <1>3
    <3> QED
      BY <1>1, <3>1, <3>2 DEF SnapAt
  <2>6. TakenAt(m)' = TakenAt(n + m)
    <3>1. {flight[k].id : k \in 1 .. n} \cup {g[k].id : k \in 1 .. m} = {flight[k].id : k \in 1 .. n + m}
      <4>1. ASSUME NEW i \in {flight[k].id : k \in 1 .. n + m}
            PROVE  i \in {flight[k].id : k \in 1 .. n} \cup {g[k].id : k \in 1 .. m}
        BY <2>2
      <4>2. {flight[k].id : k \in 1 .. n} \subseteq {flight[k].id : k \in 1 .. n + m}
        BY <2>3
      <4>3. {g[k].id : k \in 1 .. m} \subseteq {flight[k].id : k \in 1 .. n + m}
        BY <2>4
      <4> QED
        BY <4>1, <4>2, <4>3
    <3>2. TakenAt(n + m) = taken \cup (({flight[k].id : k \in 1 .. n} \cup {g[k].id : k \in 1 .. m}) \ {0})
      BY <3>1 DEF TakenAt
    <3>3. TakenAt(m)' = TakenAt(n) \cup ({g[k].id : k \in 1 .. m} \ {0})
      BY <1>1, <1>3 DEF TakenAt
    <3> QED
      BY <3>2, <3>3 DEF TakenAt
  <2>7. ASSUME NEW key \in Keys PROVE Shown(key, m)' = Shown(key, n + m)
    <3>1. w[key] = Sees(view, flight, key, n)
      BY <1>3, ShownSees
    <3>2. Sees(w, g, key, m) = Sees(view, flight, key, n + m)
      <4>1. n \in Nat /\ m \in Nat /\ \A k \in 1 .. m : g[k] = flight[n + k]
        BY <1>2, <2>0
      <4>2. Follow(g, m, flight, n)
        BY <4>1 DEF Follow
      <4> QED
        BY ONLY <3>1, <4>1, <4>2, SeesFrom
    <3> QED
      BY <1>1, <3>2 DEF Shown, Sees
  <2> QED
    BY <1>2, <2>0, <2>1, <2>5, <2>6, <2>7 DEF Cuts
<1>6. \A m \in 0 .. L - n : GoesOn(m)' = GoesOn(n + m)
  BY <1>4, <1>5 DEF GoesOn, None
<1>7. Cuts' = 0 .. L - n
  BY <1>1, <1>2 DEF Cuts
<1>8. DeliveryKept'
  <2>1. phase # "down"
    <3>1. L # 0
      BY <1>2
    <3> QED
      BY <3>1, Nothing DEF DeliveryKept
  <2>2. \A m \in 1 .. L - n : g[m].pos # None
    <3>1. \A m \in 1 .. L - n : n + m \in 1 .. L
      BY <1>2
    <3> QED
      BY <1>2, <3>1 DEF DeliveryKept
  <2>3. d.pos = flight[n].pos /\ d.pos # None
    BY <1>2, <1>3 DEF PosAt, DeliveryKept
  <2> QED
    BY <1>1, <1>2, <1>3, <1>4, <2>1, <2>2, <2>3 DEF DeliveryKept, None
<1>9. n + (L - n) = L /\ L - n \in 0 .. L - n
  BY <1>2
<1> HIDE DEF L
<1> QED
  BY <1>1, <1>2, <1>4, <1>5, <1>6, <1>7, <1>8, <1>9 DEF L

\* The process ends once the sink has the first n records.
EndAfter(n) ==
    /\ phase' = "down" /\ flight' = <<>>
    /\ view' = [key \in Keys |-> Shown(key, n)] /\ taken' = TakenAt(n)
    /\ UNCHANGED <<setup, ckpt>>

LEMMA EndIs ==
    ASSUME Backwards \/ Restart \/ Crash, DeliveryKept
    PROVE  \E n \in Cuts : EndAfter(n)
<1>1. Len(flight) \in Nat /\ 0 \in Cuts
  BY DEF DeliveryKept, Sequence, Cuts
<1>2. TakenAt(0) = taken /\ view = [key \in Keys |-> Shown(key, 0)]
  <2>1. \A key \in Keys : Shown(key, 0) = view[key]
    BY SeesFirst, ShownSees
  <2>2. [key \in Keys |-> Shown(key, 0)] = [key \in Keys |-> view[key]]
    BY <2>1
  <2> QED
    BY <2>2 DEF TakenAt, DeliveryKept
<1>3. CASE Backwards \/ Restart
  <2>1. EndAfter(0)
    BY <1>2, <1>3 DEF Backwards, Restart, Ends, EndAfter
  <2> QED
    BY <1>1, <2>1
<1>4. CASE Crash
  <2>1. PICK n \in {0} \cup {m \in Batches : Ordered(m)} : Deliver(n)
    BY <1>4 DEF Crash
  <2>2. n \in Cuts
    BY <1>1, <2>1 DEF Batches, Cuts
  <2>3. EndAfter(n)
    BY <1>4, <2>1 DEF Crash, Ends, EndAfter, Deliver, TakenAt
  <2> QED
    BY <2>2, <2>3
<1> QED
  BY <1>3, <1>4

LEMMA EndFacts ==
    ASSUME DeliveryKept, NEW n \in Cuts, EndAfter(n)
    PROVE  /\ Keys' = Keys /\ DeliveryKept' /\ Cuts' = {0} /\ Len(flight)' = 0
           /\ PosAt(0)' = PosAt(0) /\ SnapAt(0)' = SnapAt(0) /\ GoesOn(0)' = GoesOn(0)
           /\ TakenAt(0)' = TakenAt(n) /\ \A key \in Keys : Shown(key, 0)' = Shown(key, n)
<1>1. PICK w : w = view'
  OBVIOUS
<1>2. /\ flight' = <<>> /\ w = [key \in Keys |-> Shown(key, n)] /\ taken' = TakenAt(n) /\ phase' = "down"
      /\ setup' = setup /\ ckpt' = ckpt
  BY <1>1 DEF EndAfter
<1>3. Len(flight)' = 0 /\ Cuts' = {0} /\ Sequence(flight')
  BY <1>2, Nothing DEF Cuts
<1>4. Keys' = Keys
  BY <1>2 DEF Keys
<1>5. ASSUME NEW key \in Keys PROVE Shown(key, 0)' = Shown(key, n)
  <2>1. Sees(w, <<>>, key, 0) = w[key]
    BY SeesFirst
  <2> QED
    BY <1>1, <1>2, <2>1 DEF Shown, Sees
<1>6. PosAt(0)' = PosAt(0) /\ SnapAt(0)' = SnapAt(0) /\ GoesOn(0)' = GoesOn(0)
  BY <1>2 DEF PosAt, SnapAt, GoesOn, None
<1>7. TakenAt(0)' = TakenAt(n)
  <2>1. TakenAt(0)' = taken'
    BY DEF TakenAt
  <2> QED
    BY <1>2, <2>1
<1>8. DeliveryKept'
  BY <1>1, <1>2, <1>3, <1>4 DEF DeliveryKept, None
<1> QED
  BY <1>3, <1>4, <1>5, <1>6, <1>7, <1>8

-----------------------------------------------------------------------------
(* The redo of Oracle.                                                      *)

IsRow(i, key) == O!Redo[i].op = "row" /\ O!Redo[i].key = key

\* The committed rows of a key once n entries are written, and the last of them.
RowsOf(key, n) == {i \in O!Committed(n) : IsRow(i, key)}

LastOf(key, n) == Max({0} \cup RowsOf(key, n))

LEMMA CommittedIs ==
    ASSUME NEW n \in Nat
    PROVE  /\ O!Committed(n) \subseteq 1 .. n
           /\ \A i \in 1 .. n : i \in O!Committed(n) <=>
                \E c \in i .. n : O!Redo[c].op = "commit" /\ O!Redo[c].txn = O!Redo[i].txn
<1>1. O!Committed(n) \subseteq 1 .. n
  BY DEF O!Committed
<1>2. ASSUME NEW i \in 1 .. n
      PROVE  i \in O!Committed(n) <=> \E c \in i .. n : O!Redo[c].op = "commit" /\ O!Redo[c].txn = O!Redo[i].txn
  <2> DEFINE S == {c \in i .. n : O!Redo[c].op = "commit" /\ O!Redo[c].txn = O!Redo[i].txn}
  <2>1. O!CommitScn(i, n) = IF S = {} THEN 0 ELSE Min(S)
    BY DEF O!CommitScn, O!Min, Min
  <2>2. S # {} => Min(S) # 0
    <3>1. S \subseteq Nat /\ 0 \notin S
      OBVIOUS
    <3> HIDE DEF S
    <3> QED
      BY <3>1, Smallest
  <2>3. i \in O!Committed(n) <=> S # {}
    <3> HIDE DEF S
    <3> QED
      BY <2>1, <2>2 DEF O!Committed
  <2> QED
    BY <2>3
<1> QED
  BY <1>1, <1>2

LEMMA CommittedGrows ==
    ASSUME NEW n \in Nat, NEW m \in Nat, n <= m
    PROVE  O!Committed(n) \subseteq O!Committed(m)
<1> SUFFICES ASSUME NEW i \in O!Committed(n) PROVE i \in O!Committed(m)
  OBVIOUS
<1>1. i \in 1 .. n /\ i \in 1 .. m
  BY CommittedIs
<1>2. PICK c \in i .. n : O!Redo[c].op = "commit" /\ O!Redo[c].txn = O!Redo[i].txn
  BY <1>1, CommittedIs
<1>3. c \in i .. m
  BY <1>1
<1> QED
  BY <1>1, <1>2, <1>3, CommittedIs

LEMMA LastIs ==
    ASSUME NEW key, NEW n \in Nat
    PROVE  /\ LastOf(key, n) \in 0 .. n
           /\ LastOf(key, n) # 0 => LastOf(key, n) \in RowsOf(key, n)
           /\ \A i \in RowsOf(key, n) : i <= LastOf(key, n)
           /\ O!RowAsOf(key, n) = IF LastOf(key, n) = 0 THEN setup.rows[key] ELSE O!Redo[LastOf(key, n)].val
<1> DEFINE R == RowsOf(key, n)
           l == Max({0} \cup R)
<1>1. R \subseteq 1 .. n
  BY CommittedIs DEF RowsOf
<1>2. l \in {0} \cup R /\ \A i \in {0} \cup R : i <= l
  <2>1. {0} \cup R \subseteq Nat /\ \A i \in {0} \cup R : i <= n
    BY <1>1
  <2> HIDE DEF R
  <2> QED
    BY <2>1, Largest
<1>3. R # {} => Max(R) = l /\ l # 0
  <2> SUFFICES ASSUME R # {} PROVE Max(R) = l /\ l # 0
    OBVIOUS
  <2>1. l # 0
    <3>1. PICK i \in R : TRUE
      OBVIOUS
    <3>2. i \in Nat /\ i # 0
      BY <1>1
    <3>3. i <= l
      BY <1>2
    <3> HIDE DEF l
    <3> QED
      BY <3>2, <3>3
  <2>2. l \in R /\ \A i \in R : i <= l
    BY <1>2, <2>1
  <2>3. R \subseteq Nat
    BY <1>1
  <2> HIDE DEF R, l
  <2> QED
    BY <2>1, <2>2, <2>3, LargestIs
<1>4. O!RowAsOf(key, n) = IF R = {} THEN setup.rows[key] ELSE O!Redo[Max(R)].val
  <2>1. {i \in O!Committed(n) : O!Redo[i].op = "row" /\ O!Redo[i].key = key} = R
    BY DEF RowsOf, IsRow
  <2>2. O!Max(R) = Max(R)
    BY DEF O!Max, Max
  <2> HIDE DEF R
  <2> QED
    BY <2>1, <2>2 DEF O!RowAsOf
<1>5. LastOf(key, n) = l
  BY DEF LastOf
<1>6. R = {} => l = 0
  BY <1>2
<1> HIDE DEF R, l
<1>7. /\ l \in 0 .. n /\ (l # 0 => l \in R) /\ \A i \in R : i <= l
  BY <1>1, <1>2
<1> QED
  BY <1>3, <1>4, <1>5, <1>6, <1>7 DEF R

LEMMA LastRowIs ==
    ASSUME NEW key
    PROVE  O!LastRow(key) = LastOf(key, written)
<1>1. {i \in O!Committed(written) : O!Redo[i].op = "row" /\ O!Redo[i].key = key} = RowsOf(key, written)
  BY DEF RowsOf, IsRow
<1> QED
  BY <1>1 DEF O!LastRow, LastOf, O!Max, Max

\* A key reads as before or has been written last by an entry that was not committed
\* before.
LEMMA Newer ==
    ASSUME NEW key, NEW n \in Nat, NEW m \in Nat, n <= m
    PROVE  \/ LastOf(key, m) = LastOf(key, n) /\ O!RowAsOf(key, m) = O!RowAsOf(key, n)
           \/ LastOf(key, m) \in RowsOf(key, m) \ O!Committed(n) /\ LastOf(key, n) < LastOf(key, m)
<1>1. RowsOf(key, n) \subseteq RowsOf(key, m)
  BY CommittedGrows DEF RowsOf
<1>2. LastOf(key, n) <= LastOf(key, m)
  BY <1>1, LastIs
<1>3. CASE LastOf(key, m) = LastOf(key, n)
  BY <1>3, LastIs
<1>4. CASE LastOf(key, m) # LastOf(key, n)
  <2>1. LastOf(key, n) < LastOf(key, m) /\ LastOf(key, m) # 0
    BY <1>2, <1>4, LastIs
  <2>2. LastOf(key, m) \in RowsOf(key, m)
    BY <2>1, LastIs
  <2>3. LastOf(key, m) \notin RowsOf(key, n)
    BY <2>1, LastIs
  <2> QED
    BY <2>1, <2>2, <2>3 DEF RowsOf
<1> QED
  BY <1>3, <1>4

-----------------------------------------------------------------------------
(* The inductive invariant of Oracle and the runtime behind it.             *)

Entries == [op : {"start", "row", "commit"}, txn : Nat, key : Nat, val : Nat]

\* The redo begins with the rows there are; an update's WHERE clause names its key alone.
SoundRedo(s) ==
    /\ s.rows \in Seq(Nat) /\ s.redo \in Seq(Entries) /\ s.where = "key"
    /\ s.batchSize \in Nat /\ s.early \in 0 .. Len(s.redo)

\* A row of the key was uncommitted when the cursor passed it, and the sink does not have it.
Owed(key, n) == \E i \in missed \ TakenAt(n) : IsRow(i, key)

\* The key is out of sight.
Unseen(key) == LastOf(key, written) <= anchor /\ (O!RowAsOf(key, written) = 0 \/ setup.mode = "never")

\* The sink has the row as it is, or is to see a later one from entry t on.
RowKept(key, t, n) ==
    \/ Shown(key, n) = O!RowAsOf(key, written)
    \/ Unseen(key)
    \/ LastOf(key, written) > t
    \/ Owed(key, n)

\* Every entry up to t was committed when the cursor passed it, or is one of those missed.
Gone(t) == \A i \in 1 .. t : i \in O!Committed(written) \/ i \in missed

OracleTypes ==
    /\ setup.connector = "oracle" /\ SoundRedo(setup)
    /\ written \in Nat /\ written <= Len(setup.redo) /\ cursor \in 0 .. written /\ anchor \in 0 .. written
    /\ TakenAt(Len(flight)) \subseteq O!Committed(written)

\* From whatever checkpoint a start finds, it sends what the sink has not seen.
OracleRestarts ==
    \A n \in Cuts : \A m \in 0 .. n : GoesOn(m) =>
        /\ PosAt(m).at[1] \in 0 .. written /\ Gone(PosAt(m).at[1])
        /\ \A key \in Keys : RowKept(key, PosAt(m).at[1], n)

\* The connector reads on from its cursor.
OracleReads ==
    phase \in {"snapshot", "streaming"} =>
        /\ Gone(cursor)
        /\ \A n \in Cuts : GoesOn(n) => PosAt(n).at[1] <= cursor
        /\ \A key \in Keys \ todo : RowKept(key, cursor, Len(flight))

OracleSnapshot ==
    phase = "snapshot" =>
        /\ ~SnapAt(Len(flight)) /\ setup.mode # "never" /\ cursor = anchor /\ batch = {}
        /\ \A i \in 1 .. anchor : i \in O!Committed(anchor) \/ i \in missed \ TakenAt(Len(flight))

OracleStreams ==
    phase = "streaming" =>
        /\ setup.mode = "never" \/ SnapAt(Len(flight))
        /\ todo = {} /\ batch \subseteq O!Committed(written)
        /\ \A i \in batch : i > cursor /\ \A j \in cursor + 1 .. i :
                j \in batch \/ j \in missed \ TakenAt(Len(flight))

OracleKept ==
    DeliveryKept /\ OracleTypes /\ OracleRestarts /\ OracleReads /\ OracleSnapshot /\ OracleStreams

-----------------------------------------------------------------------------
(* The steps of Oracle.                                                     *)

LEMMA OracleWords ==
    /\ O!None = None /\ O!Keys = Keys /\ O!NoKey = 0
    /\ \A pos, key, val, id :
        LET r == O!Item(pos, key, val, id)
        IN  r.pos = pos /\ r.key = key /\ r.val = val /\ r.id = id /\ r.snapshotEnd = FALSE
    /\ \A pos, flush :
        LET r == O!Mark(pos, flush)
        IN  r.pos = pos /\ r.key = 0 /\ r.id = 0 /\ r.snapshotEnd = FALSE
    /\ \A pos :
        LET r == O!SnapshotMark(pos)
        IN  r.pos = pos /\ r.key = 0 /\ r.id = 0 /\ r.snapshotEnd = TRUE
  BY DEF O!None, None, O!Keys, Keys, O!NoKey, O!Position, Position, O!Item, O!Mark, O!SnapshotMark

LEMMA OraclePosition ==
    ASSUME NEW a, NEW b, NEW c, NEW x, NEW y
    PROVE  /\ O!Position(<<a, b, c>>, <<x, y>>) # None
           /\ O!Position(<<a, b, c>>, <<x, y>>).at[1] = x
<1>1. <<a, b, c>> # <<>> /\ <<x, y>>[1] = x
  OBVIOUS
<1>2. O!Position(<<a, b, c>>, <<x, y>>).sort = <<a, b, c>> /\ O!Position(<<a, b, c>>, <<x, y>>).at = <<x, y>>
  BY DEF O!Position
<1>3. None.sort = <<>>
  BY DEF None, Position
<1> QED
  BY <1>1, <1>2, <1>3

LEMMA RedoStays ==
    ASSUME setup' = setup
    PROVE  /\ Keys' = Keys
           /\ \A n : O!Committed(n)' = O!Committed(n)
           /\ \A key : /\ \A i : IsRow(i, key)' = IsRow(i, key)
                       /\ \A n : O!RowAsOf(key, n)' = O!RowAsOf(key, n)
                       /\ \A n : LastOf(key, n)' = LastOf(key, n)
  BY DEF Keys, O!Committed, O!CommitScn, O!Redo, IsRow, O!RowAsOf, LastOf, RowsOf

LEMMA UnseenIs ==
    ASSUME NEW key
    PROVE  O!OutOfSight(key) <=> Unseen(key)
  BY LastRowIs DEF O!OutOfSight, Unseen

\* The database is as before, more may have been missed, and the anchor may be later.
LEMMA OracleSame ==
    ASSUME UNCHANGED <<setup, written>>, missed \subseteq missed', written \in Nat,
           \A l \in Nat : l <= anchor => l <= anchor'
    PROVE  /\ \A t : Gone(t) => Gone(t)'
           /\ \A key, t, n, m :
                Shown(key, m)' = Shown(key, n) /\ TakenAt(m)' = TakenAt(n) /\ RowKept(key, t, n) => RowKept(key, t, m)'
<1>1. \A t : Gone(t) => Gone(t)'
  BY RedoStays DEF Gone
<1>2. ASSUME NEW key, NEW t, NEW n, NEW m,
             Shown(key, m)' = Shown(key, n), TakenAt(m)' = TakenAt(n), RowKept(key, t, n)
      PROVE  RowKept(key, t, m)'
  <2>1. /\ O!RowAsOf(key, written)' = O!RowAsOf(key, written)
        /\ LastOf(key, written)' = LastOf(key, written)
        /\ \A i : IsRow(i, key)' = IsRow(i, key)
    BY RedoStays
  <2>2. LastOf(key, written) \in Nat
    BY LastIs
  <2>3. Unseen(key) => Unseen(key)'
    BY <2>1, <2>2 DEF Unseen
  <2>4. Owed(key, n) => Owed(key, m)'
    BY <1>2, <2>1 DEF Owed
  <2> QED
    BY <1>2, <2>1, <2>3, <2>4 DEF RowKept
<1> QED
  BY <1>1, <1>2

LEMMA SnapLater ==
    ASSUME NEW n \in Cuts, NEW m \in 0 .. n
    PROVE  SnapAt(m) => SnapAt(n)
  BY DEF SnapAt, Cuts

LEMMA OracleFlush ==
    ASSUME OracleKept, Flush, UNCHANGED <<written, cursor, anchor, todo, batch, missed>>
    PROVE  OracleKept'
<1> USE DEF OracleKept
<1>1. PICK n \in 1 .. Len(flight) : FlushOf(n)
  BY FlushIs
<1>2. UNCHANGED <<setup, phase, written, cursor, anchor, todo, batch, missed>>
  BY <1>1 DEF FlushOf
<1>3. /\ Keys' = Keys /\ DeliveryKept' /\ Len(flight)' = Len(flight) - n
      /\ \A m \in Cuts' :
            /\ n + m \in Cuts
            /\ PosAt(m)' = PosAt(n + m) /\ SnapAt(m)' = SnapAt(n + m) /\ GoesOn(m)' = GoesOn(n + m)
            /\ TakenAt(m)' = TakenAt(n + m) /\ \A key \in Keys : Shown(key, m)' = Shown(key, n + m)
      /\ SnapAt(Len(flight))' = SnapAt(Len(flight)) /\ TakenAt(Len(flight))' = TakenAt(Len(flight))
      /\ \A key \in Keys : Shown(key, Len(flight))' = Shown(key, Len(flight))
  BY <1>1, FlushFacts
<1>4. /\ \A t : Gone(t) => Gone(t)'
      /\ \A t : O!Committed(t)' = O!Committed(t)
      /\ \A key, t, k, m :
            Shown(key, m)' = Shown(key, k) /\ TakenAt(m)' = TakenAt(k) /\ RowKept(key, t, k) => RowKept(key, t, m)'
  BY <1>2, OracleSame, RedoStays DEF OracleTypes
<1>5. OracleTypes'
  BY <1>2, <1>3, <1>4 DEF OracleTypes
<1>6. OracleRestarts'
  <2> SUFFICES ASSUME NEW k \in Cuts', NEW m \in 0 .. k, GoesOn(m)'
               PROVE  /\ (PosAt(m).at[1] \in 0 .. written /\ Gone(PosAt(m).at[1]))'
                      /\ \A key \in Keys : RowKept(key, PosAt(m).at[1], k)'
    BY <1>3 DEF OracleRestarts
  <2>1. k \in Nat /\ m \in Cuts' /\ n \in Nat /\ m \in Nat
    BY <1>1 DEF Cuts, DeliveryKept, Sequence
  <2>2. n + k \in Cuts /\ n + m \in 0 .. n + k /\ GoesOn(n + m) /\ PosAt(m)' = PosAt(n + m)
    BY <1>3, <2>1
  <2>3. PICK t : t = PosAt(n + m).at[1]
    OBVIOUS
  <2>4. t \in 0 .. written /\ Gone(t) /\ \A key \in Keys : RowKept(key, t, n + k)
    BY <2>2, <2>3 DEF OracleRestarts
  <2>5. \A key \in Keys : RowKept(key, t, k)'
    BY <1>3, <1>4, <2>4
  <2> QED
    BY <1>2, <1>4, <2>2, <2>3, <2>4, <2>5
<1>7. OracleReads'
  <2> SUFFICES ASSUME phase \in {"snapshot", "streaming"}
               PROVE  /\ Gone(cursor)' /\ \A m \in Cuts' : GoesOn(m)' => PosAt(m)'.at[1] <= cursor
                      /\ \A key \in Keys \ todo : RowKept(key, cursor, Len(flight))'
    BY <1>2, <1>3 DEF OracleReads
  <2>1. Gone(cursor)'
    BY <1>2, <1>4 DEF OracleReads
  <2>2. \A m \in Cuts' : GoesOn(m)' => PosAt(m)'.at[1] <= cursor
    BY <1>3 DEF OracleReads
  <2>3. \A key \in Keys \ todo : RowKept(key, cursor, Len(flight))'
    <3>1. PICK c, a, b : c = cursor /\ a = Len(flight) /\ b = Len(flight)'
      OBVIOUS
    <3>2. ASSUME NEW key \in Keys \ todo PROVE RowKept(key, c, b)'
      <4>1. RowKept(key, c, a) /\ Shown(key, b)' = Shown(key, a) /\ TakenAt(b)' = TakenAt(a)
        BY <1>3, <3>1 DEF OracleReads
      <4> QED
        BY <1>4, <4>1
    <3> QED
      BY <1>2, <3>1, <3>2
  <2> QED
    BY <2>1, <2>2, <2>3
<1>8. OracleSnapshot'
  BY <1>2, <1>3, <1>4 DEF OracleSnapshot
<1>9. OracleStreams'
  BY <1>2, <1>3, <1>4 DEF OracleStreams
<1> QED
  BY <1>3, <1>5, <1>6, <1>7, <1>8, <1>9

LEMMA OracleEnds ==
    ASSUME OracleKept, Backwards \/ Restart \/ Crash,
           UNCHANGED <<written, cursor, anchor, todo, batch, missed>>
    PROVE  OracleKept'
<1> USE DEF OracleKept
<1>1. PICK n \in Cuts : EndAfter(n)
  BY EndIs
<1>2. UNCHANGED <<setup, written, cursor, anchor, todo, batch, missed>> /\ phase' = "down"
  BY <1>1 DEF EndAfter
<1>3. /\ Keys' = Keys /\ DeliveryKept' /\ Cuts' = {0} /\ Len(flight)' = 0
      /\ PosAt(0)' = PosAt(0) /\ SnapAt(0)' = SnapAt(0) /\ GoesOn(0)' = GoesOn(0)
      /\ TakenAt(0)' = TakenAt(n) /\ \A key \in Keys : Shown(key, 0)' = Shown(key, n)
  BY <1>1, EndFacts
<1>4. /\ \A t : Gone(t) => Gone(t)'
      /\ \A t : O!Committed(t)' = O!Committed(t)
      /\ \A key, t, k, m :
            Shown(key, m)' = Shown(key, k) /\ TakenAt(m)' = TakenAt(k) /\ RowKept(key, t, k) => RowKept(key, t, m)'
  BY <1>2, OracleSame, RedoStays DEF OracleTypes
<1>5. OracleTypes'
  <2>1. TakenAt(n) \subseteq TakenAt(Len(flight))
    BY DEF TakenAt, Cuts
  <2> QED
    BY <1>2, <1>3, <1>4, <2>1 DEF OracleTypes
<1>6. OracleRestarts'
  <2> SUFFICES ASSUME GoesOn(0)
               PROVE  /\ (PosAt(0).at[1] \in 0 .. written /\ Gone(PosAt(0).at[1]))'
                      /\ \A key \in Keys : RowKept(key, PosAt(0).at[1], 0)'
    BY <1>3 DEF OracleRestarts
  <2>1. 0 \in 0 .. n /\ n \in Cuts
    BY DEF Cuts, DeliveryKept, Sequence
  <2>2. PICK t : t = PosAt(0).at[1]
    OBVIOUS
  <2>3. t \in 0 .. written /\ Gone(t) /\ \A key \in Keys : RowKept(key, t, n)
    BY <2>1, <2>2 DEF OracleRestarts
  <2>4. \A key \in Keys : RowKept(key, t, 0)'
    BY <1>3, <1>4, <2>3
  <2> QED
    BY <1>2, <1>3, <1>4, <2>2, <2>3, <2>4
<1> QED
  BY <1>2, <1>3, <1>5, <1>6 DEF OracleReads, OracleSnapshot, OracleStreams

LEMMA OracleWrites ==
    ASSUME OracleKept, O!Write
    PROVE  OracleKept'
<1> USE DEF OracleKept
<1>1. PICK W : W = written'
  OBVIOUS
<1>2. /\ W = written + 1 /\ written \in Nat /\ W \in Nat
      /\ UNCHANGED <<setup, phase, flight, view, taken, ckpt, cursor, anchor, todo, batch, missed>>
  BY <1>1 DEF O!Write, O!runtime, OracleTypes
<1>3. /\ Keys' = Keys /\ Cuts' = Cuts /\ Len(flight)' = Len(flight)
      /\ \A n : /\ PosAt(n)' = PosAt(n) /\ SnapAt(n)' = SnapAt(n) /\ GoesOn(n)' = GoesOn(n)
                /\ TakenAt(n)' = TakenAt(n) /\ \A key : Shown(key, n)' = Shown(key, n)
  BY <1>2, StayFacts
<1>4. \A n : O!Committed(n)' = O!Committed(n)
  BY <1>2, RedoStays
<1>5. O!Committed(written) \subseteq O!Committed(W)
  BY <1>2, CommittedGrows
<1>6. \A t : Gone(t) => Gone(t)'
  BY <1>1, <1>2, <1>4, <1>5 DEF Gone
<1>7. ASSUME NEW key \in Keys, NEW t \in Nat, NEW n \in Cuts, Gone(t), RowKept(key, t, n)
      PROVE  RowKept(key, t, n)'
  <2>1. /\ O!RowAsOf(key, written)' = O!RowAsOf(key, W)
        /\ LastOf(key, written)' = LastOf(key, W)
        /\ \A i : IsRow(i, key)' = IsRow(i, key)
    BY <1>1, <1>2, RedoStays
  <2>2. CASE LastOf(key, W) = LastOf(key, written) /\ O!RowAsOf(key, W) = O!RowAsOf(key, written)
    <3>1. Unseen(key) => Unseen(key)'
      BY <1>2, <2>1, <2>2 DEF Unseen
    <3>2. Owed(key, n) => Owed(key, n)'
      BY <1>2, <1>3, <2>1 DEF Owed
    <3> QED
      BY <1>3, <1>7, <2>1, <2>2, <3>1, <3>2 DEF RowKept
  <2>3. CASE LastOf(key, W) \in RowsOf(key, W) \ O!Committed(written)
    <3>1. LastOf(key, W) \in Nat /\ LastOf(key, W) # 0 /\ IsRow(LastOf(key, W), key)
      BY <1>2, <2>3, CommittedIs DEF RowsOf
    <3>2. CASE LastOf(key, W) > t
      BY <2>1, <3>2 DEF RowKept
    <3>3. CASE ~(LastOf(key, W) > t)
      <4>1. LastOf(key, W) \in missed
        BY <1>7, <2>3, <3>1, <3>3 DEF Gone
      <4>2. LastOf(key, W) \notin TakenAt(n)
        <5>1. TakenAt(n) \subseteq TakenAt(Len(flight))
          BY DEF TakenAt, Cuts
        <5> QED
          BY <2>3, <5>1 DEF OracleTypes
      <4>3. Owed(key, n)'
        BY <1>2, <1>3, <2>1, <3>1, <4>1, <4>2 DEF Owed
      <4> QED
        BY <4>3 DEF RowKept
    <3> QED
      BY <3>2, <3>3
  <2> QED
    BY <1>2, <2>2, <2>3, Newer
<1>8. DeliveryKept'
  BY <1>2, <1>3 DEF DeliveryKept, None
<1>9. OracleTypes'
  <2>1. TakenAt(Len(flight))' = TakenAt(Len(flight))
    BY <1>3
  <2>2. W <= Len(setup.redo) /\ SoundRedo(setup)'
    <3>1. Len(setup.redo) \in Nat /\ written < Len(setup.redo)
      BY DEF O!Write, O!Redo, OracleTypes, SoundRedo
    <3>2. SoundRedo(setup)' <=> SoundRedo(setup)
      BY <1>2 DEF SoundRedo
    <3> QED
      BY <1>2, <3>1, <3>2 DEF OracleTypes
  <2> QED
    BY <1>1, <1>2, <1>4, <1>5, <2>1, <2>2 DEF OracleTypes
<1>10. OracleRestarts'
  <2> SUFFICES ASSUME NEW n \in Cuts, NEW m \in 0 .. n, GoesOn(m)
               PROVE  /\ (PosAt(m).at[1] \in 0 .. written /\ Gone(PosAt(m).at[1]))'
                      /\ \A key \in Keys : RowKept(key, PosAt(m).at[1], n)'
    BY <1>3 DEF OracleRestarts
  <2>1. PICK t : t = PosAt(m).at[1]
    OBVIOUS
  <2>2. t \in 0 .. written /\ Gone(t) /\ \A key \in Keys : RowKept(key, t, n)
    BY <2>1 DEF OracleRestarts
  <2>3. t \in 0 .. W /\ t \in Nat /\ \A key \in Keys : RowKept(key, t, n)'
    BY <1>2, <1>7, <2>2
  <2> QED
    BY <1>1, <1>3, <1>6, <2>1, <2>2, <2>3
<1>11. OracleReads'
  <2> SUFFICES ASSUME phase \in {"snapshot", "streaming"}
               PROVE  /\ Gone(cursor)' /\ \A n \in Cuts : GoesOn(n) => PosAt(n).at[1] <= cursor
                      /\ \A key \in Keys \ todo : RowKept(key, cursor, Len(flight))'
    BY <1>2, <1>3 DEF OracleReads
  <2>1. Gone(cursor)' /\ cursor \in Nat
    BY <1>2, <1>6 DEF OracleReads, OracleTypes
  <2>2. PICK c, a : c = cursor /\ a = Len(flight)
    OBVIOUS
  <2>3. a \in Cuts /\ c \in Nat /\ Gone(c) /\ \A key \in Keys \ todo : RowKept(key, c, a)
    BY <2>1, <2>2 DEF OracleReads, Cuts, DeliveryKept, Sequence
  <2>4. \A key \in Keys \ todo : RowKept(key, c, a)'
    BY <1>7, <2>3
  <2> QED
    BY <1>2, <2>1, <2>2, <2>4 DEF OracleReads
<1>12. OracleSnapshot'
  BY <1>2, <1>3, <1>4 DEF OracleSnapshot
<1>13. OracleStreams'
  <2>1. O!Committed(written)' = O!Committed(W)
    BY <1>1, <1>4
  <2> QED
    BY <1>2, <1>3, <1>5, <2>1 DEF OracleStreams
<1> QED
  BY <1>8, <1>9, <1>10, <1>11, <1>12, <1>13

LEMMA OracleFails ==
    ASSUME OracleKept, O!QueryFails
    PROVE  OracleKept'
<1> USE DEF OracleKept
<1>1. UNCHANGED <<setup, flight, view, taken, ckpt, written, cursor, anchor, todo, batch, missed>> /\ phase' = "failed"
  BY DEF O!QueryFails, O!runtime, O!oracle
<1>2. /\ Keys' = Keys /\ Cuts' = Cuts /\ Len(flight)' = Len(flight)
      /\ \A n : /\ PosAt(n)' = PosAt(n) /\ SnapAt(n)' = SnapAt(n) /\ GoesOn(n)' = GoesOn(n)
                /\ TakenAt(n)' = TakenAt(n) /\ \A key : Shown(key, n)' = Shown(key, n)
  BY <1>1, StayFacts
<1>3. /\ \A t : Gone(t) => Gone(t)'
      /\ \A n : O!Committed(n)' = O!Committed(n)
      /\ \A key, t, n : RowKept(key, t, n) => RowKept(key, t, n)'
  BY <1>1, <1>2, OracleSame, RedoStays DEF OracleTypes
<1>4. DeliveryKept' /\ OracleTypes'
  BY <1>1, <1>2, <1>3 DEF DeliveryKept, OracleTypes, None
<1>5. OracleRestarts'
  <2> SUFFICES ASSUME NEW n \in Cuts, NEW m \in 0 .. n, GoesOn(m)
               PROVE  /\ (PosAt(m).at[1] \in 0 .. written /\ Gone(PosAt(m).at[1]))'
                      /\ \A key \in Keys : RowKept(key, PosAt(m).at[1], n)'
    BY <1>2 DEF OracleRestarts
  <2>1. PICK t : t = PosAt(m).at[1]
    OBVIOUS
  <2>2. t \in 0 .. written /\ Gone(t) /\ \A key \in Keys : RowKept(key, t, n)
    BY <2>1 DEF OracleRestarts
  <2> QED
    BY <1>1, <1>2, <1>3, <2>1, <2>2
<1> QED
  BY <1>1, <1>4, <1>5 DEF OracleReads, OracleSnapshot, OracleStreams

LEMMA OracleStarts ==
    ASSUME OracleKept, O!Start
    PROVE  OracleKept'
<1> USE DEF OracleKept
<1> DEFINE fresh == ckpt.pos = None
           snapshot == setup.mode # "never" /\ ~ckpt.snap
<1>1. /\ phase = "down" /\ phase' = IF snapshot THEN "snapshot" ELSE "streaming"
      /\ cursor' = IF fresh \/ snapshot THEN written ELSE ckpt.pos.at[1]
      /\ anchor' = IF snapshot \/ fresh THEN written ELSE anchor
      /\ todo' = IF snapshot THEN {key \in Keys : O!RowAsOf(key, written) # 0} ELSE {}
      /\ missed' = IF snapshot \/ fresh THEN missed \cup (1 .. written \ O!Committed(written)) ELSE missed
      /\ batch' = {} /\ UNCHANGED <<setup, flight, view, taken, ckpt, written>>
  BY OracleWords DEF O!Start, O!runtime
<1>2. /\ Keys' = Keys /\ Cuts' = Cuts /\ Len(flight)' = Len(flight)
      /\ \A n : /\ PosAt(n)' = PosAt(n) /\ SnapAt(n)' = SnapAt(n) /\ GoesOn(n)' = GoesOn(n)
                /\ TakenAt(n)' = TakenAt(n) /\ \A key : Shown(key, n)' = Shown(key, n)
  BY <1>1, StayFacts
<1>3. /\ written \in Nat /\ anchor \in 0 .. written /\ anchor' \in 0 .. written
      /\ missed \subseteq missed' /\ \A l \in Nat : l <= anchor => l <= anchor'
  BY <1>1 DEF OracleTypes
<1>4. /\ \A t : Gone(t) => Gone(t)'
      /\ \A n : O!Committed(n)' = O!Committed(n)
      /\ \A key, t, n : RowKept(key, t, n) => RowKept(key, t, n)'
  BY <1>1, <1>2, <1>3, OracleSame, RedoStays
<1>5. flight = <<>> /\ Len(flight) = 0 /\ Cuts = {0}
  BY <1>1, Nothing DEF DeliveryKept, Cuts
<1>6. ASSUME GoesOn(0)
      PROVE  /\ ~fresh /\ ~snapshot /\ ckpt.pos.at[1] \in 0 .. written /\ Gone(ckpt.pos.at[1])
             /\ \A key \in Keys : RowKept(key, ckpt.pos.at[1], 0)
  <2>1. PosAt(0) = ckpt.pos /\ (SnapAt(0) <=> ckpt.snap)
    BY DEF PosAt, SnapAt
  <2>2. 0 \in Cuts /\ 0 \in 0 .. 0
    BY <1>5
  <2> QED
    BY <1>6, <2>1, <2>2 DEF GoesOn, OracleRestarts
<1>7. ~fresh /\ ~snapshot => GoesOn(0)
  BY DEF GoesOn, PosAt, SnapAt
<1>8. fresh => ~ckpt.snap
  BY DEF DeliveryKept
<1>9. DeliveryKept'
  BY <1>1, <1>2, <1>5 DEF DeliveryKept, None
<1>10. OracleTypes'
  <2>1. cursor' \in 0 .. written
    BY <1>1, <1>3, <1>6, <1>7
  <2> QED
    BY <1>1, <1>2, <1>3, <1>4, <2>1 DEF OracleTypes
<1>11. OracleRestarts'
  <2> SUFFICES ASSUME GoesOn(0)
               PROVE  /\ (PosAt(0).at[1] \in 0 .. written /\ Gone(PosAt(0).at[1]))'
                      /\ \A key \in Keys : RowKept(key, PosAt(0).at[1], 0)'
    BY <1>2, <1>5 DEF OracleRestarts
  <2>1. PICK t : t = PosAt(0).at[1]
    OBVIOUS
  <2>2. t \in 0 .. written /\ Gone(t) /\ \A key \in Keys : RowKept(key, t, 0)
    BY <1>5, <2>1 DEF OracleRestarts
  <2> QED
    BY <1>1, <1>2, <1>4, <2>1, <2>2
<1>12. OracleReads'
  <2>1. Gone(cursor)' /\ (GoesOn(0) => ckpt.pos.at[1] <= cursor')
    <3>1. CASE fresh \/ snapshot
      <4>1. \A i \in 1 .. written : i \in O!Committed(written) \/ i \in missed'
        BY <1>1, <3>1
      <4>2. O!Committed(written)' = O!Committed(written)
        BY <1>1, <1>4
      <4>3. Gone(cursor)'
        BY <1>1, <3>1, <4>1, <4>2 DEF Gone
      <4> QED
        BY <3>1, <4>3, <1>6
    <3>2. CASE ~fresh /\ ~snapshot
      <4>1. Gone(ckpt.pos.at[1])' /\ cursor' = ckpt.pos.at[1] /\ cursor' \in Nat
        BY <1>1, <1>3, <1>4, <1>6, <1>7, <3>2
      <4>2. ckpt' = ckpt
        BY <1>1
      <4> QED
        BY <4>1, <4>2 DEF Gone
    <3> QED
      BY <3>1, <3>2
  <2>2. ASSUME NEW key \in Keys, key \notin todo' PROVE RowKept(key, cursor, 0)'
    <3>1. LastOf(key, written)' = LastOf(key, written) /\ LastOf(key, written) \in 0 .. written
          /\ O!RowAsOf(key, written)' = O!RowAsOf(key, written)
      BY <1>1, <1>3, RedoStays, LastIs
    <3>2. CASE snapshot
      <4>1. O!RowAsOf(key, written) = 0 /\ anchor' = written
        BY <1>1, <2>2, <3>2
      <4> QED
        BY <1>1, <1>3, <3>1, <4>1 DEF RowKept, Unseen
    <3>3. CASE ~snapshot /\ fresh
      <4>1. setup.mode = "never" /\ anchor' = written
        BY <1>1, <1>8, <3>3
      <4> QED
        BY <1>1, <1>3, <3>1, <4>1 DEF RowKept, Unseen
    <3>4. CASE ~snapshot /\ ~fresh
      <4>1. PICK t : t = ckpt.pos.at[1]
        OBVIOUS
      <4>2. RowKept(key, t, 0)' /\ cursor' = t
        BY <1>1, <1>4, <1>6, <1>7, <3>4, <4>1
      <4> QED
        BY <4>2 DEF RowKept
    <3> QED
      BY <3>2, <3>3, <3>4
  <2>3. PosAt(0)' = ckpt.pos
    BY <1>1 DEF PosAt
  <2>4. Len(flight)' = 0 /\ Cuts' = {0} /\ Keys' = Keys /\ GoesOn(0)' = GoesOn(0)
    BY <1>2, <1>5
  <2>5. \A key \in Keys \ todo' : RowKept(key, cursor, Len(flight))'
    BY <2>2, <2>4
  <2> QED
    BY <2>1, <2>3, <2>4, <2>5 DEF OracleReads
<1>13. OracleSnapshot'
  <2> SUFFICES ASSUME snapshot
               PROVE  /\ ~SnapAt(0) /\ setup.mode # "never" /\ cursor' = anchor' /\ batch' = {}
                      /\ \A i \in 1 .. anchor' : i \in O!Committed(anchor') \/ i \in missed' \ TakenAt(0)
    <3>1. ~snapshot => phase' # "snapshot"
      BY <1>1
    <3>2. Len(flight)' = 0 /\ SnapAt(0)' = SnapAt(0) /\ TakenAt(0)' = TakenAt(0) /\ O!Committed(anchor)' = O!Committed(anchor')
          /\ setup' = setup
      BY <1>1, <1>2, <1>4, <1>5
    <3> QED
      BY <3>1, <3>2 DEF OracleSnapshot
  <2>1. TakenAt(0) \subseteq O!Committed(written)
    BY <1>5 DEF OracleTypes
  <2> QED
    BY <1>1, <2>1 DEF SnapAt
<1>14. OracleStreams'
  <2> SUFFICES ASSUME ~snapshot
               PROVE  (setup.mode = "never" \/ SnapAt(0)) /\ todo' = {} /\ batch' = {}
    <3>1. snapshot => phase' # "streaming"
      BY <1>1
    <3>2. Len(flight)' = 0 /\ SnapAt(0)' = SnapAt(0) /\ setup' = setup
      BY <1>1, <1>2, <1>5
    <3> QED
      BY <3>1, <3>2 DEF OracleStreams
  <2> QED
    BY <1>1 DEF SnapAt
<1> QED
  BY <1>9, <1>10, <1>11, <1>12, <1>13, <1>14

LEMMA OraclePolls ==
    ASSUME OracleKept, O!Poll
    PROVE  OracleKept'
<1> USE DEF OracleKept
<1>1. /\ phase = "streaming" /\ batch = {} /\ batch' = O!Fetched
      /\ missed' = missed \cup {i \in 1 .. written \ O!Committed(written) : \E row \in O!Fetched : i < row}
      /\ UNCHANGED <<setup, phase, flight, view, taken, ckpt, written, cursor, anchor, todo>>
  BY DEF O!Poll, O!runtime
<1>2. /\ Keys' = Keys /\ Cuts' = Cuts /\ Len(flight)' = Len(flight)
      /\ \A n : /\ PosAt(n)' = PosAt(n) /\ SnapAt(n)' = SnapAt(n) /\ GoesOn(n)' = GoesOn(n)
                /\ TakenAt(n)' = TakenAt(n) /\ \A key : Shown(key, n)' = Shown(key, n)
  BY <1>1, StayFacts
<1>3. /\ \A t : Gone(t) => Gone(t)'
      /\ \A n : O!Committed(n)' = O!Committed(n)
      /\ \A key, t, n : RowKept(key, t, n) => RowKept(key, t, n)'
  BY <1>1, <1>2, OracleSame, RedoStays DEF OracleTypes
<1>4. DeliveryKept' /\ OracleTypes'
  BY <1>1, <1>2, <1>3 DEF DeliveryKept, OracleTypes, None
<1>5. OracleRestarts'
  <2> SUFFICES ASSUME NEW n \in Cuts, NEW m \in 0 .. n, GoesOn(m)
               PROVE  /\ (PosAt(m).at[1] \in 0 .. written /\ Gone(PosAt(m).at[1]))'
                      /\ \A key \in Keys : RowKept(key, PosAt(m).at[1], n)'
    BY <1>2 DEF OracleRestarts
  <2>1. PICK t : t = PosAt(m).at[1]
    OBVIOUS
  <2>2. t \in 0 .. written /\ Gone(t) /\ \A key \in Keys : RowKept(key, t, n)
    BY <2>1 DEF OracleRestarts
  <2> QED
    BY <1>1, <1>2, <1>3, <2>1, <2>2
<1>6. OracleReads'
  <2>1. PICK c, a : c = cursor /\ a = Len(flight)
    OBVIOUS
  <2>2. Gone(c)' /\ (\A key \in Keys \ todo : RowKept(key, c, a)') /\ \A n \in Cuts : GoesOn(n) => PosAt(n).at[1] <= c
    BY <1>1, <1>3, <2>1 DEF OracleReads
  <2> QED
    BY <1>1, <1>2, <2>1, <2>2 DEF OracleReads
<1>7. ASSUME NEW i \in O!Fetched
      PROVE  /\ i \in O!Committed(written) /\ i > cursor
             /\ \A j \in cursor + 1 .. i : j \in O!Fetched \/ j \in missed' \ TakenAt(Len(flight))
  <2> DEFINE U(k) == {j \in O!Beyond : j <= k}
  <2>1. i \in O!Beyond /\ O!Cardinality(U(i)) <= setup.batchSize
    BY DEF O!Fetched
  <2>2. O!Beyond \subseteq 1 .. written /\ \A j \in O!Beyond : j \in O!Committed(written) /\ j > cursor
    BY CommittedIs DEF O!Beyond, OracleTypes
  <2>3. cursor \in Nat /\ written \in Nat /\ setup.batchSize \in Nat
    BY DEF OracleTypes, SoundRedo
  <2>4. ASSUME NEW j \in cursor + 1 .. i, j \in O!Committed(written) PROVE j \in O!Fetched
    <3>1. j \in O!Beyond /\ j <= i
      BY <2>2, <2>3, <2>4 DEF O!Beyond
    <3>2. U(j) \subseteq U(i) /\ IsFiniteSet(U(i))
      <4>1. IsFiniteSet(1 .. written)
        BY <2>3, FS_Interval
      <4>2. IsFiniteSet(U(i))
        BY <2>2, <4>1, FS_Subset
      <4>3. \A k \in O!Beyond : k <= j => k <= i
        BY <2>1, <2>2, <3>1
      <4> QED
        BY <4>2, <4>3
    <3>3. Cardinality(U(j)) <= Cardinality(U(i)) /\ Cardinality(U(j)) \in Nat /\ Cardinality(U(i)) \in Nat
      <4> HIDE DEF U
      <4> QED
        BY <3>2, FS_Subset, FS_CardinalityType
    <3>4. \A S : O!Cardinality(S) = Cardinality(S)
      BY DEF O!Cardinality, Cardinality
    <3>5. Cardinality(U(j)) <= setup.batchSize
      <4> HIDE DEF U
      <4> QED
        BY <2>1, <2>3, <3>3, <3>4
    <3> QED
      BY <3>1, <3>4, <3>5 DEF O!Fetched
  <2>5. ASSUME NEW j \in cursor + 1 .. i, j \notin O!Committed(written) PROVE j \in missed' \ TakenAt(Len(flight))
    <3>1. j \in 1 .. written /\ j < i
      <4>1. j # i
        BY <2>1, <2>2, <2>5
      <4> QED
        BY <2>1, <2>2, <2>3, <4>1
    <3>2. j \in missed'
      BY <1>1, <2>5, <3>1
    <3> QED
      BY <2>5, <3>2 DEF OracleTypes
  <2> QED
    BY <2>1, <2>2, <2>4, <2>5
<1>8. OracleSnapshot' /\ OracleStreams'
  <2>1. phase' = "streaming" /\ (setup.mode = "never" \/ SnapAt(Len(flight))) /\ todo' = {} /\ setup' = setup
    BY <1>1 DEF OracleStreams
  <2>2. SnapAt(Len(flight))' = SnapAt(Len(flight)) /\ TakenAt(Len(flight))' = TakenAt(Len(flight))
        /\ O!Committed(written)' = O!Committed(written)
    BY <1>1, <1>2, <1>3
  <2> QED
    BY <1>1, <1>7, <2>1, <2>2 DEF OracleSnapshot, OracleStreams
<1> QED
  BY <1>4, <1>5, <1>6, <1>8

\* A record r is sent while the connector reads.
OracleSend(r) ==
    /\ flight' = Append(flight, r) /\ phase \in {"snapshot", "streaming"}
    /\ UNCHANGED <<setup, view, taken, ckpt, written, anchor, missed>>
    /\ r.pos # None /\ (r.id = 0 \/ r.id \in O!Committed(written))

LEMMA OracleSendFacts ==
    ASSUME OracleKept, NEW L, L = Len(flight), NEW r, OracleSend(r)
    PROVE  /\ Keys' = Keys /\ L \in Nat /\ Sequence(flight)' /\ Len(flight)' = L + 1
           /\ \A n \in 1 .. L : flight'[n] = flight[n]
           /\ flight'[L + 1] = r
           /\ \A n \in Cuts : /\ PosAt(n)' = PosAt(n) /\ SnapAt(n)' = SnapAt(n) /\ GoesOn(n)' = GoesOn(n)
                              /\ TakenAt(n)' = TakenAt(n) /\ \A key : Shown(key, n)' = Shown(key, n)
           /\ PosAt(L + 1)' = r.pos
           /\ SnapAt(L + 1)' = (SnapAt(L) \/ r.snapshotEnd)
           /\ TakenAt(L + 1)' = TakenAt(L) \cup ({r.id} \ {0})
           /\ \A key : Shown(key, L + 1)' = IF r.key = key THEN r.val ELSE Shown(key, L)
<1>1. flight' = Append(flight, r) /\ UNCHANGED <<setup, view, ckpt, taken>> /\ Sequence(flight)
  BY DEF OracleSend, OracleKept, DeliveryKept
<1> QED
  BY <1>1, SendFacts

LEMMA OracleSent ==
    ASSUME OracleKept, NEW L, L = Len(flight), NEW r, OracleSend(r),
           phase' \in {"snapshot", "streaming"}, cursor' \in 0 .. written,
           \A m \in Cuts : GoesOn(m) => \A key \in Keys, t \in Nat : t = PosAt(m).at[1] => RowKept(key, t, L + 1)',
           GoesOn(L + 1)' => /\ r.pos.at[1] \in 0 .. written /\ Gone(r.pos.at[1])
                             /\ \A key \in Keys, t \in Nat : t = r.pos.at[1] => RowKept(key, t, L + 1)'
    PROVE  DeliveryKept' /\ OracleTypes' /\ OracleRestarts'
<1> USE DEF OracleKept
<1>1. /\ flight' = Append(flight, r) /\ UNCHANGED <<setup, view, taken, ckpt, written, anchor, missed>>
      /\ Sequence(flight)
  BY DEF OracleSend, DeliveryKept
<1>2. /\ Keys' = Keys /\ L \in Nat /\ Sequence(flight)' /\ Len(flight)' = L + 1
      /\ \A n \in 1 .. L : flight'[n] = flight[n]
      /\ flight'[L + 1] = r
      /\ \A n \in Cuts : /\ PosAt(n)' = PosAt(n) /\ SnapAt(n)' = SnapAt(n) /\ GoesOn(n)' = GoesOn(n)
                         /\ TakenAt(n)' = TakenAt(n) /\ \A key : Shown(key, n)' = Shown(key, n)
      /\ PosAt(L + 1)' = r.pos
      /\ TakenAt(L + 1)' = TakenAt(L) \cup ({r.id} \ {0})
  BY <1>1, SendFacts
<1>3. /\ \A t : Gone(t) => Gone(t)'
      /\ \A n : O!Committed(n)' = O!Committed(n)
      /\ \A key, t, n, m :
            Shown(key, m)' = Shown(key, n) /\ TakenAt(m)' = TakenAt(n) /\ RowKept(key, t, n) => RowKept(key, t, m)'
  BY <1>1, OracleSame, RedoStays DEF OracleTypes
<1>4. DeliveryKept'
  <2>1. \A n \in 1 .. L + 1 : n \in 1 .. L \/ n = L + 1
    BY <1>2
  <2>2. \A n \in 1 .. L + 1 : flight'[n].pos # None
    BY <1>2, <2>1 DEF DeliveryKept, OracleSend
  <2> QED
    BY <1>1, <1>2, <2>2 DEF DeliveryKept, None
<1>5. OracleTypes'
  <2>1. TakenAt(Len(flight))' = TakenAt(L) \cup ({r.id} \ {0})
    BY <1>2
  <2> QED
    BY <1>1, <1>3, <2>1 DEF OracleTypes, OracleSend
<1>6. Cuts = 0 .. L /\ Cuts' = 0 .. L + 1
  BY <1>2 DEF Cuts
<1>7. OracleRestarts'
  <2> SUFFICES ASSUME NEW n \in 0 .. L + 1, NEW m \in 0 .. n, GoesOn(m)'
               PROVE  /\ (PosAt(m).at[1] \in 0 .. written /\ Gone(PosAt(m).at[1]))'
                      /\ \A key \in Keys : RowKept(key, PosAt(m).at[1], n)'
    BY <1>2, <1>6 DEF OracleRestarts
  <2>1. CASE m \in Cuts
    <3>1. PICK t : t = PosAt(m).at[1]
      OBVIOUS
    <3>2. GoesOn(m) /\ PosAt(m)' = PosAt(m) /\ m \in 0 .. m
      BY <1>2, <1>6, <2>1
    <3>3. t \in 0 .. written /\ Gone(t) /\ t \in Nat
      BY <2>1, <3>1, <3>2 DEF OracleRestarts, OracleTypes
    <3>4. \A key \in Keys : RowKept(key, t, n)'
      <4>1. CASE n \in Cuts
        <5>1. \A key \in Keys : RowKept(key, t, n)
          BY <3>1, <3>2, <4>1 DEF OracleRestarts
        <5> QED
          BY <1>2, <1>3, <4>1, <5>1
      <4>2. CASE n = L + 1
        BY <2>1, <3>1, <3>2, <3>3, <4>2
      <4> QED
        BY <1>2, <1>6, <4>1, <4>2
    <3> QED
      BY <1>1, <1>3, <3>1, <3>2, <3>3, <3>4
  <2>2. CASE m = L + 1
    <3>1. n = L + 1 /\ PosAt(m)' = r.pos
      BY <1>2, <2>2
    <3>2. PICK t : t = r.pos.at[1]
      OBVIOUS
    <3>3. t \in 0 .. written /\ Gone(t) /\ t \in Nat /\ \A key \in Keys : RowKept(key, t, L + 1)'
      BY <2>2, <3>2 DEF OracleTypes
    <3> QED
      BY <1>1, <1>3, <3>1, <3>2, <3>3
  <2> QED
    BY <1>2, <1>6, <2>1, <2>2
<1> QED
  BY <1>4, <1>5, <1>7

\* A record without a row changes nothing of what the sink has.
LEMMA OracleMarkSeen ==
    ASSUME OracleKept, NEW L, L = Len(flight), NEW r, OracleSend(r), r.key = 0, r.id = 0
    PROVE  \A key \in Keys : \A t : RowKept(key, t, L) => RowKept(key, t, L + 1)'
<1> USE DEF OracleKept
<1>1. /\ flight' = Append(flight, r) /\ UNCHANGED <<setup, view, taken, ckpt, written, anchor, missed>>
      /\ Sequence(flight)
  BY DEF OracleSend, DeliveryKept
<1>2. /\ TakenAt(L + 1)' = TakenAt(L) \cup ({r.id} \ {0})
      /\ \A key : Shown(key, L + 1)' = IF r.key = key THEN r.val ELSE Shown(key, L)
  BY <1>1, SendFacts
<1>3. \A key, t, n, m :
            Shown(key, m)' = Shown(key, n) /\ TakenAt(m)' = TakenAt(n) /\ RowKept(key, t, n) => RowKept(key, t, m)'
  BY <1>1, OracleSame DEF OracleTypes
<1>4. \A key \in Keys : key # 0
  BY DEF Keys, DeliveryKept
<1>5. TakenAt(L + 1)' = TakenAt(L)
  BY <1>2
<1> QED
  BY <1>2, <1>3, <1>4, <1>5

LEMMA OracleBeats ==
    ASSUME OracleKept, O!Heartbeat
    PROVE  OracleKept'
<1> USE DEF OracleKept
<1>1. PICK L, p, r : /\ L = Len(flight) /\ p = O!Position(<<cursor, 1, serial>>, <<cursor, serial>>)
                     /\ r = O!Mark(p, FALSE)
  OBVIOUS
<1>2. /\ phase = "streaming" /\ batch = {} /\ flight' = Append(flight, r)
      /\ UNCHANGED <<setup, phase, view, taken, ckpt, written, cursor, anchor, todo, batch, missed>>
  BY <1>1 DEF O!Heartbeat, O!Send, O!oracle
<1>3. r.pos = p /\ r.pos # None /\ r.key = 0 /\ r.id = 0 /\ r.pos.at[1] = cursor
  <2>1. p # None /\ p.at[1] = cursor
    BY <1>1, OraclePosition
  <2>2. r.pos = p /\ r.key = 0 /\ r.id = 0
    BY <1>1 DEF O!Mark, O!Item, O!NoKey
  <2> QED
    BY <2>1, <2>2
<1>4. OracleSend(r)
  BY <1>2, <1>3 DEF OracleSend
<1>5. \A key \in Keys : \A t : RowKept(key, t, L) => RowKept(key, t, L + 1)'
  BY <1>1, <1>3, <1>4, OracleMarkSeen
<1>6. L \in Cuts /\ L \in Nat /\ cursor \in 0 .. written /\ cursor \in Nat /\ written \in Nat
  BY <1>1 DEF Cuts, DeliveryKept, Sequence, OracleTypes
<1>7. \A m \in Cuts : GoesOn(m) => \A key \in Keys, t \in Nat : t = PosAt(m).at[1] => RowKept(key, t, L + 1)'
  <2> SUFFICES ASSUME NEW m \in Cuts, GoesOn(m), NEW key \in Keys, NEW t \in Nat, t = PosAt(m).at[1]
               PROVE  RowKept(key, t, L + 1)'
    OBVIOUS
  <2>1. m \in 0 .. L
    BY <1>1 DEF Cuts
  <2>2. RowKept(key, t, L)
    BY <1>6, <2>1 DEF OracleRestarts
  <2> QED
    BY <1>5, <2>2
<1>8. Gone(cursor) /\ \A key \in Keys : RowKept(key, cursor, L)
  BY <1>1, <1>2 DEF OracleReads, OracleStreams
<1>9. \A key \in Keys, t \in Nat : t = cursor => RowKept(key, t, L + 1)'
  BY <1>5, <1>8
<1>10. DeliveryKept' /\ OracleTypes' /\ OracleRestarts'
  BY <1>1, <1>2, <1>3, <1>4, <1>6, <1>7, <1>8, <1>9, OracleSent
<1>11. /\ Keys' = Keys /\ Len(flight)' = L + 1
       /\ \A n \in Cuts : /\ PosAt(n)' = PosAt(n) /\ GoesOn(n)' = GoesOn(n)
       /\ PosAt(L + 1)' = r.pos
       /\ SnapAt(L + 1)' = (SnapAt(L) \/ r.snapshotEnd)
       /\ TakenAt(L + 1)' = TakenAt(L)
  BY <1>1, <1>3, <1>4, OracleSendFacts
<1>12. \A t : (Gone(t) => Gone(t)') /\ O!Committed(t)' = O!Committed(t)
  BY <1>2, OracleSame, RedoStays DEF OracleTypes
<1>13. OracleReads'
  <2>1. \A n \in Cuts' : GoesOn(n)' => PosAt(n)'.at[1] <= cursor
    <3>1. \A n \in Cuts' : n \in Cuts \/ n = L + 1
      BY <1>1, <1>6, <1>11 DEF Cuts
    <3>2. \A n \in Cuts : GoesOn(n) => PosAt(n).at[1] <= cursor
      BY <1>2 DEF OracleReads
    <3>3. ASSUME NEW n \in Cuts', GoesOn(n)' PROVE PosAt(n)'.at[1] <= cursor
      <4>1. CASE n \in Cuts
        BY <1>11, <3>2, <3>3, <4>1
      <4>2. CASE n = L + 1
        BY <1>3, <1>6, <1>11, <4>2
      <4> QED
        BY <3>1, <3>3, <4>1, <4>2
    <3> QED
      BY <3>3
  <2>2. PICK c, a : c = cursor /\ a = L + 1
    OBVIOUS
  <2>3. \A key \in Keys : RowKept(key, c, a)'
    BY <1>6, <1>9, <2>2
  <2> QED
    BY <1>2, <1>8, <1>11, <1>12, <2>1, <2>2, <2>3 DEF OracleReads
<1>14. OracleSnapshot' /\ OracleStreams'
  <2>1. SnapAt(Len(flight))' = SnapAt(L + 1)'
    BY <1>11
  <2> QED
    BY <1>1, <1>2, <1>11, <2>1 DEF OracleSnapshot, OracleStreams
<1> QED
  BY <1>10, <1>13, <1>14

\* While the snapshot is read no checkpoint skips it.
LEMMA OracleNoneGoesOn ==
    ASSUME OracleKept, phase = "snapshot", NEW m \in Cuts
    PROVE  ~GoesOn(m) /\ ~SnapAt(m)
<1>1. Len(flight) \in Cuts /\ m \in 0 .. Len(flight)
  BY DEF OracleKept, DeliveryKept, Sequence, Cuts
<1> QED
  BY <1>1, SnapLater DEF OracleKept, OracleSnapshot, GoesOn

LEMMA OracleSnapshotEnds ==
    ASSUME OracleKept, O!SnapshotEnd
    PROVE  OracleKept'
<1> USE DEF OracleKept
<1>1. PICK L, p, r : /\ L = Len(flight) /\ p = O!Position(<<anchor, 0, O!Returned + 1>>, <<anchor, O!Returned + 1>>)
                     /\ r = O!SnapshotMark(p)
  OBVIOUS
<1>2. /\ phase = "snapshot" /\ todo = {} /\ flight' = Append(flight, r) /\ phase' = "streaming"
      /\ UNCHANGED <<setup, view, taken, ckpt, written, cursor, anchor, todo, batch, missed>>
  BY <1>1 DEF O!SnapshotEnd, O!Send
<1>3. r.pos = p /\ r.pos # None /\ r.key = 0 /\ r.id = 0 /\ r.pos.at[1] = anchor /\ r.snapshotEnd = TRUE
  BY <1>1, OracleWords, OraclePosition
<1>4. OracleSend(r)
  BY <1>2, <1>3 DEF OracleSend
<1>5. \A key \in Keys : \A t : RowKept(key, t, L) => RowKept(key, t, L + 1)'
  BY <1>1, <1>3, <1>4, OracleMarkSeen
<1>6. L \in Nat /\ cursor \in 0 .. written /\ cursor = anchor /\ batch = {} /\ cursor \in Nat /\ written \in Nat
  BY <1>1, <1>2 DEF DeliveryKept, Sequence, OracleTypes, OracleSnapshot
<1>7. \A m \in Cuts : ~GoesOn(m)
  BY <1>2, OracleNoneGoesOn
<1>8. Gone(cursor) /\ \A key \in Keys : RowKept(key, cursor, L)
  BY <1>1, <1>2 DEF OracleReads
<1>9. \A key \in Keys, t \in Nat : t = cursor => RowKept(key, t, L + 1)'
  BY <1>5, <1>8
<1>10. DeliveryKept' /\ OracleTypes' /\ OracleRestarts'
  BY <1>1, <1>2, <1>3, <1>4, <1>6, <1>7, <1>8, <1>9, OracleSent
<1>11. /\ Keys' = Keys /\ Len(flight)' = L + 1
       /\ \A n \in Cuts : GoesOn(n)' = GoesOn(n)
       /\ PosAt(L + 1)' = r.pos
       /\ SnapAt(L + 1)' = (SnapAt(L) \/ r.snapshotEnd)
  BY <1>1, <1>3, <1>4, OracleSendFacts
<1>12. \A t : Gone(t) => Gone(t)'
  BY <1>2, OracleSame DEF OracleTypes
<1>13. OracleReads'
  <2>1. \A n \in Cuts' : GoesOn(n)' => PosAt(n)'.at[1] <= cursor
    <3>1. \A n \in Cuts' : n \in Cuts \/ n = L + 1
      BY <1>1, <1>6, <1>11 DEF Cuts
    <3> QED
      BY <1>3, <1>6, <1>7, <1>11, <3>1
  <2>2. PICK c, a : c = cursor /\ a = L + 1
    OBVIOUS
  <2>3. \A key \in Keys : RowKept(key, c, a)'
    BY <1>6, <1>9, <2>2
  <2> QED
    BY <1>2, <1>8, <1>11, <1>12, <2>1, <2>2, <2>3 DEF OracleReads
<1>14. OracleSnapshot' /\ OracleStreams'
  <2>1. SnapAt(Len(flight))'
    BY <1>3, <1>11
  <2> QED
    BY <1>2, <1>6, <2>1 DEF OracleSnapshot, OracleStreams
<1> QED
  BY <1>10, <1>13, <1>14

LEMMA OracleSnapshotReads ==
    ASSUME OracleKept, O!SnapshotRow
    PROVE  OracleKept'
<1> USE DEF OracleKept
<1>1. PICK key, val, L, p, r :
        /\ key = Min(todo) /\ val = O!RowAsOf(key, anchor) /\ L = Len(flight)
        /\ p = O!Position(<<anchor, 0, O!Returned + 1>>, <<anchor, O!Returned + 1>>) /\ r = O!Item(p, key, val, 0)
  OBVIOUS
<1>2. /\ phase = "snapshot" /\ flight' = Append(flight, r) /\ phase' = "snapshot" /\ todo' = todo \ {key}
      /\ UNCHANGED <<setup, view, taken, ckpt, written, cursor, anchor, batch, missed>>
  <2>1. O!Min(todo) = Min(todo)
    BY DEF O!Min, Min
  <2> QED
    BY <1>1, <2>1 DEF O!SnapshotRow, O!Send
<1>3. r.pos = p /\ r.pos # None /\ r.key = key /\ r.id = 0 /\ r.val = O!RowAsOf(key, anchor) /\ r.snapshotEnd = FALSE
  BY <1>1, OracleWords, OraclePosition
<1>4. OracleSend(r)
  BY <1>2, <1>3 DEF OracleSend
<1>5. L \in Nat /\ L \in Cuts /\ cursor \in 0 .. written /\ cursor = anchor /\ cursor \in Nat /\ written \in Nat
  BY <1>1, <1>2 DEF DeliveryKept, Sequence, OracleTypes, OracleSnapshot, Cuts
<1>6. \A m \in Cuts : ~GoesOn(m) /\ ~SnapAt(m)
  BY <1>2, OracleNoneGoesOn
<1>7. /\ Keys' = Keys /\ Len(flight)' = L + 1
      /\ \A n \in Cuts : GoesOn(n)' = GoesOn(n)
      /\ SnapAt(L + 1)' = (SnapAt(L) \/ r.snapshotEnd)
      /\ TakenAt(L + 1)' = TakenAt(L) \cup ({r.id} \ {0})
      /\ \A k : Shown(k, L + 1)' = IF r.key = k THEN r.val ELSE Shown(k, L)
  BY <1>1, <1>4, OracleSendFacts
<1>8. ~SnapAt(L + 1)' /\ ~GoesOn(L + 1)' /\ TakenAt(L + 1)' = TakenAt(L)
  <2>1. ~SnapAt(L + 1)' /\ setup' = setup /\ setup.mode # "never"
    BY <1>2, <1>3, <1>5, <1>6, <1>7 DEF OracleSnapshot
  <2> QED
    BY <1>3, <1>7, <2>1 DEF GoesOn
<1>9. DeliveryKept' /\ OracleTypes' /\ OracleRestarts'
  BY <1>1, <1>2, <1>4, <1>5, <1>6, <1>8, OracleSent
<1>10. /\ \A t : Gone(t) => Gone(t)'
       /\ \A n : O!Committed(n)' = O!Committed(n)
       /\ \A k, t, n, m :
            Shown(k, m)' = Shown(k, n) /\ TakenAt(m)' = TakenAt(n) /\ RowKept(k, t, n) => RowKept(k, t, m)'
       /\ \A k : /\ \A i : IsRow(i, k)' = IsRow(i, k)
                 /\ \A n : LastOf(k, n)' = LastOf(k, n) /\ O!RowAsOf(k, n)' = O!RowAsOf(k, n)
  BY <1>2, OracleSame, RedoStays DEF OracleTypes
<1>11. RowKept(key, cursor, L + 1)'
  <2>1. Shown(key, L + 1)' = O!RowAsOf(key, anchor)
    BY <1>3, <1>7
  <2>2. /\ LastOf(key, written)' = LastOf(key, written)
        /\ O!RowAsOf(key, written)' = O!RowAsOf(key, written)
    BY <1>2, <1>10
  <2>3. CASE O!RowAsOf(key, written) = O!RowAsOf(key, anchor)
    BY <2>1, <2>2, <2>3 DEF RowKept
  <2>4. CASE LastOf(key, written) \in RowsOf(key, written) \ O!Committed(anchor)
    <3>1. LastOf(key, written) \in Nat /\ LastOf(key, written) # 0 /\ IsRow(LastOf(key, written), key)
      BY <1>5, <2>4, CommittedIs DEF RowsOf
    <3>2. CASE LastOf(key, written) > cursor
      BY <1>2, <2>2, <3>2 DEF RowKept
    <3>3. CASE ~(LastOf(key, written) > cursor)
      <4>1. LastOf(key, written) \in 1 .. anchor
        BY <1>5, <3>1, <3>3
      <4>2. LastOf(key, written) \in missed \ TakenAt(L)
        BY <1>1, <1>2, <2>4, <4>1 DEF OracleSnapshot
      <4>3. Owed(key, L + 1)'
        BY <1>2, <1>8, <1>10, <3>1, <4>2 DEF Owed
      <4> QED
        BY <4>3 DEF RowKept
    <3> QED
      BY <3>2, <3>3
  <2> QED
    BY <1>5, <2>3, <2>4, Newer
<1>12. OracleReads'
  <2>1. \A n \in Cuts' : GoesOn(n)' => PosAt(n)'.at[1] <= cursor
    <3>1. \A n \in Cuts' : n \in Cuts \/ n = L + 1
      BY <1>1, <1>5, <1>7 DEF Cuts
    <3> QED
      BY <1>6, <1>7, <1>8, <3>1
  <2>2. PICK c, a : c = cursor /\ a = L + 1
    OBVIOUS
  <2>3. \A k \in Keys \ todo' : RowKept(k, c, a)'
    <3> SUFFICES ASSUME NEW k \in Keys \ todo' PROVE RowKept(k, c, a)'
      OBVIOUS
    <3>1. CASE k = key
      BY <1>11, <1>2, <2>2, <3>1 DEF RowKept
    <3>2. CASE k # key
      <4>1. RowKept(k, c, L) /\ Shown(k, L + 1)' = Shown(k, L)
        BY <1>1, <1>2, <1>3, <1>7, <2>2, <3>2 DEF OracleReads
      <4> QED
        BY <1>8, <1>10, <2>2, <4>1
    <3> QED
      BY <3>1, <3>2
  <2>4. Gone(cursor)'
    BY <1>2, <1>10 DEF OracleReads
  <2> QED
    BY <1>2, <1>7, <2>1, <2>2, <2>3, <2>4 DEF OracleReads
<1>13. OracleSnapshot' /\ OracleStreams'
  <2>1. ~SnapAt(Len(flight))' /\ TakenAt(Len(flight))' = TakenAt(Len(flight)) /\ O!Committed(anchor)' = O!Committed(anchor)
    BY <1>1, <1>2, <1>7, <1>8, <1>10
  <2> QED
    BY <1>2, <2>1 DEF OracleSnapshot, OracleStreams
<1> QED
  BY <1>9, <1>12, <1>13

LEMMA OracleHandles ==
    ASSUME OracleKept, O!Handle
    PROVE  OracleKept'
<1> USE DEF OracleKept
<1>1. PICK i, L, p, r :
        /\ i = Min(batch) /\ L = Len(flight)
        /\ p = O!Position(<<O!CommitScn(i, written), 1, serial + 1>>, <<i, serial + 1>>)
        /\ r = CASE O!Redo[i].op = "commit" -> O!Mark(p, TRUE)
                 [] O!Redo[i].op = "start"  -> O!Mark(p, FALSE)
                 [] OTHER                   -> O!Item(p, O!Redo[i].key, O!AfterImage(i), i)
  OBVIOUS
<1>2. /\ phase = "streaming" /\ batch # {} /\ flight' = Append(flight, r) /\ cursor' = i /\ batch' = batch \ {i}
      /\ UNCHANGED <<setup, phase, view, taken, ckpt, written, anchor, todo, missed>>
  <2>1. O!Min(batch) = Min(batch)
    BY DEF O!Min, Min
  <2> QED
    BY <1>1, <2>1 DEF O!Handle, O!Send
<1>3. /\ written \in Nat /\ cursor \in Nat /\ L \in Nat /\ Cuts = 0 .. L
      /\ batch \subseteq O!Committed(written) /\ O!Committed(written) \subseteq 1 .. written
  BY <1>1, <1>2, CommittedIs DEF OracleTypes, OracleStreams, DeliveryKept, Sequence, Cuts
<1>4. i \in batch /\ (\A j \in batch : i <= j) /\ i \in 1 .. written /\ i \in O!Committed(written)
  <2>1. batch \subseteq Nat
    BY <1>3
  <2> QED
    BY <1>1, <1>2, <1>3, <2>1, Smallest
<1>5. i > cursor /\ \A j \in cursor + 1 .. i : j = i \/ j \in missed \ TakenAt(L)
  BY <1>1, <1>2, <1>3, <1>4 DEF OracleStreams
<1>6. /\ r.pos # None /\ r.pos.at[1] = i
      /\ \/ ~(O!Redo[i].op = "row") /\ r.key = 0 /\ r.id = 0
         \/ O!Redo[i].op = "row" /\ r.key = O!Redo[i].key /\ r.val = O!Redo[i].val /\ r.id = i
      /\ r.snapshotEnd = FALSE
  <2>1. p # None /\ p.at[1] = i
    BY <1>1, OraclePosition
  <2>2. O!AfterImage(i) = O!Redo[i].val
    BY DEF O!AfterImage, OracleTypes, SoundRedo
  <2>3. O!Redo[i].op \in {"start", "row", "commit"}
    <3>1. setup.redo \in Seq(Entries) /\ i \in 1 .. Len(setup.redo)
      BY <1>3, <1>4 DEF OracleTypes, SoundRedo
    <3>2. setup.redo[i] \in Entries
      BY <3>1
    <3> QED
      BY <3>2 DEF Entries, O!Redo
  <2>4. CASE O!Redo[i].op = "commit"
    <3>1. r = O!Mark(p, TRUE)
      BY <1>1, <2>4
    <3>2. r.pos = p /\ r.key = 0 /\ r.id = 0 /\ r.snapshotEnd = FALSE
      BY <3>1 DEF O!Mark, O!Item, O!NoKey
    <3> QED
      BY <2>1, <2>4, <3>2
  <2>5. CASE O!Redo[i].op = "start"
    <3>1. r = O!Mark(p, FALSE)
      BY <1>1, <2>5
    <3>2. r.pos = p /\ r.key = 0 /\ r.id = 0 /\ r.snapshotEnd = FALSE
      BY <3>1 DEF O!Mark, O!Item, O!NoKey
    <3> QED
      BY <2>1, <2>5, <3>2
  <2>6. CASE O!Redo[i].op = "row"
    <3>1. r = O!Item(p, O!Redo[i].key, O!AfterImage(i), i)
      BY <1>1, <2>6
    <3>2. r.pos = p /\ r.key = O!Redo[i].key /\ r.val = O!AfterImage(i) /\ r.id = i /\ r.snapshotEnd = FALSE
      BY <3>1 DEF O!Item
    <3> QED
      BY <2>1, <2>2, <2>6, <3>2
  <2> QED
    BY <2>3, <2>4, <2>5, <2>6
<1>7. OracleSend(r)
  BY <1>2, <1>4, <1>6 DEF OracleSend
<1>8. /\ Keys' = Keys /\ Len(flight)' = L + 1
      /\ \A n \in Cuts : /\ PosAt(n)' = PosAt(n) /\ SnapAt(n)' = SnapAt(n) /\ GoesOn(n)' = GoesOn(n)
                         /\ TakenAt(n)' = TakenAt(n) /\ \A key : Shown(key, n)' = Shown(key, n)
      /\ PosAt(L + 1)' = r.pos
      /\ SnapAt(L + 1)' = (SnapAt(L) \/ r.snapshotEnd)
      /\ TakenAt(L + 1)' = TakenAt(L) \cup ({r.id} \ {0})
      /\ \A key : Shown(key, L + 1)' = IF r.key = key THEN r.val ELSE Shown(key, L)
  <2>1. L = Len(flight)
    BY <1>1
  <2> QED
    BY <1>7, <2>1, OracleSendFacts
<1>9. /\ \A t : Gone(t) => Gone(t)'
      /\ \A n : O!Committed(n)' = O!Committed(n)
      /\ \A k : /\ \A j : IsRow(j, k)' = IsRow(j, k)
                /\ \A n : LastOf(k, n)' = LastOf(k, n) /\ O!RowAsOf(k, n)' = O!RowAsOf(k, n)
  BY <1>2, OracleSame, RedoStays DEF OracleTypes
<1>10. ASSUME NEW key \in Keys, NEW t \in Nat, t <= cursor, RowKept(key, t, L),
              NEW u \in Nat, u = t \/ (u = i /\ t = cursor)
       PROVE  RowKept(key, u, L + 1)'
  <2>1. PICK l : l = LastOf(key, written)
    OBVIOUS
  <2>2. /\ l \in 0 .. written /\ (l # 0 => l \in RowsOf(key, written)) /\ \A j \in RowsOf(key, written) : j <= l
        /\ O!RowAsOf(key, written) = IF l = 0 THEN setup.rows[key] ELSE O!Redo[l].val
    BY <1>3, <2>1, LastIs
  <2>3. LastOf(key, written)' = l /\ O!RowAsOf(key, written)' = O!RowAsOf(key, written)
    BY <1>2, <1>9, <2>1
  <2>4. CASE IsRow(i, key)
    <3>1. i \in RowsOf(key, written) /\ i <= l /\ u <= i
      BY <1>3, <1>4, <1>5, <1>10, <2>2, <2>4 DEF RowsOf
    <3>2. CASE l = i
      <4>1. Shown(key, L + 1)' = O!Redo[i].val /\ O!RowAsOf(key, written) = O!Redo[i].val
        BY <1>4, <1>6, <1>8, <2>2, <2>4, <3>2 DEF IsRow
      <4> QED
        BY <2>3, <4>1 DEF RowKept
    <3>3. CASE l # i
      <4>1. l > u
        BY <1>4, <1>10, <2>2, <3>1, <3>3
      <4> QED
        BY <2>3, <4>1 DEF RowKept
    <3> QED
      BY <3>2, <3>3
  <2>5. CASE ~IsRow(i, key)
    <3>1. r.key # key
      <4>1. key # 0
        BY DEF Keys, DeliveryKept
      <4> QED
        BY <1>6, <2>5, <4>1 DEF IsRow
    <3>2. Shown(key, L + 1)' = Shown(key, L)
      BY <1>8, <3>1
    <3>3. ASSUME NEW j \in missed \ TakenAt(L), IsRow(j, key) PROVE Owed(key, L + 1)'
      <4>1. j # i /\ j \notin TakenAt(L + 1)'
        BY <1>6, <1>8, <2>5, <3>3
      <4> QED
        BY <1>2, <1>9, <3>3, <4>1 DEF Owed
    <3>4. CASE Owed(key, L)
      <4>1. Owed(key, L + 1)'
        BY <3>3, <3>4 DEF Owed
      <4> QED
        BY <4>1 DEF RowKept
    <3>5. CASE Unseen(key)
      <4>1. Unseen(key)'
        BY <1>2, <2>1, <2>3, <3>5 DEF Unseen
      <4> QED
        BY <4>1 DEF RowKept
    <3>6. CASE Shown(key, L) = O!RowAsOf(key, written)
      BY <2>3, <3>2, <3>6 DEF RowKept
    <3>7. CASE l > t
      <4>1. l \in RowsOf(key, written) /\ l # i
        <5>1. l # 0
          BY <1>10, <2>2, <3>7
        <5> QED
          BY <2>2, <2>5, <5>1 DEF RowsOf
      <4>2. CASE l > u
        BY <2>3, <4>2 DEF RowKept
      <4>3. CASE ~(l > u)
        <5>1. l \in cursor + 1 .. i
          BY <1>3, <1>4, <1>10, <2>2, <3>7, <4>3
        <5>2. l \in missed \ TakenAt(L) /\ IsRow(l, key)
          BY <1>5, <4>1, <5>1 DEF RowsOf
        <5>3. Owed(key, L + 1)'
          BY <3>3, <5>2
        <5> QED
          BY <5>3 DEF RowKept
      <4> QED
        BY <4>2, <4>3
    <3> QED
      BY <1>10, <2>1, <3>4, <3>5, <3>6, <3>7 DEF RowKept
  <2> QED
    BY <2>4, <2>5
<1>11. Gone(i)
  <2> SUFFICES ASSUME NEW j \in 1 .. i PROVE j \in O!Committed(written) \/ j \in missed
    BY DEF Gone
  <2>1. CASE j <= cursor
    <3>1. j \in 1 .. cursor /\ Gone(cursor)
      BY <1>2, <1>3, <2>1 DEF OracleReads
    <3> QED
      BY <3>1 DEF Gone
  <2>2. CASE ~(j <= cursor)
    <3>1. j \in cursor + 1 .. i
      BY <1>3, <1>4, <2>2
    <3> QED
      BY <1>4, <1>5, <3>1
  <2> QED
    BY <2>1, <2>2
<1>12. \A key \in Keys, t \in Nat : t = i => RowKept(key, t, L + 1)'
  <2> SUFFICES ASSUME NEW key \in Keys, NEW t \in Nat, t = i PROVE RowKept(key, t, L + 1)'
    OBVIOUS
  <2>1. PICK c : c = cursor
    OBVIOUS
  <2>2. RowKept(key, c, L) /\ c \in Nat /\ c <= cursor
    BY <1>1, <1>2, <1>3, <2>1 DEF OracleReads, OracleStreams
  <2> QED
    BY <1>10, <2>1, <2>2
<1>13. \A m \in Cuts : GoesOn(m) => \A key \in Keys, t \in Nat : t = PosAt(m).at[1] => RowKept(key, t, L + 1)'
  <2> SUFFICES ASSUME NEW m \in Cuts, GoesOn(m), NEW key \in Keys, NEW t \in Nat, t = PosAt(m).at[1]
               PROVE  RowKept(key, t, L + 1)'
    OBVIOUS
  <2>1. t <= cursor
    BY <1>2 DEF OracleReads
  <2>2. m \in 0 .. L /\ L \in Cuts
    BY <1>3
  <2>3. RowKept(key, t, L)
    BY <2>2 DEF OracleRestarts
  <2> QED
    BY <1>10, <2>1, <2>3
<1>14. DeliveryKept' /\ OracleTypes' /\ OracleRestarts'
  <2>1. i \in 0 .. written /\ L = Len(flight)
    BY <1>1, <1>3, <1>4
  <2>2. phase' \in {"snapshot", "streaming"} /\ cursor' \in 0 .. written
    BY <1>2, <2>1
  <2>3. /\ r.pos.at[1] \in 0 .. written /\ Gone(r.pos.at[1])
        /\ \A key \in Keys, t \in Nat : t = r.pos.at[1] => RowKept(key, t, L + 1)'
    BY <1>6, <1>11, <1>12, <2>1
  <2> QED
    BY <1>7, <1>13, <2>1, <2>2, <2>3, OracleSent
<1>15. OracleReads'
  <2>1. ASSUME NEW n \in Cuts', GoesOn(n)' PROVE PosAt(n)'.at[1] <= i
    <3>1. n \in Cuts \/ n = L + 1
      BY <1>3, <1>8 DEF Cuts
    <3>2. CASE n \in Cuts
      <4>1. GoesOn(n) /\ PosAt(n)' = PosAt(n)
        BY <1>8, <2>1, <3>2
      <4>2. PosAt(n).at[1] <= cursor /\ PosAt(n).at[1] \in 0 .. written
        <5>1. n \in 0 .. n
          BY <1>3, <3>2
        <5> QED
          BY <1>2, <3>2, <4>1, <5>1 DEF OracleReads, OracleRestarts
      <4> QED
        BY <1>3, <1>4, <1>5, <4>1, <4>2
    <3>3. CASE n = L + 1
      BY <1>4, <1>6, <1>8, <3>3
    <3> QED
      BY <3>1, <3>2, <3>3
  <2>2. PICK a : a = L + 1
    OBVIOUS
  <2>3. Gone(i)' /\ \A key \in Keys : RowKept(key, i, a)'
    BY <1>4, <1>9, <1>11, <1>12, <2>2
  <2> QED
    BY <1>2, <1>8, <2>1, <2>2, <2>3 DEF OracleReads
<1>16. OracleSnapshot' /\ OracleStreams'
  <2>1. SnapAt(Len(flight))' = SnapAt(L) /\ TakenAt(Len(flight))' = TakenAt(L) \cup ({r.id} \ {0})
        /\ O!Committed(written)' = O!Committed(written)
    <3>1. PICK a : a = L + 1
      OBVIOUS
    <3>2. SnapAt(a)' = SnapAt(L) /\ TakenAt(a)' = TakenAt(L) \cup ({r.id} \ {0})
      <4>1. SnapAt(L) \in BOOLEAN
        BY DEF SnapAt
      <4>2. SnapAt(a)' = (SnapAt(L) \/ r.snapshotEnd) /\ TakenAt(a)' = TakenAt(L) \cup ({r.id} \ {0})
        BY <1>8, <3>1
      <4> QED
        BY <1>6, <4>1, <4>2
    <3>3. Len(flight)' = a
      BY <1>8, <3>1
    <3>4. O!Committed(written)' = O!Committed(written)
      BY <1>2, <1>9
    <3> QED
      BY <3>2, <3>3, <3>4
  <2>2. \A k \in batch' : k > i /\ \A j \in i + 1 .. k : j \in batch' \/ j \in missed \ TakenAt(Len(flight))'
    <3> SUFFICES ASSUME NEW k \in batch, k # i
                 PROVE  k > i /\ \A j \in i + 1 .. k : j \in batch \ {i} \/ j \in missed \ TakenAt(Len(flight))'
      BY <1>2
    <3>1. k > i /\ k \in Nat
      BY <1>3, <1>4
    <3>2. ASSUME NEW j \in i + 1 .. k PROVE j \in batch \ {i} \/ j \in missed \ TakenAt(Len(flight))'
      <4>1. j \in cursor + 1 .. k /\ j # i
        BY <1>3, <1>4, <1>5, <3>1
      <4>2. j \in batch \/ j \in missed \ TakenAt(L)
        BY <1>1, <1>2, <4>1 DEF OracleStreams
      <4> QED
        BY <1>6, <2>1, <4>1, <4>2
    <3> QED
      BY <3>1, <3>2
  <2>3. setup.mode = "never" \/ SnapAt(L)
    BY <1>1, <1>2 DEF OracleStreams
  <2>4. todo = {}
    BY <1>2 DEF OracleStreams
  <2> QED
    BY <1>2, <1>3, <2>1, <2>2, <2>3, <2>4 DEF OracleSnapshot, OracleStreams
<1> QED
  BY <1>14, <1>15, <1>16


LEMMA OracleSteps ==
    ASSUME OracleKept, [Next]_vars
    PROVE  OracleKept'
<1>0. setup.connector = "oracle"
  BY DEF OracleKept, OracleTypes
<1>1. CASE O!OracleNext
  <2>1. \/ O!Write \/ O!Start \/ O!SnapshotRow \/ O!SnapshotEnd
        \/ O!Poll \/ O!Handle \/ O!Heartbeat \/ O!QueryFails
    BY <1>1 DEF O!OracleNext
  <2> QED
    BY <2>1, OracleWrites, OracleStarts, OracleSnapshotReads, OracleSnapshotEnds, OraclePolls,
       OracleHandles, OracleBeats, OracleFails
<1>2. CASE Flush /\ UNCHANGED <<log, oracle>>
  <2>1. UNCHANGED <<written, cursor, anchor, todo, batch, missed>>
    BY <1>2 DEF log, oracle
  <2> QED
    BY <1>2, <2>1, OracleFlush
<1>3. CASE (Backwards \/ Restart \/ Crash) /\ UNCHANGED <<log, oracle>>
  <2>1. UNCHANGED <<written, cursor, anchor, todo, batch, missed>>
    BY <1>3 DEF log, oracle
  <2> QED
    BY <1>3, <2>1, OracleEnds
<1>4. CASE UNCHANGED vars
  <2>1. UNCHANGED <<setup, phase, flight, view, ckpt, taken, written, cursor, anchor, todo, batch, missed>>
    BY <1>4 DEF vars, runtime, log, oracle
  <2>2. /\ Keys' = Keys /\ Cuts' = Cuts
        /\ \A n : /\ PosAt(n)' = PosAt(n) /\ SnapAt(n)' = SnapAt(n) /\ GoesOn(n)' = GoesOn(n)
                  /\ TakenAt(n)' = TakenAt(n) /\ \A key : Shown(key, n)' = Shown(key, n)
    BY <2>1, StayFacts
  <2>3. /\ \A t : Gone(t)' = Gone(t)
        /\ \A n : O!Committed(n)' = O!Committed(n)
        /\ \A key, t, n : RowKept(key, t, n)' = RowKept(key, t, n)
    BY <2>1 DEF Gone, O!Committed, O!CommitScn, O!Redo, RowKept, Shown, O!RowAsOf, Unseen, Owed, LastOf, RowsOf,
                IsRow, TakenAt
  <2>4. DeliveryKept' /\ OracleTypes'
    BY <2>1, <2>2, <2>3 DEF OracleKept, DeliveryKept, OracleTypes, None
  <2>5. OracleRestarts' /\ OracleReads'
    BY <2>1, <2>2, <2>3 DEF OracleKept, OracleRestarts, OracleReads
  <2>6. OracleSnapshot' /\ OracleStreams'
    BY <2>1, <2>2, <2>3 DEF OracleKept, OracleSnapshot, OracleStreams
  <2> QED
    BY <2>4, <2>5, <2>6 DEF OracleKept
<1> QED
  BY <1>0, <1>1, <1>2, <1>3, <1>4 DEF Next, Source, Delivering

LEMMA OracleBegins ==
    ASSUME Init, setup.connector = "oracle", SoundRedo(setup)
    PROVE  OracleKept
<1>1. /\ phase = "down" /\ flight = <<>> /\ view = [key \in Keys |-> 0] /\ taken = {}
      /\ ckpt.pos = None /\ ckpt.snap = FALSE
      /\ written \in 0 .. setup.early /\ cursor = 0 /\ anchor = 0 /\ batch = {} /\ missed = {}
  BY DEF Init, DeliveryInit, O!OracleInit
<1>2. Len(flight) = 0 /\ Cuts = {0} /\ Sequence(flight)
  BY <1>1, Nothing DEF Cuts
<1>3. DeliveryKept
  BY <1>1, <1>2 DEF DeliveryKept, SoundRedo
<1>4. PosAt(0) = None /\ ~GoesOn(0) /\ TakenAt(0) = {}
  BY <1>1 DEF PosAt, GoesOn, TakenAt
<1>5. OracleTypes
  BY <1>1, <1>2, <1>4 DEF OracleTypes, SoundRedo
<1>6. OracleRestarts
  <2>1. \A n \in Cuts : \A m \in 0 .. n : m = 0
    BY <1>2
  <2> QED
    BY <1>4, <2>1 DEF OracleRestarts
<1> QED
  BY <1>1, <1>3, <1>5, <1>6 DEF OracleKept, OracleReads, OracleSnapshot, OracleStreams

LEMMA OracleArrives ==
    ASSUME OracleKept, O!OracleIdle, NEW key \in Keys, O!OracleSeen(key)
    PROVE  view[key] = O!RowAsOf(key, written) \/ O!OutOfSight(key)
<1>1. phase = "streaming" /\ O!Beyond = {} /\ \A n \in DOMAIN flight : flight[n].key = 0
  BY DEF O!OracleIdle, O!NoRows, O!NoKey
<1>2. key # 0 /\ DOMAIN flight = 1 .. Len(flight)
  BY DEF OracleKept, DeliveryKept, Keys, Sequence
<1>3. PICK c, a : c = cursor /\ a = Len(flight)
  OBVIOUS
<1>4. RowKept(key, c, a)
  BY <1>1, <1>3 DEF OracleKept, OracleReads, OracleStreams
<1>5. Shown(key, a) = view[key]
  BY <1>1, <1>2, <1>3 DEF Shown
<1>6. ~(LastOf(key, written) > c)
  <2> SUFFICES ASSUME LastOf(key, written) > c PROVE FALSE
    OBVIOUS
  <2>1. written \in Nat /\ c \in Nat
    BY <1>3 DEF OracleKept, OracleTypes
  <2>2. LastOf(key, written) \in RowsOf(key, written)
    BY <2>1, LastIs
  <2>3. LastOf(key, written) \in O!Beyond
    BY <1>3, <2>2 DEF O!Beyond, RowsOf
  <2> QED
    BY <1>1, <2>3
<1>7. ~Owed(key, a)
  <2>1. taken \subseteq TakenAt(a)
    BY DEF TakenAt
  <2> QED
    BY <2>1 DEF Owed, IsRow, O!OracleSeen
<1> QED
  BY <1>4, <1>5, <1>6, <1>7, UnseenIs DEF RowKept

-----------------------------------------------------------------------------
(* The oplog of MongoDB.                                                    *)

\* The last of the first n operations that says what the document with the key is.
LastAt(key, n) == Max({0} \cup {i \in 1 .. n : D!Writes(i, key)})

LEMMA LastAtIs ==
    ASSUME NEW key, NEW n \in Nat
    PROVE  /\ LastAt(key, n) \in 0 .. n
           /\ LastAt(key, n) # 0 => D!Writes(LastAt(key, n), key)
           /\ \A i \in 1 .. n : D!Writes(i, key) => i <= LastAt(key, n)
           /\ D!Document(key, n) = IF LastAt(key, n) = 0 THEN setup.rows[key] ELSE D!Ops[LastAt(key, n)].val
<1> DEFINE W == {i \in 1 .. n : D!Writes(i, key)}
           l == Max({0} \cup W)
<1>1. W \subseteq 1 .. n
  OBVIOUS
<1>2. l \in {0} \cup W /\ \A i \in {0} \cup W : i <= l
  <2>1. {0} \cup W \subseteq Nat /\ \A i \in {0} \cup W : i <= n
    OBVIOUS
  <2> HIDE DEF W
  <2> QED
    BY <2>1, Largest
<1>3. W # {} => Max(W) = l /\ l # 0
  <2> SUFFICES ASSUME W # {} PROVE Max(W) = l /\ l # 0
    OBVIOUS
  <2>1. l # 0
    <3>1. PICK i \in W : TRUE
      OBVIOUS
    <3>2. i \in Nat /\ i # 0
      BY <1>1
    <3>3. i <= l
      BY <1>2
    <3> HIDE DEF l
    <3> QED
      BY <3>2, <3>3
  <2>2. l \in W /\ \A i \in W : i <= l
    BY <1>2, <2>1
  <2>3. W \subseteq Nat
    BY <1>1
  <2> HIDE DEF W, l
  <2> QED
    BY <2>1, <2>2, <2>3, LargestIs
<1>4. D!Document(key, n) = IF W = {} THEN setup.rows[key] ELSE D!Ops[Max(W)].val
  <2>1. D!Max(W) = Max(W)
    BY DEF D!Max, Max
  <2> QED
    BY <2>1 DEF D!Document
<1>5. LastAt(key, n) = l
  BY DEF LastAt
<1>6. W = {} => l = 0
  BY <1>2
<1>7. l \in 0 .. n /\ (l # 0 => l \in W) /\ \A i \in W : i <= l
  BY <1>1, <1>2
<1>8. \A i \in 1 .. n : D!Writes(i, key) => i \in W
  OBVIOUS
<1>9. l # 0 => D!Writes(l, key)
  <2>1. \A i \in W : D!Writes(i, key)
    OBVIOUS
  <2> HIDE DEF W, l
  <2> QED
    BY <1>7, <2>1
<1> HIDE DEF W, l
<1> QED
  BY <1>3, <1>4, <1>5, <1>6, <1>7, <1>8, <1>9

LEMMA LastWriteIs ==
    ASSUME NEW key
    PROVE  D!LastWrite(key) = LastAt(key, written)
  BY DEF D!LastWrite, LastAt, D!Max, Max

\* One more operation says what the document is, or the document is as before.
LEMMA OneMore ==
    ASSUME NEW key, NEW n \in Nat
    PROVE  \/ LastAt(key, n + 1) = n + 1
           \/ LastAt(key, n + 1) = LastAt(key, n) /\ D!Document(key, n + 1) = D!Document(key, n)
<1>1. CASE D!Writes(n + 1, key)
  <2>1. n + 1 <= LastAt(key, n + 1) /\ LastAt(key, n + 1) \in 0 .. n + 1
    BY <1>1, LastAtIs
  <2> QED
    BY <2>1
<1>2. CASE ~D!Writes(n + 1, key)
  <2>1. {i \in 1 .. n + 1 : D!Writes(i, key)} = {i \in 1 .. n : D!Writes(i, key)}
    BY <1>2
  <2>2. LastAt(key, n + 1) = LastAt(key, n) /\ D!Document(key, n + 1) = D!Document(key, n)
    BY <2>1 DEF LastAt, D!Document
  <2> QED
    BY <2>2
<1> QED
  BY <1>1, <1>2

-----------------------------------------------------------------------------
(* The inductive invariant of MongoDB and the runtime behind it.            *)

Operations == [op : {"set", "delete", "drop", "filtered", "invalidate"}, key : Nat, val : Nat, update : BOOLEAN]

\* The oplog begins with the documents there are; a drop leaves none.
SoundOps(s) ==
    /\ s.rows \in Seq(Nat) /\ s.ops \in Seq(Operations) /\ s.early \in 0 .. Len(s.ops)
    /\ \A i \in 1 .. Len(s.ops) : s.ops[i].op = "drop" => s.ops[i].val = 0

\* The operation after which a stream opened at the position begins.
From(pos) == IF pos.at[3] = 1 THEN pos.at[1] ELSE IF pos.at[1] = 0 THEN 0 ELSE pos.at[1] - 1

\* The key is out of sight.
Hidden(key) ==
    /\ D!Document(key, written) = 0 \/ setup.mode = "never"
    /\ LastAt(key, written) <= anchor \/ D!Ops[LastAt(key, written)].op = "drop"

\* The sink has the document as it is, or is to see a later one from operation t on.
DocumentKept(key, t, n) ==
    \/ Shown(key, n) = D!Document(key, written)
    \/ Hidden(key)
    \/ LastAt(key, written) > t

MongoTypes ==
    /\ setup.connector = "mongodb" /\ SoundOps(setup)
    /\ written \in Nat /\ written <= Len(setup.ops) /\ cursor \in 0 .. written /\ anchor \in 0 .. written
    /\ \A n \in Cuts : PosAt(n) # None => PosAt(n).at[1] \in Nat /\ From(PosAt(n)) \in 0 .. written

\* From whatever checkpoint a start finds, it sends what the sink has not seen.
MongoRestarts ==
    \A n \in Cuts : \A m \in 0 .. n : GoesOn(m) =>
        \A key \in Keys : DocumentKept(key, From(PosAt(m)), n)

\* The connector reads on from its cursor.
MongoReads ==
    phase \in {"snapshot", "streaming"} =>
        /\ last # None /\ last.at[1] \in Nat /\ From(last) \in 0 .. written
        /\ \A n \in Cuts : GoesOn(n) => From(PosAt(n)) <= cursor
        /\ \A key \in Keys \ todo : DocumentKept(key, cursor, Len(flight))

MongoSnapshot ==
    phase = "snapshot" => ~SnapAt(Len(flight)) /\ setup.mode # "never" /\ cursor <= anchor

MongoStreams ==
    phase = "streaming" =>
        /\ setup.mode = "never" \/ SnapAt(Len(flight))
        /\ todo = {} /\ From(last) <= cursor

MongoKept ==
    DeliveryKept /\ MongoTypes /\ MongoRestarts /\ MongoReads /\ MongoSnapshot /\ MongoStreams

-----------------------------------------------------------------------------
(* The steps of MongoDB.                                                    *)

LEMMA MongoPositionIs ==
    ASSUME NEW a, NEW b, NEW c, NEW x, NEW y, NEW z
    PROVE  /\ D!Position(<<a, b, c>>, <<x, y, z>>) # None
           /\ D!Position(<<a, b, c>>, <<x, y, z>>).at[1] = x
           /\ D!Position(<<a, b, c>>, <<x, y, z>>).at[3] = z
<1>1. <<a, b, c>> # <<>> /\ <<x, y, z>>[1] = x /\ <<x, y, z>>[3] = z
  OBVIOUS
<1>2. D!Position(<<a, b, c>>, <<x, y, z>>).sort = <<a, b, c>> /\ D!Position(<<a, b, c>>, <<x, y, z>>).at = <<x, y, z>>
  BY DEF D!Position
<1>3. None.sort = <<>>
  BY DEF None, Position
<1> QED
  BY <1>1, <1>2, <1>3

LEMMA MongoWords ==
    /\ D!None = None /\ D!Keys = Keys /\ D!NoKey = 0
    /\ \A pos, key, val, id :
        LET r == D!Item(pos, key, val, id)
        IN  r.pos = pos /\ r.key = key /\ r.val = val /\ r.id = id /\ r.snapshotEnd = FALSE
    /\ \A pos :
        LET r == D!SnapshotMark(pos)
        IN  r.pos = pos /\ r.key = 0 /\ r.id = 0 /\ r.snapshotEnd = TRUE
  BY DEF D!None, None, D!Keys, Keys, D!NoKey, D!Position, Position, D!Item, D!Mark, D!SnapshotMark

LEMMA OpsStay ==
    ASSUME setup' = setup
    PROVE  /\ Keys' = Keys /\ D!Ops' = D!Ops
           /\ \A key, n : LastAt(key, n)' = LastAt(key, n) /\ D!Document(key, n)' = D!Document(key, n)
  BY DEF Keys, D!Ops, D!Writes, LastAt, D!Document

LEMMA HiddenIs ==
    ASSUME NEW key
    PROVE  D!OutOfSight(key) <=> Hidden(key)
  BY LastWriteIs DEF D!OutOfSight, Hidden

\* What is to be seen from t on is to be seen from an earlier operation on.
LEMMA Sooner ==
    ASSUME NEW key, NEW n, NEW t \in Nat, NEW u \in Nat, u <= t, DocumentKept(key, t, n), written \in Nat
    PROVE  DocumentKept(key, u, n)
<1>1. LastAt(key, written) \in Nat
  BY LastAtIs
<1> QED
  BY <1>1 DEF DocumentKept

\* The database is as before, and the anchor may be later.
LEMMA MongoSame ==
    ASSUME UNCHANGED <<setup, written>>, written \in Nat, \A l \in Nat : l <= anchor => l <= anchor'
    PROVE  \A key, t, n, m :
                Shown(key, m)' = Shown(key, n) /\ DocumentKept(key, t, n) => DocumentKept(key, t, m)'
<1> SUFFICES ASSUME NEW key, NEW t, NEW n, NEW m, Shown(key, m)' = Shown(key, n), DocumentKept(key, t, n)
             PROVE  DocumentKept(key, t, m)'
  OBVIOUS
<1>1. /\ D!Document(key, written)' = D!Document(key, written) /\ LastAt(key, written)' = LastAt(key, written)
      /\ D!Ops' = D!Ops /\ LastAt(key, written) \in Nat
  BY OpsStay, LastAtIs
<1>2. Hidden(key) => Hidden(key)'
  BY <1>1 DEF Hidden
<1> QED
  BY <1>1, <1>2 DEF DocumentKept

LEMMA MongoFlush ==
    ASSUME MongoKept, Flush, UNCHANGED <<written, cursor, anchor, todo, last>>
    PROVE  MongoKept'
<1> USE DEF MongoKept
<1>1. PICK n \in 1 .. Len(flight) : FlushOf(n)
  BY FlushIs
<1>2. UNCHANGED <<setup, phase, written, cursor, anchor, todo, last>>
  BY <1>1 DEF FlushOf
<1>3. /\ Keys' = Keys /\ DeliveryKept' /\ Len(flight)' = Len(flight) - n
      /\ \A m \in Cuts' :
            /\ n + m \in Cuts
            /\ PosAt(m)' = PosAt(n + m) /\ SnapAt(m)' = SnapAt(n + m) /\ GoesOn(m)' = GoesOn(n + m)
            /\ TakenAt(m)' = TakenAt(n + m) /\ \A key \in Keys : Shown(key, m)' = Shown(key, n + m)
      /\ SnapAt(Len(flight))' = SnapAt(Len(flight)) /\ TakenAt(Len(flight))' = TakenAt(Len(flight))
      /\ \A key \in Keys : Shown(key, Len(flight))' = Shown(key, Len(flight))
  BY <1>1, FlushFacts
<1>4. \A key, t, k, m : Shown(key, m)' = Shown(key, k) /\ DocumentKept(key, t, k) => DocumentKept(key, t, m)'
  BY <1>2, MongoSame DEF MongoTypes
<1>5. MongoTypes'
  BY <1>2, <1>3 DEF MongoTypes, None
<1>6. MongoRestarts'
  <2> SUFFICES ASSUME NEW k \in Cuts', NEW m \in 0 .. k, GoesOn(m)'
               PROVE  \A key \in Keys : DocumentKept(key, From(PosAt(m)), k)'
    BY <1>3 DEF MongoRestarts
  <2>1. k \in Nat /\ m \in Cuts' /\ n \in Nat /\ m \in Nat
    BY <1>1 DEF Cuts, DeliveryKept, Sequence
  <2>2. n + k \in Cuts /\ n + m \in 0 .. n + k /\ GoesOn(n + m) /\ PosAt(m)' = PosAt(n + m)
    BY <1>3, <2>1
  <2>3. PICK t : t = From(PosAt(n + m))
    OBVIOUS
  <2>4. \A key \in Keys : DocumentKept(key, t, n + k)
    BY <2>2, <2>3 DEF MongoRestarts
  <2>5. \A key \in Keys : DocumentKept(key, t, k)'
    BY <1>3, <1>4, <2>4
  <2> QED
    BY <2>2, <2>3, <2>5
<1>7. MongoReads'
  <2> SUFFICES ASSUME phase \in {"snapshot", "streaming"}
               PROVE  /\ \A m \in Cuts' : GoesOn(m)' => From(PosAt(m)') <= cursor
                      /\ \A key \in Keys \ todo : DocumentKept(key, cursor, Len(flight))'
    BY <1>2, <1>3 DEF MongoReads, None
  <2>1. \A m \in Cuts' : GoesOn(m)' => From(PosAt(m)') <= cursor
    BY <1>3 DEF MongoReads
  <2>2. PICK c, a, b : c = cursor /\ a = Len(flight) /\ b = Len(flight)'
    OBVIOUS
  <2>3. ASSUME NEW key \in Keys \ todo PROVE DocumentKept(key, c, b)'
    <3>1. DocumentKept(key, c, a) /\ Shown(key, b)' = Shown(key, a)
      BY <1>3, <2>2 DEF MongoReads
    <3> QED
      BY <1>4, <3>1
  <2> QED
    BY <1>2, <2>1, <2>2, <2>3
<1>8. MongoSnapshot' /\ MongoStreams'
  BY <1>2, <1>3 DEF MongoSnapshot, MongoStreams
<1> QED
  BY <1>3, <1>5, <1>6, <1>7, <1>8

LEMMA MongoEnds ==
    ASSUME MongoKept, Backwards \/ Restart \/ Crash, UNCHANGED <<written, cursor, anchor, todo, last>>
    PROVE  MongoKept'
<1> USE DEF MongoKept
<1>1. PICK n \in Cuts : EndAfter(n)
  BY EndIs
<1>2. UNCHANGED <<setup, written, cursor, anchor, todo, last>> /\ phase' = "down"
  BY <1>1 DEF EndAfter
<1>3. /\ Keys' = Keys /\ DeliveryKept' /\ Cuts' = {0} /\ Len(flight)' = 0
      /\ PosAt(0)' = PosAt(0) /\ SnapAt(0)' = SnapAt(0) /\ GoesOn(0)' = GoesOn(0)
      /\ TakenAt(0)' = TakenAt(n) /\ \A key \in Keys : Shown(key, 0)' = Shown(key, n)
  BY <1>1, EndFacts
<1>4. \A key, t, k, m : Shown(key, m)' = Shown(key, k) /\ DocumentKept(key, t, k) => DocumentKept(key, t, m)'
  BY <1>2, MongoSame DEF MongoTypes
<1>5. 0 \in 0 .. n /\ n \in Cuts /\ 0 \in Cuts
  BY DEF Cuts, DeliveryKept, Sequence
<1>6. MongoTypes'
  BY <1>2, <1>3, <1>5 DEF MongoTypes, None
<1>7. MongoRestarts'
  <2> SUFFICES ASSUME GoesOn(0)
               PROVE  \A key \in Keys : DocumentKept(key, From(PosAt(0)), 0)'
    BY <1>3 DEF MongoRestarts
  <2>1. PICK t : t = From(PosAt(0))
    OBVIOUS
  <2>2. \A key \in Keys : DocumentKept(key, t, n)
    BY <1>5, <2>1 DEF MongoRestarts
  <2>3. \A key \in Keys : DocumentKept(key, t, 0)'
    BY <1>3, <1>4, <2>2
  <2> QED
    BY <1>3, <2>1, <2>3
<1> QED
  BY <1>2, <1>3, <1>6, <1>7 DEF MongoReads, MongoSnapshot, MongoStreams

\* Nothing is sent, and the anchor may be later.
LEMMA MongoStay ==
    ASSUME MongoKept, UNCHANGED <<setup, flight, view, taken, ckpt, written>>, cursor' \in 0 .. written,
           anchor' \in 0 .. written, \A l \in Nat : l <= anchor => l <= anchor'
    PROVE  /\ MongoTypes' /\ MongoRestarts' /\ (phase' \in {"snapshot", "streaming", "failed"} => DeliveryKept')
           /\ Keys' = Keys /\ Cuts' = Cuts /\ Len(flight)' = Len(flight)
           /\ \A n : /\ PosAt(n)' = PosAt(n) /\ SnapAt(n)' = SnapAt(n) /\ GoesOn(n)' = GoesOn(n)
                     /\ \A key : Shown(key, n)' = Shown(key, n)
           /\ \A key, t, n : DocumentKept(key, t, n) => DocumentKept(key, t, n)'
<1> USE DEF MongoKept
<1>1. /\ Keys' = Keys /\ Cuts' = Cuts /\ Len(flight)' = Len(flight)
      /\ \A n : /\ PosAt(n)' = PosAt(n) /\ SnapAt(n)' = SnapAt(n) /\ GoesOn(n)' = GoesOn(n)
                /\ \A key : Shown(key, n)' = Shown(key, n)
  BY StayFacts
<1>2. \A key, t, n : DocumentKept(key, t, n) => DocumentKept(key, t, n)'
  BY <1>1, MongoSame DEF MongoTypes
<1>3. MongoTypes'
  BY <1>1 DEF MongoTypes, None
<1>4. MongoRestarts'
  <2> SUFFICES ASSUME NEW n \in Cuts, NEW m \in 0 .. n, GoesOn(m)
               PROVE  \A key \in Keys : DocumentKept(key, From(PosAt(m)), n)'
    BY <1>1 DEF MongoRestarts
  <2>1. PICK t : t = From(PosAt(m))
    OBVIOUS
  <2>2. \A key \in Keys : DocumentKept(key, t, n)'
    BY <1>2, <2>1 DEF MongoRestarts
  <2> QED
    BY <1>1, <2>1, <2>2
<1>5. phase' \in {"snapshot", "streaming", "failed"} => DeliveryKept'
  BY <1>1 DEF DeliveryKept, None
<1> QED
  BY <1>1, <1>2, <1>3, <1>4, <1>5

LEMMA MongoFails ==
    ASSUME MongoKept, D!StreamFails
    PROVE  MongoKept'
<1>1. UNCHANGED <<setup, flight, view, taken, ckpt, written, cursor, anchor, todo, last>> /\ phase' = "failed"
  BY DEF D!StreamFails, D!runtime, D!mongo
<1>2. MongoTypes' /\ MongoRestarts' /\ DeliveryKept'
  BY <1>1, MongoStay DEF MongoKept, MongoTypes
<1> QED
  BY <1>1, <1>2 DEF MongoKept, MongoReads, MongoSnapshot, MongoStreams

LEMMA MongoWrites ==
    ASSUME MongoKept, D!Apply
    PROVE  MongoKept'
<1> USE DEF MongoKept
<1>1. PICK W : W = written'
  OBVIOUS
<1>2. /\ W = written + 1 /\ written \in Nat /\ W \in Nat /\ W <= Len(setup.ops) /\ cursor \in 0 .. W
      /\ anchor \in 0 .. W
      /\ UNCHANGED <<setup, phase, flight, view, taken, ckpt, cursor, anchor, todo, last>>
  <2>1. Len(setup.ops) \in Nat
    BY DEF MongoTypes, SoundOps
  <2> QED
    BY <1>1, <2>1 DEF D!Apply, D!runtime, D!Ops, MongoTypes
<1>3. /\ Keys' = Keys /\ Cuts' = Cuts /\ Len(flight)' = Len(flight)
      /\ \A n : /\ PosAt(n)' = PosAt(n) /\ SnapAt(n)' = SnapAt(n) /\ GoesOn(n)' = GoesOn(n)
                /\ \A key : Shown(key, n)' = Shown(key, n)
  BY <1>2, StayFacts
<1>4. ASSUME NEW key \in Keys, NEW t \in 0 .. written, NEW n, DocumentKept(key, t, n)
      PROVE  DocumentKept(key, t, n)'
  <2>1. /\ D!Document(key, written)' = D!Document(key, W) /\ LastAt(key, written)' = LastAt(key, W)
        /\ D!Ops' = D!Ops
    BY <1>1, <1>2, OpsStay
  <2>2. CASE LastAt(key, W) = W
    BY <1>2, <2>1, <2>2 DEF DocumentKept
  <2>3. CASE LastAt(key, W) = LastAt(key, written) /\ D!Document(key, W) = D!Document(key, written)
    <3>1. Hidden(key) => Hidden(key)'
      BY <1>2, <2>1, <2>3 DEF Hidden
    <3> QED
      BY <1>3, <1>4, <2>1, <2>3, <3>1 DEF DocumentKept
  <2> QED
    BY <1>2, <2>2, <2>3, OneMore
<1>5. DeliveryKept'
  BY <1>2, <1>3 DEF DeliveryKept, None
<1>6. MongoTypes'
  <2>1. \A n \in Cuts' : PosAt(n)' # None => PosAt(n)'.at[1] \in Nat /\ From(PosAt(n)') \in 0 .. W
    BY <1>2, <1>3 DEF MongoTypes
  <2> QED
    BY <1>1, <1>2, <1>3, <2>1 DEF MongoTypes, None
<1>7. MongoRestarts'
  <2> SUFFICES ASSUME NEW n \in Cuts, NEW m \in 0 .. n, GoesOn(m)
               PROVE  \A key \in Keys : DocumentKept(key, From(PosAt(m)), n)'
    BY <1>3 DEF MongoRestarts
  <2>1. PICK t : t = From(PosAt(m))
    OBVIOUS
  <2>2. t \in 0 .. written
    <3>1. m \in Cuts /\ PosAt(m) # None
      BY DEF Cuts, GoesOn, DeliveryKept, Sequence
    <3> QED
      BY <2>1, <3>1 DEF MongoTypes
  <2>3. \A key \in Keys : DocumentKept(key, t, n)'
    BY <1>4, <2>1, <2>2 DEF MongoRestarts
  <2> QED
    BY <1>3, <2>1, <2>3
<1>8. MongoReads'
  <2> SUFFICES ASSUME phase \in {"snapshot", "streaming"}
               PROVE  /\ last # None /\ last.at[1] \in Nat /\ From(last) \in 0 .. W
                      /\ \A n \in Cuts' : GoesOn(n)' => From(PosAt(n)') <= cursor
                      /\ \A key \in Keys \ todo : DocumentKept(key, cursor, Len(flight))'
    BY <1>1, <1>2, <1>3 DEF MongoReads, None
  <2>1. PICK c, a : c = cursor /\ a = Len(flight)
    OBVIOUS
  <2>2. \A key \in Keys \ todo : DocumentKept(key, c, a)'
    BY <1>4, <2>1 DEF MongoReads, MongoTypes
  <2>3. last # None /\ last.at[1] \in Nat /\ From(last) \in 0 .. W
    BY <1>2 DEF MongoReads
  <2>4. \A n \in Cuts' : GoesOn(n)' => From(PosAt(n)') <= cursor
    BY <1>3 DEF MongoReads
  <2> QED
    BY <1>2, <1>3, <2>1, <2>2, <2>3, <2>4
<1>9. MongoSnapshot' /\ MongoStreams'
  BY <1>2, <1>3 DEF MongoSnapshot, MongoStreams
<1> QED
  BY <1>5, <1>6, <1>7, <1>8, <1>9

\* Where a stream without a checkpoint begins.
LEMMA BeforeIs ==
    ASSUME NEW x \in Nat
    PROVE  D!Max({0, x - 1}) = IF x = 0 THEN 0 ELSE x - 1
<1>1. CASE x = 0
  <2>1. {0, x - 1} = {0, -1}
    BY <1>1
  <2>2. \E y \in {0, -1} : \A z \in {0, -1} : y >= z
    OBVIOUS
  <2>3. D!Max({0, -1}) = 0
    BY <2>2 DEF D!Max
  <2> QED
    BY <1>1, <2>1, <2>3
<1>2. CASE x # 0
  <2>1. x - 1 \in Nat
    BY <1>2
  <2>2. Max({0, x - 1}) = x - 1
    <3>1. {0, x - 1} \subseteq Nat /\ x - 1 \in {0, x - 1} /\ \A i \in {0, x - 1} : i <= x - 1
      BY <2>1
    <3> QED
      BY <3>1, LargestIs
  <2> QED
    BY <1>2, <2>2 DEF D!Max, Max
<1> QED
  BY <1>1, <1>2

LEMMA MongoStarts ==
    ASSUME MongoKept, D!Start
    PROVE  MongoKept'
<1> USE DEF MongoKept
<1> DEFINE fresh == ckpt.pos = None
           snapshot == setup.mode # "never" /\ ~ckpt.snap
           p == D!Position(<<written, 1, 0>>, <<written, 0, 0>>)
<1>1. /\ phase = "down" /\ phase' = IF snapshot THEN "snapshot" ELSE "streaming"
      /\ todo' = IF snapshot THEN Keys ELSE {}
      /\ anchor' = IF snapshot \/ fresh THEN written ELSE anchor
      /\ last' = IF fresh THEN p ELSE ckpt.pos
      /\ UNCHANGED <<setup, flight, view, taken, ckpt, written>>
  BY MongoWords DEF D!Start, D!runtime, D!MongoPosition
<1>2. written \in Nat /\ anchor \in 0 .. written /\ anchor' \in 0 .. written /\ \A l \in Nat : l <= anchor => l <= anchor'
  BY <1>1 DEF MongoTypes
<1>3. flight = <<>> /\ Len(flight) = 0 /\ Cuts = {0} /\ PosAt(0) = ckpt.pos
  BY <1>1, Nothing DEF DeliveryKept, Cuts, PosAt
<1>4. cursor' = IF fresh THEN (IF written = 0 THEN 0 ELSE written - 1) ELSE From(ckpt.pos)
  <2>1. cursor' = D!OpenAfter(written)
    BY DEF D!Start
  <2>2. CASE fresh
    BY <1>2, <2>1, <2>2, BeforeIs, MongoWords DEF D!OpenAfter
  <2>3. CASE ~fresh
    <3>1. ckpt.pos.at[1] \in Nat
      BY <1>3, <2>3 DEF MongoTypes
    <3>2. CASE ckpt.pos.at[3] = 1
      BY <2>1, <2>3, <3>2, MongoWords DEF D!OpenAfter, From
    <3>3. CASE ckpt.pos.at[3] # 1
      <4>1. PICK x : x = ckpt.pos.at[1]
        OBVIOUS
      <4>2. x \in Nat
        BY <3>1, <4>1
      <4> QED
        BY <2>1, <2>3, <3>3, <4>1, <4>2, BeforeIs, MongoWords DEF D!OpenAfter, From
    <3> QED
      BY <3>2, <3>3
  <2> QED
    BY <2>2, <2>3
<1>5. cursor' \in 0 .. written
  BY <1>2, <1>3, <1>4 DEF MongoTypes
<1>6. last' # None /\ last'.at[1] \in Nat /\ From(last') = cursor'
  <2>1. p # None /\ p.at[1] = written /\ p.at[3] = 0
    BY MongoPositionIs
  <2>2. ~fresh => ckpt.pos.at[1] \in Nat
    BY <1>3 DEF MongoTypes
  <2> QED
    BY <1>1, <1>2, <1>4, <2>1, <2>2 DEF From
<1>7. /\ MongoTypes' /\ MongoRestarts' /\ DeliveryKept'
      /\ Keys' = Keys /\ Cuts' = Cuts /\ Len(flight)' = Len(flight)
      /\ \A n : /\ PosAt(n)' = PosAt(n) /\ SnapAt(n)' = SnapAt(n) /\ GoesOn(n)' = GoesOn(n)
                /\ \A key : Shown(key, n)' = Shown(key, n)
      /\ \A key, t, n : DocumentKept(key, t, n) => DocumentKept(key, t, n)'
  BY <1>1, <1>2, <1>5, MongoStay
<1>8. GoesOn(0) <=> ~fresh /\ ~snapshot
  <2>1. SnapAt(0) <=> ckpt.snap
    BY DEF SnapAt
  <2> QED
    BY <1>3, <2>1 DEF GoesOn, DeliveryKept
<1>9. MongoReads'
  <2>1. \A n \in Cuts' : GoesOn(n)' => From(PosAt(n)') <= cursor'
    BY <1>2, <1>3, <1>4, <1>5, <1>7, <1>8
  <2>2. ASSUME NEW key \in Keys \ todo' PROVE DocumentKept(key, cursor, 0)'
    <3>1. LastAt(key, written)' = LastAt(key, written) /\ LastAt(key, written) \in 0 .. written
          /\ D!Document(key, written)' = D!Document(key, written)
      BY <1>1, <1>2, OpsStay, LastAtIs
    <3>2. ~snapshot
      BY <1>1, <2>2
    <3>3. CASE fresh
      <4>1. setup.mode = "never" /\ anchor' = written
        BY <1>1, <3>2, <3>3 DEF DeliveryKept
      <4> QED
        BY <1>1, <1>2, <3>1, <4>1 DEF DocumentKept, Hidden
    <3>4. CASE ~fresh
      <4>1. PICK t : t = From(ckpt.pos)
        OBVIOUS
      <4>2. DocumentKept(key, t, 0)
        BY <1>3, <1>8, <2>2, <3>2, <3>4, <4>1 DEF MongoRestarts
      <4>3. DocumentKept(key, t, 0)' /\ cursor' = t
        BY <1>4, <1>7, <3>4, <4>1, <4>2
      <4> QED
        BY <4>3 DEF DocumentKept
    <3> QED
      BY <3>3, <3>4
  <2>3. \A key \in Keys \ todo' : DocumentKept(key, cursor, Len(flight))'
    BY <1>3, <1>7, <2>2
  <2>4. last' # None /\ last'.at[1] \in Nat /\ From(last') \in 0 .. written'
    BY <1>1, <1>5, <1>6
  <2> QED
    BY <1>7, <2>1, <2>3, <2>4 DEF MongoReads, None
<1>10. MongoSnapshot'
  <2>1. ASSUME snapshot PROVE ~SnapAt(0) /\ cursor' <= anchor'
    BY <1>1, <1>2, <1>5, <2>1 DEF SnapAt
  <2>2. ~snapshot => phase' # "snapshot"
    BY <1>1
  <2>3. Len(flight)' = 0 /\ SnapAt(0)' = SnapAt(0) /\ setup' = setup
    BY <1>1, <1>3, <1>7
  <2> QED
    BY <2>1, <2>2, <2>3 DEF MongoSnapshot
<1>11. MongoStreams'
  <2>1. ASSUME ~snapshot PROVE (setup.mode = "never" \/ SnapAt(0)) /\ todo' = {}
    BY <1>1, <2>1 DEF SnapAt
  <2>2. snapshot => phase' # "streaming"
    BY <1>1
  <2>3. Len(flight)' = 0 /\ SnapAt(0)' = SnapAt(0) /\ setup' = setup
    BY <1>1, <1>3, <1>7
  <2>4. From(last') <= cursor'
    BY <1>2, <1>5, <1>6
  <2> QED
    BY <2>1, <2>2, <2>3, <2>4 DEF MongoStreams
<1> QED
  BY <1>7, <1>9, <1>10, <1>11

\* A record r is sent while the connector reads.
MongoSend(r) ==
    /\ flight' = Append(flight, r) /\ phase \in {"snapshot", "streaming"}
    /\ UNCHANGED <<setup, view, taken, ckpt, written, anchor>>
    /\ r.pos # None /\ r.pos.at[1] \in Nat /\ From(r.pos) \in 0 .. written

LEMMA MongoSendFacts ==
    ASSUME MongoKept, NEW L, L = Len(flight), NEW r, MongoSend(r)
    PROVE  /\ Keys' = Keys /\ L \in Nat /\ L \in Cuts /\ Sequence(flight)' /\ Len(flight)' = L + 1
           /\ Cuts = 0 .. L /\ Cuts' = 0 .. L + 1
           /\ \A n \in 1 .. L : flight'[n] = flight[n]
           /\ flight'[L + 1] = r
           /\ \A n \in Cuts : /\ PosAt(n)' = PosAt(n) /\ SnapAt(n)' = SnapAt(n) /\ GoesOn(n)' = GoesOn(n)
                              /\ \A key : Shown(key, n)' = Shown(key, n)
           /\ PosAt(L + 1)' = r.pos
           /\ SnapAt(L + 1)' = (SnapAt(L) \/ r.snapshotEnd)
           /\ \A key : Shown(key, L + 1)' = IF r.key = key THEN r.val ELSE Shown(key, L)
           /\ \A key, t, n, m : Shown(key, m)' = Shown(key, n) /\ DocumentKept(key, t, n) => DocumentKept(key, t, m)'
<1>1. flight' = Append(flight, r) /\ UNCHANGED <<setup, view, ckpt, taken>> /\ Sequence(flight)
  BY DEF MongoSend, MongoKept, DeliveryKept
<1>2. /\ Keys' = Keys /\ L \in Nat /\ Sequence(flight)' /\ Len(flight)' = L + 1
      /\ \A n \in 1 .. L : flight'[n] = flight[n]
      /\ flight'[L + 1] = r
      /\ \A n \in Cuts : /\ PosAt(n)' = PosAt(n) /\ SnapAt(n)' = SnapAt(n) /\ GoesOn(n)' = GoesOn(n)
                         /\ TakenAt(n)' = TakenAt(n) /\ \A key : Shown(key, n)' = Shown(key, n)
      /\ PosAt(L + 1)' = r.pos
      /\ SnapAt(L + 1)' = (SnapAt(L) \/ r.snapshotEnd)
      /\ TakenAt(L + 1)' = TakenAt(L) \cup ({r.id} \ {0})
      /\ \A key : Shown(key, L + 1)' = IF r.key = key THEN r.val ELSE Shown(key, L)
  BY <1>1, SendFacts
<1>3. \A key, t, n, m : Shown(key, m)' = Shown(key, n) /\ DocumentKept(key, t, n) => DocumentKept(key, t, m)'
  BY MongoSame DEF MongoSend, MongoKept, MongoTypes
<1> QED
  BY <1>2, <1>3 DEF Cuts

LEMMA MongoSent ==
    ASSUME MongoKept, NEW L, L = Len(flight), NEW r, MongoSend(r),
           phase' \in {"snapshot", "streaming"}, cursor' \in 0 .. written,
           \A m \in Cuts : GoesOn(m) => \A key \in Keys, t \in Nat : t = From(PosAt(m)) => DocumentKept(key, t, L + 1)',
           GoesOn(L + 1)' => \A key \in Keys, t \in Nat : t = From(r.pos) => DocumentKept(key, t, L + 1)'
    PROVE  DeliveryKept' /\ MongoTypes' /\ MongoRestarts'
<1> USE DEF MongoKept
<1>1. /\ Keys' = Keys /\ L \in Nat /\ Sequence(flight)' /\ Len(flight)' = L + 1
      /\ Cuts = 0 .. L /\ Cuts' = 0 .. L + 1
      /\ \A n \in 1 .. L : flight'[n] = flight[n]
      /\ flight'[L + 1] = r
      /\ \A n \in Cuts : /\ PosAt(n)' = PosAt(n) /\ GoesOn(n)' = GoesOn(n)
                         /\ \A key : Shown(key, n)' = Shown(key, n)
      /\ PosAt(L + 1)' = r.pos
      /\ \A key, t, n, m : Shown(key, m)' = Shown(key, n) /\ DocumentKept(key, t, n) => DocumentKept(key, t, m)'
  BY MongoSendFacts
<1>2. UNCHANGED <<setup, view, ckpt, written, anchor>> /\ r.pos # None /\ r.pos.at[1] \in Nat /\ From(r.pos) \in 0 .. written
  BY DEF MongoSend
<1>3. DeliveryKept'
  <2>1. \A n \in 1 .. L + 1 : n \in 1 .. L \/ n = L + 1
    BY <1>1
  <2>2. \A n \in 1 .. L + 1 : flight'[n].pos # None
    BY <1>1, <1>2, <2>1 DEF DeliveryKept
  <2> QED
    BY <1>1, <1>2, <2>2 DEF DeliveryKept, None
<1>4. MongoTypes'
  <2>1. \A n \in 0 .. L + 1 : PosAt(n)' # None => PosAt(n)'.at[1] \in Nat /\ From(PosAt(n)') \in 0 .. written
    <3>1. \A n \in 0 .. L + 1 : n \in Cuts \/ n = L + 1
      BY <1>1
    <3> QED
      BY <1>1, <1>2, <3>1 DEF MongoTypes
  <2> QED
    BY <1>1, <1>2, <2>1 DEF MongoTypes, None
<1>5. MongoRestarts'
  <2> SUFFICES ASSUME NEW n \in 0 .. L + 1, NEW m \in 0 .. n, GoesOn(m)'
               PROVE  \A key \in Keys : DocumentKept(key, From(PosAt(m)), n)'
    BY <1>1 DEF MongoRestarts
  <2>1. CASE m \in Cuts
    <3>1. PICK t : t = From(PosAt(m))
      OBVIOUS
    <3>2. GoesOn(m) /\ PosAt(m)' = PosAt(m)
      BY <1>1, <2>1
    <3>3. t \in Nat
      <4>1. t \in 0 .. written /\ written \in Nat
        BY <2>1, <3>1, <3>2 DEF MongoTypes, GoesOn
      <4> QED
        BY <4>1
    <3>4. \A key \in Keys : DocumentKept(key, t, n)'
      <4>1. CASE n \in Cuts
        <5>1. \A key \in Keys : DocumentKept(key, t, n)
          BY <3>1, <3>2, <4>1 DEF MongoRestarts
        <5> QED
          BY <1>1, <4>1, <5>1
      <4>2. CASE n = L + 1
        BY <2>1, <3>1, <3>2, <3>3, <4>2
      <4> QED
        BY <1>1, <4>1, <4>2
    <3> QED
      BY <3>1, <3>2, <3>4
  <2>2. CASE m = L + 1
    <3>1. n = L + 1 /\ PosAt(m)' = r.pos
      BY <1>1, <2>2
    <3>2. PICK t : t = From(r.pos)
      OBVIOUS
    <3>3. t \in Nat /\ \A key \in Keys : DocumentKept(key, t, L + 1)'
      BY <1>2, <2>2, <3>2 DEF MongoTypes
    <3> QED
      BY <3>1, <3>2, <3>3
  <2> QED
    BY <1>1, <2>1, <2>2
<1> QED
  BY <1>3, <1>4, <1>5

\* A record without a row changes nothing of what the sink has.
LEMMA MongoMarkSeen ==
    ASSUME MongoKept, NEW L, L = Len(flight), NEW r, MongoSend(r), r.key = 0
    PROVE  \A key \in Keys : \A t : DocumentKept(key, t, L) => DocumentKept(key, t, L + 1)'
<1>1. \A key \in Keys : key # 0
  BY DEF Keys, MongoKept, DeliveryKept
<1> QED
  BY <1>1, MongoSendFacts

\* What the sink is to have from the position of a record on.
LEMMA MongoRestartsFrom ==
    ASSUME MongoKept, NEW m \in Cuts, GoesOn(m), NEW key \in Keys, NEW t, t = From(PosAt(m))
    PROVE  t \in 0 .. written /\ DocumentKept(key, t, Len(flight)) /\ (phase \in {"snapshot", "streaming"} => t <= cursor)
<1>1. Len(flight) \in Cuts /\ m \in 0 .. Len(flight)
  BY DEF MongoKept, DeliveryKept, Sequence, Cuts
<1> QED
  BY <1>1 DEF MongoKept, MongoTypes, MongoRestarts, MongoReads, GoesOn

LEMMA MongoBeats ==
    ASSUME MongoKept, D!Heartbeat
    PROVE  MongoKept'
<1> USE DEF MongoKept
<1>1. PICK L, r : L = Len(flight) /\ r = D!Mark(last, FALSE)
  OBVIOUS
<1>2. /\ phase = "streaming" /\ flight' = Append(flight, r)
      /\ UNCHANGED <<setup, phase, view, taken, ckpt, written, cursor, anchor, todo, last>>
  BY <1>1 DEF D!Heartbeat, D!Send, D!mongo
<1>3. r.pos = last /\ r.key = 0
  BY <1>1 DEF D!Mark, D!Item, D!NoKey
<1>4. last # None /\ last.at[1] \in Nat /\ From(last) \in 0 .. written /\ From(last) <= cursor
  BY <1>2 DEF MongoReads, MongoStreams
<1>5. MongoSend(r)
  BY <1>2, <1>3, <1>4 DEF MongoSend
<1>6. \A key \in Keys : \A t : DocumentKept(key, t, L) => DocumentKept(key, t, L + 1)'
  BY <1>1, <1>3, <1>5, MongoMarkSeen
<1>7. /\ Keys' = Keys /\ L \in Nat /\ Len(flight)' = L + 1 /\ Cuts = 0 .. L /\ Cuts' = 0 .. L + 1
      /\ \A n \in Cuts : PosAt(n)' = PosAt(n) /\ GoesOn(n)' = GoesOn(n)
      /\ PosAt(L + 1)' = r.pos
      /\ SnapAt(L + 1)' = (SnapAt(L) \/ r.snapshotEnd)
  BY <1>1, <1>5, MongoSendFacts
<1>8. cursor \in Nat /\ written \in Nat /\ cursor \in 0 .. written
  BY DEF MongoTypes
<1>9. \A key \in Keys : DocumentKept(key, cursor, L)
  BY <1>1, <1>2 DEF MongoReads, MongoStreams
<1>10. \A key \in Keys : DocumentKept(key, From(last), L)
  BY <1>4, <1>8, <1>9, Sooner
<1>11. \A m \in Cuts : GoesOn(m) => \A key \in Keys, t \in Nat : t = From(PosAt(m)) => DocumentKept(key, t, L + 1)'
  BY <1>1, <1>6, MongoRestartsFrom
<1>12. \A key \in Keys, t \in Nat : t = From(r.pos) => DocumentKept(key, t, L + 1)'
  BY <1>3, <1>6, <1>10
<1>13. DeliveryKept' /\ MongoTypes' /\ MongoRestarts'
  BY <1>1, <1>2, <1>5, <1>8, <1>11, <1>12, MongoSent
<1>14. MongoReads'
  <2>1. ASSUME NEW n \in Cuts', GoesOn(n)' PROVE From(PosAt(n)') <= cursor
    <3>1. CASE n \in Cuts
      BY <1>2, <1>7, <2>1, <3>1 DEF MongoReads
    <3>2. CASE n = L + 1
      BY <1>3, <1>4, <1>7, <3>2
    <3> QED
      BY <1>7, <3>1, <3>2
  <2>2. PICK c, a : c = cursor /\ a = L + 1
    OBVIOUS
  <2>3. \A key \in Keys : DocumentKept(key, c, a)'
    BY <1>6, <1>9, <2>2
  <2> QED
    BY <1>2, <1>4, <1>7, <2>1, <2>2, <2>3 DEF MongoReads, None
<1>15. MongoSnapshot' /\ MongoStreams'
  <2>1. PICK a : a = L + 1
    OBVIOUS
  <2>2. SnapAt(a)' = (SnapAt(L) \/ r.snapshotEnd) /\ Len(flight)' = a
    BY <1>7, <2>1
  <2> QED
    BY <1>1, <1>2, <2>2 DEF MongoSnapshot, MongoStreams
<1> QED
  BY <1>13, <1>14, <1>15

\* While the snapshot is read no checkpoint skips it.
LEMMA MongoNoneGoesOn ==
    ASSUME MongoKept, phase = "snapshot", NEW m \in Cuts
    PROVE  ~GoesOn(m) /\ ~SnapAt(m)
<1>1. Len(flight) \in Cuts /\ m \in 0 .. Len(flight)
  BY DEF MongoKept, DeliveryKept, Sequence, Cuts
<1> QED
  BY <1>1, SnapLater DEF MongoKept, MongoSnapshot, GoesOn

LEMMA MongoSnapshotEnds ==
    ASSUME MongoKept, D!SnapshotEnd, anchor <= cursor + 1
    PROVE  MongoKept'
<1> USE DEF MongoKept
<1>1. PICK L, s, p, r : /\ L = Len(flight) /\ p = D!Position(<<anchor, 0, s>>, <<anchor, s, 0>>)
                        /\ s = D!Cardinality(Keys) + 1 /\ r = D!SnapshotMark(p)
  OBVIOUS
<1>2. /\ phase = "snapshot" /\ todo = {} /\ flight' = Append(flight, r) /\ phase' = "streaming" /\ last' = p
      /\ UNCHANGED <<setup, view, taken, ckpt, written, cursor, anchor, todo>>
  BY <1>1, MongoWords DEF D!SnapshotEnd, D!Send, D!MongoPosition
<1>3. r.pos = p /\ r.key = 0 /\ r.snapshotEnd = TRUE
  BY <1>1, MongoWords
<1>4. cursor \in Nat /\ written \in Nat /\ cursor \in 0 .. written /\ anchor \in 0 .. written /\ anchor \in Nat
  BY DEF MongoTypes
<1>5. p # None /\ p.at[1] \in Nat /\ From(p) \in 0 .. written /\ From(p) <= cursor /\ From(p) \in Nat
  <2>1. p # None /\ p.at[1] = anchor /\ p.at[3] = 0
    BY <1>1, MongoPositionIs
  <2> QED
    BY <1>4, <2>1 DEF From
<1>6. MongoSend(r)
  BY <1>2, <1>3, <1>5 DEF MongoSend
<1>7. \A key \in Keys : \A t : DocumentKept(key, t, L) => DocumentKept(key, t, L + 1)'
  BY <1>1, <1>3, <1>6, MongoMarkSeen
<1>8. /\ Keys' = Keys /\ L \in Nat /\ Len(flight)' = L + 1 /\ Cuts = 0 .. L /\ Cuts' = 0 .. L + 1
      /\ \A n \in Cuts : PosAt(n)' = PosAt(n) /\ GoesOn(n)' = GoesOn(n)
      /\ PosAt(L + 1)' = r.pos
      /\ SnapAt(L + 1)' = (SnapAt(L) \/ r.snapshotEnd)
  BY <1>1, <1>6, MongoSendFacts
<1>9. \A key \in Keys : DocumentKept(key, cursor, L)
  BY <1>1, <1>2 DEF MongoReads
<1>10. \A key \in Keys : DocumentKept(key, From(p), L)
  BY <1>4, <1>5, <1>9, Sooner
<1>11. \A m \in Cuts : ~GoesOn(m)
  BY <1>2, MongoNoneGoesOn
<1>12. \A key \in Keys, t \in Nat : t = From(r.pos) => DocumentKept(key, t, L + 1)'
  BY <1>3, <1>7, <1>10
<1>13. DeliveryKept' /\ MongoTypes' /\ MongoRestarts'
  BY <1>1, <1>2, <1>4, <1>6, <1>11, <1>12, MongoSent
<1>14. MongoReads'
  <2>1. ASSUME NEW n \in Cuts', GoesOn(n)' PROVE From(PosAt(n)') <= cursor
    <3>1. n = L + 1
      BY <1>8, <1>11, <2>1
    <3> QED
      BY <1>3, <1>5, <1>8, <3>1
  <2>2. PICK c, a : c = cursor /\ a = L + 1
    OBVIOUS
  <2>3. \A key \in Keys : DocumentKept(key, c, a)'
    BY <1>7, <1>9, <2>2
  <2> QED
    BY <1>2, <1>5, <1>8, <2>1, <2>2, <2>3 DEF MongoReads, None
<1>15. MongoSnapshot' /\ MongoStreams'
  <2>1. PICK a : a = L + 1
    OBVIOUS
  <2>2. SnapAt(a)' /\ Len(flight)' = a
    BY <1>3, <1>8, <2>1
  <2> QED
    BY <1>2, <1>5, <2>2 DEF MongoSnapshot, MongoStreams
<1> QED
  BY <1>13, <1>14, <1>15

LEMMA MongoSnapshotReads ==
    ASSUME MongoKept, D!SnapshotRow
    PROVE  MongoKept'
<1> USE DEF MongoKept
<1>1. PICK key, now, L, p, r :
        /\ key = Min(todo) /\ now = D!Document(key, written) /\ L = Len(flight)
        /\ p = D!Position(<<anchor, 0, key>>, <<anchor, key, 0>>) /\ r = D!Item(p, key, now, 0)
  OBVIOUS
<1>2. /\ phase = "snapshot" /\ ((now = 0 /\ flight' = flight) \/ (now # 0 /\ flight' = Append(flight, r)))
      /\ phase' = "snapshot" /\ todo' = todo \ {key}
      /\ UNCHANGED <<setup, phase, view, taken, ckpt, written, cursor, anchor, last>>
  <2>1. D!Min(todo) = Min(todo)
    BY DEF D!Min, Min
  <2> QED
    BY <1>1, <2>1 DEF D!SnapshotRow, D!Send, D!MongoPosition
<1>3. /\ phase = "snapshot" /\ phase' = "snapshot"
      /\ UNCHANGED <<setup, view, taken, ckpt, written, cursor, anchor, last>>
  BY <1>2
<1>4. L \in Nat /\ L \in Cuts /\ Cuts = 0 .. L /\ cursor \in 0 .. written /\ cursor \in Nat /\ written \in Nat
      /\ anchor \in 0 .. written /\ cursor <= anchor
  BY <1>1, <1>3 DEF DeliveryKept, Sequence, MongoTypes, MongoSnapshot, Cuts
<1>5. \A m \in Cuts : ~GoesOn(m) /\ ~SnapAt(m)
  BY <1>3, MongoNoneGoesOn
<1>6. /\ last # None /\ last.at[1] \in Nat /\ From(last) \in 0 .. written
      /\ \A k \in Keys \ todo : DocumentKept(k, cursor, L)
  BY <1>1, <1>3 DEF MongoReads
<1>7. CASE now = 0 /\ flight' = flight
  <2>1. /\ MongoTypes' /\ MongoRestarts' /\ DeliveryKept'
        /\ Keys' = Keys /\ Cuts' = Cuts /\ Len(flight)' = Len(flight)
        /\ \A n : /\ PosAt(n)' = PosAt(n) /\ SnapAt(n)' = SnapAt(n) /\ GoesOn(n)' = GoesOn(n)
                  /\ \A k : Shown(k, n)' = Shown(k, n)
        /\ \A k, t, n : DocumentKept(k, t, n) => DocumentKept(k, t, n)'
    BY <1>3, <1>4, <1>7, MongoStay
  <2>2. DocumentKept(key, cursor, L)
    <3>1. LastAt(key, written) \in Nat
      BY <1>4, LastAtIs
    <3> QED
      BY <1>1, <1>4, <1>7, <3>1 DEF DocumentKept, Hidden
  <2>3. PICK c : c = cursor
    OBVIOUS
  <2>4. \A k \in Keys \ todo' : DocumentKept(k, c, L)'
    BY <1>2, <1>6, <2>1, <2>2, <2>3
  <2>5. MongoReads'
    BY <1>1, <1>3, <1>5, <1>6, <2>1, <2>3, <2>4 DEF MongoReads, None
  <2>6. MongoSnapshot' /\ MongoStreams'
    BY <1>3, <2>1 DEF MongoSnapshot, MongoStreams
  <2> QED
    BY <2>1, <2>5, <2>6
<1>8. CASE now # 0 /\ flight' = Append(flight, r)
  <2>1. r.pos = p /\ r.key = key /\ r.val = now /\ r.snapshotEnd = FALSE
    BY <1>1, MongoWords
  <2>2. p # None /\ p.at[1] \in Nat /\ From(p) \in 0 .. written
    <3>1. p # None /\ p.at[1] = anchor /\ p.at[3] = 0
      BY <1>1, MongoPositionIs
    <3> QED
      BY <1>4, <3>1 DEF From
  <2>3. MongoSend(r)
    BY <1>3, <1>8, <2>1, <2>2 DEF MongoSend
  <2>4. /\ Keys' = Keys /\ Len(flight)' = L + 1 /\ Cuts' = 0 .. L + 1
        /\ \A n \in Cuts : GoesOn(n)' = GoesOn(n)
        /\ SnapAt(L + 1)' = (SnapAt(L) \/ r.snapshotEnd)
        /\ \A k : Shown(k, L + 1)' = IF r.key = k THEN r.val ELSE Shown(k, L)
        /\ \A k, t, n, m : Shown(k, m)' = Shown(k, n) /\ DocumentKept(k, t, n) => DocumentKept(k, t, m)'
    <3>1. L = Len(flight)
      BY <1>1
    <3> QED
      BY <2>3, <3>1, MongoSendFacts
  <2>5. ~SnapAt(L + 1)' /\ ~GoesOn(L + 1)'
    <3>1. ~SnapAt(L + 1)' /\ setup' = setup /\ setup.mode # "never"
      BY <1>3, <1>4, <1>5, <2>1, <2>4 DEF MongoSnapshot
    <3> QED
      BY <3>1 DEF GoesOn
  <2>6. DeliveryKept' /\ MongoTypes' /\ MongoRestarts'
    BY <1>1, <1>3, <1>4, <1>5, <2>3, <2>5, MongoSent
  <2>7. PICK c, a : c = cursor /\ a = L + 1
    OBVIOUS
  <2>8. ASSUME NEW k \in Keys \ todo' PROVE DocumentKept(k, c, a)'
    <3>1. CASE k = key
      <4>1. D!Document(key, written)' = D!Document(key, written)
        BY <1>3, OpsStay
      <4>2. Shown(k, a)' = now
        BY <2>1, <2>4, <2>7, <3>1
      <4> QED
        BY <1>1, <3>1, <4>1, <4>2 DEF DocumentKept
    <3>2. CASE k # key
      <4>1. DocumentKept(k, c, L) /\ Shown(k, a)' = Shown(k, L)
        BY <1>2, <1>6, <2>1, <2>4, <2>7, <3>2
      <4> QED
        BY <2>4, <4>1
    <3> QED
      BY <3>1, <3>2
  <2>9. MongoReads'
    <3>1. \A n \in Cuts' : ~GoesOn(n)'
      <4>1. \A n \in Cuts' : n \in Cuts \/ n = L + 1
        BY <1>4, <2>4
      <4> QED
        BY <1>5, <2>4, <2>5, <4>1
    <3> QED
      BY <1>3, <1>6, <2>4, <2>7, <2>8, <3>1 DEF MongoReads, None
  <2>10. MongoSnapshot' /\ MongoStreams'
    <3>1. ~SnapAt(Len(flight))'
      <4>1. ~SnapAt(a)' /\ Len(flight)' = a
        BY <2>4, <2>5, <2>7
      <4> QED
        BY <4>1
    <3> QED
      BY <1>3, <3>1 DEF MongoSnapshot, MongoStreams
  <2> QED
    BY <2>6, <2>9, <2>10
<1> QED
  BY <1>2, <1>7, <1>8

\* A record of the stream: the key it writes, if any, is as the operation leaves it or
\* as a later one does.
LEMMA MongoTakes ==
    ASSUME MongoKept, D!Take
    PROVE  MongoKept'
<1> USE DEF MongoKept
<1>1. PICK i, s, L, p, r :
        /\ i = cursor + 1 /\ s = D!SerialOf(last) + 1 /\ L = Len(flight) /\ p = D!Position(<<i, 1, s>>, <<i, s, 1>>)
        /\ r = IF D!Ops[i].op = "drop" THEN D!Mark(p, FALSE) ELSE D!Item(p, D!Ops[i].key, D!FullDocument(i), i)
  OBVIOUS
<1>2. /\ phase = "streaming" /\ cursor < written /\ D!Ops[i].op # "invalidate" /\ cursor' = i
      /\ UNCHANGED <<setup, phase, view, taken, ckpt, written, anchor, todo>>
      /\ \/ D!Ops[i].op = "filtered" /\ UNCHANGED <<flight, last>>
         \/ D!Ops[i].op # "filtered" /\ flight' = Append(flight, r) /\ last' = p
  BY <1>1 DEF D!Take, D!Upcoming, D!Send, D!MongoPosition
<1>3. /\ phase = "streaming" /\ phase' = "streaming" /\ cursor' = i
      /\ UNCHANGED <<setup, view, taken, ckpt, written, anchor, todo>>
  BY <1>2
<1>4. /\ L \in Nat /\ L \in Cuts /\ Cuts = 0 .. L /\ cursor \in Nat /\ written \in Nat /\ i \in 1 .. written
      /\ i \in 0 .. written /\ i \in Nat
  BY <1>1, <1>2 DEF DeliveryKept, Sequence, MongoTypes, Cuts
<1>5. /\ D!Ops[i] \in Operations /\ (D!Ops[i].op = "drop" => D!Ops[i].val = 0)
  <2>1. i \in 1 .. Len(setup.ops) /\ setup.ops \in Seq(Operations)
    BY <1>4 DEF MongoTypes, SoundOps
  <2> QED
    BY <2>1 DEF MongoTypes, SoundOps, D!Ops
<1>6. /\ todo = {} /\ (setup.mode = "never" \/ SnapAt(L)) /\ From(last) <= cursor
      /\ last # None /\ last.at[1] \in Nat /\ From(last) \in 0 .. written
      /\ \A n \in Cuts : GoesOn(n) => From(PosAt(n)) <= cursor
      /\ \A k \in Keys : DocumentKept(k, cursor, L)
  BY <1>1, <1>3 DEF MongoReads, MongoStreams
<1>7. /\ Keys' = Keys /\ D!Ops' = D!Ops
      /\ \A k, n : LastAt(k, n)' = LastAt(k, n) /\ D!Document(k, n)' = D!Document(k, n)
  BY <1>3, OpsStay
\* Wherever it is read from, the document is to be seen afterwards.
<1>8. ASSUME NEW k \in Keys, NEW a, NEW t \in 0 .. written, DocumentKept(k, t, L), t <= cursor,
             NEW u, u = t \/ (t = cursor /\ u = i),
             IF D!Writes(i, k) /\ D!Ops[i].op # "drop" THEN Shown(k, a)' = D!FullDocument(i) /\ D!Ops[i].key = k
             ELSE Shown(k, a)' = Shown(k, L)
      PROVE  DocumentKept(k, u, a)'
  <2>1. PICK l : l = LastAt(k, written)
    OBVIOUS
  <2>2. /\ l \in 0 .. written /\ (l # 0 => D!Writes(l, k))
        /\ (D!Writes(i, k) => i <= l)
        /\ D!Document(k, written) = IF l = 0 THEN setup.rows[k] ELSE D!Ops[l].val
    BY <1>4, <2>1, LastAtIs
  <2>3. LastAt(k, written)' = l /\ D!Document(k, written)' = D!Document(k, written) /\ u \in Nat /\ u <= i /\ t \in Nat
    BY <1>1, <1>3, <1>4, <1>7, <1>8, <2>1
  <2>4. Hidden(k) => Hidden(k)'
    BY <1>3, <1>7 DEF Hidden
  <2>5. CASE D!Writes(i, k)
    <3>1. CASE l > i
      BY <1>4, <2>2, <2>3, <3>1 DEF DocumentKept
    <3>2. CASE ~(l > i)
      <4>1. l = i /\ D!Document(k, written) = D!Ops[i].val
        BY <1>4, <2>2, <2>5, <3>2
      <4>2. CASE D!Ops[i].op = "drop"
        <5>1. Hidden(k)
          BY <1>5, <2>1, <4>1, <4>2 DEF Hidden
        <5> QED
          BY <2>4, <5>1 DEF DocumentKept
      <4>3. CASE D!Ops[i].op # "drop"
        <5>1. Shown(k, a)' = D!FullDocument(i) /\ D!Ops[i].key = k
          BY <1>8, <2>5, <4>3
        <5>2. D!FullDocument(i) = D!Document(k, written)
          BY <4>1, <5>1 DEF D!FullDocument
        <5> QED
          BY <2>3, <5>1, <5>2 DEF DocumentKept
      <4> QED
        BY <4>2, <4>3
    <3> QED
      BY <3>1, <3>2
  <2>6. CASE ~D!Writes(i, k)
    <3>1. Shown(k, a)' = Shown(k, L)
      BY <1>8, <2>6
    <3>2. l # i
      BY <1>4, <2>2, <2>6
    <3>3. CASE Shown(k, L) = D!Document(k, written)
      BY <2>3, <3>1, <3>3 DEF DocumentKept
    <3>4. CASE Hidden(k)
      BY <2>4, <3>4 DEF DocumentKept
    <3>5. CASE l > t
      <4>1. l > u
        BY <1>1, <1>4, <1>8, <2>2, <3>2, <3>5
      <4> QED
        BY <2>3, <4>1 DEF DocumentKept
    <3> QED
      BY <1>8, <2>1, <3>3, <3>4, <3>5 DEF DocumentKept
  <2> QED
    BY <2>5, <2>6
<1>9. CASE D!Ops[i].op = "filtered" /\ UNCHANGED <<flight, last>>
  <2>1. /\ MongoTypes' /\ MongoRestarts' /\ DeliveryKept'
        /\ Cuts' = Cuts /\ Len(flight)' = Len(flight)
        /\ \A n : /\ PosAt(n)' = PosAt(n) /\ SnapAt(n)' = SnapAt(n) /\ GoesOn(n)' = GoesOn(n)
                  /\ \A k : Shown(k, n)' = Shown(k, n)
    <3>1. anchor' \in 0 .. written /\ cursor' \in 0 .. written /\ \A l \in Nat : l <= anchor => l <= anchor'
      BY <1>3, <1>4 DEF MongoTypes
    <3> QED
      BY <1>3, <1>9, <3>1, MongoStay
  <2>2. PICK c : c = cursor
    OBVIOUS
  <2>3. \A k \in Keys : DocumentKept(k, i, L)'
    <3>1. \A k : ~D!Writes(i, k)
      BY <1>9 DEF D!Writes
    <3>2. SUFFICES ASSUME NEW k \in Keys PROVE DocumentKept(k, i, L)'
      OBVIOUS
    <3>3. PICK t : t = cursor
      OBVIOUS
    <3>4. t \in 0 .. written /\ DocumentKept(k, t, L) /\ t <= cursor /\ t = cursor
      BY <1>4, <1>6, <3>3 DEF MongoTypes
    <3>5. IF D!Writes(i, k) /\ D!Ops[i].op # "drop" THEN Shown(k, L)' = D!FullDocument(i) /\ D!Ops[i].key = k
          ELSE Shown(k, L)' = Shown(k, L)
      BY <2>1, <3>1
    <3> QED
      BY <1>8, <3>4, <3>5
  <2>4. MongoReads'
    <3>1. From(last) \in 0 .. written /\ \A n \in Cuts' : GoesOn(n)' => From(PosAt(n)') <= i
      <4>1. ASSUME NEW n \in Cuts, GoesOn(n) PROVE From(PosAt(n)) <= i
        <5>1. From(PosAt(n)) \in 0 .. written /\ From(PosAt(n)) <= cursor
          BY <1>6, <4>1 DEF MongoTypes, GoesOn
        <5> QED
          BY <1>1, <1>4, <5>1
      <4> QED
        BY <1>6, <2>1, <4>1
    <3>2. \A k \in Keys' \ todo' : DocumentKept(k, cursor, Len(flight))'
      BY <1>1, <1>3, <1>7, <2>1, <2>3
    <3> QED
      BY <1>3, <1>6, <1>9, <3>1, <3>2 DEF MongoReads, None
  <2>5. MongoSnapshot' /\ MongoStreams'
    <3>1. From(last) <= i
      BY <1>1, <1>4, <1>6
    <3> QED
      BY <1>1, <1>3, <1>6, <1>9, <2>1, <3>1 DEF MongoSnapshot, MongoStreams
  <2> QED
    BY <2>1, <2>4, <2>5
<1>10. CASE D!Ops[i].op # "filtered" /\ flight' = Append(flight, r) /\ last' = p
  <2>1. p # None /\ p.at[1] = i /\ p.at[3] = 1 /\ From(p) = i
    <3>1. p # None /\ p.at[1] = i /\ p.at[3] = 1
      BY <1>1, MongoPositionIs
    <3> QED
      BY <3>1 DEF From
  <2>2. /\ r.pos = p /\ r.snapshotEnd = FALSE
        /\ \/ D!Ops[i].op = "drop" /\ r.key = 0
           \/ D!Ops[i].op \in {"set", "delete"} /\ r.key = D!Ops[i].key /\ r.val = D!FullDocument(i)
    <3>1. CASE D!Ops[i].op = "drop"
      <4>1. r = D!Mark(p, FALSE)
        BY <1>1, <3>1
      <4>2. r.pos = p /\ r.key = 0 /\ r.snapshotEnd = FALSE
        BY <4>1 DEF D!Mark, D!Item, D!NoKey
      <4> QED
        BY <3>1, <4>2
    <3>2. CASE D!Ops[i].op # "drop"
      <4>1. r = D!Item(p, D!Ops[i].key, D!FullDocument(i), i)
        BY <1>1, <3>2
      <4>2. r.pos = p /\ r.key = D!Ops[i].key /\ r.val = D!FullDocument(i) /\ r.snapshotEnd = FALSE
        BY <4>1 DEF D!Item
      <4>3. D!Ops[i].op \in {"set", "delete"}
        BY <1>2, <1>5, <1>10, <3>2 DEF Operations
      <4> QED
        BY <4>2, <4>3
    <3> QED
      BY <3>1, <3>2
  <2>3. MongoSend(r)
    BY <1>3, <1>4, <1>10, <2>1, <2>2 DEF MongoSend
  <2>4. /\ Len(flight)' = L + 1 /\ Cuts' = 0 .. L + 1
        /\ \A n \in Cuts : PosAt(n)' = PosAt(n) /\ GoesOn(n)' = GoesOn(n)
        /\ PosAt(L + 1)' = r.pos
        /\ SnapAt(L + 1)' = (SnapAt(L) \/ r.snapshotEnd)
        /\ \A k : Shown(k, L + 1)' = IF r.key = k THEN r.val ELSE Shown(k, L)
    <3>1. L = Len(flight)
      BY <1>1
    <3> QED
      BY <2>3, <3>1, MongoSendFacts
  <2>5. ASSUME NEW k \in Keys
        PROVE  IF D!Writes(i, k) /\ D!Ops[i].op # "drop" THEN Shown(k, L + 1)' = D!FullDocument(i) /\ D!Ops[i].key = k
               ELSE Shown(k, L + 1)' = Shown(k, L)
    <3>1. k # 0
      BY DEF Keys, DeliveryKept
    <3>2. CASE D!Writes(i, k) /\ D!Ops[i].op # "drop"
      <4>1. D!Ops[i].key = k /\ r.key = k /\ r.val = D!FullDocument(i)
        BY <2>2, <3>2 DEF D!Writes
      <4> QED
        BY <2>4, <3>2, <4>1
    <3>3. CASE ~(D!Writes(i, k) /\ D!Ops[i].op # "drop")
      <4>1. r.key # k
        BY <2>2, <3>1, <3>3 DEF D!Writes
      <4> QED
        BY <2>4, <3>3, <4>1
    <3> QED
      BY <3>2, <3>3
  <2>6. ASSUME NEW m \in Cuts, GoesOn(m), NEW k \in Keys, NEW t \in Nat, t = From(PosAt(m))
        PROVE  DocumentKept(k, t, L + 1)'
    <3>1. t \in 0 .. written /\ DocumentKept(k, t, L) /\ t <= cursor
      BY <1>1, <1>3, <2>6, MongoRestartsFrom
    <3> QED
      BY <1>8, <2>5, <3>1
  <2>7. ASSUME NEW k \in Keys PROVE DocumentKept(k, i, L + 1)'
    <3>1. PICK t : t = cursor
      OBVIOUS
    <3>2. t \in 0 .. written /\ DocumentKept(k, t, L) /\ t <= cursor /\ t = cursor
      BY <1>4, <1>6, <3>1 DEF MongoTypes
    <3> QED
      BY <1>8, <2>5, <3>2
  <2>8. DeliveryKept' /\ MongoTypes' /\ MongoRestarts'
    <3>1. \A m \in Cuts : GoesOn(m) => \A k \in Keys, t \in Nat : t = From(PosAt(m)) => DocumentKept(k, t, L + 1)'
      BY <2>6
    <3>2. \A k \in Keys, t \in Nat : t = From(r.pos) => DocumentKept(k, t, L + 1)'
      BY <2>1, <2>2, <2>7
    <3>3. L = Len(flight) /\ phase' \in {"snapshot", "streaming"} /\ cursor' \in 0 .. written
      BY <1>1, <1>3, <1>4
    <3> QED
      BY <2>3, <3>1, <3>2, <3>3, MongoSent
  <2>9. MongoReads'
    <3>1. ASSUME NEW n \in Cuts', GoesOn(n)' PROVE From(PosAt(n)') <= i
      <4>1. CASE n \in Cuts
        <5>1. From(PosAt(n)) \in 0 .. written /\ From(PosAt(n)) <= cursor /\ PosAt(n)' = PosAt(n)
          BY <1>6, <2>4, <3>1, <4>1 DEF MongoTypes, GoesOn
        <5> QED
          BY <1>1, <1>4, <5>1
      <4>2. CASE n = L + 1
        BY <1>4, <2>1, <2>2, <2>4, <4>2
      <4> QED
        BY <1>4, <2>4, <4>1, <4>2
    <3>2. PICK a : a = L + 1
      OBVIOUS
    <3>3. \A k \in Keys' \ todo' : DocumentKept(k, cursor, Len(flight))'
      <4>1. \A k \in Keys : DocumentKept(k, i, a)'
        BY <2>7, <3>2
      <4>2. Len(flight)' = a /\ cursor' = i /\ Keys' = Keys
        BY <1>3, <1>7, <2>4, <3>2
      <4> QED
        BY <4>1, <4>2
    <3> QED
      BY <1>3, <1>4, <1>10, <2>1, <3>1, <3>3 DEF MongoReads, None
  <2>10. MongoSnapshot' /\ MongoStreams'
    <3>1. PICK a : a = L + 1
      OBVIOUS
    <3>2. SnapAt(a)' = (SnapAt(L) \/ r.snapshotEnd) /\ Len(flight)' = a
      BY <2>4, <3>1
    <3>3. From(last') <= i
      BY <1>4, <1>10, <2>1
    <3> QED
      BY <1>3, <1>6, <3>2, <3>3 DEF MongoSnapshot, MongoStreams
  <2> QED
    BY <2>8, <2>9, <2>10
<1> QED
  BY <1>2, <1>9, <1>10

\* The stream of a start that takes a snapshot begins no later than the snapshot's anchor
\* does: of a start after a snapshot that was cut short, and whose rows have been
\* checkpointed, this holds when nothing has happened between the two snapshots.
StreamAtAnchor == setup.connector = "mongodb" /\ phase = "snapshot" => anchor <= cursor + 1

LEMMA MongoSteps ==
    ASSUME MongoKept, StreamAtAnchor, [Next]_vars
    PROVE  MongoKept'
<1>0. setup.connector = "mongodb"
  BY DEF MongoKept, MongoTypes
<1>1. CASE D!MongoNext
  <2>1. \/ D!Apply \/ D!Start \/ D!SnapshotRow \/ D!SnapshotEnd \/ D!Take \/ D!StreamFails \/ D!Heartbeat
    BY <1>1 DEF D!MongoNext
  <2>2. CASE D!SnapshotEnd
    <3>1. anchor <= cursor + 1
      BY <1>0, <2>2 DEF D!SnapshotEnd, StreamAtAnchor
    <3> QED
      BY <2>2, <3>1, MongoSnapshotEnds
  <2> QED
    BY <2>1, <2>2, MongoWrites, MongoStarts, MongoSnapshotReads, MongoTakes, MongoFails, MongoBeats
<1>2. CASE Flush /\ UNCHANGED <<log, last>>
  <2>1. UNCHANGED <<written, cursor, anchor, todo, last>>
    BY <1>2 DEF log
  <2> QED
    BY <1>2, <2>1, MongoFlush
<1>3. CASE (Backwards \/ Restart \/ Crash) /\ UNCHANGED <<log, last>>
  <2>1. UNCHANGED <<written, cursor, anchor, todo, last>>
    BY <1>3 DEF log
  <2> QED
    BY <1>3, <2>1, MongoEnds
<1>4. CASE UNCHANGED vars
  <2>1. UNCHANGED <<setup, phase, flight, view, ckpt, taken, written, cursor, anchor, todo, last>>
    BY <1>4 DEF vars, runtime, log
  <2>2. /\ MongoTypes' /\ MongoRestarts' /\ (phase' \in {"snapshot", "streaming", "failed"} => DeliveryKept')
        /\ Keys' = Keys /\ Cuts' = Cuts /\ Len(flight)' = Len(flight)
        /\ \A n : /\ PosAt(n)' = PosAt(n) /\ SnapAt(n)' = SnapAt(n) /\ GoesOn(n)' = GoesOn(n)
                  /\ \A key : Shown(key, n)' = Shown(key, n)
        /\ \A key, t, n : DocumentKept(key, t, n) => DocumentKept(key, t, n)'
    BY <2>1, MongoStay DEF MongoKept, MongoTypes
  <2>3. DeliveryKept'
    BY <2>1, <2>2 DEF MongoKept, DeliveryKept, None
  <2>4. MongoReads'
    <3>1. PICK c, a : c = cursor /\ a = Len(flight)
      OBVIOUS
    <3>2. phase \in {"snapshot", "streaming"} => \A key \in Keys \ todo : DocumentKept(key, c, a)'
      BY <2>2, <3>1 DEF MongoKept, MongoReads
    <3> QED
      BY <2>1, <2>2, <3>1, <3>2 DEF MongoKept, MongoReads, None
  <2>5. MongoSnapshot' /\ MongoStreams'
    BY <2>1, <2>2 DEF MongoKept, MongoSnapshot, MongoStreams
  <2> QED
    BY <2>2, <2>3, <2>4, <2>5 DEF MongoKept
<1> QED
  BY <1>0, <1>1, <1>2, <1>3, <1>4 DEF Next, Source, Delivering

LEMMA MongoBegins ==
    ASSUME Init, setup.connector = "mongodb", SoundOps(setup)
    PROVE  MongoKept
<1>1. /\ phase = "down" /\ flight = <<>> /\ view = [key \in Keys |-> 0] /\ taken = {}
      /\ ckpt.pos = None /\ ckpt.snap = FALSE
      /\ written \in 0 .. setup.early /\ cursor = 0 /\ anchor = 0
  BY DEF Init, DeliveryInit, D!MongoInit
<1>2. Len(flight) = 0 /\ Cuts = {0} /\ Sequence(flight)
  BY <1>1, Nothing DEF Cuts
<1>3. DeliveryKept
  BY <1>1, <1>2 DEF DeliveryKept, SoundOps
<1>4. PosAt(0) = None /\ ~GoesOn(0)
  BY <1>1 DEF PosAt, GoesOn
<1>5. MongoTypes
  <2>1. setup.early \in 0 .. Len(setup.ops) /\ Len(setup.ops) \in Nat
    BY DEF SoundOps
  <2> QED
    BY <1>1, <1>2, <1>4, <2>1 DEF MongoTypes
<1>6. MongoRestarts
  <2>1. \A n \in Cuts : \A m \in 0 .. n : m = 0
    BY <1>2
  <2> QED
    BY <1>4, <2>1 DEF MongoRestarts
<1> QED
  BY <1>1, <1>3, <1>5, <1>6 DEF MongoKept, MongoReads, MongoSnapshot, MongoStreams

LEMMA MongoArrives ==
    ASSUME MongoKept, D!MongoIdle, NEW key \in Keys
    PROVE  view[key] = D!Document(key, written) \/ D!OutOfSight(key)
<1>1. phase = "streaming" /\ cursor = written /\ \A n \in DOMAIN flight : flight[n].key = 0
  BY DEF D!MongoIdle, D!NoRows, D!NoKey
<1>2. key # 0 /\ DOMAIN flight = 1 .. Len(flight)
  BY DEF MongoKept, DeliveryKept, Keys, Sequence
<1>3. PICK c, a : c = cursor /\ a = Len(flight)
  OBVIOUS
<1>4. DocumentKept(key, c, a)
  BY <1>1, <1>3 DEF MongoKept, MongoReads, MongoStreams
<1>5. Shown(key, a) = view[key]
  BY <1>1, <1>2, <1>3 DEF Shown
<1>6. ~(LastAt(key, written) > c)
  <2>1. written \in Nat
    BY DEF MongoKept, MongoTypes
  <2>2. LastAt(key, written) \in 0 .. written
    BY <2>1, LastAtIs
  <2> QED
    BY <1>1, <1>3, <2>1, <2>2
<1> QED
  BY <1>4, <1>5, <1>6, HiddenIs DEF DocumentKept

-----------------------------------------------------------------------------
(* Both.                                                                    *)

\* The setups are histories that can be.
SetupsSound ==
    \A s \in Setups : (s.connector = "oracle" => SoundRedo(s)) /\ (s.connector = "mongodb" => SoundOps(s))

SourcesKept ==
    /\ setup.connector = "oracle" => OracleKept
    /\ setup.connector = "mongodb" => MongoKept

LEMMA SetupStays ==
    ASSUME [Next]_vars
    PROVE  setup' = setup
<1>1. CASE UNCHANGED vars
  BY <1>1 DEF vars
<1>2. CASE O!OracleNext
  BY <1>2 DEF O!OracleNext, O!Write, O!Start, O!SnapshotRow, O!SnapshotEnd, O!Poll, O!Handle, O!Heartbeat, O!QueryFails
<1>3. CASE D!MongoNext
  BY <1>3 DEF D!MongoNext, D!Apply, D!Start, D!SnapshotRow, D!SnapshotEnd, D!Take, D!StreamFails, D!Heartbeat
<1>4. CASE B!BridgeNext
  BY <1>4 DEF B!BridgeNext, B!Start, B!Post, B!Skip, B!Again, B!Reject, B!Handle, B!Settle, B!Timeout, B!CommitFails
<1>5. CASE Flush \/ Backwards \/ Restart \/ Crash
  BY <1>5 DEF Flush, Backwards, Restart, Crash, Ends
<1> QED
  BY <1>1, <1>2, <1>3, <1>4, <1>5 DEF Next, Source, Delivering

\* Whatever flushes, crashes, failures and restarts there are, once the connector has read
\* all there is and the runtime has written it, the sink has each row as the database has
\* it: of Oracle, each row whose transaction was not open when the cursor went by; of
\* MongoDB, as long as no snapshot that was cut short is taken again from a later anchor
\* (run, snapshot and poll_logminer of rustium-oracle; run, open_stream and snapshot of
\* rustium-mongodb; flush_batch).
THEOREM NothingPassedOver == SetupsSound => (Spec /\ []StreamAtAnchor => []CaughtUp)
<1> SUFFICES ASSUME SetupsSound
             PROVE  Spec /\ []StreamAtAnchor => []CaughtUp
  OBVIOUS
<1>1. Init => SourcesKept
  BY OracleBegins, MongoBegins DEF SourcesKept, SetupsSound, Init
<1>2. SourcesKept /\ StreamAtAnchor /\ [Next]_vars => SourcesKept'
  BY OracleSteps, MongoSteps, SetupStays DEF SourcesKept
<1>3. SourcesKept => CaughtUp
  <2>1. ASSUME SourcesKept, setup.connector = "oracle", O!OracleIdle, NEW key \in Keys, O!OracleSeen(key)
        PROVE  view[key] = O!RowAsOf(key, written) \/ O!OutOfSight(key)
    BY <2>1, OracleArrives DEF SourcesKept
  <2>2. ASSUME SourcesKept, setup.connector = "mongodb", D!MongoIdle, NEW key \in Keys
        PROVE  view[key] = D!Document(key, written) \/ D!OutOfSight(key)
    BY <2>2, MongoArrives DEF SourcesKept
  <2> QED
    BY <2>1, <2>2 DEF CaughtUp
<1> QED
  BY <1>1, <1>2, <1>3, PTL DEF Spec

\* MongoDB with snapshot.mode = never.
MongoStreamsOnly == \A s \in Setups : s.connector = "mongodb" => s.mode = "never"

\* Oracle always, and MongoDB when it takes no snapshot, have nothing left out once they
\* have read all there is, however often they crash and start again.
THEOREM StreamsPassNothingOver == SetupsSound /\ MongoStreamsOnly => (Spec => []CaughtUp)
<1> SUFFICES ASSUME SetupsSound, MongoStreamsOnly
             PROVE  Spec => []CaughtUp
  OBVIOUS
<1> DEFINE Only == setup.connector = "mongodb" => setup.mode = "never"
<1>1. Init => Only
  BY DEF Init, MongoStreamsOnly
<1>2. Only /\ [Next]_vars => Only'
  BY SetupStays
<1>3. Init => SourcesKept
  BY OracleBegins, MongoBegins DEF SourcesKept, SetupsSound, Init
<1>4. SourcesKept /\ Only => StreamAtAnchor
  BY DEF SourcesKept, MongoKept, MongoSnapshot, StreamAtAnchor
<1>5. SourcesKept /\ Only /\ [Next]_vars => SourcesKept'
  BY <1>4, OracleSteps, MongoSteps, SetupStays DEF SourcesKept
<1> HIDE DEF Only
<1>6. Spec => []StreamAtAnchor
  BY <1>1, <1>2, <1>3, <1>4, <1>5, PTL DEF Spec
<1> QED
  BY <1>6, NothingPassedOver, PTL

=============================================================================
