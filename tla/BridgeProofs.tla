----------------------------- MODULE BridgeProofs -----------------------------
(***************************************************************************)
(* Theorems about the Debezium bridge (Bridge) with the runtime behind it  *)
(* (Delivery), as MCSources composes them.  R is a sequence of requests.   *)
(***************************************************************************)
EXTENDS MCSources, FiniteSetTheorems, TLAPS

-----------------------------------------------------------------------------
(* What the engine sends: a document has its place, <<request, document>>.  *)

DocumentSet == [id : Nat, marker : STRING, row : BOOLEAN, key : Nat, val : Nat]

Places(R) == UNION {{r} \X DOMAIN R[r] : r \in DOMAIN R}

At(R, p) == R[p[1]][p[2]]

Earlier(p, q) == p[1] < q[1] \/ (p[1] = q[1] /\ p[2] < q[2])

\* Place o comes right before place p.
Adjacent(R, o, p) ==
    /\ Earlier(o, p)
    /\ \A q \in Places(R) : Earlier(q, p) => q = o \/ Earlier(q, o)

\* An engine repeats a record right away or never, and sends the documents of its
\* snapshot first.
Orderly(R) ==
    /\ R \in Seq(Seq(DocumentSet) \ {<<>>})
    /\ \A p, q \in Places(R) :
        Earlier(p, q) /\ At(R, p).id # 0 /\ At(R, q).id # 0 =>
            /\ At(R, p).id = At(R, q).id =>
                \E o \in Places(R) : Adjacent(R, o, q) /\ At(R, o).id = At(R, q).id
            /\ B!InSnapshot(At(R, q)) => B!InSnapshot(At(R, p))

EnginesOrderly == \A s \in Setups : s.connector = "bridge" => Orderly(s.requests)

-----------------------------------------------------------------------------
(* Places and their ordinals.                                               *)

\* The ordinal of a place.
Name(R, p) == Cardinality({q \in Places(R) : q = p \/ Earlier(q, p)})

LEMMA PlaceType ==
    ASSUME NEW R, Orderly(R), NEW p \in Places(R)
    PROVE  /\ p = <<p[1], p[2]>> /\ p[1] \in DOMAIN R /\ p[1] \in Nat \ {0}
           /\ p[2] \in DOMAIN R[p[1]] /\ p[2] \in Nat \ {0}
           /\ At(R, p) \in DocumentSet
  BY DEF Orderly, Places, At

LEMMA PlaceOf ==
    ASSUME NEW R, NEW r \in DOMAIN R, NEW d \in DOMAIN R[r]
    PROVE  <<r, d>> \in Places(R)
  BY DEF Places

LEMMA EarlierOrder ==
    ASSUME NEW R, Orderly(R), NEW p \in Places(R), NEW q \in Places(R)
    PROVE  /\ p = q \/ Earlier(p, q) \/ Earlier(q, p)
           /\ ~(Earlier(p, q) /\ Earlier(q, p)) /\ ~Earlier(p, p)
           /\ \A o \in Places(R) : Earlier(o, p) /\ Earlier(p, q) => Earlier(o, q)
  BY PlaceType DEF Earlier

LEMMA PlacesFinite ==
    ASSUME NEW R, Orderly(R)
    PROVE  IsFiniteSet(Places(R))
<1> DEFINE Of(r) == {r} \X DOMAIN R[r]
           All == {Of(r) : r \in DOMAIN R}
           f == [r \in DOMAIN R |-> Of(r)]
<1>1. IsFiniteSet(All)
  <2>1. f \in Surjection(DOMAIN R, All)
    BY DEF Surjection
  <2>2. Len(R) \in Nat /\ DOMAIN R = 1 .. Len(R)
    BY DEF Orderly
  <2>3. IsFiniteSet(1 .. Len(R))
    BY <2>2, FS_Interval
  <2> HIDE DEF f, All
  <2> QED
    BY <2>1, <2>2, <2>3, FS_Surjection
<1>2. ASSUME NEW T \in All PROVE IsFiniteSet(T)
  <2>1. PICK r \in DOMAIN R : T = Of(r)
    BY DEF All
  <2>2. Len(R[r]) \in Nat /\ DOMAIN R[r] = 1 .. Len(R[r])
    BY DEF Orderly
  <2>3. IsFiniteSet(1 .. Len(R[r]))
    BY <2>2, FS_Interval
  <2>4. IsFiniteSet({r})
    BY FS_Singleton
  <2>5. IsFiniteSet({r} \X (1 .. Len(R[r])))
    BY <2>3, <2>4, FS_Product
  <2> QED
    BY <2>1, <2>2, <2>5
<1> HIDE DEF All
<1>3. IsFiniteSet(UNION All)
  BY <1>1, <1>2, FS_UNION
<1> QED
  BY <1>3 DEF Places, All

LEMMA NamePositive ==
    ASSUME NEW R, Orderly(R), NEW p \in Places(R)
    PROVE  Name(R, p) \in Nat \ {0}
<1> DEFINE U == {q \in Places(R) : q = p \/ Earlier(q, p)}
<1>1. IsFiniteSet(U) /\ p \in U
  BY PlacesFinite, FS_Subset
<1> HIDE DEF U
<1>2. Cardinality(U) \in Nat /\ Cardinality(U) # 0
  BY <1>1, FS_CardinalityType, FS_EmptySet
<1> QED
  BY <1>2 DEF Name, U

\* The documents of adjacent places have successive ordinals.
LEMMA NameSuccessor ==
    ASSUME NEW R, Orderly(R), NEW o \in Places(R), NEW p \in Places(R), Adjacent(R, o, p)
    PROVE  Name(R, o) = Name(R, p) - 1
<1> DEFINE U(x) == {q \in Places(R) : q = x \/ Earlier(q, x)}
<1>1. U(p) = U(o) \cup {p} /\ p \notin U(o)
  BY EarlierOrder DEF Adjacent
<1>2. IsFiniteSet(U(o))
  BY PlacesFinite, FS_Subset
<1>3. Cardinality(U(o) \cup {p}) = Cardinality(U(o)) + 1 /\ Cardinality(U(o)) \in Nat
  <2> HIDE DEF U
  <2> QED
    BY <1>1, <1>2, FS_AddElement, FS_CardinalityType
<1>4. Name(R, o) = Cardinality(U(o)) /\ Name(R, p) = Cardinality(U(p))
  BY DEF Name
<1> HIDE DEF U
<1> QED
  BY <1>1, <1>3, <1>4

\* The ordinal of Bridge is the one of the place.
LEMMA OrdinalIs ==
    ASSUME NEW R, Orderly(R), B!Requests = R, NEW p \in Places(R)
    PROVE  B!Ordinal(p[1], p[2]) = Name(R, p)
<1>1. ASSUME NEW q \in B!UpTo(p[1], p[2]) PROVE q \in Places(R) /\ (q = p \/ Earlier(q, p))
  <2>1. PICK r \in 1 .. p[1] : q \in {<<r, e>> : e \in {m \in DOMAIN R[r] : r < p[1] \/ m <= p[2]}}
    BY <1>1 DEF B!UpTo
  <2>2. PICK e \in DOMAIN R[r] : q = <<r, e>> /\ (r < p[1] \/ e <= p[2])
    BY <2>1
  <2>3. r \in DOMAIN R
    BY PlaceType DEF Orderly
  <2>4. q \in Places(R)
    BY <2>2, <2>3, PlaceOf
  <2> QED
    BY <2>2, <2>4, PlaceType DEF Earlier
<1>2. ASSUME NEW q \in Places(R), q = p \/ Earlier(q, p) PROVE q \in B!UpTo(p[1], p[2])
  <2>1. /\ q[1] \in 1 .. p[1]
        /\ q[2] \in {m \in DOMAIN R[q[1]] : q[1] < p[1] \/ m <= p[2]}
    BY <1>2, PlaceType DEF Earlier
  <2>2. q \in {<<q[1], e>> : e \in {m \in DOMAIN R[q[1]] : q[1] < p[1] \/ m <= p[2]}}
    BY <2>1, PlaceType
  <2> QED
    BY <2>1, <2>2 DEF B!UpTo
<1>3. B!UpTo(p[1], p[2]) = {q \in Places(R) : q = p \/ Earlier(q, p)}
  BY <1>1, <1>2
<1> QED
  BY <1>3 DEF Name, B!Ordinal, B!Cardinality, Cardinality


-----------------------------------------------------------------------------
(* Where a document is.  t are the ordinals of the documents written, f the *)
(* records under way.                                                       *)

\* Written, empty, or an exact replay of the one before.
Settled(R, t, p) ==
    \/ Name(R, p) \in t
    \/ At(R, p).id = 0
    \/ \E o \in Places(R) : Adjacent(R, o, p) /\ At(R, o).id = At(R, p).id

Passed(R, t, p) == \A o \in Places(R) : Earlier(o, p) => Settled(R, t, o)

Reached(R, t, p) == Passed(R, t, p) /\ Settled(R, t, p)

Positions == [sort : {0, 1} \X Nat, at : Nat \X Nat]

\* x is a position of the document at p: of its phase, with its record id, and with the
\* serial it was sent as.
Shows(R, x, p) ==
    /\ x \in Positions /\ At(R, p).id # 0 /\ x.at[1] = At(R, p).id /\ x.sort[2] = x.at[2]
    /\ x.sort[1] = 0 <=> B!InSnapshot(At(R, p))

OnItsWay(R, f, x, p) == \E n \in DOMAIN f : f[n].pos = x /\ f[n].id = Name(R, p)

Flights == [pos : Positions, key : Nat, val : Nat, id : Nat, last : BOOLEAN, snapshotEnd : BOOLEAN]

-----------------------------------------------------------------------------
(* The inductive invariant of the bridge and the runtime behind it.         *)

Here == <<answered + 1, doc>>

BridgeType(R) ==
    /\ setup.requests = R /\ setup.connector = "bridge"
    /\ phase \in {"down", "streaming", "failed"}
    /\ flight \in Seq(Flights)
    /\ acked \in Positions \cup {None}
    /\ ckpt \in [pos : Positions \cup {None}, snap : BOOLEAN]
    /\ processing \in [serial : Nat, lastId : Nat, pending : Positions \cup {None}, snap : BOOLEAN]
    /\ waiting \in Positions \cup {None}
    /\ answered \in 0 .. Len(R) /\ doc \in Nat
    /\ phase = "streaming" /\ doc # 0 => Here \in Places(R)
    /\ phase = "streaming" /\ waiting # None => doc # 0
    /\ phase = "down" => flight = <<>> /\ acked = ckpt.pos

\* What is answered is settled, and so are the documents of the request in hand that
\* come before the present one.
AnswersSettled(R) ==
    /\ \A p \in Places(R) : p[1] <= answered => Settled(R, taken, p)
    /\ phase = "streaming" /\ doc # 0 => Passed(R, taken, Here)

\* A document is sent after all before it, and acknowledged and checkpointed after it is
\* written.
SentInOrder(R) ==
    /\ \A n \in DOMAIN flight : \E p \in Places(R) :
        Shows(R, flight[n].pos, p) /\ flight[n].id = Name(R, p) /\ Passed(R, taken, p)
    /\ \A x \in {acked, ckpt.pos} \ {None} : \E p \in Places(R) : Shows(R, x, p) /\ Reached(R, taken, p)

\* What the bridge remembers: its last record is written, the one pending or waited for
\* is written or under way.
Remembered(R) ==
    phase = "streaming" =>
        /\ processing.lastId # 0 =>
            \E p \in Places(R) : At(R, p).id = processing.lastId /\ Reached(R, taken, p)
        /\ processing.pending # None =>
            \E p \in Places(R) :
                /\ Shows(R, processing.pending, p) /\ Passed(R, taken, p)
                /\ Reached(R, taken, p) \/ OnItsWay(R, flight, processing.pending, p)
        /\ waiting # None =>
            \E p \in Places(R) :
                /\ Shows(R, waiting, p) /\ Passed(R, taken, p) /\ At(R, p).id = At(R, Here).id
                /\ Reached(R, taken, p) \/ OnItsWay(R, flight, waiting, p)

\* Serials only grow.
SerialsGrow ==
    /\ \A n \in DOMAIN flight : acked.at[2] < flight[n].pos.at[2]
    /\ \A n, m \in DOMAIN flight : n < m => flight[n].pos.at[2] < flight[m].pos.at[2]
    /\ phase = "streaming" =>
        /\ acked.at[2] <= processing.serial
        /\ \A n \in DOMAIN flight : flight[n].pos.at[2] <= processing.serial

Kept(R) == BridgeType(R) /\ AnswersSettled(R) /\ SentInOrder(R) /\ Remembered(R) /\ SerialsGrow

BridgeKept ==
    \E s \in Setups : setup = s /\ (s.connector = "bridge" => Kept(s.requests))


-----------------------------------------------------------------------------
(* Positions are compared by phase and then by serial.                      *)

LEMMA LexPairs ==
    ASSUME NEW a \in {0, 1} \X Nat, NEW b \in {0, 1} \X Nat
    PROVE  B!Lex(a, b) => a[1] < b[1] \/ (a[1] = b[1] /\ a[2] < b[2])
<1>1. DOMAIN a = 1 .. 2
  OBVIOUS
<1>2. SUFFICES ASSUME NEW n \in 1 .. 2, a[n] < b[n], \A m \in 1 .. n - 1 : a[m] = b[m]
               PROVE  a[1] < b[1] \/ (a[1] = b[1] /\ a[2] < b[2])
  BY <1>1 DEF B!Lex
<1>3. n = 2 => 1 \in 1 .. n - 1
  OBVIOUS
<1> QED
  BY <1>2, <1>3

LEMMA NoneIsNone == B!None = None
  BY DEF B!None, None, B!Position, Position

LEMMA NoneIsNoPosition == None \notin Positions
<1>1. None.sort = <<>>
  BY DEF None, Position
<1>2. <<>> \notin {0, 1} \X Nat
  OBVIOUS
<1> QED
  BY <1>1, <1>2 DEF Positions

-----------------------------------------------------------------------------
(* What has been written stays written, and what is settled.                *)

LEMMA Onward ==
    ASSUME NEW R, NEW t, NEW u, t \subseteq u, NEW p \in Places(R)
    PROVE  /\ Settled(R, t, p) => Settled(R, u, p)
           /\ Passed(R, t, p) => Passed(R, u, p)
           /\ Reached(R, t, p) => Reached(R, u, p)
  BY DEF Settled, Passed, Reached

\* Every document with the record id of one that has been reached is settled.
LEMMA SameRecord ==
    ASSUME NEW R, Orderly(R), NEW t, NEW p \in Places(R), NEW q \in Places(R),
           Reached(R, t, p), At(R, p).id = At(R, q).id
    PROVE  Settled(R, t, q)
<1>1. CASE At(R, q).id = 0
  BY <1>1 DEF Settled
<1>2. CASE At(R, q).id # 0 /\ Earlier(p, q)
  BY <1>2 DEF Orderly, Settled
<1>3. CASE q = p \/ Earlier(q, p)
  BY <1>3 DEF Reached, Passed
<1> QED
  BY <1>1, <1>2, <1>3, EarlierOrder

\* Once a record is acknowledged, or one after it, it is written: the record itself is not
\* under way with a serial that is not after the one acknowledged, and if it is of the
\* snapshot and the one acknowledged is not, it came before.
LEMMA AcknowledgedReached ==
    ASSUME NEW R, Orderly(R), BridgeType(R), SentInOrder(R), SerialsGrow,
           NEW x, NEW p \in Places(R), Shows(R, x, p), Passed(R, taken, p),
           Reached(R, taken, p) \/ OnItsWay(R, flight, x, p), B!Acknowledged(x)
    PROVE  Reached(R, taken, p)
<1> SUFFICES ASSUME OnItsWay(R, flight, x, p) PROVE Reached(R, taken, p)
  OBVIOUS
<1>1. x \in Positions /\ x # None
  BY NoneIsNoPosition DEF Shows
<1>2. acked.at[2] < x.at[2]
  BY DEF OnItsWay, SerialsGrow
<1>3. x.at[2] \in Nat
  BY <1>1 DEF Positions
<1>4. acked # x
  BY <1>2, <1>3
<1>5. acked # None /\ B!Lex(x.sort, acked.sort)
  BY <1>4, NoneIsNone DEF B!Acknowledged, B!IsAfter
<1>6. acked \in Positions
  BY <1>5 DEF BridgeType
<1>7. PICK q \in Places(R) : Shows(R, acked, q) /\ Reached(R, taken, q)
  BY <1>5 DEF SentInOrder
<1>8. x.sort \in {0, 1} \X Nat /\ acked.sort \in {0, 1} \X Nat /\ acked.at[2] \in Nat
  BY <1>1, <1>6 DEF Positions
<1>9. x.sort[1] < acked.sort[1]
  <2>1. x.sort[2] = x.at[2] /\ acked.sort[2] = acked.at[2]
    BY <1>7 DEF Shows
  <2>2. ~(x.sort[2] < acked.sort[2])
    BY <2>1, <1>2, <1>3, <1>8
  <2> QED
    BY <2>2, <1>5, <1>8, LexPairs
<1>10. x.sort[1] = 0 /\ acked.sort[1] # 0
  BY <1>9, <1>8
<1>11. B!InSnapshot(At(R, p)) /\ ~B!InSnapshot(At(R, q)) /\ At(R, p).id # 0 /\ At(R, q).id # 0
  BY <1>10, <1>7 DEF Shows
<1>12. p # q /\ ~Earlier(q, p)
  BY <1>11 DEF Orderly
<1> QED
  BY <1>12, <1>7, EarlierOrder DEF Reached, Passed


-----------------------------------------------------------------------------
(* The bridge's steps.                                                      *)

\* The document in hand is settled, and the bridge goes on.
LEMMA NextDocumentKeeps ==
    ASSUME NEW R, Orderly(R), BridgeType(R), AnswersSettled(R), phase = "streaming", doc # 0,
           Settled(R, taken, Here), B!NextDocument, UNCHANGED <<phase, taken>>
    PROVE  /\ answered' \in 0 .. Len(R) /\ doc' \in Nat
           /\ doc' # 0 => Here' \in Places(R)
           /\ AnswersSettled(R)'
<1>1. Here \in Places(R) /\ B!Request = R[answered + 1]
  BY DEF BridgeType, B!Request, B!Requests
<1>2. answered + 1 \in DOMAIN R /\ doc \in DOMAIN R[answered + 1]
  BY <1>1, PlaceType DEF Here
<1>3. DOMAIN R = 1 .. Len(R) /\ Len(R) \in Nat /\ answered \in Nat /\ doc \in Nat
  BY DEF Orderly, BridgeType
<1>4. DOMAIN R[answered + 1] = 1 .. Len(R[answered + 1]) /\ Len(R[answered + 1]) \in Nat
  BY <1>2 DEF Orderly
<1>5. Passed(R, taken, Here)
  BY DEF AnswersSettled
<1>6. CASE doc < Len(R[answered + 1])
  <2>1. doc' = doc + 1 /\ answered' = answered /\ taken' = taken /\ Here' = <<answered + 1, doc + 1>>
    BY <1>1, <1>6 DEF B!NextDocument, Here
  <2>2. <<answered + 1, doc + 1>> \in Places(R)
    BY <1>2, <1>3, <1>4, <1>6, PlaceOf
  <2>3. ASSUME NEW o \in Places(R), Earlier(o, <<answered + 1, doc + 1>>) PROVE o = Here \/ Earlier(o, Here)
    BY <2>3, <1>3, PlaceType DEF Earlier, Here
  <2>4. Passed(R, taken, <<answered + 1, doc + 1>>)
    BY <2>3, <1>5 DEF Passed
  <2> QED
    BY <2>1, <2>2, <2>4, <1>3 DEF AnswersSettled, BridgeType
<1>7. CASE ~(doc < Len(R[answered + 1]))
  <2>1. doc' = 0 /\ answered' = answered + 1 /\ taken' = taken
    BY <1>1, <1>7 DEF B!NextDocument
  <2>2. ASSUME NEW p \in Places(R), p[1] <= answered + 1 PROVE Settled(R, taken, p)
    <3>1. p[1] <= answered \/ p = Here \/ Earlier(p, Here)
      BY <2>2, <1>3, <1>4, <1>7, PlaceType DEF Earlier, Here
    <3> QED
      BY <3>1, <1>5 DEF Passed, AnswersSettled
  <2> QED
    BY <2>1, <2>2, <1>2, <1>3 DEF AnswersSettled
<1> QED
  BY <1>6, <1>7

LEMMA StartKeeps ==
    ASSUME NEW R, Orderly(R), Kept(R), B!Start
    PROVE  Kept(R)'
<1> USE NoneIsNone, NoneIsNoPosition DEF Kept
<1>1. /\ phase = "down" /\ phase' = "streaming" /\ doc' = 0 /\ waiting' = None
      /\ setup' = setup /\ flight' = flight /\ taken' = taken /\ ckpt' = ckpt /\ acked' = acked /\ answered' = answered
      /\ processing' = [serial |-> IF ckpt.pos = None THEN 0 ELSE ckpt.pos.at[2],
                        lastId |-> IF ckpt.pos = None THEN 0 ELSE ckpt.pos.at[1],
                        pending |-> None, snap |-> ckpt.snap]
  BY DEF B!Start, B!NoRecord, B!runtime
<1>2. flight = <<>> /\ acked = ckpt.pos /\ ckpt.pos \in Positions \cup {None} /\ ckpt.snap \in BOOLEAN
  BY <1>1 DEF BridgeType
<1>3. ckpt.pos # None => ckpt.pos.at[1] \in Nat /\ ckpt.pos.at[2] \in Nat
  BY <1>2 DEF Positions
<1>4. None.at[2] = 0
  BY DEF None, Position
<1>5. BridgeType(R)'
  <2>1. processing' \in [serial : Nat, lastId : Nat, pending : Positions \cup {None}, snap : BOOLEAN]
    BY <1>1, <1>2, <1>3
  <2> QED
    BY <1>1, <2>1 DEF BridgeType
<1>6. AnswersSettled(R)'
  BY <1>1 DEF AnswersSettled
<1>7. SentInOrder(R)'
  BY <1>1 DEF SentInOrder
<1>8. Remembered(R)'
  <2>1. ASSUME processing'.lastId # 0
        PROVE  \E p \in Places(R) : At(R, p).id = processing'.lastId /\ Reached(R, taken, p)
    <3>1. ckpt.pos # None /\ processing'.lastId = ckpt.pos.at[1]
      BY <2>1, <1>1
    <3>2. PICK p \in Places(R) : Shows(R, ckpt.pos, p) /\ Reached(R, taken, p)
      BY <3>1 DEF SentInOrder
    <3> QED
      BY <3>1, <3>2 DEF Shows
  <2>2. processing'.pending = None
    BY <1>1
  <2> QED
    BY <1>1, <2>1, <2>2 DEF Remembered
<1>9. SerialsGrow'
  BY <1>1, <1>2, <1>3, <1>4 DEF SerialsGrow
<1> QED
  BY <1>5, <1>6, <1>7, <1>8, <1>9

LEMMA PostKeeps ==
    ASSUME NEW R, Orderly(R), Kept(R), B!Post
    PROVE  Kept(R)'
<1> USE NoneIsNone DEF Kept
<1>1. /\ phase = "streaming" /\ doc = 0 /\ answered < Len(R) /\ doc' = 1
      /\ UNCHANGED <<setup, phase, flight, taken, ckpt, acked, answered, waiting, processing>>
  BY DEF B!Post, B!Requests, B!runtime, BridgeType
<1>2. Here' = <<answered + 1, 1>> /\ answered + 1 \in DOMAIN R /\ answered \in Nat
  BY <1>1 DEF Here, BridgeType, Orderly
<1>3. 1 \in DOMAIN R[answered + 1]
  BY <1>2 DEF Orderly
<1>4. Here' \in Places(R)
  BY <1>2, <1>3, PlaceOf
<1>5. waiting = None
  BY <1>1 DEF BridgeType
<1>6. ASSUME NEW p \in Places(R), Earlier(p, <<answered + 1, 1>>) PROVE p[1] <= answered
  BY <1>6, <1>2, PlaceType DEF Earlier
<1>7. Passed(R, taken, <<answered + 1, 1>>)
  BY <1>6 DEF Passed, AnswersSettled
<1>8. BridgeType(R)' /\ AnswersSettled(R)'
  BY <1>1, <1>2, <1>4, <1>5, <1>7 DEF BridgeType, AnswersSettled
<1>9. SentInOrder(R)' /\ Remembered(R)' /\ SerialsGrow'
  BY <1>1, <1>5 DEF SentInOrder, Remembered, SerialsGrow
<1> QED
  BY <1>8, <1>9

LEMMA SkipKeeps ==
    ASSUME NEW R, Orderly(R), Kept(R), phase = "streaming", B!Skip
    PROVE  Kept(R)'
<1> USE NoneIsNone DEF Kept
<1>1. /\ doc # 0 /\ waiting = None /\ B!NextDocument
      /\ At(R, Here).id \in {processing.lastId, 0}
      /\ UNCHANGED <<setup, phase, flight, taken, ckpt, acked, waiting, processing>>
  BY DEF B!Skip, B!Document, B!Request, B!Requests, B!NoRecord, B!runtime, BridgeType, At, Here
<1>2. Here \in Places(R)
  BY <1>1 DEF BridgeType
<1>3. Settled(R, taken, Here)
  <2>1. CASE At(R, Here).id = 0
    BY <2>1 DEF Settled
  <2>2. CASE At(R, Here).id # 0
    <3>1. PICK p \in Places(R) : At(R, p).id = At(R, Here).id /\ Reached(R, taken, p)
      BY <2>2, <1>1 DEF Remembered
    <3> QED
      BY <3>1, <1>2, SameRecord
  <2> QED
    BY <2>1, <2>2
<1>4. /\ answered' \in 0 .. Len(R) /\ doc' \in Nat /\ (doc' # 0 => Here' \in Places(R))
      /\ AnswersSettled(R)'
  BY <1>1, <1>3, NextDocumentKeeps
<1>5. BridgeType(R)'
  BY <1>1, <1>4 DEF BridgeType
<1>6. SentInOrder(R)' /\ Remembered(R)' /\ SerialsGrow'
  BY <1>1 DEF SentInOrder, Remembered, SerialsGrow
<1> QED
  BY <1>4, <1>5, <1>6


LEMMA SerialType ==
    ASSUME NEW R, BridgeType(R)
    PROVE  acked.at[2] \in Int /\ \A n \in DOMAIN flight : flight[n].pos.at[2] \in Int
<1>1. None.at[2] = 0
  BY DEF None, Position
<1>2. \A x \in Positions : x.at[2] \in Nat
  BY DEF Positions
<1>3. \A n \in DOMAIN flight : flight[n].pos \in Positions
  <2>1. \A n \in DOMAIN flight : flight[n] \in Flights
    BY DEF BridgeType
  <2>2. \A f \in Flights : f.pos \in Positions
    BY DEF Flights
  <2> QED
    BY <2>1, <2>2
<1>4. acked \in Positions \cup {None}
  BY DEF BridgeType
<1> QED
  BY <1>1, <1>2, <1>3, <1>4

LEMMA AgainKeeps ==
    ASSUME NEW R, Orderly(R), Kept(R), phase = "streaming", B!Again
    PROVE  Kept(R)'
<1> USE NoneIsNone DEF Kept
<1>1. /\ doc # 0 /\ waiting = None /\ processing.pending # None
      /\ processing.pending.at[1] = At(R, Here).id /\ waiting' = processing.pending
      /\ UNCHANGED <<setup, phase, flight, taken, ckpt, acked, answered, doc, processing>>
  BY DEF B!Again, B!Document, B!Request, B!Requests, B!runtime, BridgeType, At, Here
<1>2. Here' = Here
  BY <1>1 DEF Here
<1>3. BridgeType(R)' /\ AnswersSettled(R)' /\ SentInOrder(R)' /\ SerialsGrow'
  BY <1>1, <1>2 DEF BridgeType, AnswersSettled, SentInOrder, SerialsGrow
<1>4. PICK p \in Places(R) :
        /\ Shows(R, processing.pending, p) /\ Passed(R, taken, p)
        /\ Reached(R, taken, p) \/ OnItsWay(R, flight, processing.pending, p)
  BY <1>1 DEF Remembered
<1>5. At(R, p).id = At(R, Here).id
  BY <1>1, <1>4 DEF Shows
<1>6. Remembered(R)'
  BY <1>1, <1>2, <1>4, <1>5 DEF Remembered
<1> QED
  BY <1>3, <1>6

LEMMA RejectKeeps ==
    ASSUME NEW R, Orderly(R), Kept(R), phase = "streaming", B!Reject
    PROVE  Kept(R)'
<1> USE NoneIsNone DEF Kept
<1>1. /\ waiting = None /\ doc' = 0 /\ phase' \in {"streaming", "failed"}
      /\ processing' = IF processing.pending = None THEN [processing EXCEPT !.serial = @ + 1] ELSE processing
      /\ UNCHANGED <<setup, flight, taken, ckpt, acked, answered, waiting>>
  BY DEF B!Reject, B!runtime
<1>2. /\ processing.serial \in Nat /\ processing'.serial \in Nat /\ processing.serial <= processing'.serial
      /\ processing'.lastId = processing.lastId /\ processing'.pending = processing.pending
      /\ processing' \in [serial : Nat, lastId : Nat, pending : Positions \cup {None}, snap : BOOLEAN]
  BY <1>1 DEF BridgeType
<1>3. BridgeType(R)' /\ AnswersSettled(R)' /\ SentInOrder(R)' /\ Remembered(R)'
  BY <1>1, <1>2 DEF BridgeType, AnswersSettled, SentInOrder, Remembered
<1>4. SerialsGrow'
  <2>1. \A k \in Int : k <= processing.serial => k <= processing'.serial
    BY <1>2
  <2>2. acked.at[2] \in Int /\ \A n \in DOMAIN flight : flight[n].pos.at[2] \in Int
    BY SerialType
  <2> QED
    BY <1>1, <2>1, <2>2 DEF SerialsGrow
<1> QED
  BY <1>3, <1>4

LEMMA TimeoutKeeps ==
    ASSUME NEW R, Orderly(R), Kept(R), phase = "streaming", B!Timeout \/ B!CommitFails
    PROVE  Kept(R)'
<1> USE NoneIsNone DEF Kept
<1>1. /\ doc' = 0 /\ waiting' = None /\ phase' \in {"streaming", "failed"}
      /\ UNCHANGED <<setup, flight, taken, ckpt, acked, answered, processing>>
  BY DEF B!Timeout, B!CommitFails, B!runtime
<1> QED
  BY <1>1 DEF BridgeType, AnswersSettled, SentInOrder, Remembered, SerialsGrow

LEMMA SettleKeeps ==
    ASSUME NEW R, Orderly(R), Kept(R), phase = "streaming", B!Settle
    PROVE  Kept(R)'
<1> USE NoneIsNone DEF Kept
<1>1. /\ waiting # None /\ B!Acknowledged(waiting) /\ B!NextDocument /\ waiting' = None
      /\ processing' = [processing EXCEPT !.lastId = At(R, Here).id, !.pending = None]
      /\ UNCHANGED <<setup, phase, flight, taken, ckpt, acked>>
  BY DEF B!Settle, B!Document, B!Request, B!Requests, B!runtime, BridgeType, At, Here
<1>2. doc # 0 /\ Here \in Places(R)
  BY <1>1 DEF BridgeType
<1>3. PICK p \in Places(R) :
        /\ Shows(R, waiting, p) /\ Passed(R, taken, p) /\ At(R, p).id = At(R, Here).id
        /\ Reached(R, taken, p) \/ OnItsWay(R, flight, waiting, p)
  BY <1>1 DEF Remembered
<1>4. Reached(R, taken, p)
  BY <1>1, <1>3, AcknowledgedReached
<1>5. Settled(R, taken, Here)
  BY <1>2, <1>3, <1>4, SameRecord
<1>6. /\ answered' \in 0 .. Len(R) /\ doc' \in Nat /\ (doc' # 0 => Here' \in Places(R))
      /\ AnswersSettled(R)'
  BY <1>1, <1>2, <1>5, NextDocumentKeeps
<1>7. /\ processing'.serial = processing.serial /\ processing'.pending = None
      /\ processing'.lastId = At(R, Here).id
      /\ processing' \in [serial : Nat, lastId : Nat, pending : Positions \cup {None}, snap : BOOLEAN]
  <2>1. At(R, Here).id \in Nat
    BY <1>2, PlaceType DEF DocumentSet
  <2> QED
    BY <1>1, <2>1 DEF BridgeType
<1>8. BridgeType(R)'
  BY <1>1, <1>6, <1>7 DEF BridgeType
<1>9. SentInOrder(R)' /\ SerialsGrow'
  BY <1>1, <1>7 DEF SentInOrder, SerialsGrow
<1>10. Remembered(R)'
  BY <1>1, <1>3, <1>4, <1>7 DEF Remembered
<1> QED
  BY <1>6, <1>8, <1>9, <1>10

LEMMA HandleKeeps ==
    ASSUME NEW R, Orderly(R), Kept(R), phase = "streaming", B!Handle
    PROVE  Kept(R)'
<1> USE NoneIsNone DEF Kept
<1> DEFINE next == processing.serial + 1
           pos == B!Position(<<IF B!InSnapshot(At(R, Here)) THEN 0 ELSE 1, next>>, <<At(R, Here).id, next>>)
           record == B!RecordOf(At(R, Here), pos)
<1>1. /\ doc # 0 /\ At(R, Here).id # 0
      /\ flight' = Append(flight, record) /\ waiting' = pos
      /\ processing' = [processing EXCEPT !.serial = @ + 1, !.snap = @ \/ B!Completes(At(R, Here)),
                                          !.pending = IF setup.kafka THEN None ELSE pos]
      /\ UNCHANGED <<setup, phase, taken, ckpt, acked, answered, doc>>
  BY DEF B!Handle, B!Send, B!Document, B!Request, B!Requests, B!NoRecord, BridgeType, At, Here
<1>2. Here \in Places(R) /\ Passed(R, taken, Here) /\ At(R, Here) \in DocumentSet /\ Here' = Here
  BY <1>1, PlaceType DEF BridgeType, AnswersSettled, Here
<1>3. processing.serial \in Nat /\ next \in Nat /\ At(R, Here).id \in Nat
  BY <1>2 DEF BridgeType, DocumentSet
<1>4. pos \in Positions /\ Shows(R, pos, Here) /\ pos.at[2] = next
  <2>1. pos.sort = <<IF B!InSnapshot(At(R, Here)) THEN 0 ELSE 1, next>> /\ pos.at = <<At(R, Here).id, next>>
    BY DEF B!Position
  <2>2. pos \in Positions
    BY <1>3 DEF Positions, B!Position
  <2>3. /\ pos.sort[1] = 0 <=> B!InSnapshot(At(R, Here))
        /\ pos.sort[2] = next /\ pos.at[1] = At(R, Here).id /\ pos.at[2] = next
    <3> HIDE DEF pos
    <3> QED
      BY <2>1
  <2> HIDE DEF pos
  <2> QED
    BY <1>1, <2>2, <2>3 DEF Shows
<1>5. record \in Flights /\ record.pos = pos /\ record.id = Name(R, Here)
  <2>1. B!Ordinal(answered + 1, doc) = Name(R, Here)
    <3>1. B!Requests = R
      BY DEF B!Requests, BridgeType
    <3> QED
      BY <1>2, <3>1, OrdinalIs DEF Here
  <2>2. Name(R, Here) \in Nat
    BY <1>2, NamePositive
  <2> DEFINE ThisDoc == At(R, Here)
             k == IF ThisDoc.row THEN ThisDoc.key ELSE 0
             v == IF ThisDoc.row THEN ThisDoc.val ELSE 0
             l == B!Completes(ThisDoc) \/ ThisDoc.marker = "end"
             e == B!Completes(ThisDoc) /\ ThisDoc.marker # "end"
  <2>3. record = [pos |-> pos, key |-> k, val |-> v, id |-> Name(R, Here), last |-> l, snapshotEnd |-> e]
    <3> HIDE DEF pos
    <3>1. record = [B!Item(pos, k, v, Name(R, Here)) EXCEPT !.last = l, !.snapshotEnd = e]
      BY <2>1 DEF B!RecordOf, B!NoKey
    <3> HIDE DEF k, v, l, e, record
    <3> QED
      BY <3>1 DEF B!Item
  <2>4. k \in Nat /\ v \in Nat
    BY <1>2 DEF DocumentSet
  <2>5. l \in BOOLEAN /\ e \in BOOLEAN
    BY DEF B!Completes, B!InSnapshot
  <2> HIDE DEF pos, record, k, v, l, e
  <2> QED
    BY <1>4, <2>2, <2>3, <2>4, <2>5 DEF Flights
<1> HIDE DEF pos, record, next
<1>6. /\ processing'.serial = next /\ processing'.lastId = processing.lastId
      /\ processing'.pending \in {None, pos}
      /\ processing' \in [serial : Nat, lastId : Nat, pending : Positions \cup {None}, snap : BOOLEAN]
  <2>1. (processing.snap \/ B!Completes(At(R, Here))) \in BOOLEAN
    BY DEF BridgeType, B!Completes, B!InSnapshot
  <2> QED
    BY <1>1, <1>3, <1>4, <2>1 DEF BridgeType, next
<1>7. /\ flight \in Seq(Flights) /\ flight' \in Seq(Flights) /\ Len(flight) \in Nat
      /\ DOMAIN flight = 1 .. Len(flight) /\ DOMAIN flight' = 1 .. Len(flight) + 1
      /\ \A n \in DOMAIN flight : n # Len(flight) + 1 /\ flight'[n] = flight[n]
      /\ flight'[Len(flight) + 1] = record
  BY <1>1, <1>5 DEF BridgeType
<1>8. BridgeType(R)'
  BY <1>1, <1>2, <1>4, <1>6, <1>7 DEF BridgeType
<1>9. AnswersSettled(R)'
  BY <1>1, <1>2 DEF AnswersSettled
<1>10. SentInOrder(R)'
  BY <1>1, <1>2, <1>4, <1>5, <1>7 DEF SentInOrder
<1>11. \A x, p : OnItsWay(R, flight, x, p) => OnItsWay(R, flight', x, p)
  BY <1>7 DEF OnItsWay
<1>12. OnItsWay(R, flight', pos, Here)
  BY <1>5, <1>7 DEF OnItsWay
<1>13. Remembered(R)'
  <2>1. processing'.lastId # 0 =>
            \E p \in Places(R) : At(R, p).id = processing'.lastId /\ Reached(R, taken, p)
    BY <1>6 DEF Remembered
  <2>2. processing'.pending # None =>
            \E p \in Places(R) :
                /\ Shows(R, processing'.pending, p) /\ Passed(R, taken, p)
                /\ Reached(R, taken, p) \/ OnItsWay(R, flight', processing'.pending, p)
    BY <1>2, <1>4, <1>6, <1>12
  <2> QED
    BY <1>1, <1>2, <1>4, <1>12, <2>1, <2>2 DEF Remembered
<1>14. SerialsGrow'
  <2>1. acked.at[2] \in Int /\ \A n \in DOMAIN flight : flight[n].pos.at[2] \in Int
    BY SerialType
  <2>2. acked.at[2] < next /\ \A n \in DOMAIN flight : flight[n].pos.at[2] < next
    BY <1>3, <2>1 DEF SerialsGrow, next
  <2>3. record.pos.at[2] = next
    BY <1>4, <1>5
  <2>4. \A n \in DOMAIN flight' : n \in DOMAIN flight \/ n = Len(flight) + 1
    BY <1>7
  <2>5. \A n \in DOMAIN flight' : acked.at[2] < flight'[n].pos.at[2] /\ flight'[n].pos.at[2] <= next
    BY <1>3, <1>7, <2>1, <2>2, <2>3, <2>4 DEF SerialsGrow
  <2>6. \A n, m \in DOMAIN flight' : n < m => flight'[n].pos.at[2] < flight'[m].pos.at[2]
    BY <1>7, <2>2, <2>3, <2>4 DEF SerialsGrow
  <2> QED
    BY <1>1, <1>3, <1>6, <2>1, <2>2, <2>5, <2>6 DEF SerialsGrow
<1> QED
  BY <1>8, <1>9, <1>10, <1>13, <1>14


-----------------------------------------------------------------------------
(* The runtime's steps, and the theorem.                                    *)

LEMMA FlushKeeps ==
    ASSUME NEW R, Orderly(R), Kept(R), Flush, UNCHANGED bridge
    PROVE  Kept(R)'
<1> USE NoneIsNoPosition DEF Kept
<1>1. PICK n \in Batches :
        /\ taken' = taken \cup ({flight[m].id : m \in 1 .. n} \ {0})
        /\ ckpt' = [pos |-> flight[n].pos, snap |-> ckpt.snap \/ \E m \in 1 .. n : flight[m].snapshotEnd]
        /\ acked' = flight[n].pos
        /\ flight' = SubSeq(flight, n + 1, Len(flight))
        /\ UNCHANGED <<setup, phase, answered, doc, waiting, processing>>
  BY DEF Flush, Deliver, bridge
<1>2. n \in DOMAIN flight /\ n \in Nat \ {0} /\ flight \in Seq(Flights) /\ Here' = Here
  BY <1>1 DEF Batches, BridgeType, Here
<1>3. /\ flight' \in Seq(Flights) /\ DOMAIN flight' = 1 .. Len(flight) - n
      /\ \A k \in DOMAIN flight' : k + n \in DOMAIN flight /\ n < k + n /\ flight'[k] = flight[k + n]
  BY <1>1, <1>2
<1>4. \A k \in DOMAIN flight : flight[k] \in Flights /\ flight[k].pos \in Positions
  <2>1. \A f \in Flights : f.pos \in Positions
    BY DEF Flights
  <2> QED
    BY <1>2, <2>1
<1>5. taken \subseteq taken'
  BY <1>1
<1>6. ASSUME NEW p \in Places(R), NEW k \in 1 .. n, flight[k].id = Name(R, p) PROVE Settled(R, taken', p)
  <2>1. Name(R, p) # 0
    BY NamePositive
  <2>2. Name(R, p) \in taken'
    BY <1>1, <1>6, <2>1
  <2> QED
    BY <2>2 DEF Settled
<1>7. PICK q \in Places(R) : Shows(R, flight[n].pos, q) /\ flight[n].id = Name(R, q) /\ Passed(R, taken, q)
  BY <1>2 DEF SentInOrder
<1>8. Reached(R, taken', q)
  <2>1. Passed(R, taken', q)
    BY <1>5, <1>7, Onward
  <2>2. Settled(R, taken', q)
    <3>1. n \in 1 .. n
      BY <1>2
    <3> QED
      BY <1>6, <1>7, <3>1
  <2> QED
    BY <2>1, <2>2 DEF Reached
<1>9. BridgeType(R)'
  <2>1. ckpt'.pos = flight[n].pos /\ ckpt' \in [pos : Positions \cup {None}, snap : BOOLEAN]
    <3>1. (ckpt.snap \/ \E m \in 1 .. n : flight[m].snapshotEnd) \in BOOLEAN
      OBVIOUS
    <3> QED
      BY <1>1, <1>2, <1>4, <3>1
  <2>2. phase # "down"
    BY <1>2 DEF BridgeType
  <2> QED
    BY <1>1, <1>2, <1>3, <1>4, <2>1, <2>2 DEF BridgeType
<1>10. AnswersSettled(R)'
  <2>1. \A p \in Places(R) : p[1] <= answered => Settled(R, taken', p)
    BY <1>5, Onward DEF AnswersSettled
  <2>2. phase = "streaming" /\ doc # 0 => Passed(R, taken', Here)
    BY <1>5, Onward DEF AnswersSettled, BridgeType
  <2> QED
    BY <1>1, <1>2, <2>1, <2>2 DEF AnswersSettled
<1>11. SentInOrder(R)'
  <2>1. \A k \in DOMAIN flight' : \E p \in Places(R) :
            Shows(R, flight'[k].pos, p) /\ flight'[k].id = Name(R, p) /\ Passed(R, taken', p)
    <3>1. SUFFICES ASSUME NEW k \in DOMAIN flight'
                   PROVE  \E p \in Places(R) :
                            Shows(R, flight'[k].pos, p) /\ flight'[k].id = Name(R, p) /\ Passed(R, taken', p)
      OBVIOUS
    <3>2. PICK p \in Places(R) :
            Shows(R, flight[k + n].pos, p) /\ flight[k + n].id = Name(R, p) /\ Passed(R, taken, p)
      BY <1>3 DEF SentInOrder
    <3> QED
      BY <1>3, <1>5, <3>2, Onward
  <2>2. acked' = flight[n].pos /\ ckpt'.pos = flight[n].pos
    BY <1>1
  <2> QED
    BY <1>7, <1>8, <2>1, <2>2 DEF SentInOrder
<1>12. ASSUME NEW x, NEW p \in Places(R), Passed(R, taken, p), Reached(R, taken, p) \/ OnItsWay(R, flight, x, p)
       PROVE  /\ Passed(R, taken', p)
              /\ Reached(R, taken', p) \/ OnItsWay(R, flight', x, p)
  <2>1. Passed(R, taken', p)
    BY <1>5, <1>12, Onward
  <2>2. CASE Reached(R, taken, p)
    BY <1>5, <2>1, <2>2, Onward
  <2>3. CASE OnItsWay(R, flight, x, p)
    <3>1. PICK k \in DOMAIN flight : flight[k].pos = x /\ flight[k].id = Name(R, p)
      BY <2>3 DEF OnItsWay
    <3>2. CASE k <= n
      <4>1. Settled(R, taken', p)
        BY <1>2, <1>6, <3>1, <3>2
      <4> QED
        BY <2>1, <4>1 DEF Reached
    <3>3. CASE n < k
      <4>1. k - n \in DOMAIN flight' /\ flight'[k - n] = flight[k]
        BY <1>2, <1>3, <3>3
      <4> QED
        BY <2>1, <3>1, <4>1 DEF OnItsWay
    <3> QED
      BY <1>2, <3>2, <3>3
  <2> QED
    BY <1>12, <2>2, <2>3
<1>13. Remembered(R)'
  <2> SUFFICES ASSUME phase = "streaming" PROVE Remembered(R)'
    BY <1>1 DEF Remembered
  <2>1. processing.lastId # 0 =>
            \E p \in Places(R) : At(R, p).id = processing.lastId /\ Reached(R, taken', p)
    BY <1>5, Onward DEF Remembered
  <2>2. processing.pending # None =>
            \E p \in Places(R) :
                /\ Shows(R, processing.pending, p) /\ Passed(R, taken', p)
                /\ Reached(R, taken', p) \/ OnItsWay(R, flight', processing.pending, p)
    BY <1>12 DEF Remembered
  <2>3. waiting # None =>
            \E p \in Places(R) :
                /\ Shows(R, waiting, p) /\ Passed(R, taken', p) /\ At(R, p).id = At(R, Here).id
                /\ Reached(R, taken', p) \/ OnItsWay(R, flight', waiting, p)
    BY <1>12 DEF Remembered
  <2> QED
    BY <1>1, <1>2, <2>1, <2>2, <2>3 DEF Remembered
<1>14. SerialsGrow'
  <2>1. \A k \in DOMAIN flight' : acked'.at[2] < flight'[k].pos.at[2]
    BY <1>1, <1>2, <1>3 DEF SerialsGrow
  <2>2. \A k, m \in DOMAIN flight' : k < m => flight'[k].pos.at[2] < flight'[m].pos.at[2]
    BY <1>2, <1>3 DEF SerialsGrow
  <2>3. phase = "streaming" => acked'.at[2] <= processing.serial
                               /\ \A k \in DOMAIN flight' : flight'[k].pos.at[2] <= processing.serial
    BY <1>1, <1>2, <1>3 DEF SerialsGrow
  <2> QED
    BY <1>1, <2>1, <2>2, <2>3 DEF SerialsGrow
<1> QED
  BY <1>9, <1>10, <1>11, <1>13, <1>14

\* The process ends, and what was under way may be written or be lost.
LEMMA EndKeeps ==
    ASSUME NEW R, Orderly(R), Kept(R), Ends, taken \subseteq taken', UNCHANGED bridge
    PROVE  Kept(R)'
<1> USE DEF Kept
<1>1. /\ phase' = "down" /\ flight' = <<>> /\ acked' = ckpt.pos
      /\ UNCHANGED <<setup, ckpt, answered, doc, waiting, processing>>
  BY DEF Ends, bridge
<1>2. BridgeType(R)'
  <2>1. ckpt.pos \in Positions \cup {None} /\ <<>> \in Seq(Flights)
    BY DEF BridgeType
  <2> QED
    BY <1>1, <2>1 DEF BridgeType
<1>3. AnswersSettled(R)'
  <2>1. \A p \in Places(R) : p[1] <= answered => Settled(R, taken', p)
    BY Onward DEF AnswersSettled
  <2> QED
    BY <1>1, <2>1 DEF AnswersSettled
<1>4. SentInOrder(R)'
  <2>1. ckpt.pos # None => \E p \in Places(R) : Shows(R, ckpt.pos, p) /\ Reached(R, taken', p)
    BY Onward DEF SentInOrder
  <2> QED
    BY <1>1, <2>1 DEF SentInOrder
<1>5. Remembered(R)' /\ SerialsGrow'
  BY <1>1 DEF Remembered, SerialsGrow
<1> QED
  BY <1>2, <1>3, <1>4, <1>5

LEMMA BridgeStarts ==
    ASSUME NEW s \in Setups, EnginesOrderly, s.connector = "bridge", setup = s, DeliveryInit, B!BridgeInit
    PROVE  Kept(s.requests)
<1> USE NoneIsNone DEF Kept
<1> DEFINE R == s.requests
<1>1. Orderly(R)
  BY DEF EnginesOrderly
<1>2. /\ phase = "down" /\ flight = <<>> /\ taken = {} /\ ckpt = [pos |-> None, snap |-> FALSE] /\ acked = None
      /\ answered = 0 /\ doc = 0 /\ waiting = None
      /\ processing = [serial |-> 0, lastId |-> 0, pending |-> None, snap |-> FALSE]
  BY DEF DeliveryInit, B!BridgeInit, B!NoRecord
<1>3. \A p \in Places(R) : ~(p[1] <= 0)
  BY <1>1, PlaceType
<1>4. Len(R) \in Nat
  BY <1>1 DEF Orderly
<1> HIDE DEF R
<1>5. BridgeType(R)
  BY <1>2, <1>4 DEF BridgeType, R
<1>6. AnswersSettled(R) /\ SentInOrder(R) /\ Remembered(R) /\ SerialsGrow
  BY <1>2, <1>3 DEF AnswersSettled, SentInOrder, Remembered, SerialsGrow
<1> QED
  BY <1>5, <1>6 DEF R


LEMMA BridgeSteps ==
    ASSUME NEW s \in Setups, EnginesOrderly, s.connector = "bridge", setup = s, Kept(s.requests), [Next]_vars
    PROVE  Kept(s.requests)'
<1> DEFINE R == s.requests
<1>1. Orderly(R)
  BY DEF EnginesOrderly
<1>2. Kept(R)
  OBVIOUS
<1> HIDE DEF R
<1>3. CASE Source
  <2>1. B!BridgeNext
    BY <1>3 DEF Source
  <2>2. B!Start \/ B!Post \/ (phase = "streaming" /\ (B!Skip \/ B!Again \/ B!Reject \/ B!Handle \/ B!Settle \/ B!Timeout \/ B!CommitFails))
    BY <2>1 DEF B!BridgeNext
  <2>3. Kept(R)'
    BY <1>1, <1>2, <2>2, StartKeeps, PostKeeps, SkipKeeps, AgainKeeps, RejectKeeps, HandleKeeps, SettleKeeps, TimeoutKeeps
  <2> QED
    BY <2>3 DEF R
<1>4. CASE Delivering
  <2>1. UNCHANGED bridge
    BY <1>4 DEF Delivering
  <2>2. CASE Flush
    BY <1>1, <1>2, <2>1, <2>2, FlushKeeps DEF R
  <2>3. CASE Backwards \/ Restart
    BY <1>1, <1>2, <2>1, <2>3, EndKeeps DEF Backwards, Restart, R
  <2> QED
    BY <1>4, <2>2, <2>3 DEF Delivering
<1>5. CASE Crash /\ UNCHANGED <<log, oracle, last, bridge>>
  <2>1. Ends /\ taken \subseteq taken' /\ UNCHANGED bridge
    BY <1>5 DEF Crash, Deliver
  <2>2. Kept(R)'
    BY <1>1, <1>2, <2>1, EndKeeps
  <2> QED
    BY <2>2 DEF R
<1>6. CASE UNCHANGED vars
  <2>1. UNCHANGED <<setup, phase, flight, taken, ckpt, acked, answered, doc, waiting, processing>>
    BY <1>6 DEF vars, runtime, bridge
  <2>2. BridgeType(R)' /\ AnswersSettled(R)' /\ SerialsGrow'
    <3>1. Here' = Here
      BY <2>1 DEF Here
    <3>2. BridgeType(R)'
      BY <1>2, <2>1, <3>1 DEF Kept, BridgeType
    <3>3. AnswersSettled(R)'
      BY <1>2, <2>1, <3>1 DEF Kept, AnswersSettled
    <3>4. SerialsGrow'
      BY <1>2, <2>1 DEF Kept, SerialsGrow
    <3> QED
      BY <3>2, <3>3, <3>4
  <2>3. SentInOrder(R)'
    BY <1>2, <2>1 DEF Kept, SentInOrder
  <2>4. Remembered(R)'
    BY <1>2, <2>1 DEF Kept, Remembered, Here
  <2>5. Kept(R)'
    BY <2>2, <2>3, <2>4 DEF Kept
  <2> QED
    BY <2>5 DEF R
<1> QED
  BY <1>3, <1>4, <1>5, <1>6 DEF Next

\* The setup is chosen once.
LEMMA SetupStays ==
    ASSUME [Next]_vars
    PROVE  setup' = setup
<1>1. CASE Source /\ setup.connector = "oracle"
  BY <1>1 DEF Source, O!OracleNext, O!Write, O!Start, O!SnapshotRow, O!SnapshotEnd, O!Poll, O!Handle, O!Heartbeat, O!QueryFails
<1>2. CASE Source /\ setup.connector = "mongodb"
  BY <1>2 DEF Source, D!MongoNext, D!Apply, D!Start, D!SnapshotRow, D!SnapshotEnd, D!Take, D!StreamFails, D!Heartbeat
<1>3. CASE Source /\ setup.connector = "bridge"
  BY <1>3 DEF Source, B!BridgeNext, B!Start, B!Post, B!Skip, B!Again, B!Reject, B!Handle, B!Settle, B!Timeout, B!CommitFails
<1>4. CASE Source
  BY <1>1, <1>2, <1>3, <1>4 DEF Source
<1>5. CASE Delivering \/ (Crash /\ UNCHANGED <<log, oracle, last, bridge>>)
  BY <1>5 DEF Delivering, Flush, Backwards, Restart, Crash, Ends
<1>6. CASE UNCHANGED vars
  BY <1>6 DEF vars
<1> QED
  BY <1>4, <1>5, <1>6 DEF Next

\* What the invariant says of the answered requests is what Bridge says of them.
LEMMA KeptIsWritten ==
    ASSUME NEW R, Orderly(R), Kept(R)
    PROVE  B!AnsweredWritten
<1>1. B!Requests = R
  BY DEF B!Requests, Kept, BridgeType
<1>2. SUFFICES ASSUME NEW r \in 1 .. answered, NEW d \in DOMAIN R[r]
               PROVE  \/ B!Ordinal(r, d) \in taken \/ R[r][d].id = 0
                      \/ \E q \in 1 .. r : \E e \in DOMAIN R[q] :
                            B!Ordinal(q, e) = B!Ordinal(r, d) - 1 /\ R[q][e].id = R[r][d].id
  BY <1>1 DEF B!AnsweredWritten, B!NoRecord
<1> DEFINE p == <<r, d>>
<1>3. r \in DOMAIN R /\ r <= answered
  BY DEF Kept, BridgeType, Orderly
<1>4. p \in Places(R)
  BY <1>3, PlaceOf
<1>5. Settled(R, taken, p) /\ At(R, p) = R[r][d]
  BY <1>3, <1>4 DEF Kept, AnswersSettled, At
<1>6. B!Ordinal(r, d) = Name(R, p)
  BY <1>1, <1>4, OrdinalIs
<1>7. ASSUME NEW o \in Places(R), Adjacent(R, o, p), At(R, o).id = At(R, p).id
      PROVE  \E q \in 1 .. r : \E e \in DOMAIN R[q] :
                B!Ordinal(q, e) = B!Ordinal(r, d) - 1 /\ R[q][e].id = R[r][d].id
  <2>1. o[1] \in 1 .. r /\ o[2] \in DOMAIN R[o[1]]
    BY <1>3, <1>4, <1>7, PlaceType DEF Adjacent, Earlier
  <2>2. B!Ordinal(o[1], o[2]) = Name(R, o)
    BY <1>1, OrdinalIs
  <2>3. Name(R, o) = Name(R, p) - 1
    BY <1>4, <1>7, NameSuccessor
  <2> QED
    BY <1>5, <1>6, <1>7, <2>1, <2>2, <2>3 DEF At
<1> HIDE DEF p
<1> QED
  BY <1>5, <1>6, <1>7 DEF Settled

\* A request is answered, or its offset committed, only when every document of it has been
\* written, whatever times out, crashes or is refused, as long as the engine repeats a
\* record only right away and sends its snapshot first.  (wait_for_ack, process_http,
\* run_kafka)
THEOREM AnsweredHeld ==
    ASSUME EnginesOrderly
    PROVE  Spec => []AnsweredDelivered
<1>1. Init => BridgeKept
  <2> SUFFICES ASSUME Init PROVE BridgeKept
    OBVIOUS
  <2> QED
    BY BridgeStarts DEF Init, BridgeKept
<1>2. BridgeKept /\ [Next]_vars => BridgeKept'
  <2> SUFFICES ASSUME BridgeKept, [Next]_vars PROVE BridgeKept'
    OBVIOUS
  <2>1. PICK s \in Setups : setup = s /\ (s.connector = "bridge" => Kept(s.requests))
    BY DEF BridgeKept
  <2>2. setup' = s
    BY <2>1, SetupStays
  <2>3. s.connector = "bridge" => Kept(s.requests)'
    BY <2>1, BridgeSteps
  <2> QED
    BY <2>2, <2>3 DEF BridgeKept
<1>3. BridgeKept => AnsweredDelivered
  BY KeptIsWritten DEF BridgeKept, AnsweredDelivered, EnginesOrderly
<1> QED
  BY <1>1, <1>2, <1>3, PTL DEF Spec
=============================================================================
