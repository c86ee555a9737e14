---------------------- MODULE EventsAndUpgrades_proofs ----------------------
(***************************************************************************)
(* Proofs about EventStream, for every set of clients and kinds, and about *)
(* DesignSystemUpgrade, for every set of documents, releases and previews, *)
(* and for every bound.                                                    *)
(***************************************************************************)
EXTENDS EventStream, DesignSystemUpgrade, TLAPS, FiniteSetTheorems, SequenceTheorems

-----------------------------------------------------------------------------
(* Finite sets of ids.                                                     *)

\* There is a smallest one: induction, in the form this prover can use.
LEMMA Smallest ==
    ASSUME NEW S \in SUBSET Nat, S # {}
    PROVE  \E x \in S : \A y \in S : x <= y
  <1>1. PICK x \in S : \A y \in S : ~(<<y, x>> \in OpToRel(<, Nat))
    BY NatLessThanWellFounded, WFMin
  <1>2. \A y \in S : x <= y
    <2> SUFFICES ASSUME NEW y \in S, y < x PROVE FALSE
      BY SMT
    <2>1. <<y, x>> \in OpToRel(<, Nat)
      BY DEF OpToRel
    <2> QED BY <1>1, <2>1
  <1> QED BY <1>2

LEMMA Largest ==
    ASSUME NEW n \in Nat, NEW S \in SUBSET (0..n), S # {}
    PROVE  /\ Max(S) \in S
           /\ \A y \in S : y <= Max(S)
  <1> DEFINE Bounds == {b \in Nat : \A y \in S : y <= b}
  <1>1. PICK b \in Bounds : \A a \in Bounds : b <= a
    <2>1. Bounds \in SUBSET Nat /\ n \in Bounds
      OBVIOUS
    <2> QED BY <2>1, Smallest
  <1>2. b \in S
    <2> SUFFICES ASSUME b \notin S PROVE FALSE
      OBVIOUS
    <2>1. \A y \in S : y \in Nat /\ y < b
      BY <1>1
    <2>2. PICK y \in S : TRUE
      OBVIOUS
    <2>3. b - 1 \in Nat /\ \A z \in S : z <= b - 1
      BY <1>1, <2>1, <2>2
    <2>4. b - 1 \in Bounds
      BY <2>3
    <2> QED BY <1>1, <2>3, <2>4
  <1>3. \E x \in S : \A y \in S : x >= y
    BY <1>1, <1>2
  <1> QED BY <1>3 DEF Max

\* The rows of a query come in the order of their ids, every one of them once.
Orderings(S) ==
    {ids \in [1..Cardinality(S) -> S] : \A i, j \in 1..Cardinality(S) : i < j => ids[i] < ids[j]}

\* The largest id goes last.
LEMMA OrderExtends ==
    ASSUME NEW m \in Nat, NEW T \in SUBSET (1..m - 1), Orderings(T) # {}
    PROVE  Orderings(T \cup {m}) # {}
  <1>1. IsFiniteSet(T) /\ Cardinality(T) \in Nat
    <2>1. IsFiniteSet(1..m - 1)
      BY FS_Interval
    <2> QED BY <2>1, FS_Subset, FS_CardinalityType
  <1>2. m \notin T
    OBVIOUS
  <1> DEFINE c == Cardinality(T)
  <1>3. Cardinality(T \cup {m}) = c + 1
    BY <1>1, <1>2, FS_AddElement
  <1>4. PICK ids \in [1..c -> T] : \A i, j \in 1..c : i < j => ids[i] < ids[j]
    BY DEF Orderings
  <1>5. c \in Nat
    BY <1>1
  <1> HIDE DEF c
  <1> DEFINE all == [i \in 1..c + 1 |-> IF i = c + 1 THEN m ELSE ids[i]]
  <1>6. \A i \in 1..c : ids[i] \in T /\ ids[i] \in Nat /\ ids[i] < m
    <2>1. \A x \in T : x \in Nat /\ x < m
      OBVIOUS
    <2> QED BY <1>4, <2>1
  <1>7. all \in [1..c + 1 -> T \cup {m}]
    BY <1>5, <1>6
  <1>8. \A i, j \in 1..c + 1 : i < j => all[i] < all[j]
    BY <1>4, <1>5, <1>6
  <1> HIDE DEF all
  <1> QED BY <1>3, <1>7, <1>8 DEF Orderings

LEMMA OrderExists ==
    ASSUME NEW n \in Nat, NEW S \in SUBSET (1..n)
    PROVE  Orderings(S) # {}
  <1> DEFINE Bad == {m \in Nat : \E T \in SUBSET (1..m) : Orderings(T) = {}}
  <1>1. SUFFICES ASSUME Bad # {} PROVE FALSE
    OBVIOUS
  <1>2. PICK m \in Bad : \A k \in Bad : m <= k
    BY <1>1, Smallest
  <1>3. m \in Nat /\ \E T \in SUBSET (1..m) : Orderings(T) = {}
    BY <1>2
  <1>4. PICK T \in SUBSET (1..m) : Orderings(T) = {}
    BY <1>3
  <1>5. T # {}
    <2> SUFFICES ASSUME T = {} PROVE FALSE
      OBVIOUS
    <2>1. Cardinality(T) = 0
      BY FS_EmptySet
    <2>2. [i \in 1..0 |-> 0] \in Orderings(T)
      BY <2>1 DEF Orderings
    <2> QED BY <1>4, <2>2
  <1>6. m - 1 \in Nat
    <2>1. PICK t \in T : t \in 1..m
      BY <1>5
    <2>2. t \in Int /\ 1 <= t /\ t <= m
      BY <1>3, <2>1
    <2> QED BY <1>3, <2>2
  <1>7. m - 1 \notin Bad
    <2> HIDE DEF Bad
    <2>1. ~(m <= m - 1)
      BY <1>3
    <2> QED BY <1>2, <2>1
  <1>8. \A U \in SUBSET (1..m - 1) : Orderings(U) # {}
    BY <1>6, <1>7
  <1>9. m \in T
    <2> SUFFICES ASSUME m \notin T PROVE FALSE
      OBVIOUS
    <2>1. T \in SUBSET (1..m - 1)
      BY <1>3
    <2> QED BY <1>4, <1>8, <2>1
  <1>10. T \ {m} \in SUBSET (1..m - 1)
    BY <1>3
  <1>11. Orderings((T \ {m}) \cup {m}) # {}
    BY <1>3, <1>8, <1>10, OrderExtends
  <1>12. (T \ {m}) \cup {m} = T
    BY <1>9
  <1> QED BY <1>4, <1>11, <1>12

LEMMA OrderedRows ==
    ASSUME NEW n \in Nat, NEW S \in SUBSET (1..n)
    PROVE  /\ Cardinality(S) \in Nat
           /\ S = {} <=> Cardinality(S) = 0
           /\ InOrder(S) \in [1..Cardinality(S) -> S]
           /\ \A i, j \in 1..Cardinality(S) : i < j => InOrder(S)[i] < InOrder(S)[j]
           /\ \A id \in S : \E i \in 1..Cardinality(S) : InOrder(S)[i] = id
  <1>1. IsFiniteSet(S) /\ Cardinality(S) \in Nat
    <2>1. IsFiniteSet(1..n)
      BY FS_Interval
    <2> QED BY <2>1, FS_Subset, FS_CardinalityType
  <1>2. InOrder(S) \in Orderings(S)
    BY OrderExists DEF InOrder, Orderings
  <1>3. /\ InOrder(S) \in [1..Cardinality(S) -> S]
        /\ \A i, j \in 1..Cardinality(S) : i < j => InOrder(S)[i] < InOrder(S)[j]
    BY <1>2 DEF Orderings
  <1> DEFINE D == 1..Cardinality(S)
  <1>4. InOrder(S) \in Injection(D, S)
    <2>1. \A i, j \in D : InOrder(S)[i] = InOrder(S)[j] => i = j
      <3> SUFFICES ASSUME NEW i \in D, NEW j \in D, InOrder(S)[i] = InOrder(S)[j], i # j
                   PROVE  FALSE
        OBVIOUS
      <3>1. InOrder(S)[i] \in S /\ InOrder(S)[j] \in S
        BY <1>3
      <3> HIDE DEF D
      <3>2. InOrder(S)[i] \in Nat /\ InOrder(S)[j] \in Nat
        <4>1. S \subseteq Nat
          OBVIOUS
        <4> QED BY <3>1, <4>1
      <3> USE DEF D
      <3>3. CASE i < j
        BY <1>3, <3>2, <3>3
      <3>4. CASE j < i
        BY <1>3, <3>2, <3>4
      <3> QED BY <1>1, <3>3, <3>4
    <2> QED BY <1>3, <2>1 DEF Injection, IsInjective
  <1>5. IsFiniteSet(D) /\ Cardinality(D) = Cardinality(S)
    BY <1>1, FS_Interval
  <1>6. InOrder(S) \in Surjection(D, S)
    BY <1>1, <1>4, <1>5, FS_Injection
  <1>7. \A id \in S : \E i \in D : InOrder(S)[i] = id
    BY <1>6 DEF Surjection
  <1>8. S = {} <=> Cardinality(S) = 0
    BY <1>1, FS_EmptySet
  <1> QED BY <1>1, <1>3, <1>7, <1>8
-----------------------------------------------------------------------------
(* The inductive invariant.                                                *)

\* Every event has a row or had one, and a process that is down serves nobody.
RowsKept ==
    /\ Ids \subseteq stored \cup forgotten
    /\ ~up => open = {}

\* What is on the wire lies, in order, between what the client has and the
\* cursor of its stream; only a first message tells of a gap.
Ascends(messages, low, high) ==
    /\ \A i \in 1..Len(messages) : low < messages[i].id /\ messages[i].id <= high
    /\ \A i, j \in 1..Len(messages) : i < j => messages[i].id < messages[j].id

GapsFirst(messages) == \A i \in 1..Len(messages) : messages[i].gap => i = 1

WireInOrder ==
    \A c \in Clients :
        /\ cursor[c] <= Len(issued)
        /\ start[c] <= cursor[c] /\ lastSeen[c] <= cursor[c]
        /\ lastSeen[c] = 0 \/ start[c] <= lastSeen[c]
        /\ Ascends(wire[c], start[c], cursor[c])
        /\ Ascends(wire[c], lastSeen[c], cursor[c])
        /\ GapsFirst(wire[c])

Tells(messages, id) ==
    \E i \in 1..Len(messages) :
        messages[i].id = id \/ (messages[i].gap /\ id <= messages[i].id)

\* Between the two nothing is missing ...
WireComplete ==
    \A c \in Clients : \A id \in Ids :
        start[c] < id /\ lastSeen[c] < id /\ id <= cursor[c] /\ CanRead(c, id)
            => id \in forgotten \/ Tells(wire[c], id)

\* ... and what an open stream has not been given waits for the flush.
StreamsCurrent ==
    \A c \in open : \A id \in Ids :
        cursor[c] < id /\ CanRead(c, id) => id \in pending \cup forgotten

ReceivedSeen ==
    \A c \in Clients : \A i \in 1..Len(received[c]) : received[c][i] <= lastSeen[c]

\* That nothing was left out up to what a client has says nothing of what it gets
\* next: the invariant speaks of all there is between the client and the outbox.
IInv ==
    /\ TypeOK /\ RowsKept /\ WireInOrder /\ WireComplete /\ StreamsCurrent /\ ReceivedSeen
    /\ OrderedDelivery /\ NoSilentLoss
-----------------------------------------------------------------------------
(* What is written to a stream.                                            *)

Written == [id : Nat, gap : BOOLEAN]

LEMMA IdsAreNat ==
    ASSUME TypeOK
    PROVE  Len(issued) \in Nat /\ Ids \subseteq Nat
  BY LenProperties DEF TypeOK, Ids

LEMMA MessagesInOrder ==
    ASSUME TypeOK, NEW S \in SUBSET Ids, NEW low \in Nat, NEW high \in Nat,
           \A id \in S : low < id /\ id <= high
    PROVE  /\ Messages(S) \in Seq(Written)
           /\ Messages(S) = <<>> <=> S = {}
           /\ \A i \in 1..Len(Messages(S)) : Messages(S)[i].id \in S
           /\ \A i \in 1..Len(Messages(S)) : ~Messages(S)[i].gap
           /\ Ascends(Messages(S), low, high)
           /\ \A id \in S : Tells(Messages(S), id)
  <1>1. Len(issued) \in Nat /\ S \in SUBSET (1..Len(issued)) /\ S \subseteq Nat
    BY IdsAreNat DEF Ids
  <1> DEFINE n == Cardinality(S)
  <1>2. /\ n \in Nat
        /\ S = {} <=> n = 0
        /\ InOrder(S) \in [1..n -> S]
        /\ \A i, j \in 1..n : i < j => InOrder(S)[i] < InOrder(S)[j]
        /\ \A id \in S : \E i \in 1..n : InOrder(S)[i] = id
    BY <1>1, OrderedRows
  <1>3. Messages(S) = [i \in 1..n |-> [id |-> InOrder(S)[i], gap |-> FALSE]]
    BY DEF Messages, Message
  <1> HIDE DEF n
  <1>4. \A i \in 1..n : InOrder(S)[i] \in S /\ InOrder(S)[i] \in Nat
    BY <1>1, <1>2
  <1>5. /\ Messages(S) \in [1..n -> Written]
        /\ \A i \in 1..n : /\ Messages(S)[i].id = InOrder(S)[i]
                           /\ Messages(S)[i].gap = FALSE
    BY <1>3, <1>4 DEF Written
  <1>6. Messages(S) \in Seq(Written) /\ Len(Messages(S)) = n
    BY <1>2, <1>5
  <1>7. Messages(S) = <<>> <=> n = 0
    BY <1>2, <1>6, EmptySeq
  <1>8. Ascends(Messages(S), low, high)
    BY <1>2, <1>4, <1>5, <1>6 DEF Ascends
  <1>9. \A id \in S : Tells(Messages(S), id)
    BY <1>2, <1>5, <1>6 DEF Tells
  <1> QED BY <1>2, <1>4, <1>5, <1>6, <1>7, <1>8, <1>9

\* The last message is of the latest row.
LEMMA LastMessage ==
    ASSUME TypeOK, NEW S \in SUBSET Ids, S # {}
    PROVE  LET last == Messages(S)[Len(Messages(S))].id
           IN  last \in S /\ \A id \in S : id <= last
  <1> DEFINE n == Len(Messages(S))
  <1>0. /\ Messages(S) \in Seq(Written) /\ Messages(S) # <<>>
        /\ \A i \in 1..n : Messages(S)[i].id \in S /\ ~Messages(S)[i].gap
        /\ Ascends(Messages(S), 0, Len(issued))
        /\ \A id \in S : Tells(Messages(S), id)
    <2>1. 0 \in Nat /\ Len(issued) \in Nat /\ \A id \in S : 0 < id /\ id <= Len(issued)
      BY IdsAreNat DEF Ids
    <2> QED BY <2>1, MessagesInOrder
  <1>1. n \in Nat /\ n # 0
    BY <1>0, EmptySeq
  <1>2. Messages(S)[n].id \in S
    BY <1>0, <1>1
  <1>3. ASSUME NEW id \in S PROVE id <= Messages(S)[n].id
    <2>1. PICK i \in 1..n : Messages(S)[i].id = id
      BY <1>0 DEF Tells
    <2>2. id \in Nat /\ Messages(S)[n].id \in Nat
      BY <1>2, IdsAreNat
    <2>3. i < n => id < Messages(S)[n].id
      BY <1>0, <1>1, <2>1 DEF Ascends
    <2> HIDE DEF n
    <2>4. i = n \/ i < n
      BY <1>1
    <2> QED BY <2>1, <2>2, <2>3, <2>4
  <1> QED BY <1>2, <1>3

LEMMA WrittenIds ==
    ASSUME NEW s \in Seq(Written), NEW i \in 1..Len(s)
    PROVE  s[i].id \in Nat /\ s[i].gap \in BOOLEAN
  <1>1. s[i] \in Written
    BY ElementOfSeq
  <1> QED BY <1>1 DEF Written

LEMMA AscendsConcat ==
    ASSUME NEW s \in Seq(Written), NEW t \in Seq(Written),
           NEW low \in Nat, NEW mid \in Nat, NEW high \in Nat, low <= mid, mid <= high,
           Ascends(s, low, mid), Ascends(t, mid, high)
    PROVE  Ascends(s \o t, low, high)
  <1> DEFINE m == Len(s)
  <1> DEFINE n == Len(t)
  <1>1. m \in Nat /\ n \in Nat
    BY LenProperties
  <1>2. /\ Len(s \o t) = m + n
        /\ \A i \in 1..m + n : (s \o t)[i] = IF i <= m THEN s[i] ELSE t[i - m]
    BY ConcatProperties
  <1>3. /\ \A i \in 1..m : s[i].id \in Nat /\ low < s[i].id /\ s[i].id <= mid
        /\ \A i, j \in 1..m : i < j => s[i].id < s[j].id
    BY WrittenIds DEF Ascends
  <1>4. /\ \A i \in 1..n : t[i].id \in Nat /\ mid < t[i].id /\ t[i].id <= high
        /\ \A i, j \in 1..n : i < j => t[i].id < t[j].id
    BY WrittenIds DEF Ascends
  <1> HIDE DEF m, n
  <1>5. \A i \in 1..m + n : IF i <= m THEN i \in 1..m ELSE i - m \in 1..n
    BY <1>1
  <1>6. ASSUME NEW i \in 1..m + n
        PROVE  low < (s \o t)[i].id /\ (s \o t)[i].id <= high
    <2>1. CASE i <= m
      <3>1. (s \o t)[i] = s[i] /\ s[i].id \in Nat /\ low < s[i].id /\ s[i].id <= mid
        BY <1>2, <1>3, <1>5, <2>1
      <3> QED BY <3>1
    <2>2. CASE ~(i <= m)
      <3>1. (s \o t)[i] = t[i - m] /\ t[i - m].id \in Nat /\ mid < t[i - m].id
            /\ t[i - m].id <= high
        BY <1>2, <1>4, <1>5, <2>2
      <3> QED BY <3>1
    <2> QED BY <2>1, <2>2
  <1>7. ASSUME NEW i \in 1..m + n, NEW j \in 1..m + n, i < j
        PROVE  (s \o t)[i].id < (s \o t)[j].id
    <2>1. CASE j <= m
      <3>1. i <= m
        BY <1>1, <1>7, <2>1
      <3> QED BY <1>2, <1>3, <1>5, <1>7, <2>1, <3>1
    <2>2. CASE i <= m /\ ~(j <= m)
      <3>1. s[i].id \in Nat /\ s[i].id <= mid /\ t[j - m].id \in Nat /\ mid < t[j - m].id
        BY <1>3, <1>4, <1>5, <2>2
      <3>2. s[i].id < t[j - m].id
        BY <3>1
      <3> QED BY <1>2, <2>2, <3>2
    <2>3. CASE ~(i <= m)
      <3>1. ~(j <= m) /\ i - m < j - m
        BY <1>1, <1>7, <2>3
      <3> QED BY <1>2, <1>4, <1>5, <2>3, <3>1
    <2> QED BY <2>1, <2>2, <2>3
  <1> QED BY <1>2, <1>6, <1>7 DEF Ascends

\* What one part tells the whole does; a gap stays first before messages that
\* tell of none.
LEMMA TellsConcat ==
    ASSUME NEW s \in Seq(Written), NEW t \in Seq(Written)
    PROVE  /\ \A id : Tells(s, id) \/ Tells(t, id) => Tells(s \o t, id)
           /\ GapsFirst(s) /\ (\A i \in 1..Len(t) : ~t[i].gap) => GapsFirst(s \o t)
  <1> DEFINE m == Len(s)
  <1> DEFINE n == Len(t)
  <1>1. m \in Nat /\ n \in Nat
    BY LenProperties
  <1>2. /\ Len(s \o t) = m + n
        /\ \A i \in 1..m + n : (s \o t)[i] = IF i <= m THEN s[i] ELSE t[i - m]
    BY ConcatProperties
  <1> HIDE DEF m, n
  <1>3. ASSUME NEW i \in 1..m PROVE i \in 1..m + n /\ (s \o t)[i] = s[i]
    BY <1>1, <1>2
  <1>4. ASSUME NEW i \in 1..n PROVE m + i \in 1..m + n /\ (s \o t)[m + i] = t[i]
    <2>1. m + i \in 1..m + n /\ ~(m + i <= m) /\ (m + i) - m = i
      BY <1>1
    <2> QED BY <1>2, <2>1
  <1>5. ASSUME NEW id, Tells(s, id) PROVE Tells(s \o t, id)
    BY <1>2, <1>3, <1>5 DEF Tells, m
  <1>6. ASSUME NEW id, Tells(t, id) PROVE Tells(s \o t, id)
    BY <1>2, <1>4, <1>6 DEF Tells, n
  <1>7. ASSUME GapsFirst(s), \A i \in 1..Len(t) : ~t[i].gap, NEW i \in 1..m + n,
               (s \o t)[i].gap
        PROVE  i = 1
    <2>1. CASE i <= m
      BY <1>1, <1>2, <1>7, <2>1 DEF GapsFirst, m
    <2>2. CASE ~(i <= m)
      <3>1. i - m \in 1..n
        BY <1>1, <2>2
      <3> QED BY <1>2, <1>7, <2>2, <3>1 DEF n
    <2> QED BY <2>1, <2>2
  <1> QED BY <1>2, <1>5, <1>6, <1>7 DEF GapsFirst

LEMMA LatestId ==
    ASSUME TypeOK, NEW S \in SUBSET Ids, S # {}
    PROVE  Max(S) \in S /\ \A id \in S : id <= Max(S)
  <1>1. Len(issued) \in Nat /\ S \in SUBSET (0..Len(issued))
    BY IdsAreNat DEF Ids
  <1> QED BY <1>1, Largest

\* A flush, whole or up to the row at which the process dies: what a stream may
\* get of the rows goes on its wire, and nothing below its new cursor is left.
LEMMA PublishSound ==
    ASSUME IInv, NEW S \in SUBSET pending,
           \A x \in pending, y \in S : x <= y => x \in S,
           Publish(S), issued' = issued, start' = start, lastSeen' = lastSeen,
           forgotten' = forgotten
    PROVE  /\ cursor' \in [Clients -> Nat] /\ wire' \in [Clients -> Seq(Written)]
           /\ WireInOrder' /\ WireComplete'
           /\ \A c \in open : \A id \in Ids :
                 cursor'[c] < id /\ CanRead(c, id) => id \in (pending \ S) \cup forgotten
  <1>1. TypeOK /\ S \in SUBSET Ids
    BY DEF IInv, TypeOK
  <1>2. Len(issued) \in Nat /\ Ids \subseteq Nat
    BY <1>1, IdsAreNat
  <1>3. ASSUME NEW c \in Clients
        PROVE  cursor[c] \in Nat /\ start[c] \in Nat /\ lastSeen[c] \in Nat
               /\ wire[c] \in Seq(Written) /\ Len(wire[c]) \in Nat
    BY <1>1, LenProperties DEF TypeOK, Written
  <1>4. ASSUME NEW c \in Clients
        PROVE  /\ cursor'[c] \in Nat /\ wire'[c] \in Seq(Written)
               /\ cursor[c] <= cursor'[c] /\ cursor'[c] <= Len(issued)
               /\ Ascends(wire'[c], start[c], cursor'[c])
               /\ Ascends(wire'[c], lastSeen[c], cursor'[c])
               /\ GapsFirst(wire'[c])
               /\ \A id \in Ids : Tells(wire[c], id) => Tells(wire'[c], id)
               /\ \A id \in Ids : cursor[c] < id /\ id <= cursor'[c] /\ CanRead(c, id)
                     => id \in forgotten \/ Tells(wire'[c], id)
               /\ c \in open => \A id \in Ids : cursor'[c] < id /\ CanRead(c, id)
                     => id \in (pending \ S) \cup forgotten
    <2> DEFINE W == Writable(c, S)
    <2>1. W \in SUBSET Ids /\ W \subseteq S /\ \A id \in W : id > cursor[c]
      BY <1>1 DEF Writable
    <2>2. /\ cursor[c] <= Len(issued) /\ start[c] <= cursor[c] /\ lastSeen[c] <= cursor[c]
          /\ Ascends(wire[c], start[c], cursor[c])
          /\ Ascends(wire[c], lastSeen[c], cursor[c])
          /\ GapsFirst(wire[c])
      BY DEF IInv, WireInOrder
    <2>3. \A id \in S : cursor[c] < id /\ CanRead(c, id) => id \in W
      BY <1>1, <1>2, <1>3 DEF Writable
    <2>4. \A id \in Ids : c \in open /\ cursor[c] < id /\ CanRead(c, id)
                             => id \in pending \cup forgotten
      BY DEF IInv, StreamsCurrent
    <2>5. CASE c \notin open \/ W = {}
      <3>1. cursor'[c] = cursor[c]
        BY <2>5 DEF Publish
      <3>2. wire'[c] = wire[c]
        <4>1. CASE c \notin open
          BY <4>1 DEF Publish
        <4>2. CASE c \in open /\ W = {}
          <5>1. Messages(W) = <<>>
            BY <1>1, <1>3, <2>1, <4>2, MessagesInOrder
          <5>2. wire'[c] = wire[c] \o <<>>
            BY <4>2, <5>1 DEF Publish
          <5> QED BY <5>2, <1>3, ConcatEmptySeq
        <4> QED BY <2>5, <4>1, <4>2
      <3> HIDE DEF W
      <3>3. c \in open => \A id \in Ids : cursor'[c] < id /\ CanRead(c, id)
                     => id \in (pending \ S) \cup forgotten
        BY <2>3, <2>4, <2>5, <3>1
      <3>4. ASSUME NEW id \in Ids PROVE ~(cursor[c] < id /\ id <= cursor'[c])
        BY <1>2, <1>3, <3>1
      <3> QED BY <1>2, <1>3, <2>2, <3>1, <3>2, <3>3, <3>4
    <2>6. CASE c \in open /\ W # {}
      <3> DEFINE M == Messages(W)
      <3>1. cursor'[c] = Max(W) /\ wire'[c] = wire[c] \o M
        BY <2>6 DEF Publish
      <3>2. /\ Max(W) \in W /\ \A id \in W : id <= Max(W)
            /\ Max(W) \in Nat /\ Max(W) \in S /\ cursor[c] < Max(W) /\ Max(W) <= Len(issued)
        <4>1. Max(W) \in W /\ \A id \in W : id <= Max(W)
          BY <1>1, <2>1, <2>6, LatestId
        <4>2. Max(W) \in 1..Len(issued)
          BY <2>1, <4>1 DEF Ids
        <4> QED BY <1>2, <2>1, <4>1, <4>2
      <3>3. /\ M \in Seq(Written)
            /\ \A i \in 1..Len(M) : ~M[i].gap
            /\ Ascends(M, cursor[c], Max(W))
            /\ \A id \in W : Tells(M, id)
        BY <1>1, <1>3, <2>1, <3>2, MessagesInOrder
      <3> HIDE DEF W, M
      <3>4. wire[c] \o M \in Seq(Written)
        BY <1>3, <3>3, ConcatProperties
      <3>5. /\ Ascends(wire[c] \o M, start[c], Max(W))
            /\ Ascends(wire[c] \o M, lastSeen[c], Max(W))
        BY <1>3, <2>2, <3>2, <3>3, AscendsConcat
      <3>6. /\ GapsFirst(wire[c] \o M)
            /\ \A id \in Ids : Tells(wire[c], id) \/ Tells(M, id) => Tells(wire[c] \o M, id)
        BY <1>3, <2>2, <3>3, TellsConcat
      <3>7. ASSUME NEW id \in Ids, cursor[c] < id, id <= Max(W), CanRead(c, id)
            PROVE  id \in forgotten \/ Tells(wire[c] \o M, id)
        BY <2>3, <2>4, <2>6, <3>2, <3>3, <3>6, <3>7
      <3>8. ASSUME NEW id \in Ids, Max(W) < id, CanRead(c, id)
            PROVE  id \in (pending \ S) \cup forgotten
        <4>1. id \in Nat /\ cursor[c] < id /\ ~(id <= Max(W))
          BY <1>2, <1>3, <3>2, <3>8
        <4>2. id \notin S
          BY <2>3, <3>2, <3>8, <4>1
        <4> QED BY <2>4, <2>6, <3>8, <4>1, <4>2
      <3> QED BY <1>3, <3>1, <3>2, <3>4, <3>5, <3>6, <3>7, <3>8
    <2> QED BY <2>5, <2>6
  <1>5. cursor' \in [Clients -> Nat] /\ wire' \in [Clients -> Seq(Written)]
    <2>1. DOMAIN cursor' = Clients /\ cursor' = [c \in Clients |-> cursor'[c]]
      BY DEF Publish
    <2>2. DOMAIN wire' = Clients /\ wire' = [c \in Clients |-> wire'[c]]
      BY DEF Publish
    <2> QED BY <1>4, <2>1, <2>2
  <1>6. WireInOrder'
    <2> SUFFICES ASSUME NEW c \in Clients PROVE WireInOrder!(c)'
      BY DEF WireInOrder
    <2> QED BY <1>3, <1>4 DEF IInv, WireInOrder
  <1>7. WireComplete'
    <2> SUFFICES ASSUME NEW c \in Clients, NEW id \in Ids, start[c] < id, lastSeen[c] < id,
                        id <= cursor'[c], CanRead(c, id)
                 PROVE  id \in forgotten \/ Tells(wire'[c], id)
      BY DEF WireComplete, Ids, CanRead
    <2>1. CASE id <= cursor[c]
      BY <1>4, <2>1 DEF IInv, WireComplete
    <2>2. CASE cursor[c] < id
      BY <1>4, <2>2
    <2> QED BY <1>2, <1>3, <2>1, <2>2
  <1>8. \A c \in open : \A id \in Ids :
           cursor'[c] < id /\ CanRead(c, id) => id \in (pending \ S) \cup forgotten
    BY <1>1, <1>4 DEF TypeOK
  <1> QED BY <1>5, <1>6, <1>7, <1>8
-----------------------------------------------------------------------------
(* The steps.                                                              *)

LEMMA InitInvariant == Init => IInv
  <1> SUFFICES ASSUME Init PROVE IInv
    OBVIOUS
  <1>1. Len(issued) = 0 /\ Ids = {} /\ \A c \in Clients : Len(wire[c]) = 0 /\ Len(received[c]) = 0
    BY EmptySeq DEF Init, Ids
  <1>2. TypeOK
    BY <1>1, EmptySeq DEF Init, TypeOK
  <1>3. RowsKept /\ WireComplete /\ StreamsCurrent /\ ReceivedSeen /\ OrderedDelivery
    BY <1>1 DEF Init, RowsKept, WireComplete, StreamsCurrent, ReceivedSeen, OrderedDelivery
  <1>4. WireInOrder
    BY <1>1 DEF Init, WireInOrder, Ascends, GapsFirst
  <1>5. NoSilentLoss
    BY DEF Init, NoSilentLoss
  <1> QED BY <1>2, <1>3, <1>4, <1>5 DEF IInv

\* What the outbox adds is for the flush, what it loses was published.
LEMMA OutboxStep ==
    ASSUME IInv, NEW kind \in Kinds, NEW old \in SUBSET (stored \ pending),
           issued' = Append(issued, kind),
           stored' = (stored \ old) \cup {Len(issued) + 1},
           pending' = pending \cup {Len(issued) + 1},
           forgotten' = forgotten \cup old,
           up' = up, UNCHANGED <<streamVars, clientVars>>
    PROVE  IInv'
  <1>1. TypeOK
    BY DEF IInv
  <1>2. /\ open' = open /\ cursor' = cursor /\ wire' = wire /\ lastSeen' = lastSeen
        /\ start' = start /\ received' = received /\ excused' = excused
    BY DEF streamVars, clientVars
  <1> DEFINE new == Len(issued) + 1
  <1>3. Len(issued) \in Nat /\ issued' \in Seq(Kinds) /\ Len(issued') = new
        /\ \A i \in 1..Len(issued) : issued'[i] = issued[i]
    BY <1>1, AppendProperties, LenProperties DEF TypeOK
  <1>4. Ids' = Ids \cup {new} /\ new \notin Ids /\ \A id \in Ids : id \in Nat /\ id < new
    BY <1>3 DEF Ids
  <1>5. \A c \in Clients : \A id \in Ids : CanRead(c, id)' <=> CanRead(c, id)
    BY <1>3 DEF CanRead, Ids
  <1>6. \A c \in Clients : cursor[c] \in Nat /\ start[c] \in Nat /\ lastSeen[c] \in Nat
    BY <1>1 DEF TypeOK
  <1>7. \A c \in Clients : /\ cursor[c] <= Len(issued) /\ start[c] <= cursor[c]
                           /\ lastSeen[c] <= cursor[c]
    BY DEF IInv, WireInOrder
  <1>8. \A c \in Clients : cursor[c] < new /\ lastSeen[c] < new
    BY <1>3, <1>6, <1>7
  <1> HIDE DEF new
  <1>9. TypeOK'
    BY <1>1, <1>2, <1>3, <1>4 DEF TypeOK, new
  <1>10. RowsKept'
    BY <1>2, <1>4 DEF IInv, RowsKept, new
  <1>11. WireInOrder'
    <2> SUFFICES ASSUME NEW c \in Clients PROVE cursor[c] <= Len(issued')
      BY <1>2 DEF IInv, WireInOrder
    <2> QED BY <1>3, <1>6, <1>7 DEF new
  <1>12. WireComplete'
    <2> SUFFICES ASSUME NEW c \in Clients, NEW id \in Ids', start[c] < id, lastSeen[c] < id,
                        id <= cursor[c], CanRead(c, id)'
                 PROVE  id \in forgotten' \/ Tells(wire[c], id)
      BY <1>2 DEF WireComplete
    <2>1. id \in Ids
      BY <1>3, <1>4, <1>6, <1>8 DEF new
    <2> QED BY <1>5, <2>1 DEF IInv, WireComplete
  <1>13. StreamsCurrent'
    <2> SUFFICES ASSUME NEW c \in open, NEW id \in Ids', cursor[c] < id, CanRead(c, id)'
                 PROVE  id \in pending' \cup forgotten'
      BY <1>2 DEF StreamsCurrent
    <2>1. c \in Clients
      BY <1>1 DEF TypeOK
    <2>2. CASE id \in Ids
      BY <1>5, <2>1, <2>2 DEF IInv, StreamsCurrent
    <2>3. CASE id = new
      BY <2>3 DEF new
    <2> QED BY <1>4, <2>2, <2>3
  <1>14. ReceivedSeen' /\ OrderedDelivery'
    BY <1>2 DEF IInv, ReceivedSeen, OrderedDelivery
  <1>15. NoSilentLoss'
    <2> SUFFICES ASSUME NEW c \in Clients, NEW id \in start[c] + 1 .. lastSeen[c], CanRead(c, id)'
                 PROVE  \/ id <= excused[c]
                        \/ id \in forgotten'
                        \/ \E i \in 1..Len(received[c]) : received[c][i] = id
      BY <1>2 DEF NoSilentLoss
    <2>1. id \in Ids
      BY <1>3, <1>6, <1>7 DEF Ids
    <2> QED BY <1>5, <2>1 DEF IInv, NoSilentLoss
  <1> QED BY <1>9, <1>10, <1>11, <1>12, <1>13, <1>14, <1>15 DEF IInv

LEMMA EmitInvariant ==
    ASSUME IInv, NEW kind \in Kinds, Emit(kind)
    PROVE  IInv'
  <1>1. {} \in SUBSET (stored \ pending) /\ stored = stored \ {} /\ forgotten = forgotten \cup {}
    OBVIOUS
  <1> QED BY <1>1, OutboxStep DEF Emit

LEMMA RetainInvariant ==
    ASSUME IInv, NEW cut, Retain(cut)
    PROVE  IInv'
  <1> DEFINE old == {id \in stored \ pending : id <= cut /\ issued[id] \notin Retained}
  <1>1. Evidence \in Kinds
    BY KindsAssumption
  <1>2. old \in SUBSET (stored \ pending)
    OBVIOUS
  <1>3. /\ issued' = Append(issued, Evidence)
        /\ stored' = (stored \ old) \cup {Len(issued) + 1}
        /\ pending' = pending \cup {Len(issued) + 1}
        /\ forgotten' = forgotten \cup old
        /\ up' = up /\ UNCHANGED <<streamVars, clientVars>>
    BY DEF Retain
  <1> HIDE DEF old
  <1> QED BY <1>1, <1>2, <1>3, OutboxStep

LEMMA FlushInvariant ==
    ASSUME IInv, Flush
    PROVE  IInv'
  <1>1. TypeOK
    BY DEF IInv
  <1>2. /\ Publish(pending) /\ pending' = {} /\ issued' = issued /\ stored' = stored /\ up' = up
        /\ forgotten' = forgotten /\ open' = open /\ lastSeen' = lastSeen /\ start' = start
        /\ received' = received /\ excused' = excused
    BY DEF Flush, clientVars
  <1>3. pending \in SUBSET pending /\ \A x \in pending, y \in pending : x <= y => x \in pending
    OBVIOUS
  <1>4. /\ cursor' \in [Clients -> Nat] /\ wire' \in [Clients -> Seq(Written)]
        /\ WireInOrder' /\ WireComplete'
        /\ \A c \in open : \A id \in Ids :
              cursor'[c] < id /\ CanRead(c, id) => id \in (pending \ pending) \cup forgotten
    BY <1>2, <1>3, PublishSound
  <1>5. TypeOK'
    BY <1>1, <1>2, <1>4 DEF TypeOK, Ids, Written
  <1>6. RowsKept' /\ ReceivedSeen' /\ OrderedDelivery'
    BY <1>2 DEF IInv, RowsKept, ReceivedSeen, OrderedDelivery, Ids
  <1>7. StreamsCurrent'
    BY <1>2, <1>4 DEF StreamsCurrent, Ids, CanRead
  <1>8. NoSilentLoss'
    BY <1>2 DEF IInv, NoSilentLoss, CanRead
  <1> QED BY <1>4, <1>5, <1>6, <1>7, <1>8 DEF IInv

LEMMA CrashInvariant ==
    ASSUME IInv, Crash
    PROVE  IInv'
  <1>1. TypeOK
    BY DEF IInv
  <1>2. /\ up' = FALSE /\ open' = {} /\ issued' = issued /\ stored' = stored
        /\ forgotten' = forgotten /\ lastSeen' = lastSeen /\ start' = start
        /\ received' = received /\ excused' = excused
    BY DEF Crash, clientVars
  <1>3. /\ cursor' \in [Clients -> Nat] /\ wire' \in [Clients -> Seq(Written)]
        /\ WireInOrder' /\ WireComplete' /\ pending' \subseteq pending
    <2>1. CASE UNCHANGED <<pending, cursor, wire>>
      BY <1>1, <1>2, <2>1
         DEF IInv, TypeOK, WireInOrder, WireComplete, Ids, CanRead, Written
    <2>2. ASSUME NEW id \in pending, Publish({x \in pending : x <= id}),
                 pending' = {x \in pending : x >= id}
          PROVE  <1>3!:
      <3> DEFINE S == {x \in pending : x <= id}
      <3>1. \A x \in pending : x \in Nat
        BY <1>1, IdsAreNat DEF TypeOK
      <3>2. S \in SUBSET pending /\ \A x \in pending, y \in S : x <= y => x \in S
        BY <3>1
      <3>3. Publish(S) /\ pending' \subseteq pending
        BY <2>2
      <3> HIDE DEF S
      <3> QED BY <1>2, <3>2, <3>3, PublishSound
    <2> QED BY <2>1, <2>2 DEF Crash
  <1>4. TypeOK'
    BY <1>1, <1>2, <1>3 DEF TypeOK, Ids, Written
  <1>5. RowsKept' /\ ReceivedSeen' /\ OrderedDelivery' /\ StreamsCurrent'
    BY <1>2 DEF IInv, RowsKept, ReceivedSeen, OrderedDelivery, StreamsCurrent, Ids
  <1>6. NoSilentLoss'
    BY <1>2 DEF IInv, NoSilentLoss, CanRead
  <1> QED BY <1>3, <1>4, <1>5, <1>6 DEF IInv

\* Nobody is subscribed, so nobody misses what the constructor marks.
LEMMA StartInvariant ==
    ASSUME IInv, Start
    PROVE  IInv'
  <1>1. /\ up' = TRUE /\ pending' = {} /\ issued' = issued /\ stored' = stored
        /\ forgotten' = forgotten /\ open' = open /\ cursor' = cursor /\ wire' = wire
        /\ lastSeen' = lastSeen /\ start' = start /\ received' = received /\ excused' = excused
    BY DEF Start, streamVars, clientVars
  <1>2. open = {}
    BY DEF Start, IInv, RowsKept
  <1>3. TypeOK'
    BY <1>1 DEF IInv, TypeOK, Ids
  <1>4. RowsKept' /\ ReceivedSeen' /\ OrderedDelivery' /\ StreamsCurrent'
    BY <1>1, <1>2 DEF IInv, RowsKept, ReceivedSeen, OrderedDelivery, StreamsCurrent, Ids
  <1>5. WireInOrder' /\ WireComplete'
    BY <1>1 DEF IInv, WireInOrder, WireComplete, Ids, CanRead
  <1>6. NoSilentLoss'
    BY <1>1 DEF IInv, NoSilentLoss, CanRead
  <1> QED BY <1>3, <1>4, <1>5, <1>6 DEF IInv

LEMMA DisconnectInvariant ==
    ASSUME IInv, NEW c \in Clients, Disconnect(c)
    PROVE  IInv'
  <1>1. /\ open' = open \ {c} /\ up' = up /\ pending' = pending /\ issued' = issued
        /\ stored' = stored /\ forgotten' = forgotten /\ cursor' = cursor /\ wire' = wire
        /\ lastSeen' = lastSeen /\ start' = start /\ received' = received /\ excused' = excused
    BY DEF Disconnect, serverVars, clientVars
  <1>2. TypeOK'
    BY <1>1 DEF IInv, TypeOK, Ids
  <1>3. RowsKept' /\ ReceivedSeen' /\ OrderedDelivery'
    BY <1>1 DEF IInv, RowsKept, ReceivedSeen, OrderedDelivery, Ids
  <1>4. WireInOrder' /\ WireComplete' /\ StreamsCurrent'
    BY <1>1 DEF IInv, WireInOrder, WireComplete, StreamsCurrent, Ids, CanRead
  <1>5. NoSilentLoss'
    BY <1>1 DEF IInv, NoSilentLoss, CanRead
  <1> QED BY <1>2, <1>3, <1>4, <1>5 DEF IInv
-----------------------------------------------------------------------------
(* What an opened stream starts with.                                      *)

LEMMA LatestRow ==
    ASSUME IInv, NEW c \in Clients
    PROVE  /\ LatestEventId(c) \in Nat /\ LatestEventId(c) <= Len(issued)
           /\ Rows(c) \in SUBSET Ids
           /\ \A id \in Rows(c) : id <= LatestEventId(c)
           /\ \A id \in Ids : CanRead(c, id) => id \in Rows(c) \/ id \in forgotten
  <1>1. TypeOK /\ Len(issued) \in Nat
    BY IdsAreNat DEF IInv
  <1>2. Rows(c) \in SUBSET Ids
    BY <1>1 DEF Rows, TypeOK
  <1>3. \A id \in Ids : CanRead(c, id) => id \in Rows(c) \/ id \in forgotten
    BY DEF IInv, RowsKept, Rows
  <1>4. CASE Rows(c) = {}
    BY <1>1, <1>2, <1>3, <1>4 DEF LatestEventId
  <1>5. CASE Rows(c) # {}
    <2>1. LatestEventId(c) \in Rows(c) /\ \A id \in Rows(c) : id <= LatestEventId(c)
      BY <1>1, <1>2, <1>5, LatestId DEF LatestEventId
    <2>2. LatestEventId(c) \in 1..Len(issued)
      BY <1>2, <2>1 DEF Ids
    <2> QED BY <1>1, <1>2, <1>3, <2>1, <2>2
  <1> QED BY <1>4, <1>5

\* The replay after an id tells of every row up to the cursor it leaves, and no
\* row is left behind that cursor.
LEMMA ReplayComplete ==
    ASSUME IInv, NEW c \in Clients, NEW id \in Nat, id <= Len(issued),
           NEW next, next = (IF Replay(c, id) = <<>> THEN id
                             ELSE Replay(c, id)[Len(Replay(c, id))].id)
    PROVE  /\ Replay(c, id) \in Seq(Written) /\ GapsFirst(Replay(c, id))
           /\ next \in Nat /\ id <= next /\ next <= Len(issued)
           /\ Ascends(Replay(c, id), id, next)
           /\ \A x \in Ids : id < x /\ x <= next /\ CanRead(c, x)
                 => x \in forgotten \/ Tells(Replay(c, id), x)
           /\ \A x \in Ids : next < x /\ CanRead(c, x) => x \in forgotten
  <1>1. TypeOK /\ Len(issued) \in Nat /\ Ids \subseteq Nat
    BY IdsAreNat DEF IInv
  <1> DEFINE latest == LatestEventId(c)
  <1>2. /\ latest \in Nat /\ latest <= Len(issued) /\ Rows(c) \in SUBSET Ids
        /\ \A x \in Rows(c) : x <= latest
        /\ \A x \in Ids : CanRead(c, x) => x \in Rows(c) \/ x \in forgotten
    BY LatestRow
  <1> HIDE DEF latest
  <1>3. CASE (Gap(c, id) \/ HasMore(c, id)) /\ latest > id
    <2>1. Replay(c, id) = <<[id |-> latest, gap |-> TRUE]>>
      BY <1>3 DEF Replay, Message, latest
    <2> DEFINE gap == [id |-> latest, gap |-> TRUE]
    <2>2. /\ <<gap>> \in Seq(Written) /\ Len(<<gap>>) = 1 /\ <<gap>>[1] = gap /\ <<gap>> # <<>>
      BY <1>2 DEF Written
    <2>3. gap.id = latest /\ gap.gap = TRUE
      OBVIOUS
    <2>4. Replay(c, id) = <<gap>>
      BY <2>1
    <2> HIDE DEF gap
    <2>5. next = latest
      BY <2>2, <2>3, <2>4
    <2>6. GapsFirst(<<gap>>) /\ Ascends(<<gap>>, id, next)
      BY <1>2, <1>3, <2>2, <2>3, <2>5 DEF GapsFirst, Ascends
    <2>7. \A x \in Ids : x <= next => Tells(<<gap>>, x)
      BY <2>2, <2>3, <2>5 DEF Tells
    <2>8. \A x \in Ids : next < x /\ CanRead(c, x) => x \in forgotten
      BY <1>1, <1>2, <2>5
    <2> QED BY <1>2, <1>3, <2>2, <2>4, <2>5, <2>6, <2>7, <2>8
  <1>4. CASE (Gap(c, id) \/ HasMore(c, id)) /\ ~(latest > id)
    <2>1. Replay(c, id) = <<>> /\ next = id
      BY <1>4 DEF Replay, latest
    <2>2. <<>> \in Seq(Written) /\ Len(<<>>) = 0
      BY EmptySeq
    <2>3. GapsFirst(<<>>) /\ Ascends(<<>>, id, next)
      BY <2>2 DEF GapsFirst, Ascends
    <2>4. ASSUME NEW x \in Ids, id < x, CanRead(c, x) PROVE x \in forgotten
      <3>1. x \in Nat /\ ~(x <= latest)
        BY <1>1, <1>2, <1>4, <2>4
      <3> QED BY <1>2, <2>4, <3>1
    <2> QED BY <1>1, <2>1, <2>2, <2>3, <2>4
  <1>5. CASE ~(Gap(c, id) \/ HasMore(c, id))
    <2> DEFINE A == After(c, id)
    <2>1. Replay(c, id) = Messages(A)
      BY <1>5 DEF Replay
    <2>2. A \in SUBSET Ids /\ \A x \in A : x > id
      BY <1>2 DEF After
    <2>3. \A x \in Ids : id < x /\ CanRead(c, x) => x \in A \/ x \in forgotten
      BY <1>1, <1>2 DEF After
    <2>4. CASE A = {}
      <3>1. Messages(A) = <<>>
        <4>1. \A x \in A : id < x /\ x <= id
          BY <2>4
        <4> QED BY <1>1, <2>2, <2>4, <4>1, MessagesInOrder
      <3>2. <<>> \in Seq(Written) /\ Len(<<>>) = 0
        BY EmptySeq
      <3>3. GapsFirst(<<>>) /\ Ascends(<<>>, id, next)
        BY <3>2 DEF GapsFirst, Ascends
      <3>4. next = id
        BY <2>1, <3>1
      <3>5. \A x \in Ids : id < x /\ CanRead(c, x) => x \in forgotten
        BY <2>3, <2>4
      <3>6. Replay(c, id) = <<>>
        BY <2>1, <3>1
      <3> QED BY <3>2, <3>3, <3>4, <3>5, <3>6
    <2>5. CASE A # {}
      <3> DEFINE last == Messages(A)[Len(Messages(A))].id
      <3>1. last \in A /\ \A x \in A : x <= last
        BY <1>1, <2>2, <2>5, LastMessage
      <3>2. last \in 1..Len(issued) /\ last \in Nat /\ id < last
        BY <1>1, <2>2, <3>1 DEF Ids
      <3> HIDE DEF last, A
      <3>3. /\ Messages(A) \in Seq(Written) /\ Messages(A) # <<>>
            /\ \A i \in 1..Len(Messages(A)) : ~Messages(A)[i].gap
            /\ Ascends(Messages(A), id, last)
            /\ \A x \in A : Tells(Messages(A), x)
        BY <1>1, <2>2, <2>5, <3>1, <3>2, MessagesInOrder
      <3>4. next = last
        BY <2>1, <3>3 DEF last
      <3>5. GapsFirst(Messages(A))
        BY <3>3 DEF GapsFirst
      <3>6. \A x \in Ids : id < x /\ CanRead(c, x) => x \in forgotten \/ Tells(Messages(A), x)
        BY <2>3, <3>3
      <3>7. ASSUME NEW x \in Ids, next < x, CanRead(c, x) PROVE x \in forgotten
        <4>1. x \notin A /\ id < x
          BY <1>1, <3>1, <3>2, <3>4, <3>7
        <4> QED BY <2>3, <3>7, <4>1
      <3> QED BY <1>1, <2>1, <3>2, <3>3, <3>4, <3>5, <3>6, <3>7
    <2> QED BY <2>4, <2>5
  <1> QED BY <1>3, <1>4, <1>5

LEMMA ConnectInvariant ==
    ASSUME IInv, NEW c \in Clients, Connect(c)
    PROVE  IInv'
  <1>1. TypeOK /\ Len(issued) \in Nat /\ Ids \subseteq Nat
    BY IdsAreNat DEF IInv
  <1> DEFINE latest == LatestEventId(c)
  <1>2. /\ latest \in Nat /\ latest <= Len(issued)
        /\ \A id \in Ids : latest < id /\ CanRead(c, id) => id \in forgotten
    BY <1>1, LatestRow
  <1>3. /\ open' = open \cup {c} /\ up /\ up' = up /\ pending' = pending /\ issued' = issued
        /\ stored' = stored /\ forgotten' = forgotten /\ lastSeen[c] = 0
        /\ cursor' = [cursor EXCEPT ![c] = latest]
        /\ wire' = [wire EXCEPT ![c] = <<>>]
        /\ start' = [start EXCEPT ![c] = latest]
        /\ lastSeen' = lastSeen /\ received' = received /\ excused' = excused
    BY DEF Connect, serverVars
  <1> HIDE DEF latest
  <1>4. <<>> \in Seq(Written) /\ Len(<<>>) = 0
    BY EmptySeq
  <1>5. TypeOK'
    BY <1>1, <1>2, <1>3, <1>4 DEF TypeOK, Ids, Written
  <1>6. RowsKept' /\ ReceivedSeen' /\ OrderedDelivery'
    BY <1>1, <1>3 DEF IInv, RowsKept, ReceivedSeen, OrderedDelivery, Ids
  <1>7. \A d \in Clients : d # c => /\ cursor'[d] = cursor[d] /\ wire'[d] = wire[d]
                                    /\ start'[d] = start[d]
    BY <1>1, <1>3 DEF TypeOK
  <1>8. cursor'[c] = latest /\ wire'[c] = <<>> /\ start'[c] = latest
    BY <1>1, <1>3 DEF TypeOK
  <1>9. WireInOrder'
    <2> SUFFICES ASSUME NEW d \in Clients PROVE WireInOrder!(d)'
      BY DEF WireInOrder
    <2>1. CASE d # c
      BY <1>3, <1>7, <2>1 DEF IInv, WireInOrder
    <2>2. CASE d = c
      BY <1>1, <1>2, <1>3, <1>4, <1>8, <2>2 DEF Ascends, GapsFirst
    <2> QED BY <2>1, <2>2
  <1>10. WireComplete'
    <2> SUFFICES ASSUME NEW d \in Clients, NEW id \in Ids, start'[d] < id, lastSeen[d] < id,
                        id <= cursor'[d], CanRead(d, id)
                 PROVE  id \in forgotten \/ Tells(wire'[d], id)
      BY <1>3 DEF WireComplete, Ids, CanRead
    <2>1. CASE d # c
      BY <1>7, <2>1 DEF IInv, WireComplete
    <2>2. CASE d = c
      BY <1>1, <1>2, <1>8, <2>2
    <2> QED BY <2>1, <2>2
  <1>11. StreamsCurrent'
    <2> SUFFICES ASSUME NEW d \in open \cup {c}, NEW id \in Ids, cursor'[d] < id, CanRead(d, id)
                 PROVE  id \in pending \cup forgotten
      BY <1>3 DEF StreamsCurrent, Ids, CanRead
    <2>1. CASE d # c
      BY <1>1, <1>7, <2>1 DEF IInv, StreamsCurrent, TypeOK
    <2>2. CASE d = c
      BY <1>2, <1>8, <2>2
    <2> QED BY <2>1, <2>2
  <1>12. NoSilentLoss'
    <2> SUFFICES ASSUME NEW d \in Clients, NEW id \in start'[d] + 1 .. lastSeen[d], CanRead(d, id)
                 PROVE  \/ id <= excused[d]
                        \/ id \in forgotten
                        \/ \E i \in 1..Len(received[d]) : received[d][i] = id
      BY <1>3 DEF NoSilentLoss, CanRead
    <2>1. CASE d # c
      BY <1>7, <2>1 DEF IInv, NoSilentLoss
    <2>2. CASE d = c
      BY <1>2, <1>3, <1>8, <2>2
    <2> QED BY <2>1, <2>2
  <1> QED BY <1>5, <1>6, <1>9, <1>10, <1>11, <1>12 DEF IInv

LEMMA ResumeInvariant ==
    ASSUME IInv, NEW c \in Clients, Resume(c)
    PROVE  IInv'
  <1>1. TypeOK /\ Len(issued) \in Nat /\ Ids \subseteq Nat
    BY IdsAreNat DEF IInv
  <1> DEFINE id == lastSeen[c]
  <1> DEFINE replay == Replay(c, id)
  <1> DEFINE next == IF replay = <<>> THEN id ELSE replay[Len(replay)].id
  <1>2. /\ open' = open \cup {c} /\ up /\ up' = up /\ pending' = pending /\ issued' = issued
        /\ stored' = stored /\ forgotten' = forgotten /\ id > 0
        /\ cursor' = [cursor EXCEPT ![c] = next]
        /\ wire' = [wire EXCEPT ![c] = replay]
        /\ lastSeen' = lastSeen /\ start' = start /\ received' = received /\ excused' = excused
    BY DEF Resume, serverVars, clientVars
  <1>3. id \in Nat /\ start[c] \in Nat /\ start[c] <= id /\ id <= Len(issued)
    <2>1. id \in Nat /\ start[c] \in Nat /\ cursor[c] \in Nat
      BY <1>1 DEF TypeOK
    <2>2. id <= cursor[c] /\ cursor[c] <= Len(issued) /\ (id = 0 \/ start[c] <= id)
      BY DEF IInv, WireInOrder
    <2> QED BY <1>1, <1>2, <2>1, <2>2
  <1>4. /\ replay \in Seq(Written) /\ GapsFirst(replay)
        /\ next \in Nat /\ id <= next /\ next <= Len(issued)
        /\ Ascends(replay, id, next)
        /\ \A x \in Ids : id < x /\ x <= next /\ CanRead(c, x)
              => x \in forgotten \/ Tells(replay, x)
        /\ \A x \in Ids : next < x /\ CanRead(c, x) => x \in forgotten
    BY <1>3, ReplayComplete
  <1> HIDE DEF next, replay
  <1>5. Ascends(replay, start[c], next)
    <2>1. \A i \in 1..Len(replay) : replay[i].id \in Nat
      BY <1>4, WrittenIds
    <2> HIDE DEF id
    <2> QED BY <1>3, <1>4, <2>1 DEF Ascends
  <1>6. TypeOK'
    BY <1>1, <1>2, <1>4 DEF TypeOK, Ids, Written
  <1>7. RowsKept' /\ ReceivedSeen' /\ OrderedDelivery'
    BY <1>1, <1>2 DEF IInv, RowsKept, ReceivedSeen, OrderedDelivery, Ids
  <1>8. \A d \in Clients : d # c => cursor'[d] = cursor[d] /\ wire'[d] = wire[d]
    BY <1>1, <1>2 DEF TypeOK
  <1>9. cursor'[c] = next /\ wire'[c] = replay
    BY <1>1, <1>2 DEF TypeOK
  <1>10. WireInOrder'
    <2> SUFFICES ASSUME NEW d \in Clients PROVE WireInOrder!(d)'
      BY DEF WireInOrder
    <2>1. CASE d # c
      BY <1>2, <1>8, <2>1 DEF IInv, WireInOrder
    <2>2. CASE d = c
      BY <1>2, <1>3, <1>4, <1>5, <1>9, <2>2
    <2> QED BY <2>1, <2>2
  <1>11. WireComplete'
    <2> SUFFICES ASSUME NEW d \in Clients, NEW x \in Ids, start[d] < x, lastSeen[d] < x,
                        x <= cursor'[d], CanRead(d, x)
                 PROVE  x \in forgotten \/ Tells(wire'[d], x)
      BY <1>2 DEF WireComplete, Ids, CanRead
    <2>1. CASE d # c
      BY <1>8, <2>1 DEF IInv, WireComplete
    <2>2. CASE d = c
      BY <1>4, <1>9, <2>2
    <2> QED BY <2>1, <2>2
  <1>12. StreamsCurrent'
    <2> SUFFICES ASSUME NEW d \in open \cup {c}, NEW x \in Ids, cursor'[d] < x, CanRead(d, x)
                 PROVE  x \in pending \cup forgotten
      BY <1>2 DEF StreamsCurrent, Ids, CanRead
    <2>1. CASE d # c
      BY <1>1, <1>8, <2>1 DEF IInv, StreamsCurrent, TypeOK
    <2>2. CASE d = c
      BY <1>4, <1>9, <2>2
    <2> QED BY <2>1, <2>2
  <1>13. NoSilentLoss'
    BY <1>2 DEF IInv, NoSilentLoss, CanRead
  <1> QED BY <1>6, <1>7, <1>10, <1>11, <1>12, <1>13 DEF IInv
-----------------------------------------------------------------------------
(* What a client gets.                                                     *)

LEMMA FirstOfWire ==
    ASSUME NEW s \in Seq(Written), s # <<>>, NEW low \in Nat, NEW high \in Nat,
           Ascends(s, low, high), GapsFirst(s)
    PROVE  /\ Head(s).id \in Nat /\ Head(s).gap \in BOOLEAN
           /\ low < Head(s).id /\ Head(s).id <= high
           /\ Tail(s) \in Seq(Written) /\ GapsFirst(Tail(s))
           /\ Ascends(Tail(s), low, high) /\ Ascends(Tail(s), Head(s).id, high)
           /\ \A id \in Nat : Tells(s, id) =>
                 IF id <= Head(s).id THEN id = Head(s).id \/ Head(s).gap
                 ELSE Tells(Tail(s), id)
  <1> DEFINE n == Len(s)
  <1>1. n \in Nat \ {0}
    BY EmptySeq
  <1>2. Head(s) = s[1]
    OBVIOUS
  <1>3. /\ Tail(s) \in Seq(Written) /\ Len(Tail(s)) = n - 1
        /\ \A i \in 1..n - 1 : Tail(s)[i] = s[i + 1]
    BY HeadTailProperties
  <1>4. \A i \in 1..n : s[i].id \in Nat /\ s[i].gap \in BOOLEAN
    BY WrittenIds
  <1>5. /\ \A i \in 1..n : low < s[i].id /\ s[i].id <= high
        /\ \A i, j \in 1..n : i < j => s[i].id < s[j].id
        /\ \A i \in 1..n : s[i].gap => i = 1
    BY DEF Ascends, GapsFirst
  <1> HIDE DEF n
  <1>6. 1 \in 1..n /\ \A i \in 1..n - 1 : i + 1 \in 1..n /\ 1 < i + 1 /\ i + 1 # 1
    BY <1>1
  <1>7. ASSUME NEW i \in 1..n - 1
        PROVE  /\ Tail(s)[i].id \in Nat /\ low < Tail(s)[i].id /\ Tail(s)[i].id <= high
               /\ Head(s).id < Tail(s)[i].id /\ ~Tail(s)[i].gap
    BY <1>2, <1>3, <1>4, <1>5, <1>6
  <1>8. ASSUME NEW i \in 1..n - 1, NEW j \in 1..n - 1, i < j
        PROVE  Tail(s)[i].id < Tail(s)[j].id
    <2>1. i + 1 < j + 1
      BY <1>8
    <2> QED BY <1>3, <1>5, <1>6, <2>1
  <1>9. GapsFirst(Tail(s)) /\ Ascends(Tail(s), low, high) /\ Ascends(Tail(s), Head(s).id, high)
    BY <1>3, <1>7, <1>8 DEF GapsFirst, Ascends
  <1>10. ASSUME NEW id \in Nat, Tells(s, id)
         PROVE  IF id <= Head(s).id THEN id = Head(s).id \/ Head(s).gap ELSE Tells(Tail(s), id)
    <2>1. PICK i \in 1..n : s[i].id = id \/ (s[i].gap /\ id <= s[i].id)
      BY <1>10 DEF Tells, n
    <2>2. CASE i = 1
      BY <1>2, <1>4, <1>6, <2>1, <2>2
    <2>3. CASE i # 1
      <3>1. i - 1 \in 1..n - 1 /\ (i - 1) + 1 = i /\ 1 < i
        BY <1>1, <2>3
      <3>2. ~s[i].gap /\ s[i].id = id
        BY <1>5, <2>1, <2>3
      <3>3. ~(id <= Head(s).id)
        BY <1>2, <1>4, <1>5, <1>6, <3>1, <3>2
      <3>4. Tail(s)[i - 1].id = id
        BY <1>3, <3>1, <3>2
      <3> QED BY <1>3, <3>1, <3>3, <3>4 DEF Tells
    <2> QED BY <2>2, <2>3
  <1> QED BY <1>2, <1>3, <1>4, <1>5, <1>6, <1>9, <1>10

LEMMA ReceiveInvariant ==
    ASSUME IInv, NEW c \in Clients, Receive(c)
    PROVE  IInv'
  <1>1. TypeOK /\ Len(issued) \in Nat /\ Ids \subseteq Nat
    BY IdsAreNat DEF IInv
  <1> DEFINE first == Head(wire[c]).id
  <1>2. /\ open' = open /\ up' = up /\ pending' = pending /\ issued' = issued /\ stored' = stored
        /\ forgotten' = forgotten /\ cursor' = cursor /\ start' = start /\ wire[c] # <<>>
        /\ wire' = [wire EXCEPT ![c] = Tail(wire[c])]
        /\ lastSeen' = [lastSeen EXCEPT ![c] = first]
    BY DEF Receive, serverVars
  <1>3. /\ Head(wire[c]).gap => /\ excused' = [excused EXCEPT ![c] = first]
                                /\ received' = received
        /\ ~Head(wire[c]).gap => /\ received' = [received EXCEPT ![c] = Append(received[c], first)]
                                 /\ excused' = excused
    BY DEF Receive
  <1>4. /\ wire[c] \in Seq(Written) /\ cursor[c] \in Nat /\ start[c] \in Nat /\ lastSeen[c] \in Nat
        /\ received[c] \in Seq(Nat) /\ Len(received[c]) \in Nat /\ excused[c] \in Nat
    BY <1>1, LenProperties DEF TypeOK, Written
  <1>5. /\ start[c] <= cursor[c] /\ lastSeen[c] <= cursor[c] /\ cursor[c] <= Len(issued)
        /\ Ascends(wire[c], start[c], cursor[c]) /\ Ascends(wire[c], lastSeen[c], cursor[c])
        /\ GapsFirst(wire[c])
    BY DEF IInv, WireInOrder
  <1>6. /\ first \in Nat /\ start[c] < first /\ lastSeen[c] < first /\ first <= cursor[c]
        /\ Head(wire[c]).gap \in BOOLEAN
        /\ Tail(wire[c]) \in Seq(Written) /\ GapsFirst(Tail(wire[c]))
        /\ Ascends(Tail(wire[c]), start[c], cursor[c]) /\ Ascends(Tail(wire[c]), first, cursor[c])
        /\ \A id \in Nat : Tells(wire[c], id) =>
              IF id <= first THEN id = first \/ Head(wire[c]).gap ELSE Tells(Tail(wire[c]), id)
    BY <1>2, <1>4, <1>5, FirstOfWire
  <1> DEFINE gap == Head(wire[c]).gap
  <1> HIDE DEF first, gap
  <1>7. /\ Append(received[c], first) \in Seq(Nat)
        /\ Len(Append(received[c], first)) = Len(received[c]) + 1
        /\ \A i \in 1..Len(received[c]) : Append(received[c], first)[i] = received[c][i]
        /\ Append(received[c], first)[Len(received[c]) + 1] = first
    BY <1>4, <1>6, AppendProperties
  <1>8. TypeOK'
    BY <1>1, <1>2, <1>3, <1>4, <1>6, <1>7 DEF TypeOK, Ids, Written
  <1>9. RowsKept'
    BY <1>2 DEF IInv, RowsKept, Ids
  <1>10. \A d \in Clients : d # c => /\ wire'[d] = wire[d] /\ lastSeen'[d] = lastSeen[d]
                                     /\ received'[d] = received[d] /\ excused'[d] = excused[d]
    BY <1>1, <1>2, <1>3 DEF TypeOK
  <1>11. /\ wire'[c] = Tail(wire[c]) /\ lastSeen'[c] = first
         /\ gap => excused'[c] = first /\ received'[c] = received[c]
         /\ ~gap => excused'[c] = excused[c] /\ received'[c] = Append(received[c], first)
    BY <1>1, <1>2, <1>3 DEF TypeOK, gap
  <1>12. WireInOrder'
    <2> SUFFICES ASSUME NEW d \in Clients PROVE WireInOrder!(d)'
      BY DEF WireInOrder
    <2>1. CASE d # c
      BY <1>2, <1>10, <2>1 DEF IInv, WireInOrder
    <2>2. CASE d = c
      BY <1>2, <1>4, <1>5, <1>6, <1>11, <2>2
    <2> QED BY <2>1, <2>2
  <1>13. WireComplete'
    <2> SUFFICES ASSUME NEW d \in Clients, NEW id \in Ids, start[d] < id, lastSeen'[d] < id,
                        id <= cursor[d], CanRead(d, id)
                 PROVE  id \in forgotten \/ Tells(wire'[d], id)
      BY <1>2 DEF WireComplete, Ids, CanRead
    <2>1. CASE d # c
      BY <1>10, <2>1 DEF IInv, WireComplete
    <2>2. CASE d = c
      <3>1. id \in Nat /\ ~(id <= first) /\ lastSeen[c] < id
        BY <1>1, <1>4, <1>6, <1>11, <2>2
      <3>2. id \in forgotten \/ Tells(wire[c], id)
        BY <2>2, <3>1 DEF IInv, WireComplete
      <3> QED BY <1>6, <1>11, <2>2, <3>1, <3>2
    <2> QED BY <2>1, <2>2
  <1>14. StreamsCurrent'
    BY <1>2 DEF IInv, StreamsCurrent, Ids, CanRead
  <1>15. \A i \in 1..Len(received[c]) : received[c][i] \in Nat /\ received[c][i] < first
    <2> SUFFICES ASSUME NEW i \in 1..Len(received[c])
                 PROVE  received[c][i] \in Nat /\ received[c][i] < first
      OBVIOUS
    <2>1. received[c][i] \in Nat
      BY <1>4, ElementOfSeq
    <2>2. received[c][i] <= lastSeen[c]
      BY DEF IInv, ReceivedSeen
    <2> QED BY <1>4, <1>6, <2>1, <2>2
  <1>16. ReceivedSeen'
    <2> SUFFICES ASSUME NEW d \in Clients, NEW i \in 1..Len(received'[d])
                 PROVE  received'[d][i] <= lastSeen'[d]
      BY DEF ReceivedSeen
    <2>1. CASE d # c
      BY <1>10, <2>1 DEF IInv, ReceivedSeen
    <2>2. CASE d = c /\ gap
      BY <1>6, <1>11, <1>15, <2>2
    <2>3. CASE d = c /\ ~gap
      <3>1. i \in 1..Len(received[c]) \/ i = Len(received[c]) + 1
        BY <1>4, <1>7, <1>11, <2>3
      <3>2. received'[d] = Append(received[c], first) /\ lastSeen'[d] = first
        BY <1>11, <2>3
      <3>3. CASE i \in 1..Len(received[c])
        BY <1>6, <1>7, <1>15, <3>2, <3>3
      <3>4. CASE i = Len(received[c]) + 1
        BY <1>6, <1>7, <3>2, <3>4
      <3> QED BY <3>1, <3>3, <3>4
    <2> QED BY <2>1, <2>2, <2>3
  <1>17. OrderedDelivery'
    <2> SUFFICES ASSUME NEW d \in Clients, NEW i \in 1..Len(received'[d]),
                        NEW j \in 1..Len(received'[d]), i < j
                 PROVE  received'[d][i] < received'[d][j]
      BY DEF OrderedDelivery
    <2>1. CASE d # c
      BY <1>10, <2>1 DEF IInv, OrderedDelivery
    <2>2. CASE d = c /\ gap
      BY <1>11, <2>2 DEF IInv, OrderedDelivery
    <2>3. CASE d = c /\ ~gap
      <3>1. received'[d] = Append(received[c], first)
        BY <1>11, <2>3
      <3>2. Len(received'[d]) = Len(received[c]) + 1 /\ Len(received[c]) \in Nat
        BY <1>4, <1>7, <3>1, LenProperties
      <3>3. i \in 1..Len(received[c]) /\ (j \in 1..Len(received[c]) \/ j = Len(received[c]) + 1)
        BY ONLY <3>2, i \in 1..Len(received'[d]), j \in 1..Len(received'[d]), i < j
      <3>4. CASE j \in 1..Len(received[c])
        <4>1. received[c][i] < received[c][j]
          BY <3>3, <3>4 DEF IInv, OrderedDelivery
        <4> QED BY <1>7, <3>3, <3>1, <3>4, <4>1
      <3>5. CASE j = Len(received[c]) + 1
        BY <1>7, <1>15, <3>3, <3>1, <3>5
      <3> QED BY <3>3, <3>4, <3>5
    <2> QED BY <2>1, <2>2, <2>3
  <1>18. NoSilentLoss'
    <2> SUFFICES ASSUME NEW d \in Clients, NEW id \in start[d] + 1 .. lastSeen'[d], CanRead(d, id)
                 PROVE  \/ id <= excused'[d]
                        \/ id \in forgotten
                        \/ \E i \in 1..Len(received'[d]) : received'[d][i] = id
      BY <1>2 DEF NoSilentLoss, CanRead
    <2>1. CASE d # c
      BY <1>10, <2>1 DEF IInv, NoSilentLoss
    <2>2. CASE d = c /\ gap
      <3>1. id <= first
        BY <1>4, <1>6, <1>11, <2>2
      <3> QED BY <1>11, <2>2, <3>1
    <2>3. CASE d = c /\ ~gap
      <3>1. id \in Ids /\ id \in Nat /\ id <= first /\ start[c] < id
        BY <1>1, <1>4, <1>5, <1>6, <1>11, <2>3 DEF Ids
      <3>2. CASE id <= lastSeen[c]
        <4>1. id \in start[c] + 1 .. lastSeen[c]
          BY <1>4, <3>1, <3>2
        <4>2. \/ id <= excused[c]
              \/ id \in forgotten
              \/ \E i \in 1..Len(received[c]) : received[c][i] = id
          BY <2>3, <4>1 DEF IInv, NoSilentLoss
        <4>3. \A i \in 1..Len(received[c]) : i \in 1..Len(received[c]) + 1
          BY <1>4
        <4> QED BY <1>7, <1>11, <2>3, <4>2, <4>3
      <3>3. CASE ~(id <= lastSeen[c])
        <4>1. lastSeen[c] < id /\ id <= cursor[c]
          BY <1>4, <1>6, <3>1, <3>3
        <4>2. id \in forgotten \/ Tells(wire[c], id)
          BY <2>3, <3>1, <4>1 DEF IInv, WireComplete
        <4>3. id \in forgotten \/ id = first
          BY <1>6, <2>3, <3>1, <4>2 DEF gap
        <4>4. Len(received[c]) + 1 \in 1..Len(received[c]) + 1
          BY <1>4
        <4> QED BY <1>7, <1>11, <2>3, <4>3, <4>4
      <3> QED BY <3>2, <3>3
    <2> QED BY <1>6, <2>1, <2>2, <2>3
  <1> QED BY <1>8, <1>9, <1>12, <1>13, <1>14, <1>16, <1>17, <1>18 DEF IInv

-----------------------------------------------------------------------------
(* The theorems.                                                           *)

LEMMA NextInvariant == IInv /\ [Next]_vars => IInv'
  <1> SUFFICES ASSUME IInv, [Next]_vars PROVE IInv'
    OBVIOUS
  <1>1. CASE UNCHANGED vars
    BY <1>1 DEF vars, serverVars, streamVars, clientVars, IInv, TypeOK, RowsKept, WireInOrder,
                WireComplete, StreamsCurrent, ReceivedSeen, OrderedDelivery, NoSilentLoss, Ids, CanRead
  <1>2. ASSUME NEW kind \in Kinds, Emit(kind) PROVE IInv'
    BY <1>2, EmitInvariant
  <1>3. ASSUME NEW cut \in Cutoffs, Retain(cut) PROVE IInv'
    BY <1>3, RetainInvariant
  <1>4. ASSUME NEW c \in Clients, Connect(c) \/ Resume(c) \/ Disconnect(c) \/ Receive(c) PROVE IInv'
    BY <1>4, ConnectInvariant, ResumeInvariant, DisconnectInvariant, ReceiveInvariant
  <1> QED BY <1>1, <1>2, <1>3, <1>4, FlushInvariant, CrashInvariant, StartInvariant DEF Next

\* The inductive invariant holds in every state the server and its clients reach.
THEOREM IInvAlways == Spec => []IInv
  <1>1. Init => IInv
    BY InitInvariant
  <1>2. IInv /\ [Next]_vars => IInv'
    BY NextInvariant
  <1> QED BY <1>1, <1>2, PTL DEF Spec

\* Rows, streams and what clients have keep their types (event_outbox, sendSse).
THEOREM TypeCorrect == Spec => []TypeOK
  <1>1. IInv => TypeOK
    BY DEF IInv
  <1> QED BY <1>1, IInvAlways, PTL

\* For any number of clients, kinds and events, and whatever connections and
\* processes break: a client gets no event twice nor out of order, and up to the
\* id it can resume from it was given all it may read, or told of a gap, but for
\* what retention deleted (sendSse, eventsSince, flushPersistedEventOutbox).
THEOREM ToldOnceAlways == Spec => []ToldOnce
  <1>1. IInv => ToldOnce
    BY DEF IInv, ToldOnce
  <1> QED BY <1>1, IInvAlways, PTL

-----------------------------------------------------------------------------
(* Design systems: the pin of a project and its upgrades.                  *)

\* What a row of an upgrade preview goes on saying while revisions are added and
\* snapshots collected: its result is the document of its version under the new
\* release.  That the version and the pin are still the same is not needed.
UpgradeWell(u) ==
    LET row == upgrades[u] IN
    Published(row) =>
        /\ row.to.system = row.from.system /\ row.to.version > row.from.version
        /\ row.version \in 1..Version
        /\ row.snapshots \subseteq snapshots
        /\ row.snapshots # {} =>
              /\ history[row.version].schema = 2
              /\ row.result = [history[row.version] EXCEPT !.revision = row.version + 1,
                                                           !.release = row.to]
              /\ row.status = "committed" =>
                    row.version < Version /\ history[row.version + 1] = row.result

\* An ordinary preview keeps the schema and the release of its base.
PreviewWell(p) ==
    LET row == previews[p] IN
    Published(row) => row.result.schema = row.base.schema /\ row.result.release = row.base.release

UpgradeInv ==
    /\ UpgradeTypeOK /\ history # <<>> /\ HeadFollowsPin
    /\ \A u \in UpgradeIds : UpgradeWell(u)
    /\ \A p \in PreviewIds : PreviewWell(p)

LEMMA HeadIsDocument ==
    ASSUME UpgradeInv
    PROVE  /\ Version \in Nat \ {0} /\ Current \in Documents
           /\ history \in Seq(Documents) /\ \A v \in 1..Version : history[v] \in Documents
           /\ ActivePin \in Releases
  BY FoundationAssumption, EmptySeq, LenProperties, ElementOfSeq
     DEF UpgradeInv, UpgradeTypeOK, Version, Current, ActivePin

\* The history after a step: longer, and as it was.
Grown ==
    /\ history' \in Seq(Documents) /\ history' # <<>>
    /\ Version' \in Nat /\ Version <= Version'
    /\ \A v \in 1..Version : history'[v] = history[v]

LEMMA Appended ==
    ASSUME UpgradeInv, NEW doc \in Documents, AppendRevision(doc)
    PROVE  /\ Grown /\ Version' = Version + 1 /\ Current' = doc
           /\ history'[Version + 1] = doc
  <1>1. history \in Seq(Documents) /\ Version \in Nat \ {0}
    BY HeadIsDocument
  <1>2. history' = Append(history, doc)
    BY DEF AppendRevision
  <1>3. /\ history' \in Seq(Documents) /\ Len(history') = Len(history) + 1
        /\ \A v \in 1..Len(history) : history'[v] = history[v]
        /\ history'[Len(history) + 1] = doc
    BY <1>1, <1>2, AppendProperties
  <1>4. Version' = Version + 1 /\ history'[Version + 1] = doc
    BY <1>3 DEF Version
  <1>5. Current' = doc
    BY <1>4 DEF Current
  <1>6. history' # <<>>
    BY <1>1, <1>2, AppendProperties
  <1> QED
    BY <1>1, <1>3, <1>4, <1>5, <1>6 DEF Grown, Version

LEMMA Unwritten ==
    ASSUME UpgradeInv, UNCHANGED history
    PROVE  Grown /\ Version' = Version /\ Current' = Current
  BY HeadIsDocument DEF Grown, Version, Current, UpgradeInv

-----------------------------------------------------------------------------
(* Rows.                                                                   *)

LEMMA ExpiredRow ==
    ASSUME NEW row \in UpgradeRows
    PROVE  /\ Expired(row) \in UpgradeRows
           /\ Expired(row).status \in {row.status, "expired"}
           /\ Expired(row).status = "ready" \/ Expired(row).status = "committed" => Expired(row) = row
           /\ Published(Expired(row)) <=> Published(row)
           /\ Published(row) =>
                 /\ Expired(row).from = row.from /\ Expired(row).to = row.to
                 /\ Expired(row).version = row.version /\ Expired(row).snapshots = row.snapshots
                 /\ Expired(row).result = row.result
  BY DEF Expired, UpgradeRows, Published

LEMMA CleanedRow ==
    ASSUME NEW row \in PreviewRows
    PROVE  /\ CleanedPreview(row) \in PreviewRows
           /\ CleanedPreview(row).status = "ready" => CleanedPreview(row) = row
           /\ Published(CleanedPreview(row)) =>
                 /\ Published(row)
                 /\ CleanedPreview(row).base = row.base /\ CleanedPreview(row).result = row.result
  BY DEF CleanedPreview, PreviewRows, Published

LEMMA PublishedUpgrade ==
    ASSUME NEW row \in UpgradeRows, Published(row)
    PROVE  /\ row.status \in {"ready", "blocked", "expired", "committed"}
           /\ row.from \in Releases /\ row.to \in Releases /\ row.version \in Nat
           /\ row.snapshots \subseteq Documents /\ row.result \in Documents \cup {NoPin}
           /\ row.expires \in Nat
  BY DEF UpgradeRows, Published

LEMMA PublishedPreview ==
    ASSUME NEW row \in PreviewRows, Published(row)
    PROVE  row.base \in Documents /\ row.result \in Documents /\ row.version \in Nat
  BY DEF PreviewRows, Published

\* An upgrade preview of which at most the status is set to "expired".
LEMMA UpgradeKept ==
    ASSUME UpgradeInv, Grown, NEW u \in UpgradeIds,
           upgrades'[u] = upgrades[u] \/ upgrades'[u] = Expired(upgrades[u]),
           Published(upgrades[u]) => upgrades[u].snapshots \subseteq snapshots'
    PROVE  UpgradeWell(u)'
  <1> DEFINE row == upgrades[u]
             new == upgrades'[u]
  <1>1. row \in UpgradeRows /\ UpgradeWell(u)
    BY DEF UpgradeInv, UpgradeTypeOK
  <1>2. /\ Published(new) <=> Published(row)
        /\ new.status = "committed" => row.status = "committed"
        /\ Published(row) =>
              /\ new.from = row.from /\ new.to = row.to /\ new.version = row.version
              /\ new.snapshots = row.snapshots /\ new.result = row.result
    BY <1>1, ExpiredRow
  <1>3. CASE ~Published(new)
    BY <1>3 DEF UpgradeWell
  <1>4. CASE Published(new)
    <2>1. /\ row.version \in 1..Version /\ row.version \in 1..Version'
          /\ history'[row.version] = history[row.version]
      BY <1>1, <1>2, <1>4, HeadIsDocument DEF UpgradeWell, Grown
    <2>2. ASSUME new.snapshots # {}, new.status = "committed"
          PROVE  row.version < Version' /\ history'[row.version + 1] = row.result
      <3>1. row.version < Version /\ history[row.version + 1] = row.result
        BY <1>1, <1>2, <1>4, <2>2 DEF UpgradeWell
      <3>2. row.version + 1 \in 1..Version /\ Version' \in Nat /\ Version <= Version'
        BY <2>1, <3>1, HeadIsDocument DEF Grown
      <3> QED
        BY <2>1, <3>1, <3>2, HeadIsDocument DEF Grown
    <2>3. new.snapshots # {} =>
             /\ history[row.version].schema = 2
             /\ row.result = [history[row.version] EXCEPT !.revision = row.version + 1,
                                                          !.release = row.to]
      BY <1>1, <1>2, <1>4 DEF UpgradeWell
    <2>4. row.to.system = row.from.system /\ row.to.version > row.from.version
      BY <1>1, <1>2, <1>4 DEF UpgradeWell
    <2> HIDE DEF row, new
    <2>5. new.snapshots \subseteq snapshots'
      BY <1>2, <1>4 DEF row, new
    <2> QED
      BY <1>2, <1>4, <2>1, <2>2, <2>3, <2>4, <2>5 DEF UpgradeWell, row, new
  <1> QED
    BY <1>3, <1>4

LEMMA UpgradesKept ==
    ASSUME UpgradeInv, Grown,
           \A u \in UpgradeIds :
               /\ upgrades'[u] = upgrades[u] \/ upgrades'[u] = Expired(upgrades[u])
               /\ Published(upgrades[u]) => upgrades[u].snapshots \subseteq snapshots'
    PROVE  \A u \in UpgradeIds : UpgradeWell(u)'
  BY UpgradeKept

\* The snapshots of upgrades are there, and none of them is collected.
LEMMA SnapshotsThere ==
    ASSUME UpgradeInv, NEW u \in UpgradeIds, Published(upgrades[u])
    PROVE  /\ upgrades[u].snapshots \subseteq snapshots
           /\ ~CleanupBlocked => upgrades[u].snapshots \subseteq snapshots \ Garbage(CleanedPreviews)
  <1>1. upgrades[u].snapshots \subseteq snapshots
    BY DEF UpgradeInv, UpgradeWell
  <1>2. upgrades[u].snapshots \subseteq Restricted
    BY DEF Restricted
  <1> QED
    BY <1>1, <1>2 DEF CleanupBlocked

-----------------------------------------------------------------------------
(* The steps.                                                              *)

\* A revision that agrees with the pin.
LEMMA RevisionKeeps ==
    ASSUME UpgradeInv, NEW doc \in Documents, AppendRevision(doc),
           snapshots' = snapshots \cup {doc},
           UNCHANGED <<pin, upgrades, previews, running, clock>>,
           doc.schema = 2 => doc.release = ActivePin
    PROVE  UpgradeInv'
  <1>1. Grown /\ Current' = doc
    BY Appended
  <1>2. UpgradeTypeOK'
    BY <1>1 DEF UpgradeInv, UpgradeTypeOK, Grown
  <1>3. HeadFollowsPin'
    BY <1>1 DEF HeadFollowsPin, ActivePin
  <1>4. \A u \in UpgradeIds : UpgradeWell(u)'
    BY <1>1, UpgradesKept, SnapshotsThere
  <1>5. \A p \in PreviewIds : PreviewWell(p)'
    BY DEF UpgradeInv, PreviewWell
  <1> QED
    BY <1>1, <1>2, <1>3, <1>4, <1>5 DEF UpgradeInv, Grown

LEMMA NextIsDocument ==
    ASSUME UpgradeInv, NEW content \in Contents, NEW doc, doc = NextDocument(content)
    PROVE  /\ doc \in Documents /\ doc.schema = Current.schema /\ doc.release = Current.release
           /\ doc.schema = 2 => doc.release = ActivePin
  <1>1. Current \in Documents /\ Version + 1 \in Nat
    BY HeadIsDocument
  <1>2. doc = [Current EXCEPT !.revision = Version + 1, !.content = content]
    BY DEF NextDocument
  <1>3. doc \in Documents /\ doc.schema = Current.schema /\ doc.release = Current.release
    BY <1>1, <1>2 DEF Documents
  <1> QED
    BY <1>3 DEF UpgradeInv, HeadFollowsPin

LEMMA PinnedIsDocument ==
    ASSUME UpgradeInv, Current.schema = 2, NEW r \in Releases, NEW doc, doc = PinnedDocument(r)
    PROVE  doc \in Documents /\ doc.schema = 2 /\ doc.release = r
  <1>1. Current \in Documents /\ Version + 1 \in Nat
    BY HeadIsDocument
  <1>2. doc = [Current EXCEPT !.revision = Version + 1, !.release = r]
    BY DEF PinnedDocument
  <1> QED
    BY <1>1, <1>2 DEF Documents

LEMMA ApplyRevisionKeeps ==
    ASSUME UpgradeInv, NEW content \in Contents, ApplyRevision(content)
    PROVE  UpgradeInv'
  <1> DEFINE doc == NextDocument(content)
  <1>1. doc \in Documents /\ doc.schema = Current.schema /\ doc.release = Current.release
    BY NextIsDocument
  <1>2. doc.schema = 2 => doc.release = ActivePin
    BY <1>1 DEF UpgradeInv, HeadFollowsPin
  <1> HIDE DEF doc
  <1>3. /\ AppendRevision(doc) /\ snapshots' = snapshots \cup {doc}
        /\ UNCHANGED <<pin, upgrades, previews, running, clock>>
    BY DEF ApplyRevision, doc
  <1> QED
    BY <1>1, <1>2, <1>3, RevisionKeeps

LEMMA RestoreRevisionKeeps ==
    ASSUME UpgradeInv, NEW v \in 1..MaxVersion, RestoreRevision(v)
    PROVE  UpgradeInv'
  <1> DEFINE doc == RestoredDocument(v)
  <1>1. history[v] \in Documents /\ Version + 1 \in Nat /\ ActivePin \in Releases
    BY HeadIsDocument DEF RestoreRevision
  <1>2. doc \in Documents /\ (doc.schema = 2 => doc.release = ActivePin)
    <2>1. CASE history[v].schema = 2
      <3>1. doc = [history[v] EXCEPT !.revision = Version + 1, !.release = ActivePin]
        BY <2>1 DEF RestoredDocument
      <3> HIDE DEF doc
      <3> QED
        BY <1>1, <2>1, <3>1 DEF Documents
    <2>2. CASE history[v].schema # 2
      <3>1. doc = [history[v] EXCEPT !.revision = Version + 1]
        BY <1>1, <2>2 DEF RestoredDocument, Documents
      <3> HIDE DEF doc
      <3> QED
        BY <1>1, <2>2, <3>1 DEF Documents
    <2> QED
      BY <2>1, <2>2
  <1> HIDE DEF doc
  <1>3. /\ AppendRevision(doc) /\ snapshots' = snapshots \cup {doc}
        /\ UNCHANGED <<pin, upgrades, previews, running, clock>>
    BY DEF RestoreRevision, doc
  <1> QED
    BY <1>2, <1>3, RevisionKeeps

LEMMA MigrateKeeps ==
    ASSUME UpgradeInv, MigrateHeadToV2
    PROVE  UpgradeInv'
  <1> DEFINE doc == MigratedDocument
  <1>1. doc \in Documents /\ doc.release = ActivePin
    <2>1. Current \in Documents /\ Version + 1 \in Nat /\ ActivePin \in Releases
      BY HeadIsDocument
    <2>2. doc = [Current EXCEPT !.revision = Version + 1, !.schema = 2, !.release = ActivePin]
      BY DEF MigratedDocument
    <2> HIDE DEF doc
    <2> QED
      BY <2>1, <2>2 DEF Documents
  <1> HIDE DEF doc
  <1>2. /\ AppendRevision(doc) /\ snapshots' = snapshots \cup {doc}
        /\ UNCHANGED <<pin, upgrades, previews, running, clock>>
    BY DEF MigrateHeadToV2, doc
  <1> QED
    BY <1>1, <1>2, RevisionKeeps

\* The cleanup of the ordinary previews.
LEMMA CleanedKept ==
    ASSUME UpgradeInv, NEW p \in PreviewIds
    PROVE  /\ CleanedPreviews[p] \in PreviewRows
           /\ CleanedPreviews[p].status = "ready" => CleanedPreviews[p] = previews[p]
           /\ Published(CleanedPreviews[p]) =>
                 /\ CleanedPreviews[p].result.schema = CleanedPreviews[p].base.schema
                 /\ CleanedPreviews[p].result.release = CleanedPreviews[p].base.release
  <1>1. previews[p] \in PreviewRows /\ PreviewWell(p) /\ CleanedPreviews[p] = CleanedPreview(previews[p])
    BY DEF UpgradeInv, UpgradeTypeOK, CleanedPreviews
  <1> QED
    BY <1>1, CleanedRow DEF PreviewWell

\* Rows of ordinary previews are replaced by such that keep to their base.
LEMMA PreviewsKept ==
    ASSUME NEW rows, previews' = rows, rows \in [PreviewIds -> PreviewRows],
           \A p \in PreviewIds :
               Published(rows[p]) => /\ rows[p].result.schema = rows[p].base.schema
                                     /\ rows[p].result.release = rows[p].base.release
    PROVE  previews' \in [PreviewIds -> PreviewRows] /\ \A p \in PreviewIds : PreviewWell(p)'
  BY DEF PreviewWell

LEMMA CreatePreviewKeeps ==
    ASSUME UpgradeInv, NEW p \in PreviewIds, NEW content \in Contents, CreatePreview(p, content)
    PROVE  UpgradeInv'
  <1> DEFINE doc == NextDocument(content)
             row == [status |-> "ready", version |-> Version, base |-> Current,
                     result |-> doc, expires |-> clock + TTL]
             rows == [CleanedPreviews EXCEPT ![p] = row]
  <1>1. doc \in Documents /\ doc.schema = Current.schema /\ doc.release = Current.release
    BY NextIsDocument
  <1>2. /\ ~CleanupBlocked /\ previews' = rows
        /\ snapshots' = (snapshots \ Garbage(CleanedPreviews)) \cup {doc}
        /\ UNCHANGED <<history, pin, upgrades, running, clock>>
    BY DEF CreatePreview
  <1> HIDE DEF doc
  <1>3. row \in PreviewRows /\ row.result.schema = row.base.schema /\ row.result.release = row.base.release
    <2>1. Version \in Nat /\ Current \in Documents /\ clock + TTL \in Nat
      BY HeadIsDocument, RetentionAssumption DEF UpgradeInv, UpgradeTypeOK
    <2> QED
      BY <1>1, <2>1 DEF PreviewRows
  <1> HIDE DEF row
  <1>4. /\ DOMAIN CleanedPreviews = PreviewIds
        /\ \A q \in PreviewIds : rows[q] = IF q = p THEN row ELSE CleanedPreviews[q]
        /\ DOMAIN rows = PreviewIds /\ rows = [q \in PreviewIds |-> rows[q]]
    BY DEF CleanedPreviews
  <1> HIDE DEF rows
  <1>5. \A q \in PreviewIds :
           /\ rows[q] \in PreviewRows
           /\ Published(rows[q]) => /\ rows[q].result.schema = rows[q].base.schema
                                    /\ rows[q].result.release = rows[q].base.release
    BY <1>3, <1>4, CleanedKept
  <1>6. rows \in [PreviewIds -> PreviewRows]
    BY <1>4, <1>5
  <1>7. previews' \in [PreviewIds -> PreviewRows] /\ \A q \in PreviewIds : PreviewWell(q)'
    BY <1>2, <1>5, <1>6, PreviewsKept
  <1>8. Grown /\ Version' = Version /\ Current' = Current
    BY <1>2, Unwritten
  <1>9. \A u \in UpgradeIds : UpgradeWell(u)'
    BY <1>2, <1>8, UpgradesKept, SnapshotsThere
  <1>10. UpgradeTypeOK'
    BY <1>1, <1>2, <1>7, <1>8 DEF UpgradeInv, UpgradeTypeOK, Grown
  <1>11. HeadFollowsPin'
    BY <1>2, <1>8 DEF UpgradeInv, HeadFollowsPin, ActivePin
  <1> QED
    BY <1>7, <1>8, <1>9, <1>10, <1>11 DEF UpgradeInv, Grown

LEMMA CommitPreviewKeeps ==
    ASSUME UpgradeInv, NEW p \in PreviewIds, CommitPreview(p)
    PROVE  UpgradeInv'
  <1> DEFINE row == CleanedPreviews[p]
             done == [row EXCEPT !.status = "committed"]
             rows == [CleanedPreviews EXCEPT ![p] = done]
             doc == row.result
  <1>1. /\ ~CleanupBlocked /\ row.status = "ready" /\ row.base = Current
        /\ AppendRevision(doc) /\ previews' = rows
        /\ snapshots' = snapshots \ Garbage(CleanedPreviews)
        /\ UNCHANGED <<pin, upgrades, running, clock>>
    BY DEF CommitPreview
  <1>2. /\ DOMAIN CleanedPreviews = PreviewIds
        /\ \A q \in PreviewIds : rows[q] = IF q = p THEN done ELSE CleanedPreviews[q]
        /\ DOMAIN rows = PreviewIds /\ rows = [q \in PreviewIds |-> rows[q]]
    BY DEF CleanedPreviews
  <1>3. /\ row \in PreviewRows /\ Published(row)
        /\ row.result.schema = row.base.schema /\ row.result.release = row.base.release
    BY <1>1, CleanedKept DEF Published
  <1> HIDE DEF row, rows
  <1>4. /\ done \in PreviewRows /\ doc \in Documents
        /\ done.result.schema = done.base.schema /\ done.result.release = done.base.release
    BY <1>1, <1>3 DEF PreviewRows
  <1> HIDE DEF done
  <1>5. \A q \in PreviewIds :
           /\ rows[q] \in PreviewRows
           /\ Published(rows[q]) => /\ rows[q].result.schema = rows[q].base.schema
                                    /\ rows[q].result.release = rows[q].base.release
    BY <1>2, <1>4, CleanedKept
  <1>6. rows \in [PreviewIds -> PreviewRows]
    BY <1>2, <1>5
  <1>7. previews' \in [PreviewIds -> PreviewRows] /\ \A q \in PreviewIds : PreviewWell(q)'
    BY <1>1, <1>5, <1>6, PreviewsKept
  <1>8. doc.schema = 2 => doc.release = ActivePin
    BY <1>1, <1>3 DEF UpgradeInv, HeadFollowsPin
  <1> HIDE DEF doc
  <1>9. Grown /\ Current' = doc
    BY <1>1, <1>4, Appended
  <1>10. \A u \in UpgradeIds : UpgradeWell(u)'
    BY <1>1, <1>9, UpgradesKept, SnapshotsThere
  <1>11. UpgradeTypeOK'
    BY <1>1, <1>7, <1>9 DEF UpgradeInv, UpgradeTypeOK, Grown
  <1>12. HeadFollowsPin'
    BY <1>1, <1>8, <1>9 DEF HeadFollowsPin, ActivePin
  <1> QED
    BY <1>7, <1>9, <1>10, <1>11, <1>12 DEF UpgradeInv, Grown

\* The revision a new pin makes of a V2 head.
LEMMA PinRevisionKeeps ==
    ASSUME UpgradeInv, NEW r \in Releases, pin' = r, PinRevision(r)
    PROVE  /\ Grown /\ snapshots \subseteq snapshots' /\ snapshots' \subseteq Documents
           /\ HeadFollowsPin'
  <1>1. r # NoPin /\ ActivePin' = r /\ snapshots \subseteq Documents
    BY FoundationAssumption DEF ActivePin, UpgradeInv, UpgradeTypeOK
  <1>2. CASE Current.schema = 2
    <2> DEFINE doc == PinnedDocument(r)
    <2>1. doc \in Documents /\ doc.release = r
      BY <1>2, PinnedIsDocument
    <2>2. AppendRevision(doc) /\ snapshots' = snapshots \cup {doc}
      BY <1>2 DEF PinRevision
    <2> HIDE DEF doc
    <2>3. Grown /\ Current' = doc
      BY <2>1, <2>2, Appended
    <2> QED
      BY <1>1, <2>1, <2>2, <2>3 DEF HeadFollowsPin
  <1>3. CASE Current.schema # 2
    <2>1. UNCHANGED <<history, snapshots>>
      BY <1>3 DEF PinRevision
    <2>2. Grown /\ Current' = Current
      BY <2>1, Unwritten
    <2> QED
      BY <1>1, <1>3, <2>1, <2>2 DEF HeadFollowsPin
  <1> QED
    BY <1>2, <1>3

LEMMA PinProjectKeeps ==
    ASSUME UpgradeInv, NEW r \in Releases, PinProject(r)
    PROVE  UpgradeInv'
  <1>1. /\ pin' = r /\ PinRevision(r) /\ UNCHANGED <<upgrades, previews, running, clock>>
    BY DEF PinProject
  <1>2. Grown /\ snapshots \subseteq snapshots' /\ snapshots' \subseteq Documents /\ HeadFollowsPin'
    BY <1>1, PinRevisionKeeps
  <1>3. \A u \in UpgradeIds : UpgradeWell(u)'
    BY <1>1, <1>2, UpgradesKept, SnapshotsThere
  <1>4. \A p \in PreviewIds : PreviewWell(p)'
    BY <1>1 DEF UpgradeInv, PreviewWell
  <1>5. UpgradeTypeOK'
    BY <1>1, <1>2 DEF UpgradeInv, UpgradeTypeOK, Grown
  <1> QED
    BY <1>2, <1>3, <1>4, <1>5 DEF UpgradeInv, Grown

LEMMA PreviewProjectUpgradeKeeps ==
    ASSUME UpgradeInv, NEW u \in UpgradeIds, NEW target \in Releases, NEW ok \in BOOLEAN,
           PreviewProjectUpgrade(u, target, ok)
    PROVE  UpgradeInv'
  <1> DEFINE exact == IF Current.schema = 2 THEN {Current, PinnedDocument(target)} ELSE {}
             row == [status |-> IF ok THEN "ready" ELSE "blocked",
                     from |-> pin, to |-> target, version |-> Version, snapshots |-> exact,
                     result |-> IF exact = {} THEN NoPin ELSE PinnedDocument(target),
                     expires |-> clock + TTL]
             rows == [ExpiredUpgrades EXCEPT ![u] = row]
  <1>1. /\ upgrades[u].status = "unused" /\ pin # NoPin
        /\ target.system = pin.system /\ target.version > pin.version
        /\ upgrades' = rows /\ snapshots' = snapshots \cup exact
        /\ UNCHANGED <<history, pin, previews, running, clock>>
    BY DEF PreviewProjectUpgrade
  <1>2. /\ pin \in Releases /\ Version \in Nat \ {0} /\ clock + TTL \in Nat
        /\ snapshots \subseteq Documents /\ Current \in Documents
    BY <1>1, HeadIsDocument, RetentionAssumption DEF UpgradeInv, UpgradeTypeOK
  <1>3. /\ exact \subseteq Documents
        /\ exact # {} => Current.schema = 2 /\ PinnedDocument(target) \in Documents
    BY <1>2, PinnedIsDocument
  <1> HIDE DEF exact
  <1>4. row \in UpgradeRows
    BY <1>2, <1>3 DEF UpgradeRows
  <1>5. /\ row.from = pin /\ row.to = target /\ row.version = Version /\ row.snapshots = exact
        /\ exact # {} => row.result = PinnedDocument(target)
        /\ row.status # "committed"
    OBVIOUS
  <1> HIDE DEF row
  <1>6. /\ rows = [x \in UpgradeIds |-> IF x = u THEN row ELSE Expired(upgrades[x])]
        /\ \A x \in UpgradeIds : rows[x] = IF x = u THEN row ELSE Expired(upgrades[x])
    BY DEF ExpiredUpgrades
  <1> HIDE DEF rows
  <1>7. rows \in [UpgradeIds -> UpgradeRows]
    <2>1. \A x \in UpgradeIds : Expired(upgrades[x]) \in UpgradeRows
      BY ExpiredRow DEF UpgradeInv, UpgradeTypeOK
    <2> QED
      BY <1>4, <1>6, <2>1
  <1>8. Grown /\ Version' = Version /\ Current' = Current
    BY <1>1, Unwritten
  <1>9. UpgradeWell(u)'
    <2>1. upgrades'[u] = row
      BY <1>1, <1>6
    <2>2. PinnedDocument(target) = [history[Version] EXCEPT !.revision = Version + 1, !.release = target]
      BY DEF PinnedDocument, Current
    <2>3. history[Version]' = history[Version] /\ Current = history[Version]
      BY <1>1, <1>8 DEF Current
    <2>4. row.version \in 1..Version'
      BY <1>2, <1>5, <1>8
    <2>5. row.snapshots # {} =>
             /\ history'[row.version].schema = 2
             /\ row.result = [history'[row.version] EXCEPT !.revision = row.version + 1,
                                                           !.release = row.to]
      BY <1>1, <1>3, <1>5, <2>2, <2>3
    <2>6. row.to.system = row.from.system /\ row.to.version > row.from.version
          /\ row.snapshots \subseteq snapshots' /\ row.status # "committed"
      BY <1>1, <1>5
    <2> QED
      BY <2>1, <2>4, <2>5, <2>6 DEF UpgradeWell
  <1>10. ASSUME NEW x \in UpgradeIds, x # u
         PROVE  UpgradeWell(x)'
    <2>1. upgrades'[x] = Expired(upgrades[x])
      BY <1>1, <1>6, <1>10
    <2>2. Published(upgrades[x]) => upgrades[x].snapshots \subseteq snapshots'
      BY <1>1, SnapshotsThere
    <2> QED
      BY <1>8, <2>1, <2>2, UpgradeKept
  <1>11. UpgradeTypeOK'
    BY <1>1, <1>3, <1>7, <1>8 DEF UpgradeInv, UpgradeTypeOK, Grown
  <1>12. HeadFollowsPin' /\ \A p \in PreviewIds : PreviewWell(p)'
    BY <1>1, <1>8 DEF UpgradeInv, HeadFollowsPin, ActivePin, PreviewWell
  <1> QED
    BY <1>8, <1>9, <1>10, <1>11, <1>12 DEF UpgradeInv, Grown

LEMMA ReadUpgradePreviewKeeps ==
    ASSUME UpgradeInv, NEW u \in UpgradeIds, ReadUpgradePreview(u)
    PROVE  UpgradeInv'
  <1>1. /\ upgrades' = [upgrades EXCEPT ![u] = Expired(@)]
        /\ UNCHANGED <<history, pin, previews, snapshots, running, clock>>
    BY DEF ReadUpgradePreview
  <1>2. upgrades \in [UpgradeIds -> UpgradeRows]
    BY DEF UpgradeInv, UpgradeTypeOK
  <1>3. \A x \in UpgradeIds : Expired(upgrades[x]) \in UpgradeRows
    BY <1>2, ExpiredRow
  <1>4. /\ upgrades' \in [UpgradeIds -> UpgradeRows]
        /\ \A x \in UpgradeIds : upgrades'[x] = upgrades[x] \/ upgrades'[x] = Expired(upgrades[x])
    BY <1>1, <1>2, <1>3
  <1>5. Grown /\ Version' = Version /\ Current' = Current
    BY <1>1, Unwritten
  <1>6. \A x \in UpgradeIds : UpgradeWell(x)'
    BY <1>1, <1>4, <1>5, UpgradesKept, SnapshotsThere
  <1>7. UpgradeTypeOK'
    BY <1>1, <1>4 DEF UpgradeInv, UpgradeTypeOK
  <1>8. HeadFollowsPin' /\ \A p \in PreviewIds : PreviewWell(p)'
    BY <1>1, <1>5 DEF UpgradeInv, HeadFollowsPin, ActivePin, PreviewWell
  <1> QED
    BY <1>5, <1>6, <1>7, <1>8 DEF UpgradeInv, Grown

LEMMA CommitProjectUpgradeKeeps ==
    ASSUME UpgradeInv, NEW u \in UpgradeIds, CommitProjectUpgrade(u)
    PROVE  UpgradeInv' /\ pin'.system = pin.system /\ pin'.version > pin.version
  <1> DEFINE row == upgrades[u]
             done == [row EXCEPT !.status = "committed"]
  <1>1. row \in UpgradeRows /\ UpgradeWell(u) /\ upgrades \in [UpgradeIds -> UpgradeRows]
    BY DEF UpgradeInv, UpgradeTypeOK
  <1>2. Expired(row) = row
    BY <1>1, ExpiredRow DEF CommitProjectUpgrade
  <1>3. /\ row.status = "ready" /\ pin = row.from /\ row.version = Version /\ pin' = row.to
        /\ IF row.snapshots = {} THEN PinRevision(row.to)
           ELSE /\ row.result \in snapshots /\ AppendRevision(row.result)
                /\ UNCHANGED snapshots
        /\ upgrades' = [upgrades EXCEPT ![u] = done]
        /\ UNCHANGED <<previews, running, clock>>
    BY <1>2 DEF CommitProjectUpgrade
  <1>4. /\ Published(row) /\ row.to \in Releases /\ row.from \in Releases
        /\ row.snapshots \subseteq Documents
    BY <1>1, <1>3, PublishedUpgrade DEF Published
  <1>5. /\ row.to.system = row.from.system /\ row.to.version > row.from.version
        /\ row.version \in 1..Version /\ row.snapshots \subseteq snapshots
        /\ row.snapshots # {} =>
              /\ history[row.version].schema = 2
              /\ row.result = [history[row.version] EXCEPT !.revision = row.version + 1,
                                                           !.release = row.to]
    BY <1>1, <1>4 DEF UpgradeWell
  <1>6. /\ done \in UpgradeRows /\ Published(done) /\ done.status = "committed"
        /\ done.from = row.from /\ done.to = row.to /\ done.version = row.version
        /\ done.snapshots = row.snapshots /\ done.result = row.result
    BY <1>1, <1>3 DEF UpgradeRows, Published
  <1> HIDE DEF done
  <1>7. /\ upgrades' \in [UpgradeIds -> UpgradeRows] /\ upgrades'[u] = done
        /\ \A x \in UpgradeIds \ {u} : upgrades'[x] = upgrades[x]
    BY <1>1, <1>3, <1>6
  <1>8. /\ Grown /\ snapshots \subseteq snapshots' /\ snapshots' \subseteq Documents
        /\ HeadFollowsPin'
        /\ row.snapshots # {} => row.version < Version' /\ history'[row.version + 1] = row.result
    <2>1. CASE row.snapshots = {}
      BY <1>3, <1>4, <2>1, PinRevisionKeeps
    <2>2. CASE row.snapshots # {}
      <3> DEFINE doc == row.result
      <3>1. AppendRevision(doc) /\ doc \in snapshots /\ UNCHANGED snapshots
        BY <1>3, <2>2
      <3>2. snapshots \subseteq Documents /\ history[Version] = Current /\ Current \in Documents
        BY HeadIsDocument DEF UpgradeInv, UpgradeTypeOK, Current
      <3>3. doc \in Documents /\ doc.release = row.to
        BY <1>3, <1>5, <2>2, <3>1, <3>2 DEF Documents
      <3> HIDE DEF doc
      <3>4. /\ Grown /\ Version' = Version + 1 /\ Current' = doc
            /\ history'[Version + 1] = doc
        BY <3>1, <3>3, Appended
      <3>5. ActivePin' = row.to
        BY <1>3, <1>4, FoundationAssumption DEF ActivePin
      <3>6. HeadFollowsPin'
        BY <3>3, <3>4, <3>5 DEF HeadFollowsPin
      <3>7. row.version < Version'
        BY <1>3, <3>4, HeadIsDocument
      <3> QED
        BY <1>3, <3>1, <3>2, <3>4, <3>6, <3>7 DEF doc
    <2> QED
      BY <2>1, <2>2
  <1>9. UpgradeWell(u)'
    <2>1. /\ history'[row.version] = history[row.version] /\ row.version \in 1..Version'
      BY <1>5, <1>8, HeadIsDocument DEF Grown
    <2>2. row.snapshots \subseteq snapshots'
      BY <1>5, <1>8
    <2> HIDE DEF row
    <2> QED
      BY <1>5, <1>6, <1>7, <1>8, <2>1, <2>2 DEF UpgradeWell
  <1>10. ASSUME NEW x \in UpgradeIds, x # u
         PROVE  UpgradeWell(x)'
    <2>1. upgrades'[x] = upgrades[x]
      BY <1>7, <1>10
    <2>2. Published(upgrades[x]) => upgrades[x].snapshots \subseteq snapshots'
      BY <1>8, SnapshotsThere
    <2> QED
      BY <1>8, <2>1, <2>2, UpgradeKept
  <1>11. pin' \in Releases /\ pin'.system = pin.system /\ pin'.version > pin.version
    BY <1>3, <1>4, <1>5
  <1>12. UpgradeTypeOK'
    BY <1>3, <1>7, <1>8, <1>11 DEF UpgradeInv, UpgradeTypeOK, Grown
  <1>13. \A p \in PreviewIds : PreviewWell(p)'
    BY <1>3 DEF UpgradeInv, PreviewWell
  <1> QED
    BY <1>8, <1>9, <1>10, <1>11, <1>12, <1>13 DEF UpgradeInv, Grown

LEMMA StartServiceKeeps ==
    ASSUME UpgradeInv, StartService
    PROVE  UpgradeInv'
  <1>1. /\ ~CleanupBlocked /\ previews' = CleanedPreviews /\ running' = TRUE
        /\ snapshots' = snapshots \ Garbage(CleanedPreviews)
        /\ UNCHANGED <<history, pin, upgrades, clock>>
    BY DEF StartService, CleanupPreviews
  <1>2. CleanedPreviews \in [PreviewIds -> PreviewRows]
    BY CleanedKept DEF CleanedPreviews
  <1>3. previews' \in [PreviewIds -> PreviewRows] /\ \A p \in PreviewIds : PreviewWell(p)'
    BY <1>1, <1>2, CleanedKept, PreviewsKept
  <1>4. Grown /\ Version' = Version /\ Current' = Current
    BY <1>1, Unwritten
  <1>5. \A u \in UpgradeIds : UpgradeWell(u)'
    BY <1>1, <1>4, UpgradesKept, SnapshotsThere
  <1>6. UpgradeTypeOK'
    BY <1>1, <1>3 DEF UpgradeInv, UpgradeTypeOK
  <1>7. HeadFollowsPin'
    BY <1>1, <1>4 DEF UpgradeInv, HeadFollowsPin, ActivePin
  <1> QED
    BY <1>3, <1>4, <1>5, <1>6, <1>7 DEF UpgradeInv, Grown

LEMMA ServiceStopsKeeps ==
    ASSUME UpgradeInv, UNCHANGED <<history, pin, upgrades, previews, snapshots>>,
           running' \in BOOLEAN, clock' \in Nat
    PROVE  UpgradeInv'
  <1>1. Version' = Version /\ Current' = Current
    BY DEF Version, Current
  <1>2. UpgradeTypeOK' /\ HeadFollowsPin' /\ history' # <<>>
    BY <1>1 DEF UpgradeInv, UpgradeTypeOK, HeadFollowsPin, ActivePin
  <1>3. \A u \in UpgradeIds : UpgradeWell(u)'
    BY <1>1 DEF UpgradeInv, UpgradeWell
  <1>4. \A p \in PreviewIds : PreviewWell(p)'
    BY DEF UpgradeInv, PreviewWell
  <1> QED
    BY <1>2, <1>3, <1>4 DEF UpgradeInv

LEMMA UpgradeStep ==
    ASSUME UpgradeInv, [UpgradeNext]_upgradeVars
    PROVE  /\ UpgradeInv'
           /\ pin' # pin /\ pin # NoPin => pin'.system = pin.system /\ pin'.version > pin.version
  <1>1. ASSUME NEW content \in Contents, ApplyRevision(content)
        PROVE  UpgradeInv' /\ pin' = pin
    BY <1>1, ApplyRevisionKeeps DEF ApplyRevision
  <1>2. ASSUME NEW p \in PreviewIds, NEW content \in Contents, CreatePreview(p, content)
        PROVE  UpgradeInv' /\ pin' = pin
    BY <1>2, CreatePreviewKeeps DEF CreatePreview
  <1>3. ASSUME NEW p \in PreviewIds, CommitPreview(p)
        PROVE  UpgradeInv' /\ pin' = pin
    BY <1>3, CommitPreviewKeeps DEF CommitPreview
  <1>4. ASSUME NEW v \in 1..MaxVersion, RestoreRevision(v)
        PROVE  UpgradeInv' /\ pin' = pin
    BY <1>4, RestoreRevisionKeeps DEF RestoreRevision
  <1>5. ASSUME MigrateHeadToV2
        PROVE  UpgradeInv' /\ pin' = pin
    BY <1>5, MigrateKeeps DEF MigrateHeadToV2
  <1>6. ASSUME NEW r \in Releases, PinProject(r)
        PROVE  UpgradeInv' /\ pin = NoPin
    BY <1>6, PinProjectKeeps DEF PinProject
  <1>7. ASSUME NEW u \in UpgradeIds, NEW r \in Releases, NEW ok \in BOOLEAN,
               PreviewProjectUpgrade(u, r, ok)
        PROVE  UpgradeInv' /\ pin' = pin
    BY <1>7, PreviewProjectUpgradeKeeps DEF PreviewProjectUpgrade
  <1>8. ASSUME NEW u \in UpgradeIds, ReadUpgradePreview(u)
        PROVE  UpgradeInv' /\ pin' = pin
    BY <1>8, ReadUpgradePreviewKeeps DEF ReadUpgradePreview
  <1>9. ASSUME NEW u \in UpgradeIds, CommitProjectUpgrade(u)
        PROVE  UpgradeInv' /\ pin'.system = pin.system /\ pin'.version > pin.version
    BY <1>9, CommitProjectUpgradeKeeps
  <1>10. CASE StopService
    BY <1>10, ServiceStopsKeeps DEF StopService, UpgradeInv, UpgradeTypeOK
  <1>11. CASE StartService
    BY <1>11, StartServiceKeeps DEF StartService
  <1>12. CASE Tick
    BY <1>12, ServiceStopsKeeps DEF Tick, UpgradeInv, UpgradeTypeOK
  <1>13. CASE UNCHANGED upgradeVars
    BY <1>13, ServiceStopsKeeps DEF upgradeVars, UpgradeInv, UpgradeTypeOK
  <1> QED
    BY <1>1, <1>2, <1>3, <1>4, <1>5, <1>6, <1>7, <1>8, <1>9, <1>10, <1>11, <1>12, <1>13
       DEF UpgradeNext, Serve

LEMMA UpgradeStarts ==
    ASSUME UpgradeInit
    PROVE  UpgradeInv
  <1>1. PICK content \in Contents :
           LET first == [revision |-> 1, schema |-> 1, release |-> NoPin, content |-> content]
           IN  history = <<first>> /\ snapshots = {first}
    BY DEF UpgradeInit
  <1> DEFINE first == [revision |-> 1, schema |-> 1, release |-> NoPin, content |-> content]
  <1>2. first \in Documents /\ first.schema = 1
    BY DEF Documents
  <1>3. history = <<first>> /\ snapshots = {first}
    BY <1>1
  <1> HIDE DEF first
  <1>4. history \in Seq(Documents) /\ history # <<>> /\ Len(history) = 1 /\ history[1] = first
    BY <1>2, <1>3
  <1>5. HeadFollowsPin
    BY <1>2, <1>4 DEF HeadFollowsPin, Current, Version
  <1>6. /\ pin = NoPin /\ running = TRUE /\ clock = 0
        /\ upgrades = [u \in UpgradeIds |-> [status |-> "unused"]]
        /\ previews = [p \in PreviewIds |-> [status |-> "unused"]]
    BY DEF UpgradeInit
  <1>7. UpgradeTypeOK
    BY <1>2, <1>3, <1>4, <1>6 DEF UpgradeTypeOK, UpgradeRows, PreviewRows
  <1>8. /\ \A u \in UpgradeIds : UpgradeWell(u)
        /\ \A p \in PreviewIds : PreviewWell(p)
    BY <1>6 DEF UpgradeWell, PreviewWell, Published
  <1> QED
    BY <1>4, <1>5, <1>7, <1>8 DEF UpgradeInv

LEMMA UpgradeInvImplies ==
    ASSUME UpgradeInv
    PROVE  HeadFollowsPin /\ UpgradeStillExact /\ UpgradeCommittedExactly
  <1>1. UpgradeStillExact
    <2> SUFFICES ASSUME NEW u \in UpgradeIds, upgrades[u].status = "ready"
                 PROVE  /\ upgrades[u].snapshots \subseteq snapshots
                        /\ (/\ upgrades[u].snapshots # {}
                            /\ upgrades[u].version = Version
                            /\ pin = upgrades[u].from)
                              => upgrades[u].result = PinnedDocument(upgrades[u].to)
      BY DEF UpgradeStillExact
    <2>1. Published(upgrades[u]) /\ UpgradeWell(u)
      BY DEF UpgradeInv, Published
    <2> QED
      BY <2>1 DEF UpgradeWell, PinnedDocument, Current
  <1>2. UpgradeCommittedExactly
    BY DEF UpgradeCommittedExactly, UpgradeInv, UpgradeWell, Published
  <1> QED
    BY <1>1, <1>2 DEF UpgradeInv

\* Every variable of the upgrades has its type: a document names a release
\* exactly if it is of schema 2.
THEOREM UpgradeTypeCorrect == UpgradeSpec => []UpgradeTypeOK
  <1>1. UpgradeInit => UpgradeInv
    BY UpgradeStarts
  <1>2. UpgradeInv /\ [UpgradeNext]_upgradeVars => UpgradeInv'
    BY UpgradeStep
  <1>3. UpgradeInv => UpgradeTypeOK
    BY DEF UpgradeInv
  <1> QED
    BY <1>1, <1>2, <1>3, PTL DEF UpgradeSpec

\* However pins, upgrades, migrations, ordinary previews, restores of old
\* versions and cleanups follow each other, with restarts in between, the head
\* of a V2 project names the release the project is pinned to, a ready upgrade
\* keeps its snapshots and can be committed as previewed, a committed one wrote
\* the document that was previewed, and the pin moves only forward.
THEOREM UpgradeSoundAlways == UpgradeSpec => UpgradeSound
  <1>1. UpgradeInit => UpgradeInv
    BY UpgradeStarts
  <1>2. UpgradeInv /\ [UpgradeNext]_upgradeVars => UpgradeInv'
    BY UpgradeStep
  <1>3. UpgradeInv => HeadFollowsPin /\ UpgradeStillExact /\ UpgradeCommittedExactly
    BY UpgradeInvImplies
  <1>4. UpgradeInv /\ [UpgradeNext]_upgradeVars
           => [pin' # pin /\ pin # NoPin
                 => pin'.system = pin.system /\ pin'.version > pin.version]_upgradeVars
    BY UpgradeStep
  <1> QED
    BY <1>1, <1>2, <1>3, <1>4, PTL DEF UpgradeSpec, UpgradeSound, PinOnlyUpgraded

=============================================================================
