----------------------- MODULE OrderProcessing_proofs -----------------------
(***************************************************************************)
(* Proofs about OrderProcessing, for lists of every length, heaps of every *)
(* size and all sets of device numbers: lists stay well-formed, and the    *)
(* heap implements the lists by recency of MruLists.                       *)
(***************************************************************************)
EXTENDS OrderProcessing, FiniteSetTheorems, SequenceTheorems, TLAPS

USE DEF Positions, OrderLists, OrderItemFree

-----------------------------------------------------------------------------
(* The list operations keep the type of lists, whatever they hold.         *)

LEMMA CleanOrderType == CleanOrder \in OrderLists
BY DEF CleanOrder

LEMMA ZeroOrderType == ZeroOrder \in OrderLists
BY OrderListAssumption DEF ZeroOrder

LEMMA ShiftInType ==
    ASSUME NEW order \in OrderLists, NEW i \in Items, NEW last
    PROVE  ShiftIn(order, last, i) \in OrderLists
<1>1. SUFFICES ASSUME NEW p \in Positions
      PROVE (IF p > last THEN order[p] ELSE IF p = 0 THEN i ELSE order[p - 1])
               \in Items \cup {OrderItemFree}
  BY DEF ShiftIn
<1>2. p # 0 => p - 1 \in Positions
  BY OrderListAssumption
<1>. QED
  BY <1>2

LEMMA OrderSetFirstType ==
    ASSUME NEW order \in OrderLists, NEW i \in Items
    PROVE  OrderSetFirst(order, i) \in OrderLists
BY ShiftInType DEF OrderSetFirst

-----------------------------------------------------------------------------
(* The list operations keep lists well-formed.                             *)

LEMMA CleanOrderWellFormed == WellFormed(CleanOrder)
BY DEF WellFormed, NoDuplicate, NoHole, CleanOrder

\* An item that a well-formed list names has one position, so that getIDPos
\* finds that one.
LEMMA GetIDPosFinds ==
    ASSUME NEW order \in OrderLists, WellFormed(order),
           NEW i \in Items, IsListed(order, i)
    PROVE  /\ GetIDPos(order, i) \in Positions
           /\ order[GetIDPos(order, i)] = i
<1>1. i # OrderItemFree
  BY OrderListAssumption
<1>2. PICK p \in Positions : order[p] = i
  BY DEF IsListed
<1>3. \A q \in Positions : order[q] = i => p <= q
  BY <1>1, <1>2, OrderListAssumption DEF WellFormed, NoDuplicate
<1>. QED
  BY <1>2, <1>3 DEF GetIDPos

\* Shifting in an item at its own position, or over the last place when the
\* list does not name it: each place but the first gets the content of a place
\* other than last, in the same order.
LEMMA ShiftInWellFormed ==
    ASSUME NEW order \in OrderLists, WellFormed(order),
           NEW i \in Items, NEW last \in Positions,
           \A q \in Positions : order[q] = i => q = last
    PROVE  WellFormed(ShiftIn(order, last, i))
<1>. DEFINE s == ShiftIn(order, last, i)
            Source(p) == IF p > last THEN p ELSE p - 1
<1>1. i # OrderItemFree
  BY OrderListAssumption
<1>2. s[0] = i
  BY OrderListAssumption DEF ShiftIn
<1>3. \A p \in Positions \ {0} :
         /\ Source(p) \in Positions
         /\ Source(p) # last
         /\ s[p] = order[Source(p)]
  BY OrderListAssumption DEF ShiftIn
<1>4. \A p, q \in Positions \ {0} :
         /\ Source(p) = Source(q) => p = q
         /\ q <= p => Source(q) <= Source(p)
  BY OrderListAssumption
<1>5. \A p \in Positions \ {0} : s[p] # i
  BY <1>3
<1>6. NoDuplicate(s)
  <2>1. SUFFICES ASSUME NEW p \in Positions, NEW q \in Positions,
                        s[p] = s[q], s[p] # OrderItemFree
                 PROVE  p = q
    BY DEF NoDuplicate
  <2>2. CASE p = 0 \/ q = 0
    BY <1>2, <1>5, <2>1, <2>2
  <2>3. CASE p # 0 /\ q # 0
    <3>1. order[Source(p)] = order[Source(q)] /\ order[Source(p)] # OrderItemFree
      BY <1>3, <2>1, <2>3
    <3>2. Source(p) = Source(q)
      BY <1>3, <2>3, <3>1 DEF WellFormed, NoDuplicate
    <3>. QED
      BY <1>4, <2>3, <3>2
  <2>. QED
    BY <2>2, <2>3
<1>7. NoHole(s)
  <2>1. SUFFICES ASSUME NEW p \in Positions, NEW q \in Positions,
                        q <= p, s[p] # OrderItemFree
                 PROVE  s[q] # OrderItemFree
    BY DEF NoHole
  <2>2. CASE q = 0
    BY <1>1, <1>2, <2>2
  <2>3. CASE q # 0
    <3>1. p # 0
      BY <2>1, <2>3
    <3>2. order[Source(p)] # OrderItemFree /\ Source(q) <= Source(p)
      BY <1>3, <1>4, <2>1, <2>3, <3>1
    <3>3. order[Source(q)] # OrderItemFree
      BY <1>3, <2>3, <3>1, <3>2 DEF WellFormed, NoHole
    <3>. QED
      BY <1>3, <2>3, <3>3
  <2>. QED
    BY <2>2, <2>3
<1>. QED
  BY <1>6, <1>7 DEF WellFormed

\* orderSetFirst keeps a list well-formed and puts the item first.
LEMMA OrderSetFirstWellFormed ==
    ASSUME NEW order \in OrderLists, WellFormed(order), NEW i \in Items
    PROVE  /\ WellFormed(OrderSetFirst(order, i))
           /\ OrderSetFirst(order, i)[0] = i
<1>1. CASE IsListed(order, i)
  <2>1. PICK pos : /\ pos = GetIDPos(order, i)
                   /\ pos \in Positions
                   /\ order[pos] = i
    <3>. HIDE DEF Positions, OrderLists, OrderItemFree
    <3>. QED
      BY <1>1, GetIDPosFinds
  <2>2. \A q \in Positions : order[q] = i => q = pos
    BY <2>1, OrderListAssumption DEF WellFormed, NoDuplicate
  <2>3. WellFormed(ShiftIn(order, pos, i))
    <3>. HIDE DEF Positions, OrderLists, OrderItemFree
    <3>. QED
      BY <2>1, <2>2, ShiftInWellFormed
  <2>4. ShiftIn(order, pos, i)[0] = i
    BY <2>1, OrderListAssumption DEF ShiftIn
  <2>. QED
    BY <1>1, <2>1, <2>3, <2>4 DEF OrderSetFirst
<1>2. CASE ~IsListed(order, i)
  <2>. DEFINE last == OrderItemQuantity - 1
  <2>1. last \in Positions /\ last # 0
    BY OrderListAssumption
  <2>2. WellFormed(ShiftIn(order, last, i))
    BY <1>2, <2>1, ShiftInWellFormed DEF IsListed
  <2>3. ShiftIn(order, last, i)[0] = i
    BY <2>1, OrderListAssumption DEF ShiftIn
  <2>. QED
    BY <1>2, <2>1, <2>2, <2>3 DEF OrderSetFirst
<1>. QED
  BY <1>1, <1>2

-----------------------------------------------------------------------------
(* The invariants.                                                         *)

\* Every list has the type of orderProcessing.h's orderT and every list's
\* state is one of the two, whatever the operations called.
THEOREM TypeCorrect == Spec => []TypeOK
<1>1. Init => TypeOK
  BY ZeroOrderType DEF Init, Boot, TypeOK
<1>2. TypeOK /\ [Next]_vars => TypeOK'
  <2>. SUFFICES ASSUME TypeOK, [Next]_vars
                PROVE  TypeOK'
    OBVIOUS
  <2>. USE DEF TypeOK
  <2>1. ASSUME NEW h \in Handles, OrderMalloc(h)
        PROVE  TypeOK'
    BY <2>1, CleanOrderType DEF OrderMalloc
  <2>2. ASSUME NEW h \in Handles, OrderFree(h)
        PROVE  TypeOK'
    BY <2>2 DEF OrderFree
  <2>3. ASSUME NEW h \in Handles, OrderClean(h)
        PROVE  TypeOK'
    BY <2>3, CleanOrderType DEF OrderClean
  <2>4. ASSUME NEW h \in Handles, OrderReadFlash(h)
        PROVE  TypeOK'
    BY <2>4 DEF OrderReadFlash
  <2>5. ASSUME NEW h \in Handles, OrderWriteFlash(h)
        PROVE  TypeOK'
    BY <2>5 DEF OrderWriteFlash
  <2>6. ASSUME NEW h \in Handles, NEW i \in Items, SetFirst(h, i)
        PROVE  TypeOK'
    BY <2>6, OrderSetFirstType DEF SetFirst
  <2>7. CASE Restart
    BY <2>7, ZeroOrderType DEF Restart
  <2>8. CASE UNCHANGED vars
    BY <2>8 DEF vars
  <2>. QED
    BY <2>1, <2>2, <2>3, <2>4, <2>5, <2>6, <2>7, <2>8 DEF Next
<1>. QED
  BY <1>1, <1>2, PTL DEF Spec

\* Every list in use, and the saved one, names a device once and has its used
\* places in front: the property ListsWellFormed of the run OrderProcessing.
THEOREM ListsStayWellFormed == Spec => []ListsWellFormed
<1>1. Init => ListsWellFormed
  BY DEF Init, Boot, ListsWellFormed, IsBusy
<1>2. TypeOK /\ ListsWellFormed /\ [Next]_vars => ListsWellFormed'
  <2>. SUFFICES ASSUME TypeOK, ListsWellFormed, [Next]_vars
                PROVE  ListsWellFormed'
    OBVIOUS
  <2>. USE DEF TypeOK, ListsWellFormed, IsBusy
  <2>1. ASSUME NEW h \in Handles, OrderMalloc(h)
        PROVE  ListsWellFormed'
    BY <2>1, CleanOrderWellFormed DEF OrderMalloc
  <2>2. ASSUME NEW h \in Handles, OrderFree(h)
        PROVE  ListsWellFormed'
    BY <2>2 DEF OrderFree
  <2>3. ASSUME NEW h \in Handles, OrderClean(h)
        PROVE  ListsWellFormed'
    BY <2>3, CleanOrderWellFormed DEF OrderClean
  <2>4. ASSUME NEW h \in Handles, OrderReadFlash(h)
        PROVE  ListsWellFormed'
    BY <2>4 DEF OrderReadFlash
  <2>5. ASSUME NEW h \in Handles, OrderWriteFlash(h)
        PROVE  ListsWellFormed'
    BY <2>5 DEF OrderWriteFlash
  <2>6. ASSUME NEW h \in Handles, NEW i \in Items, SetFirst(h, i)
        PROVE  ListsWellFormed'
    <3>1. WellFormed(OrderSetFirst(heap[h], i))
      BY <2>6, OrderSetFirstWellFormed DEF SetFirst
    <3>. QED
      BY <2>6, <3>1 DEF SetFirst
  <2>7. CASE Restart
    BY <2>7 DEF Restart
  <2>8. CASE UNCHANGED vars
    BY <2>8 DEF vars
  <2>. QED
    BY <2>1, <2>2, <2>3, <2>4, <2>5, <2>6, <2>7, <2>8 DEF Next
<1>. QED
  BY <1>1, <1>2, TypeCorrect, PTL DEF Spec

-----------------------------------------------------------------------------
(* The refinement: a well-formed list as a sequence, and what becomes of   *)
(* it.                                                                     *)

HIDE DEF Positions, OrderLists, OrderItemFree

LEMMA FullSubset ==
    ASSUME NEW S, IsFiniteSet(S), NEW T \in SUBSET S,
           Cardinality(T) = Cardinality(S)
    PROVE  T = S
BY FS_Subset

\* the places in use are the first ones, as many as the list has items
LEMMA UsedIsPrefix ==
    ASSUME NEW order \in OrderLists, WellFormed(order)
    PROVE  /\ Cardinality(Used(order)) \in 0..OrderItemQuantity
           /\ Used(order) = 0 .. Cardinality(Used(order)) - 1
<1>. DEFINE n == Cardinality(Used(order))
<1>1. /\ IsFiniteSet(Positions)
      /\ Cardinality(Positions) = OrderItemQuantity
  BY FS_Interval, OrderListAssumption DEF Positions
<1>2. Used(order) \in SUBSET Positions
  BY DEF Used
<1>3. IsFiniteSet(Used(order)) /\ n \in Nat /\ n <= OrderItemQuantity
  BY <1>1, <1>2, FS_Subset, FS_CardinalityType
<1>4. Used(order) \in SUBSET (0 .. n - 1)
  <2>1. SUFFICES ASSUME NEW p \in Used(order) PROVE p <= n - 1
    BY <1>2, <1>3, OrderListAssumption DEF Positions
  <2>2. p \in Nat /\ 0..p \in SUBSET Used(order)
    BY <1>2, OrderListAssumption DEF WellFormed, NoHole, Used, Positions
  <2>3. Cardinality(0..p) = p + 1
    BY <2>2, FS_Interval
  <2>4. Cardinality(0..p) <= n
    BY <1>3, <2>2, FS_Subset
  <2>. QED
    BY <1>3, <2>2, <2>3, <2>4
<1>5. IsFiniteSet(0 .. n - 1) /\ Cardinality(0 .. n - 1) = n
  BY <1>3, FS_Interval
<1>6. Used(order) = 0 .. n - 1
  <2>1. PICK first : first = 0 .. n - 1
    OBVIOUS
  <2>2. PICK used : used = Used(order)
    OBVIOUS
  <2>3. IsFiniteSet(first) /\ used \in SUBSET first
    BY <1>4, <1>5, <2>1, <2>2, Zenon
  <2>4. Cardinality(used) = Cardinality(first)
    BY <1>5, <2>1, <2>2, Zenon
  <2>5. used = first
    BY <2>3, <2>4, FullSubset
  <2>. QED
    BY <2>1, <2>2, <2>5, Zenon
<1>. QED
  BY <1>3, <1>6

\* a list whose places in use are the first n is a sequence of n items
LEMMA AsSeqIs ==
    ASSUME NEW order \in OrderLists, NEW n \in Nat, Used(order) = 0 .. n - 1
    PROVE  /\ AsSeq(order) = [k \in 1..n |-> order[k - 1]]
           /\ AsSeq(order) \in Seq(Items)
           /\ Len(AsSeq(order)) = n
<1>1. Cardinality(Used(order)) = n
  BY FS_Interval
<1>2. AsSeq(order) = [k \in 1..n |-> order[k - 1]]
  BY <1>1 DEF AsSeq
<1>3. \A k \in 1..n : order[k - 1] \in Items
  <2>1. SUFFICES ASSUME NEW k \in 1..n PROVE order[k - 1] \in Items
    OBVIOUS
  <2>2. k - 1 \in Used(order)
    OBVIOUS
  <2>. QED
    BY <2>2 DEF Used, OrderLists
<1>. QED
  BY <1>2, <1>3

LEMMA CleanOrderIsEmpty == AsSeq(CleanOrder) = <<>>
<1>1. CleanOrder \in OrderLists /\ Used(CleanOrder) = 0 .. 0 - 1
  BY CleanOrderType DEF Used, CleanOrder
<1>2. AsSeq(CleanOrder) \in Seq(Items) /\ Len(AsSeq(CleanOrder)) = 0
  <2>1. 0 \in Nat
    OBVIOUS
  <2>. QED
    BY <1>1, <2>1, AsSeqIs, Zenon
<1>. QED
  BY <1>2, EmptySeq
LEMMA RemoveFirstIs ==
    ASSUME NEW list \in Seq(Items), NEW k \in 1..Len(list),
           \A j \in 1..Len(list) : list[j] = list[k] => j = k
    PROVE  Mru!RemoveFirst(list, list[k]) =
               SubSeq(list, 1, k - 1) \o SubSeq(list, k + 1, Len(list))
<1>. DEFINE places == {j \in 1..Len(list) : list[j] = list[k]}
<1>1. places = {k}
  OBVIOUS
<1>2. Mru!Min(places) = k
  BY <1>1 DEF Mru!Min
<1>3. Mru!SelectInSeq(list, LAMBDA v : v = list[k]) = k
  BY <1>1, <1>2 DEF Mru!SelectInSeq
<1>. QED
  BY <1>3 DEF Mru!RemoveFirst, Mru!RemoveAt

LEMMA RemoveNone ==
    ASSUME NEW list \in Seq(Items), NEW i,
           \A j \in 1..Len(list) : list[j] # i
    PROVE  Mru!RemoveFirst(list, i) = list
BY DEF Mru!RemoveFirst
LEMMA ItemTakenOut ==
    ASSUME NEW n \in Nat, NEW list \in Seq(Items), Len(list) = n, NEW k \in 1..n,
           NEW rest, rest = SubSeq(list, 1, k - 1) \o SubSeq(list, k + 1, n)
    PROVE  /\ rest \in Seq(Items)
           /\ Len(rest) = n - 1
           /\ \A j \in 1 .. n - 1 :
                 rest[j] = IF j < k THEN list[j] ELSE list[j + 1]
<1>1. PICK front \in Seq(Items) : front = SubSeq(list, 1, k - 1)
  <2>1. SubSeq(list, 1, k - 1) \in Seq(Items)
    OBVIOUS
  <2>. QED
    BY <2>1, Zenon
<1>2. PICK back \in Seq(Items) : back = SubSeq(list, k + 1, n)
  <2>1. SubSeq(list, k + 1, n) \in Seq(Items)
    OBVIOUS
  <2>. QED
    BY <2>1, Zenon
<1>3. PICK a \in Nat : a = k - 1
  OBVIOUS
<1>4. PICK b \in Nat : b = n - k
  OBVIOUS
<1>5. /\ front \in Seq(Items)
      /\ Len(front) = a
      /\ \A j \in 1..a : front[j] = list[j]
  BY <1>1, <1>3
<1>6. /\ back \in Seq(Items)
      /\ Len(back) = b
      /\ \A j \in 1..b : back[j] = list[k + j]
  BY <1>2, <1>4
<1>7. /\ rest \in Seq(Items)
      /\ Len(rest) = a + b
      /\ \A j \in 1..a : rest[j] = front[j]
      /\ \A j \in 1..b : rest[a + j] = back[j]
  <2>1. rest = front \o back
    BY <1>1, <1>2
  <2>2. /\ front \o back \in Seq(Items)
        /\ Len(front \o back) = a + b
        /\ \A j \in 1..a : (front \o back)[j] = front[j]
        /\ \A j \in 1..b : (front \o back)[a + j] = back[j]
    <3>1. Len(front) = a /\ Len(back) = b
      BY <1>5, <1>6
    <3>. QED
      BY ONLY <3>1, front \in Seq(Items), back \in Seq(Items),
              a \in Nat, b \in Nat
  <2>. QED
    BY <2>1, <2>2, Zenon
<1>8. ASSUME NEW j \in 1 .. n - 1
      PROVE  rest[j] = IF j < k THEN list[j] ELSE list[j + 1]
  <2>1. CASE j < k
    <3>1. j \in 1..a
      BY <1>3, <2>1
    <3>. QED
      BY ONLY <1>5, <1>7, <2>1, <3>1
  <2>2. CASE ~(j < k)
    <3>1. PICK m \in 1..b : a + m = j /\ k + m = j + 1
      <4>1. j - k + 1 \in 1..b /\ a + (j - k + 1) = j
        BY <1>3, <1>4, <2>2
      <4>. QED
        BY <4>1
    <3>2. rest[j] = back[m] /\ back[m] = list[j + 1]
      BY <1>6, <1>7, <3>1, Zenon
    <3>. QED
      BY <2>2, <3>2, Zenon
  <2>. QED
    BY <2>1, <2>2
<1>9. a + b = n - 1
  BY <1>3, <1>4
<1>. QED
  BY <1>7, <1>8, <1>9, Zenon

\* An item of a list that is touched: those before it move one back.
LEMMA ListedTouched ==
    ASSUME NEW n \in Nat, NEW list \in Seq(Items), Len(list) = n,
           n <= OrderItemQuantity, NEW k \in 1..n,
           \A j \in 1..n : list[j] = list[k] => j = k
    PROVE  /\ Mru!Touched(list, list[k]) \in Seq(Items)
           /\ Len(Mru!Touched(list, list[k])) = n
           /\ \A j \in 1..n :
                 Mru!Touched(list, list[k])[j] =
                     IF j = 1 THEN list[k]
                     ELSE IF j <= k THEN list[j - 1] ELSE list[j]
<1>1. PICK rest : rest = Mru!RemoveFirst(list, list[k])
  OBVIOUS
<1>2. /\ rest \in Seq(Items)
      /\ Len(rest) = n - 1
      /\ \A j \in 1 .. n - 1 :
            rest[j] = IF j < k THEN list[j] ELSE list[j + 1]
  <2>1. rest = SubSeq(list, 1, k - 1) \o SubSeq(list, k + 1, n)
    BY <1>1, RemoveFirstIs
  <2>. QED
    BY ONLY <2>1, n \in Nat, list \in Seq(Items), Len(list) = n, k \in 1..n,
            ItemTakenOut
<1>. DEFINE moved == <<list[k]>> \o rest
<1>3. /\ moved \in Seq(Items)
      /\ Len(moved) = n
      /\ \A j \in 1..n : moved[j] = IF j = 1 THEN list[k] ELSE rest[j - 1]
  BY <1>2
<1>4. Mru!Touched(list, list[k]) = moved
  BY <1>1, <1>3, OrderListAssumption DEF Mru!Touched
<1>. HIDE DEF moved
<1>5. ASSUME NEW j \in 1..n
      PROVE  moved[j] = IF j = 1 THEN list[k]
                        ELSE IF j <= k THEN list[j - 1] ELSE list[j]
  <2>1. CASE j = 1
    BY ONLY <1>3, <2>1, j \in 1..n
  <2>2. CASE j # 1
    <3>1. PICK m \in 1 .. n - 1 : m = j - 1 /\ m + 1 = j
      BY <2>2
    <3>2. moved[j] = rest[m]
      BY ONLY <1>3, <2>2, <3>1, j \in 1..n
    <3>3. rest[m] = IF j <= k THEN list[j - 1] ELSE list[j]
      BY ONLY <1>2, <3>1, j \in 1..n, k \in 1..n
    <3>. QED
      BY <2>2, <3>2, <3>3, Zenon
  <2>. QED
    BY <2>1, <2>2
<1>. QED
  BY ONLY <1>3, <1>4, <1>5

\* An item that is not on the list: the others move one back, the last one
\* leaves when the list is full.
LEMMA OtherTouched ==
    ASSUME NEW list \in Seq(Items), Len(list) <= OrderItemQuantity,
           NEW i \in Items, \A j \in 1..Len(list) : list[j] # i,
           NEW n, n = IF Len(list) < OrderItemQuantity THEN Len(list) + 1
                                                       ELSE OrderItemQuantity
    PROVE  /\ Mru!Touched(list, i) \in Seq(Items)
           /\ Len(Mru!Touched(list, i)) = n
           /\ \A j \in 1..n :
                 Mru!Touched(list, i)[j] = IF j = 1 THEN i ELSE list[j - 1]
<1>. DEFINE moved == <<i>> \o list
<1>1. Mru!RemoveFirst(list, i) = list
  BY RemoveNone
<1>2. /\ moved \in Seq(Items)
      /\ Len(moved) = Len(list) + 1
      /\ \A j \in 1 .. Len(list) + 1 :
            moved[j] = IF j = 1 THEN i ELSE list[j - 1]
  OBVIOUS
<1>3. Mru!Touched(list, i) = IF Len(moved) > OrderItemQuantity
                             THEN SubSeq(moved, 1, OrderItemQuantity)
                             ELSE moved
  BY <1>1 DEF Mru!Touched
<1>. HIDE DEF moved
<1>. QED
  BY <1>2, <1>3, OrderListAssumption
\* orderSetFirst on a list is Touch on the sequence of its items.
LEMMA OrderSetFirstTouches ==
    ASSUME NEW order \in OrderLists, WellFormed(order), NEW i \in Items
    PROVE  AsSeq(OrderSetFirst(order, i)) = Mru!Touched(AsSeq(order), i)
<1>1. PICK n \in 0..OrderItemQuantity : Used(order) = 0 .. n - 1
  BY UsedIsPrefix
<1>2. PICK list : list = AsSeq(order)
  OBVIOUS
<1>3. PICK new \in OrderLists : new = OrderSetFirst(order, i)
  BY OrderSetFirstType
<1>4. n \in Nat /\ n <= OrderItemQuantity
  BY OrderListAssumption
<1>5. /\ list = [k \in 1..n |-> order[k - 1]]
      /\ list \in Seq(Items)
      /\ Len(list) = n
  BY <1>1, <1>2, <1>4, AsSeqIs
<1>6. \A k \in 1..n : list[k] = order[k - 1]
  BY <1>5
<1>7. i # OrderItemFree
  BY OrderListAssumption DEF OrderItemFree
<1>8. CASE IsListed(order, i)
  <2>1. PICK pos \in Positions : pos = GetIDPos(order, i) /\ order[pos] = i
    BY <1>8, GetIDPosFinds
  <2>2. pos \in 0 .. n - 1
    BY <1>1, <1>7, <2>1 DEF Used
  <2>3. PICK k \in 1..n : k = pos + 1
    BY <1>4, <2>2
  <2>4. list[k] = i
    BY <1>6, <2>1, <2>2, <2>3
  <2>5. \A j \in 1..n : list[j] = list[k] => j = k
    <3>1. SUFFICES ASSUME NEW j \in 1..n, list[j] = i PROVE j = k
      BY <2>4
    <3>2. j - 1 \in Positions /\ order[j - 1] = order[pos]
      BY <1>4, <1>6, <2>1, <3>1, OrderListAssumption DEF Positions
    <3>3. j - 1 = pos
      BY <1>7, <2>1, <3>2 DEF WellFormed, NoDuplicate
    <3>. QED
      BY <1>4, <2>3, <3>3
  <2>6. \A p \in Positions :
           new[p] = IF p > pos THEN order[p]
                    ELSE IF p = 0 THEN i ELSE order[p - 1]
    BY <1>3, <1>8, <2>1, OrderListAssumption DEF OrderSetFirst, ShiftIn, Positions
  <2>7. Used(new) = 0 .. n - 1
    BY <1>1, <1>4, <1>7, <2>2, <2>6, OrderListAssumption DEF Used, Positions
  <2>8. /\ AsSeq(new) = [j \in 1..n |-> new[j - 1]]
        /\ AsSeq(new) \in Seq(Items)
        /\ Len(AsSeq(new)) = n
    BY <1>4, <2>7, AsSeqIs
  <2>9. /\ Mru!Touched(list, i) \in Seq(Items)
        /\ Len(Mru!Touched(list, i)) = n
        /\ \A j \in 1..n :
              Mru!Touched(list, i)[j] =
                  IF j = 1 THEN i ELSE IF j <= k THEN list[j - 1] ELSE list[j]
    <3>1. list \in Seq(Items) /\ Len(list) = n /\ Len(list) <= OrderItemQuantity
      BY <1>4, <1>5
    <3>. QED
      BY ONLY <2>4, <2>5, <3>1, n \in Nat, k \in 1..n, ListedTouched
  <2>10. \A j \in 1..n : AsSeq(new)[j] = Mru!Touched(list, i)[j]
    <3>1. SUFFICES ASSUME NEW j \in 1..n
                   PROVE  new[j - 1] = Mru!Touched(list, i)[j]
      BY <2>8
    <3>2. j - 1 \in Positions
      BY <1>4, OrderListAssumption DEF Positions
    <3>3. new[j - 1] = IF j > k THEN order[j - 1]
                       ELSE IF j = 1 THEN i ELSE order[j - 2]
      BY <1>4, <2>2, <2>3, <2>6, <3>2
    <3>4. list[j] = order[j - 1] /\ (j # 1 => list[j - 1] = order[j - 2])
      BY <1>4, <1>6
    <3>. QED
      BY <1>4, <2>3, <2>9, <3>3, <3>4
  <2>. QED
    BY <1>2, <1>3, <2>8, <2>9, <2>10, SeqEqual
<1>9. CASE ~IsListed(order, i)
  <2>1. \A j \in 1..n : list[j] # i
    <3>1. SUFFICES ASSUME NEW j \in 1..n PROVE list[j] # i
      OBVIOUS
    <3>2. j - 1 \in Positions
      BY <1>4, OrderListAssumption DEF Positions
    <3>. QED
      BY <1>6, <1>9, <3>2 DEF IsListed
  <2>2. PICK m \in 1..OrderItemQuantity :
           m = IF n < OrderItemQuantity THEN n + 1 ELSE OrderItemQuantity
    BY <1>4, OrderListAssumption
  <2>3. m \in Nat
    BY OrderListAssumption
  <2>4. \A p \in Positions : new[p] = IF p = 0 THEN i ELSE order[p - 1]
    BY <1>3, <1>9, OrderListAssumption DEF OrderSetFirst, ShiftIn, Positions
  <2>5. Used(new) = 0 .. m - 1
    <3>1. \A p \in Positions : p \in Used(new) <=> p = 0 \/ p - 1 \in Used(order)
      BY <1>7, <2>4, OrderListAssumption DEF Used, Positions
    <3>2. Used(new) \subseteq Positions
      BY DEF Used
    <3>3. \A p \in Positions : p \in Used(new) <=> p \in 0 .. m - 1
      <4>1. SUFFICES ASSUME NEW p \in Positions
                     PROVE  p \in Used(new) <=> p \in 0 .. m - 1
        OBVIOUS
      <4>2. p \in Nat /\ p < OrderItemQuantity
        BY OrderListAssumption DEF Positions
      <4>3. p \in Used(new) <=> p = 0 \/ p - 1 \in 0 .. n - 1
        BY <1>1, <3>1
      <4>. QED
        BY <1>4, <2>2, <2>3, <4>2, <4>3, OrderListAssumption
    <3>4. 0 .. m - 1 \subseteq Positions
      BY <2>3, OrderListAssumption DEF Positions
    <3>. QED
      BY <3>2, <3>3, <3>4, Zenon
  <2>6. /\ AsSeq(new) = [j \in 1..m |-> new[j - 1]]
        /\ AsSeq(new) \in Seq(Items)
        /\ Len(AsSeq(new)) = m
    BY <2>3, <2>5, AsSeqIs
  <2>7. /\ Mru!Touched(list, i) \in Seq(Items)
        /\ Len(Mru!Touched(list, i)) = m
        /\ \A j \in 1..m :
              Mru!Touched(list, i)[j] = IF j = 1 THEN i ELSE list[j - 1]
    <3>1. /\ list \in Seq(Items) /\ Len(list) = n
          /\ Len(list) <= OrderItemQuantity
      BY <1>4, <1>5
    <3>. QED
      BY ONLY <2>1, <2>2, <3>1, i \in Items, OtherTouched
  <2>8. \A j \in 1..m : AsSeq(new)[j] = Mru!Touched(list, i)[j]
    <3>1. SUFFICES ASSUME NEW j \in 1..m
                   PROVE  new[j - 1] = Mru!Touched(list, i)[j]
      BY <2>6
    <3>2. new[j - 1] = IF j = 1 THEN i ELSE order[j - 2]
      BY <2>3, <2>4, OrderListAssumption DEF Positions
    <3>3. j # 1 => list[j - 1] = order[j - 2]
      <4>1. SUFFICES ASSUME j # 1 PROVE list[j - 1] = order[j - 2]
        OBVIOUS
      <4>2. j - 1 \in 1..n /\ (j - 1) - 1 = j - 2
        BY <1>4, <2>2, <4>1
      <4>. QED
        BY <1>6, <4>2
    <3>. QED
      BY <2>7, <3>2, <3>3
  <2>. QED
    BY <1>2, <1>3, <2>6, <2>7, <2>8, SeqEqual
<1>. QED
  BY <1>8, <1>9
-----------------------------------------------------------------------------
\* The heap of lists does what its users expect: each list in use is the
\* sequence of the devices last put first, and a step on one list leaves the
\* others alone: the property ImplementsMru of the run OrderProcessing.
THEOREM ListsByRecency == Spec => ImplementsMru
<1>1. Init => Mru!Init
  BY DEF Init, Boot, IsBusy, Mru!Init
<1>2. TypeOK /\ ListsWellFormed /\ [Next]_vars => [Mru!Next]_(Mru!vars)
  <2>. SUFFICES ASSUME TypeOK, ListsWellFormed, [Next]_vars
                PROVE  Mru!Next \/ UNCHANGED Mru!vars
    OBVIOUS
  <2>. DEFINE list(h) == IF IsBusy(h) THEN AsSeq(heap[h]) ELSE <<>>
              recent == [h \in Handles |-> list(h)]
  <2>1. ASSUME NEW h \in Handles,
               \/ OrderMalloc(h)
               \/ OrderFree(h)
               \/ OrderClean(h)
        PROVE  Mru!Forget(h)
    <3>1. list(h)' = <<>> /\ \A k \in Handles \ {h} : list(k)' = list(k)
      BY <2>1, CleanOrderIsEmpty
         DEF OrderMalloc, OrderFree, OrderClean, IsBusy, TypeOK
    <3>2. saved' = saved
      BY <2>1 DEF OrderMalloc, OrderFree, OrderClean
    <3>. QED
      BY <3>1, <3>2 DEF Mru!Forget
  <2>2. ASSUME NEW h \in Handles, OrderReadFlash(h)
        PROVE  Mru!Load(h)
    <3>1. /\ list(h)' = AsSeq(saved)
          /\ \A k \in Handles \ {h} : list(k)' = list(k)
      BY <2>2 DEF OrderReadFlash, IsBusy, TypeOK
    <3>2. saved' = saved /\ saved # NoRecord
      BY <2>2 DEF OrderReadFlash
    <3>. QED
      BY <3>1, <3>2 DEF Mru!Load
  <2>3. ASSUME NEW h \in Handles, OrderWriteFlash(h)
        PROVE  Mru!Save(h)
    <3>1. saved' = heap[h] /\ saved' # NoRecord /\ list(h) = AsSeq(heap[h])
      BY <2>3, HeapAssumption DEF OrderWriteFlash, TypeOK
    <3>2. heap' = heap /\ heapItemState' = heapItemState
      BY <2>3 DEF OrderWriteFlash
    <3>. QED
      BY <3>1, <3>2 DEF Mru!Save, IsBusy
  <2>4. ASSUME NEW h \in Handles, NEW i \in Items, SetFirst(h, i)
        PROVE  Mru!Touch(h, i)
    <3>1. AsSeq(OrderSetFirst(heap[h], i)) = Mru!Touched(AsSeq(heap[h]), i)
      BY <2>4, OrderSetFirstTouches DEF SetFirst, TypeOK, ListsWellFormed
    <3>2. /\ list(h)' = Mru!Touched(list(h), i)
          /\ \A k \in Handles \ {h} : list(k)' = list(k)
      BY <2>4, <3>1 DEF SetFirst, IsBusy, TypeOK
    <3>3. saved' = saved
      BY <2>4 DEF SetFirst
    <3>. QED
      BY <3>2, <3>3 DEF Mru!Touch
  <2>5. CASE Restart
    BY <2>5 DEF Restart, IsBusy, Mru!Next, Mru!PowerLoss
  <2>6. CASE UNCHANGED vars
    BY <2>6 DEF vars, IsBusy, Mru!vars
  <2>. QED
    BY <2>1, <2>2, <2>3, <2>4, <2>5, <2>6 DEF Next, Mru!Next
<1>. QED
  BY <1>1, <1>2, TypeCorrect, ListsStayWellFormed, PTL
     DEF Spec, ImplementsMru, Mru!Spec
=============================================================================
