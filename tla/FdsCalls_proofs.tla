--------------------------- MODULE FdsCalls_proofs ----------------------------
(***************************************************************************)
(* The invariant of fds.c is preserved by the flash, by the power and by   *)
(* the callers, with the lemmas about pages, the queue and the words that  *)
(* are claimed.  Fds_proofs is about the steps of queue_process.           *)
(***************************************************************************)
EXTENDS FdsInvariant, FiniteSetTheorems, FunctionTheorems, SequenceTheorems, TLAPS

-------------------------------------------------------------------------------
(* Numbers, and the record that is found first                               *)

\* Min of FiniteSetsExt, of any numbers that are there
LEMMA MinIs ==
    ASSUME NEW S, S \subseteq Nat, S # {}
    PROVE  Min(S) \in S /\ \A y \in S : Min(S) <= y
<1> DEFINE B == {0 .. x : x \in S}
<1>1. PICK X \in B : \A Y \in B : ~(<<Y, X>> \in StrictSubsetOrdering(Nat))
  <2>1. B \subseteq FiniteSubsetsOf(Nat)
    <3> SUFFICES ASSUME NEW x \in S
                 PROVE  0 .. x \in FiniteSubsetsOf(Nat)
      OBVIOUS
    <3>1. IsFiniteSet(0 .. x) /\ 0 .. x \subseteq Nat
      BY FS_Interval
    <3> QED
      BY <3>1 DEF FiniteSubsetsOf
  <2>2. B # {}
    OBVIOUS
  <2> HIDE DEF B
  <2> QED
    BY <2>1, <2>2, FS_StrictSubsetOrderingWellFounded, WFMin
<1>2. PICK x \in S : X = 0 .. x
  OBVIOUS
<1>3. ASSUME NEW y \in S
      PROVE  x <= y
  <2>1. ~(<<0 .. y, 0 .. x>> \in StrictSubsetOrdering(Nat))
    BY <1>1, <1>2
  <2> SUFFICES ASSUME y < x
               PROVE  FALSE
    OBVIOUS
  <2>2. /\ 0 .. y \in SUBSET Nat /\ 0 .. x \in SUBSET Nat
        /\ 0 .. y \subseteq 0 .. x
        /\ x \in 0 .. x /\ x \notin 0 .. y
    OBVIOUS
  <2> QED
    BY <2>1, <2>2, Zenon DEF StrictSubsetOrdering
<1> QED
  BY <1>3 DEF Min

\* Max of FiniteSetsExt, of numbers that have a bound
LEMMA MaxIs ==
    ASSUME NEW S, S \subseteq Nat, S # {}, NEW n \in Nat, \A x \in S : x <= n
    PROVE  Max(S) \in S /\ \A y \in S : Max(S) >= y
<1> DEFINE T == {b \in Nat : \A x \in S : x <= b}
<1>1. PICK b \in T : \A c \in T : b <= c
  <2>1. n \in T
    OBVIOUS
  <2> QED
    BY <2>1, MinIs, T \subseteq Nat, T # {}
<1>2. b \in S
  <2> SUFFICES ASSUME b \notin S
               PROVE  FALSE
    OBVIOUS
  <2>1. \A x \in S : x < b
    <3>1. \A x \in S : x <= b /\ x \in Nat /\ x # b
      BY <1>1
    <3> b \in Nat
      OBVIOUS
    <3> HIDE DEF T
    <3> QED
      BY <3>1
  <2>2. b > 0
    <3>1. PICK x \in S : TRUE
      OBVIOUS
    <3>2. x \in Nat /\ x < b
      BY <2>1, <3>1
    <3> QED
      BY <3>2
  <2>3. b - 1 \in T
    BY <2>1, <2>2
  <2> QED
    BY <1>1, <2>3
<1> QED
    BY <1>1, <1>2 DEF Max

\* a search that finds records ends at one of them, before all others
LEMMA FirstIs ==
    ASSUME NEW ds, ds \subseteq [page : Index, slot : Slots], ds # {}
    PROVE  First(ds) \in ds /\ \A e \in ds \ {First(ds)} : Before(First(ds), e)
<1> DEFINE P == {d.page : d \in ds}
           i == Min(P)
           S == {s \in Nat : \E d \in ds : d.page = i /\ d.slot = s}
           d0 == [page |-> i, slot |-> Min(S)]
<1>1. i \in P /\ \A j \in P : i <= j
  <2>1. \A d \in ds : d.page \in Nat
    BY FdsAssumption DEF Index
  <2>2. P \subseteq Nat /\ P # {}
    BY <2>1, Zenon
  <2> HIDE DEF P
  <2> QED
    BY <2>2, MinIs
<1>2. Min(S) \in S /\ \A s \in S : Min(S) <= s
  <2>1. S \subseteq Nat /\ S # {}
    <3>1. PICK d \in ds : d.page = i
      BY <1>1
    <3>2. d.slot \in Nat
      BY FdsAssumption DEF Slots
    <3> QED
      BY <3>1, <3>2
  <2> HIDE DEF S
  <2> QED
    BY <2>1, MinIs
<1>3. d0 \in ds
  <2>1. PICK d \in ds : d.page = i /\ d.slot = Min(S)
    BY <1>2
  <2>2. d = [page |-> d.page, slot |-> d.slot]
    OBVIOUS
  <2> HIDE DEF i, S
  <2> QED
    BY <2>1, <2>2
<1> HIDE DEF d0
<1>4. \A e \in ds \ {d0} : Before(d0, e)
  <2> SUFFICES ASSUME NEW e \in ds, e # d0
               PROVE  Before(d0, e)
    OBVIOUS
  <2>1. e \in [page : Index, slot : Slots] /\ e.page \in P
    OBVIOUS
  <2>2. i <= e.page
    BY <2>1, <1>1
  <2>3. CASE e.page = i
    <3>1. e.slot \in S
      <4>1. e.slot \in Nat
        BY FdsAssumption, <2>1 DEF Slots
      <4> HIDE DEF i
      <4> QED
        BY <4>1, <2>3
    <3>2. Min(S) <= e.slot
      BY <3>1, <1>2
    <3>3. e.slot \in Nat /\ Min(S) \in Nat
      BY <3>1, <1>2
    <3> HIDE DEF S, i
    <3>4. Min(S) # e.slot
      BY <2>1, <2>3 DEF d0
    <3> QED
      BY <3>2, <3>3, <3>4, <2>3 DEF Before, d0
  <2>4. CASE e.page # i
    <3>1. i \in Nat /\ e.page \in Nat
      <4>1. \A d \in ds : d.page \in Nat
        BY FdsAssumption DEF Index
      <4> QED
        BY <4>1, <1>1
    <3> HIDE DEF i, S
    <3> QED
      BY <2>2, <2>4, <3>1 DEF Before, d0
  <2> QED
    BY <2>3, <2>4
<1> QED
    BY <1>3, <1>4 DEF First

-------------------------------------------------------------------------------
(* What an operation does to the flash                                       *)

\* an erased page
LEMMA ErasedType ==
    /\ ErasedPage \in [tag : {"erased", "swap", "data"}, rec : [Slots -> Slot]]
    /\ ErasedSlot \in Slot /\ ErasedSlot.st = "erased" /\ ErasedPage.tag = "erased"
    /\ \A s \in Slots : ErasedPage.rec[s] = ErasedSlot
    /\ InOrder(ErasedPage)
    BY DEF ErasedPage, ErasedSlot, Slot, InOrder

\* The flash after each kind of operation: nothing ...
LEMMA AppliedNone ==
    ASSUME NEW fl
    PROVE  Applied(fl, NoBusy) = fl
<1>1. NoBusy.kind = "none"
    BY DEF NoBusy
<1> QED
    BY <1>1 DEF Applied

\* ... the erasure of a page ...
LEMMA AppliedErase ==
    ASSUME NEW fl, NEW p
    PROVE  Applied(fl, Erase(p)) = [fl EXCEPT ![p] = ErasedPage]
<1>1. Erase(p).kind = "erase" /\ Erase(p).phys = p
    BY DEF Erase, NoBusy
<1> QED
    BY <1>1 DEF Applied

\* ... the writing of a record ...
LEMMA AppliedSlot ==
    ASSUME NEW fl, NEW p, NEW s, NEW r
    PROVE  Applied(fl, WriteSlot(p, s, r)) = [fl EXCEPT ![p].rec[s] = r]
<1> DEFINE w == WriteSlot(p, s, r)
<1>1. w.kind = "slot" /\ w.phys = p /\ w.slot = s /\ w.val = r
    BY DEF WriteSlot
<1> HIDE DEF w
<1>2. Applied(fl, w) = [fl EXCEPT ![p].rec[s] = r]
    BY <1>1 DEF Applied
<1> QED
    BY <1>2 DEF w

\* ... and of a tag.
LEMMA AppliedTag ==
    ASSUME NEW fl, NEW p, NEW t, t = "swap" \/ t = "data"
    PROVE  Applied(fl, Tag(p, t)) = [fl EXCEPT ![p].tag = TagOver(@, t)]
<1> DEFINE w == Tag(p, t)
<1>1. w.kind = t /\ w.phys = p
    BY DEF Tag, NoBusy
<1> HIDE DEF w
<1>2. w.kind # "none" /\ w.kind # "erase" /\ w.kind # "slot"
    BY <1>1
<1>3. Applied(fl, w) = [fl EXCEPT ![w.phys].tag = TagOver(@, w.kind)]
    BY <1>2 DEF Applied
<1>4. Applied(fl, w) = [fl EXCEPT ![p].tag = TagOver(@, t)]
    BY <1>1, <1>3
<1> QED
    BY <1>4 DEF w

\* An erasure empties its page and touches no other.
LEMMA EraseEffect ==
    ASSUME NEW fl \in FlashType, NEW p \in Phys, NEW f2, f2 = Applied(fl, Erase(p))
    PROVE  /\ f2 \in FlashType
           /\ f2[p] = ErasedPage
           /\ \A q \in Phys : q # p => f2[q] = fl[q]
<1>1. f2 = [fl EXCEPT ![p] = ErasedPage]
    BY AppliedErase
<1> QED
    BY ONLY <1>1, ErasedType, fl \in FlashType, p \in Phys DEF FlashType

\* A tag is written over the old one, which it may only clear bits of.
LEMMA TagEffect ==
    ASSUME NEW fl \in FlashType, NEW p \in Phys, NEW t, t = "swap" \/ t = "data",
           NEW f2, f2 = Applied(fl, Tag(p, t))
    PROVE  /\ f2 \in FlashType
           /\ f2[p].rec = fl[p].rec
           /\ f2[p].tag = TagOver(fl[p].tag, t)
           /\ \A q \in Phys : q # p => f2[q] = fl[q]
<1>1. f2 = [fl EXCEPT ![p].tag = TagOver(@, t)]
    BY AppliedTag
<1> DEFINE new == TagOver(fl[p].tag, t)
<1>2. new \in {"erased", "swap", "data"}
    BY DEF TagOver
<1>3. f2 = [fl EXCEPT ![p] = [@ EXCEPT !.tag = new]]
    BY <1>1
<1> HIDE DEF new
<1>4. /\ f2 \in FlashType
      /\ f2[p].rec = fl[p].rec
      /\ f2[p].tag = new
      /\ \A q \in Phys : q # p => f2[q] = fl[q]
    BY ONLY <1>2, <1>3, fl \in FlashType, p \in Phys DEF FlashType
<1> QED
    BY <1>4 DEF new

\* A record is written to its place and to no other.
LEMMA SlotEffect ==
    ASSUME NEW fl \in FlashType, NEW p \in Phys, NEW s \in Slots, NEW r \in Slot,
           NEW f2, f2 = Applied(fl, WriteSlot(p, s, r))
    PROVE  /\ f2 \in FlashType
           /\ f2[p].tag = fl[p].tag
           /\ f2[p].rec[s] = r
           /\ \A t \in Slots : t # s => f2[p].rec[t] = fl[p].rec[t]
           /\ \A q \in Phys : q # p => f2[q] = fl[q]
<1>1. f2 = [fl EXCEPT ![p].rec[s] = r]
    BY AppliedSlot
<1> QED
    BY ONLY <1>1, fl \in FlashType, p \in Phys, s \in Slots, r \in Slot DEF FlashType

\* Erasing a page leaves the flash as the storage may leave it ...
LEMMA ConsistentErase ==
    ASSUME NEW fl, Consistent(fl), NEW p \in Phys, NEW f2, f2 = Applied(fl, Erase(p))
    PROVE  /\ Consistent(f2)
           /\ SwapIsWhole(fl) => SwapIsWhole(f2)
<1>1. /\ f2 \in FlashType
      /\ f2[p] = ErasedPage
      /\ \A q \in Phys : q # p => f2[q] = fl[q]
  <2>1. fl \in FlashType
    BY DEF Consistent
  <2> QED
    BY <2>1, EraseEffect
<1>2. Consistent(f2)
  <2>1. \A q, u \in Phys : f2[q].tag = "swap" /\ f2[u].tag = "swap" => q = u
    BY <1>1, ErasedType DEF Consistent
  <2>2. \A q \in Phys : InOrder(f2[q]) /\ (f2[q].tag = "erased" => f2[q] = ErasedPage)
    BY <1>1, ErasedType DEF Consistent
  <2> QED
    BY <1>1, <2>1, <2>2, ErasedType DEF Consistent
<1>3. SwapIsWhole(fl) => SwapIsWhole(f2)
    BY <1>1, ErasedType DEF SwapIsWhole
<1> QED
    BY <1>2, <1>3

\* ... so does tagging one as data while another is not of data, or as swap while no
\* other is ...
LEMMA ConsistentTag ==
    ASSUME NEW fl, Consistent(fl), NEW p \in Phys, NEW t, t = "swap" \/ t = "data",
           t = "swap" => fl[p].tag # "data" /\ \A q \in Phys \ {p} : fl[q].tag # "swap",
           t = "data" => \E q \in Phys \ {p} : fl[q].tag # "data",
           NEW f2, f2 = Applied(fl, Tag(p, t))
    PROVE  /\ Consistent(f2)
           /\ (SwapIsWhole(fl) /\ (t = "swap" => \A s \in Slots : fl[p].rec[s].st = "erased"))
              => SwapIsWhole(f2)
<1>1. /\ f2 \in FlashType
      /\ f2[p].rec = fl[p].rec
      /\ f2[p].tag = TagOver(fl[p].tag, t)
      /\ \A q \in Phys : q # p => f2[q] = fl[q]
  <2>1. fl \in FlashType
    BY DEF Consistent
  <2> QED
    BY <2>1, TagEffect
<1>2. f2[p].tag \in {"swap", "data"} /\ (f2[p].tag = "swap" => t = "swap")
      /\ (fl[p].tag # "data" => f2[p].tag = t)
    BY <1>1 DEF TagOver
<1>3. \A q \in Phys : f2[q].rec = fl[q].rec
    BY <1>1
<1>4. Consistent(f2)
  <2>1. ASSUME NEW q \in Phys
        PROVE  InOrder(f2[q]) /\ (f2[q].tag = "erased" => f2[q] = ErasedPage)
    <3>1. InOrder(fl[q]) /\ (fl[q].tag = "erased" => fl[q] = ErasedPage)
      BY DEF Consistent
    <3>2. InOrder(f2[q])
      BY <3>1, <1>3 DEF InOrder
    <3> QED
      BY <3>1, <3>2, <1>1, <1>2
  <2>2. \A q, u \in Phys : f2[q].tag = "swap" /\ f2[u].tag = "swap" => q = u
    BY <1>1, <1>2 DEF Consistent
  <2>3. \E q \in Phys : f2[q].tag # "data"
    <3>1. CASE t = "swap"
      BY <3>1, <1>2
    <3>2. CASE t = "data"
      BY <3>2, <1>1
    <3> QED
      BY <3>1, <3>2
  <2> QED
    BY <1>1, <2>1, <2>2, <2>3 DEF Consistent
<1>5. (SwapIsWhole(fl) /\ (t = "swap" => \A s \in Slots : fl[p].rec[s].st = "erased"))
              => SwapIsWhole(f2)
    BY <1>1, <1>2, <1>3 DEF SwapIsWhole
<1> QED
    BY <1>4, <1>5

\* ... and so does writing behind the last place used.
LEMMA ConsistentSlot ==
    ASSUME NEW fl, Consistent(fl), NEW p \in Phys, NEW s \in Slots, NEW r \in Slot,
           r.st # "erased", fl[p].tag # "erased",
           \A t \in Slots : t < s => fl[p].rec[t].st # "erased",
           NEW f2, f2 = Applied(fl, WriteSlot(p, s, r))
    PROVE  /\ Consistent(f2)
           /\ (SwapIsWhole(fl) /\ (fl[p].tag = "swap" => r.st = "whole")) => SwapIsWhole(f2)
<1>1. /\ f2 \in FlashType
      /\ f2[p].tag = fl[p].tag
      /\ f2[p].rec[s] = r
      /\ \A t \in Slots : t # s => f2[p].rec[t] = fl[p].rec[t]
      /\ \A q \in Phys : q # p => f2[q] = fl[q]
  <2>1. fl \in FlashType
    BY DEF Consistent
  <2> QED
    BY <2>1, SlotEffect
<1>2. \A q \in Phys : f2[q].tag = fl[q].tag
    BY <1>1
<1>3. Consistent(f2)
  <2>1. InOrder(f2[p])
    <3> SUFFICES ASSUME NEW u \in Slots, f2[p].rec[u].st = "erased"
                 PROVE  /\ f2[p].rec[u] = ErasedSlot
                        /\ \A t \in Slots : t > u => f2[p].rec[t].st = "erased"
      BY DEF InOrder
    <3>1. u # s /\ fl[p].rec[u].st = "erased"
      BY <1>1
    <3>2. fl[p].rec[u] = ErasedSlot
            /\ \A t \in Slots : t > u => fl[p].rec[t].st = "erased"
      BY <3>1 DEF Consistent, InOrder
    <3>3. ~(s > u)
      <4>1. u \in Int /\ s \in Int
        BY DEF Slots
      <4> QED
        BY <4>1, <3>1
    <3> QED
      BY <3>1, <3>2, <3>3, <1>1
  <2>2. \A q \in Phys : InOrder(f2[q]) /\ (f2[q].tag = "erased" => f2[q] = ErasedPage)
    BY <2>1, <1>1 DEF Consistent
  <2>3. /\ \A q, u \in Phys : f2[q].tag = "swap" /\ f2[u].tag = "swap" => q = u
        /\ \E q \in Phys : f2[q].tag # "data"
    BY <1>2 DEF Consistent
  <2> QED
    BY <1>1, <2>2, <2>3 DEF Consistent
<1>4. (SwapIsWhole(fl) /\ (fl[p].tag = "swap" => r.st = "whole")) => SwapIsWhole(f2)
  <2> SUFFICES ASSUME SwapIsWhole(fl), fl[p].tag = "swap" => r.st = "whole",
                      NEW q \in Phys, NEW u \in Slots, f2[q].tag = "swap"
               PROVE  f2[q].rec[u].st \in {"erased", "whole"}
    BY DEF SwapIsWhole
  <2>1. CASE q = p /\ u = s
    BY <2>1, <1>1
  <2>2. CASE ~(q = p /\ u = s)
    <3>1. f2[q].rec[u] = fl[q].rec[u] /\ fl[q].tag = "swap"
      BY <2>2, <1>1
    <3> QED
      BY <3>1 DEF SwapIsWhole
  <2> QED
    BY <2>1, <2>2
<1> QED
    BY <1>3, <1>4

-------------------------------------------------------------------------------
(* pages_init                                                                *)

\* page_scan: everything below the offset is used, nothing behind it is
LEMMA ScanIs ==
    ASSUME Consistent(flash), NEW p \in Phys
    PROVE  /\ Scan(p) \in Offsets
           /\ \A s \in Slots : s < Scan(p) => flash[p].rec[s].st # "erased"
           /\ \A s \in Slots : s >= Scan(p) => flash[p].rec[s].st = "erased"
<1> DEFINE E == {s \in Slots : flash[p].rec[s].st = "erased"}
           S == E \cup {PageSlots + 1}
<1>1. PageSlots \in Nat /\ Slots \subseteq Nat
    BY FdsAssumption DEF Slots
<1>2. S \subseteq Nat /\ S # {}
  <2>1. E \subseteq Slots
    OBVIOUS
  <2> HIDE DEF E
  <2> QED
    BY <1>1, <2>1
<1>3. Scan(p) = Min(S)
    BY DEF Scan
<1> HIDE DEF S
<1>4. Scan(p) \in S /\ \A y \in S : Scan(p) <= y
    BY <1>2, <1>3, MinIs
<1> USE DEF S
<1>5. Scan(p) \in Offsets
    BY <1>1, <1>4 DEF Offsets, Slots
<1>6. ASSUME NEW s \in Slots, s < Scan(p)
      PROVE  flash[p].rec[s].st # "erased"
  <2> SUFFICES ASSUME s \in E
               PROVE  FALSE
    OBVIOUS
  <2>1. Scan(p) <= s
    BY <1>4
  <2> QED
    BY <2>1, <1>6, <1>5, <1>1 DEF Offsets
<1>7. ASSUME NEW s \in Slots, s >= Scan(p)
      PROVE  flash[p].rec[s].st = "erased"
  <2>1. Scan(p) # PageSlots + 1
    BY <1>1, <1>7 DEF Slots
  <2>2. Scan(p) \in Slots /\ flash[p].rec[Scan(p)].st = "erased"
    BY <2>1, <1>4
  <2>3. InOrder(flash[p])
    BY DEF Consistent
  <2>4. s = Scan(p) \/ s > Scan(p)
    <3>1. s \in Nat /\ Scan(p) \in Nat
      BY <1>1, <2>2
    <3> QED
      BY <3>1, <1>7
  <2> QED
    BY <2>2, <2>3, <2>4 DEF InOrder
<1> QED
    BY <1>5, <1>6, <1>7

\* a page is of data, the swap page or erased
LEMMA TagsAre ==
    ASSUME Consistent(flash), NEW p \in Phys
    PROVE  /\ IsData(p) \/ IsSwap(p) \/ IsErased(p)
           /\ ~(IsData(p) /\ IsSwap(p))
           /\ IsErased(p) => ~IsData(p) /\ ~IsSwap(p)
           /\ flash[p].tag = "erased" <=> IsErased(p)
<1>1. flash[p].tag \in {"erased", "swap", "data"}
    BY DEF Consistent, FlashType
<1>2. flash[p].tag = "erased" <=> flash[p] = ErasedPage
    BY ErasedType DEF Consistent
<1> QED
    BY <1>1, <1>2, ErasedType DEF IsData, IsSwap, IsErased

\* pages_init finds one swap page and enters all the others ...
LEMMA SwapPageIs ==
    ASSUME Consistent(flash)
    PROVE  /\ SwapPage \in Phys
           /\ Entered = Phys \ {SwapPage}
           /\ \A p \in Phys : IsSwap(p) => p = SwapPage
           /\ IsSwap(SwapPage) \/ IsErased(SwapPage)
           /\ \A p, q \in FirstErased : p = q
<1> USE TagsAre
<1>0. Phys \subseteq Nat
    BY DEF Phys
<1>1. \A p, q \in FirstErased : p = q
  <2> SUFFICES ASSUME NEW p \in FirstErased, NEW q \in FirstErased, p < q
               PROVE  FALSE
    BY <1>0 DEF FirstErased
  <2>1. p \in 1 .. q - 1 /\ ~IsData(p) /\ IsErased(q)
    BY <1>0 DEF FirstErased, Phys
  <2>2. Second(q)
    BY <2>1 DEF Second
  <2> QED
    BY <2>2 DEF FirstErased
<1>2. CASE \E p \in Phys : IsSwap(p)
  <2>1. SwapPage \in Phys /\ IsSwap(SwapPage)
    BY <1>2 DEF SwapPage
  <2>2. \A p \in Phys : IsSwap(p) => p = SwapPage
    BY <2>1 DEF Consistent, IsSwap
  <2>3. SwapPage \notin Entered
    BY <2>1 DEF Entered, Second, FirstErased
  <2>4. ASSUME NEW p \in Phys, p # SwapPage
        PROVE  p \in Entered
    <3>1. CASE IsData(p) \/ Second(p)
      BY <3>1 DEF Entered
    <3>2. CASE ~IsData(p) /\ ~Second(p)
      <4>1. IsErased(p)
        BY <3>2, <2>2, <2>4
      <4>2. SwapPage \notin 1 .. p - 1
        BY <4>1, <3>2, <2>1 DEF Second
      <4>3. p < SwapPage
        BY <4>2, <2>1, <2>4 DEF Phys
      <4> QED
        BY <4>1, <4>3, <3>2, <2>1 DEF Entered, FirstErased
    <3> QED
      BY <3>1, <3>2
  <2>5. Entered \subseteq Phys
    BY DEF Entered, FirstErased
  <2> QED
    BY <1>1, <2>1, <2>2, <2>3, <2>4, <2>5
<1>3. CASE ~ \E p \in Phys : IsSwap(p)
  <2> DEFINE E == {p \in Phys : IsErased(p)}
  <2>1. E # {}
    <3>1. PICK p \in Phys : ~IsData(p)
      BY DEF Consistent, IsData
    <3> QED
      BY <3>1, <1>3
  <2>2. E \subseteq Nat
    BY <1>0
  <2> DEFINE m == Min(E)
  <2> HIDE DEF E
  <2>3. m \in E /\ \A y \in E : m <= y
    BY <2>1, <2>2, MinIs
  <2> USE DEF E
  <2> HIDE DEF m
  <2>4. m \in Phys /\ IsErased(m)
    BY <2>3
  <2>5. \A q \in 1 .. m - 1 : IsData(q)
    <3> SUFFICES ASSUME NEW q \in 1 .. m - 1, ~IsData(q)
                 PROVE  FALSE
      OBVIOUS
    <3>1. q \in Phys /\ m \in Nat /\ q \in Nat /\ q < m
      BY <2>4, FdsAssumption DEF Phys
    <3>2. q \in E
      BY <3>1, <1>3
    <3> QED
      BY <3>1, <3>2, <2>3
  <2>6. m \in FirstErased
    BY <2>4, <2>5 DEF FirstErased, Second
  <2>7. FirstErased = {m}
    BY <2>6, <1>1
  <2>8. SwapPage = m
    <3>1. {m} \cup {0} \subseteq Nat /\ m > 0 /\ m \in Nat
      BY <2>4 DEF Phys
    <3>2. Max({m} \cup {0}) \in {m} \cup {0} /\ \A y \in {m} \cup {0} : Max({m} \cup {0}) >= y
      BY <3>1, MaxIs
    <3>3. Max({m} \cup {0}) = m
      BY <3>1, <3>2
    <3> QED
      BY <3>3, <2>7, <1>3 DEF SwapPage
  <2>9. Entered = {p \in Phys : IsData(p) \/ Second(p)}
    BY <1>3 DEF Entered
  <2>10. m \notin Entered
    BY <2>4, <2>5, <2>9 DEF Second
  <2>11. ASSUME NEW p \in Phys, p # m
         PROVE  p \in Entered
    <3>1. CASE IsData(p)
      BY <3>1, <2>9
    <3>2. CASE ~IsData(p)
      <4>1. IsErased(p)
        BY <3>2, <1>3
      <4>2. p \notin FirstErased
        BY <2>7, <2>11
      <4> QED
        BY <4>1, <4>2, <2>9 DEF FirstErased
    <3> QED
      BY <3>1, <3>2
  <2> QED
    BY <1>1, <1>3, <2>4, <2>8, <2>9, <2>10, <2>11
<1> QED
    BY <1>2, <1>3

\* ... each once.
LEMMA LayoutIs ==
    ASSUME Consistent(flash)
    PROVE  /\ DOMAIN Layout = Index
           /\ \A i \in Index : Layout[i] \in Phys \ {SwapPage}
           /\ \A i, j \in Index : Layout[i] = Layout[j] => i = j
           /\ \A p \in Phys \ {SwapPage} : \E i \in Index : Layout[i] = p
<1>0. Phys \subseteq Nat /\ PhyPages \in Nat
    BY FdsAssumption DEF Phys
<1>1. /\ IsFiniteSet(Entered)
      /\ Cardinality(Entered) = PhyPages - 1
  <2>1. IsFiniteSet(Phys) /\ Cardinality(Phys) = PhyPages
    BY FS_Interval, FdsAssumption DEF Phys
  <2> QED
    BY <2>1, SwapPageIs, FS_RemoveElement
<1>2. \A p \in Entered : Turn(p) \in Nat
  <2>1. \A p \in Entered : Turn(p) \in Phys
    BY SwapPageIs DEF Turn
  <2> QED
    BY <2>1 DEF Phys
<1>3. \A p, q \in Entered : p # q => Turn(p) # Turn(q)
  <2>1. SwapPage \notin Entered
    BY SwapPageIs
  <2>2. \A p, q \in FirstErased : p = q
    BY SwapPageIs
  <2> QED
    BY <2>1, <2>2, Zenon DEF Turn
<1> DEFINE B(p) == {q \in Entered : Turn(q) <= Turn(p)}
<1>4. \A p \in Entered : IsFiniteSet(B(p)) /\ Rank(p) = Cardinality(B(p)) /\ Rank(p) \in Index
  <2> SUFFICES ASSUME NEW p \in Entered
               PROVE  IsFiniteSet(B(p)) /\ Rank(p) = Cardinality(B(p)) /\ Rank(p) \in Index
    OBVIOUS
  <2>1. Rank(p) = Cardinality(B(p))
    BY DEF Rank
  <2>2. p \in B(p) /\ B(p) \subseteq Entered
    <3>1. Turn(p) <= Turn(p)
      BY <1>2
    <3> QED
      BY <3>1, Zenon
  <2> HIDE DEF B
  <2>3. IsFiniteSet(B(p)) /\ Cardinality(B(p)) <= PhyPages - 1
    BY <2>2, <1>1, FS_Subset
  <2>4. Cardinality(B(p)) \in Nat /\ Cardinality(B(p)) # 0
    BY <2>2, <2>3, FS_CardinalityType, FS_EmptySet
  <2> QED
    BY <2>1, <2>3, <2>4, <1>0 DEF Index
<1>5. ASSUME NEW p \in Entered, NEW q \in Entered, Turn(p) < Turn(q)
      PROVE  Rank(p) # Rank(q)
  <2>1. B(p) \subseteq B(q) /\ q \in B(q) /\ q \notin B(p)
    <3>1. /\ \A x \in Entered : Turn(x) <= Turn(p) => Turn(x) <= Turn(q)
          /\ Turn(q) <= Turn(q) /\ ~(Turn(q) <= Turn(p))
      BY <1>5, <1>2
    <3> QED
      BY <3>1, Zenon
  <2> HIDE DEF B
  <2>2. IsFiniteSet(B(q)) /\ B(p) \in SUBSET B(q) /\ B(p) # B(q)
    BY <2>1, <1>4, Zenon
  <2>3. Cardinality(B(q)) # Cardinality(B(p))
    BY <2>2, FS_Subset
  <2> QED
    BY <2>3, <1>4
<1>6. \A p, q \in Entered : Rank(p) = Rank(q) => p = q
    BY <1>5, <1>3, <1>2
<1> DEFINE R == [p \in Entered |-> Rank(p)]
<1>7. R \in Injection(Entered, Index)
    BY <1>4, <1>6 DEF Injection, IsInjective
<1>8. IsFiniteSet(Index) /\ Cardinality(Index) = PhyPages - 1
    BY FS_Interval, FdsAssumption DEF Index
<1>9. R \in Surjection(Entered, Index)
  <2> HIDE DEF R
  <2> QED
    BY <1>1, <1>7, <1>8, FS_Injection
<1>10. \A i \in Index : \E p \in Entered : Rank(p) = i
    BY <1>9 DEF Surjection
<1>11. DOMAIN Layout = Index
    BY <1>1 DEF Layout, Index
<1>12. \A i \in Index : Layout[i] \in Entered /\ Rank(Layout[i]) = i
  <2> SUFFICES ASSUME NEW i \in Index
               PROVE  Layout[i] \in Entered /\ Rank(Layout[i]) = i
    OBVIOUS
  <2>1. Layout[i] = CHOOSE p \in Entered : Rank(p) = i
    BY <1>1 DEF Layout, Index
  <2> QED
    BY <2>1, <1>10
<1>13. \A p \in Entered : Layout[Rank(p)] = p
    BY <1>4, <1>6, <1>12
<1> QED
    BY <1>4, <1>11, <1>12, <1>13, SwapPageIs

\* an entry of m_pages, as pages_init leaves it
LEMMA PageAtIs ==
    ASSUME Consistent(flash), NEW i \in Index
    PROVE  /\ PageAt(i) = [type |-> IF IsErased(Layout[i]) THEN "erased" ELSE "data",
                           phys |-> Layout[i], offset |-> Scan(Layout[i]), reserved |-> 0,
                           canGc |-> IsData(Layout[i]) /\ Garbage(Layout[i]), open |-> 0]
<1>1. i \in DOMAIN Layout
    BY LayoutIs
<1> DEFINE t == IF IsErased(Layout[i]) THEN "erased" ELSE "data"
           g == IsData(Layout[i]) /\ Garbage(Layout[i])
<1>2. PageAt(i) = [NoPage EXCEPT !.phys = Layout[i], !.type = t,
                                 !.offset = Scan(Layout[i]), !.canGc = g]
    BY <1>1 DEF PageAt
<1> HIDE DEF t, g
<1>3. PageAt(i) = [type |-> t, phys |-> Layout[i], offset |-> Scan(Layout[i]),
                   reserved |-> 0, canGc |-> g, open |-> 0]
    BY <1>2 DEF NoPage
<1> QED
    BY <1>3 DEF t, g

\* m_pages and m_swap_page after pages_init
LEMMA BootPages ==
    ASSUME Consistent(flash), pages' = [i \in Index |-> PageAt(i)],
           swap' = [phys |-> SwapPage, offset |-> IF SwapPage = 0 THEN 1 ELSE Scan(SwapPage)]
    PROVE  /\ \A i \in Index :
                 /\ pages'[i] \in [type : {"erased", "data"}, phys : Phys,
                                   offset : Offsets, reserved : 0 .. PageSlots,
                                   canGc : BOOLEAN, open : 0 .. 1]
                 /\ pages'[i].phys = Layout[i] /\ pages'[i].offset = Scan(Layout[i])
                 /\ pages'[i].phys # SwapPage
                 /\ pages'[i].type = IF IsErased(Layout[i]) THEN "erased" ELSE "data"
                 /\ pages'[i].reserved = 0 /\ pages'[i].open = 0
                 /\ pages'[i].canGc = (IsData(Layout[i]) /\ Garbage(Layout[i]))
                 /\ flash[pages'[i].phys].tag = pages'[i].type
           /\ swap' \in [phys : Phys, offset : Offsets]
           /\ swap'.phys = SwapPage /\ swap'.offset = Scan(SwapPage)
<1>1. SwapPage \in Phys /\ SwapPage # 0
    BY SwapPageIs DEF Phys
<1>2. swap'.phys = SwapPage /\ swap'.offset = Scan(SwapPage) /\ swap' \in [phys : Phys, offset : Offsets]
    BY <1>1, ScanIs
<1>3. ASSUME NEW i \in Index
      PROVE /\ pages'[i] \in [type : {"erased", "data"}, phys : Phys,
                              offset : Offsets, reserved : 0 .. PageSlots,
                              canGc : BOOLEAN, open : 0 .. 1]
            /\ pages'[i].phys = Layout[i] /\ pages'[i].offset = Scan(Layout[i])
            /\ pages'[i].phys # SwapPage
            /\ pages'[i].type = IF IsErased(Layout[i]) THEN "erased" ELSE "data"
            /\ pages'[i].reserved = 0 /\ pages'[i].open = 0
            /\ pages'[i].canGc = (IsData(Layout[i]) /\ Garbage(Layout[i]))
            /\ flash[pages'[i].phys].tag = pages'[i].type
  <2>1. Layout[i] \in Phys /\ Layout[i] # SwapPage
    BY LayoutIs
  <2>2. ~IsSwap(Layout[i])
    BY <2>1, SwapPageIs
  <2>3. Scan(Layout[i]) \in Offsets
    BY <2>1, ScanIs
  <2>4. flash[Layout[i]].tag = IF IsErased(Layout[i]) THEN "erased" ELSE "data"
    BY <2>1, <2>2, TagsAre DEF IsData
  <2> DEFINE t == IF IsErased(Layout[i]) THEN "erased" ELSE "data"
             g == IsData(Layout[i]) /\ Garbage(Layout[i])
  <2>5. t \in {"erased", "data"} /\ g \in BOOLEAN /\ 0 \in 0 .. PageSlots
    BY FdsAssumption
  <2>6. pages'[i] = [type |-> t, phys |-> Layout[i], offset |-> Scan(Layout[i]),
                     reserved |-> 0, canGc |-> g, open |-> 0]
    BY PageAtIs
  <2>7. flash[Layout[i]].tag = t
    BY <2>4
  <2> HIDE DEF t, g
  <2>8. /\ pages'[i] \in [type : {"erased", "data"}, phys : Phys,
                              offset : Offsets, reserved : 0 .. PageSlots,
                              canGc : BOOLEAN, open : 0 .. 1]
        /\ pages'[i].phys = Layout[i] /\ pages'[i].offset = Scan(Layout[i])
        /\ pages'[i].type = t
        /\ pages'[i].reserved = 0 /\ pages'[i].open = 0
        /\ pages'[i].canGc = g
    BY <2>1, <2>3, <2>5, <2>6
  <2> QED
    BY <2>1, <2>7, <2>8 DEF t, g
<1> QED
    BY <1>2, <1>3

\* the page to be promoted is one of m_pages
LEMMA CurAtBootIs ==
    ASSUME Consistent(flash)
    PROVE  CurAtBoot \in Index
<1> DEFINE S == {i \in DOMAIN Layout : Second(Layout[i])} \cup {1}
<1>1. 1 \in Index /\ Index \subseteq Nat /\ PhyPages \in Nat
    BY FdsAssumption DEF Index
<1>2. S \subseteq Index /\ S # {}
    BY <1>1, LayoutIs
<1> HIDE DEF S
<1>3. S \subseteq Nat /\ \A x \in S : x <= PhyPages
  <2>1. \A x \in Index : x \in Nat /\ x <= PhyPages
    BY <1>1 DEF Index
  <2> QED
    BY <1>2, <2>1
<1>4. Max(S) \in S
    BY <1>1, <1>2, <1>3, MaxIs
<1> QED
    BY <1>2, <1>4 DEF S, CurAtBoot

-------------------------------------------------------------------------------
(* fds_init                                                                  *)

\* With no operation under way the flash stays what it is ...
LEMMA DoneIsFlash ==
    ASSUME busy = NoBusy
    PROVE  Done = flash
    BY AppliedNone DEF Done

\* ... also in the next state.
LEMMA DoneIsFlash1 ==
    ASSUME busy' = NoBusy
    PROVE  Done' = flash'
    BY AppliedNone DEF Done

\* an operation with nothing set but its kind and step
LEMMA OpIs ==
    ASSUME NEW op \in Kinds, NEW step \in Steps
    PROVE  /\ Op(op, step) \in Operation
           /\ Op(op, step).op = op /\ Op(op, step).step = step /\ Op(op, step).page = 0
    BY DEF Op, Operation

\* a queue of one operation
LEMMA One ==
    ASSUME NEW S, NEW x \in S
    PROVE  /\ <<x>> \in Seq(S) /\ Len(<<x>>) = 1 /\ <<x>>[1] = x
           /\ Head(<<x>>) = x /\ <<x>> # <<>> /\ Tail(<<x>>) = <<>>
    OBVIOUS

\* what each choice of fds_init goes by
LEMMA InitStepIs ==
    ASSUME Consistent(flash)
    PROVE  /\ InitStep \in {"promote", "tagSwap", "tagData", "eraseSwap", "installed", "failed"}
           /\ InitStep = "promote" => IsSwap(SwapPage)
           /\ InitStep = "eraseSwap" => IsSwap(SwapPage)
           /\ InitStep = "tagSwap" => IsErased(SwapPage) /\ Scan(SwapPage) = 1
           /\ InitStep = "tagData" => IsSwap(SwapPage) /\ Scan(SwapPage) = 1
           /\ InitStep = "installed" =>
                 IsSwap(SwapPage) /\ Scan(SwapPage) = 1 /\ \A p \in Phys : ~IsErased(p)
<1> DEFINE data   == \E p \in Phys : IsData(p)
           erased == \E p \in Phys : IsErased(p)
           full   == \E p \in Phys : IsSwap(p) /\ Scan(p) # 1
           clean  == \E p \in Phys : IsSwap(p) /\ Scan(p) = 1
<1>1. InitStep = IF erased
                 THEN IF full THEN "promote" ELSE IF clean THEN "tagData" ELSE "tagSwap"
                 ELSE IF full THEN "eraseSwap"
                 ELSE IF clean /\ data THEN "installed" ELSE "failed"
    BY DEF InitStep
<1>2. full => IsSwap(SwapPage)
    BY SwapPageIs
<1>3. clean => IsSwap(SwapPage) /\ Scan(SwapPage) = 1
    BY SwapPageIs
<1>4. ~full /\ ~clean => IsErased(SwapPage) /\ Scan(SwapPage) = 1
  <2> SUFFICES ASSUME ~full, ~clean
               PROVE  IsErased(SwapPage) /\ Scan(SwapPage) = 1
    OBVIOUS
  <2>1. SwapPage \in Phys /\ (IsSwap(SwapPage) \/ IsErased(SwapPage))
    BY SwapPageIs
  <2>2. IsErased(SwapPage)
    BY <2>1
  <2>3. 1 \in Slots
    BY FdsAssumption DEF Slots
  <2>4. flash[SwapPage].rec[1].st = "erased"
    BY <2>2, <2>3, ErasedType DEF IsErased
  <2>5. Scan(SwapPage) \in Offsets /\ ~(1 < Scan(SwapPage))
    BY <2>1, <2>3, <2>4, ScanIs
  <2> QED
    BY <2>2, <2>5, FdsAssumption DEF Offsets
<1> HIDE DEF data, erased, full, clean
<1>5. InitStep = "installed" => ~erased
    BY <1>1
<1> QED
    BY <1>1, <1>2, <1>3, <1>4, <1>5 DEF erased

\* what a page holds when fds_init has read it
LEMMA BootRecords ==
    ASSUME Consistent(flash), pages' = [i \in Index |-> PageAt(i)],
           swap' = [phys |-> SwapPage, offset |-> IF SwapPage = 0 THEN 1 ELSE Scan(SwapPage)],
           UNCHANGED <<flash, timeouts>>, Writing' = 0
    PROVE  /\ \A i \in Index : Filled(flash, i)' /\ Whole(flash, i)'
           /\ \A i \in Index : pages'[i].type = "erased" => pages'[i].offset = 1
           /\ \A s \in Slots : s < swap'.offset => SwapSt(flash, s)' # "erased"
           /\ \A s \in Slots : s >= swap'.offset => SwapSt(flash, s)' = "erased"
<1>1. /\ \A i \in Index : /\ pages'[i].phys = Layout[i] /\ pages'[i].offset = Scan(Layout[i])
                          /\ Layout[i] \in Phys
                          /\ pages'[i].canGc = (IsData(Layout[i]) /\ Garbage(Layout[i]))
                          /\ pages'[i].type = IF IsErased(Layout[i]) THEN "erased" ELSE "data"
      /\ swap'.phys = SwapPage /\ swap'.offset = Scan(SwapPage) /\ SwapPage \in Phys
    BY BootPages, LayoutIs, SwapPageIs
<1>2. ASSUME NEW i \in Index
      PROVE  Filled(flash, i)'
  <2>1. i # 0
    BY DEF Index
  <2> QED
    BY <1>1, <2>1, ScanIs DEF Filled, St
<1>3. ASSUME NEW i \in Index
      PROVE  Whole(flash, i)'
  <2> DEFINE p == Layout[i]
  <2>1. p \in Phys /\ p # 0
    BY <1>1 DEF Phys
  <2> SUFFICES ASSUME NEW s \in Slots, s < Scan(p), flash[p].rec[s].st # "whole"
               PROVE  pages'[i].canGc
    BY <1>1 DEF Whole, St
  <2>2. Reachable(flash, p, s)
    <3> SUFFICES ASSUME NEW t \in 1 .. s
                 PROVE  flash[p].rec[t].st # "erased"
      BY <2>1 DEF Reachable
    <3>0. Scan(p) \in Nat /\ s < Scan(p) /\ PageSlots \in Nat
      BY <2>1, ScanIs, FdsAssumption DEF Offsets
    <3> HIDE DEF p
    <3>1. t \in Slots /\ t < Scan(p)
      BY <3>0 DEF Slots
    <3> QED
      BY <3>1, <2>1, ScanIs
  <2>3. Garbage(p)
    BY <2>2 DEF Garbage, Valid
  <2>4. IsData(p)
    <3>1. flash[p].rec[s].st # "erased"
      BY <2>1, ScanIs
    <3>2. ~IsErased(p)
      BY <3>1, ErasedType DEF IsErased
    <3>3. ~IsSwap(p)
      BY LayoutIs, SwapPageIs
    <3> QED
      BY <3>2, <3>3, <2>1, TagsAre
  <2> QED
    BY <2>3, <2>4, <1>1
<1>4. ASSUME NEW i \in Index, pages'[i].type = "erased"
      PROVE  pages'[i].offset = 1
  <2>1. IsErased(Layout[i]) /\ Layout[i] \in Phys
    BY <1>1, <1>4
  <2>2. 1 \in Slots
    BY FdsAssumption DEF Slots
  <2>3. flash[Layout[i]].rec[1].st = "erased"
    BY <2>1, <2>2, ErasedType DEF IsErased
  <2>4. Scan(Layout[i]) \in Offsets /\ ~(1 < Scan(Layout[i]))
    BY <2>1, <2>2, <2>3, ScanIs
  <2> QED
    BY <2>4, <1>1, FdsAssumption DEF Offsets
<1>5. /\ \A s \in Slots : s < swap'.offset => SwapSt(flash, s)' # "erased"
      /\ \A s \in Slots : s >= swap'.offset => SwapSt(flash, s)' = "erased"
    BY <1>1, ScanIs DEF SwapSt
<1> QED
    BY <1>2, <1>3, <1>4, <1>5

\* a finite set of numbers has a bound
LEMMA UpperBound ==
    ASSUME NEW S, S \subseteq Nat, IsFiniteSet(S)
    PROVE  \E n \in Nat : \A x \in S : x <= n
<1> DEFINE Above(n) == {x \in S : x > n}
           B == {Above(n) : n \in Nat}
<1>1. PICK X \in B : \A Y \in B : ~(<<Y, X>> \in StrictSubsetOrdering(S))
  <2>1. B \subseteq FiniteSubsetsOf(S)
    <3> SUFFICES ASSUME NEW n \in Nat
                 PROVE  Above(n) \in FiniteSubsetsOf(S)
      OBVIOUS
    <3>1. Above(n) \subseteq S /\ IsFiniteSet(Above(n))
      BY FS_Subset
    <3> QED
      BY <3>1 DEF FiniteSubsetsOf
  <2>2. B # {}
    <3>1. Above(0) \in B
      OBVIOUS
    <3> QED
      BY <3>1
  <2> HIDE DEF B
  <2> QED
    BY <2>1, <2>2, FS_StrictSubsetOrderingWellFounded, WFMin
<1>2. PICK n \in Nat : X = Above(n)
    OBVIOUS
<1>3. \A x \in S : x <= n
  <2> SUFFICES ASSUME NEW x \in S, ~(x <= n)
               PROVE  FALSE
    OBVIOUS
  <2>1. x \in Nat /\ x > n
    OBVIOUS
  <2>2. Above(x) \in B /\ Above(n) \in SUBSET S /\ Above(x) \in SUBSET S
    BY <2>1
  <2>3. Above(x) \subseteq Above(n) /\ x \in Above(n) /\ x \notin Above(x)
    <3>1. \A y \in S : y \in Nat
      OBVIOUS
    <3>2. \A y \in S : y > x => y > n
      BY <3>1, <2>1
    <3>3. ~(x > x)
      BY <2>1
    <3>4. \A y \in Above(x) : y \in S /\ y > x
      OBVIOUS
    <3>5. x \in Above(n) /\ x \notin Above(x)
      BY <2>1, <3>3
    <3>6. Above(x) \subseteq Above(n)
      <4> SUFFICES ASSUME NEW y \in Above(x)
                   PROVE  y \in Above(n)
        OBVIOUS
      <4> QED
        BY <3>2, <3>4
    <3> QED
      BY <3>5, <3>6
  <2>4. <<Above(x), Above(n)>> \in StrictSubsetOrdering(S)
    <3> HIDE DEF Above
    <3> QED
      BY <2>2, <2>3, Zenon DEF StrictSubsetOrdering
  <2> HIDE DEF Above, B
  <2> QED
    BY <1>1, <1>2, <2>2, <2>4
<1> QED
    BY <1>3

\* the values of a function on a finite set are finitely many
LEMMA FiniteImage ==
    ASSUME NEW S, IsFiniteSet(S), NEW T, NEW f \in [S -> T], \A y \in T : \E x \in S : f[x] = y
    PROVE  IsFiniteSet(T)
<1>1. f \in Surjection(S, T)
    BY DEF Surjection
<1> QED
    BY <1>1, FS_Surjection

\* the greatest id that is found
LEMMA LastIdIs ==
    ASSUME Consistent(flash)
    PROVE  /\ LastId \in Nat
           /\ \A p \in Phys : \A r \in RecordsOn(flash, p) : r.id \in Nat /\ r.id <= LastId
<1> DEFINE R == UNION {RecordsOn(flash, p) : p \in Phys}
           I == {r.id : r \in R}
           S == {0} \cup I
<1>1. \A p \in Phys : \A r \in RecordsOn(flash, p) : r.id \in Nat
  <2>1. \A p \in Phys : \A s \in Slots : flash[p].rec[s].id \in Nat
    BY DEF Consistent, FlashType, Slot
  <2> QED
    BY <2>1 DEF RecordsOn, ValidSlots
<1>2. \A p \in Phys : IsFiniteSet(RecordsOn(flash, p))
  <2> SUFFICES ASSUME NEW p \in Phys
               PROVE  IsFiniteSet(RecordsOn(flash, p))
    OBVIOUS
  <2>1. IsFiniteSet(Slots)
    BY FdsAssumption, FS_Interval DEF Slots
  <2>2. IsFiniteSet(ValidSlots(flash, p))
    BY <2>1, FS_Subset DEF ValidSlots
  <2> DEFINE f == [s \in ValidSlots(flash, p) |->
                     [id |-> flash[p].rec[s].id, file |-> flash[p].rec[s].file]]
  <2>3. f \in [ValidSlots(flash, p) -> RecordsOn(flash, p)]
    <3>1. \A s \in ValidSlots(flash, p) : f[s] \in RecordsOn(flash, p)
      BY DEF RecordsOn
    <3> QED
      BY <3>1
  <2>4. \A y \in RecordsOn(flash, p) : \E x \in ValidSlots(flash, p) : f[x] = y
    BY DEF RecordsOn
  <2> HIDE DEF f
  <2> QED
    BY <2>2, <2>3, <2>4, FiniteImage
<1>3. IsFiniteSet(R)
  <2>1. IsFiniteSet(Phys)
    BY FdsAssumption, FS_Interval DEF Phys
  <2> DEFINE f == [p \in Phys |-> RecordsOn(flash, p)]
             T == {RecordsOn(flash, p) : p \in Phys}
  <2>2. f \in [Phys -> T] /\ \A y \in T : \E x \in Phys : f[x] = y
    <3> HIDE DEF T
    <3>1. \A p \in Phys : f[p] \in T
      BY DEF T
    <3>2. \A y \in T : \E x \in Phys : f[x] = y
      BY DEF T
    <3> QED
      BY <3>1, <3>2
  <2>3. IsFiniteSet(T)
    BY <2>1, <2>2, FiniteImage
  <2>4. \A x \in T : IsFiniteSet(x)
    BY <1>2
  <2> HIDE DEF T
  <2>5. IsFiniteSet(UNION T)
    BY <2>3, <2>4, FS_UNION
  <2> QED
    BY <2>5 DEF T
<1>4. IsFiniteSet(I)
  <2> DEFINE f == [r \in R |-> r.id]
  <2> HIDE DEF R
  <2>1. f \in [R -> I] /\ \A y \in I : \E x \in R : f[x] = y
    OBVIOUS
  <2> HIDE DEF f, I
  <2> QED
    BY <1>3, <2>1, FiniteImage
<1>5. I \subseteq Nat
    BY <1>1
<1> HIDE DEF I
<1>6. S \subseteq Nat /\ S # {} /\ IsFiniteSet(S)
    BY <1>4, <1>5, FS_AddElement
<1>7. PICK n \in Nat : \A x \in S : x <= n
    BY <1>6, UpperBound
<1>8. Max(S) \in S /\ \A y \in S : Max(S) >= y
    BY <1>6, <1>7, MaxIs
<1>9. LastId = Max(S)
    BY DEF LastId, I
<1>10. LastId \in Nat
    BY <1>6, <1>8, <1>9
<1>11. ASSUME NEW p \in Phys, NEW r \in RecordsOn(flash, p)
       PROVE  r.id \in Nat /\ r.id <= LastId
  <2>1. r.id \in I
    BY DEF I
  <2>2. r.id \in S /\ r.id \in Nat
    BY <2>1, <1>5
  <2> QED
    BY <2>2, <1>8, <1>9, <1>10
<1> QED
    BY <1>10, <1>11

\* fds_init leaves what its first step needs.
LEMMA FdsInitInv ==
    ASSUME IInv, FdsInit
    PROVE  IInv'
<1>1. /\ status = "off" /\ queue = <<>> /\ busy = NoBusy /\ opened = NotOpen /\ reserved = 0
      /\ loop.at = "idle" /\ Consistent(flash) /\ (timeouts = 0 => SwapIsWhole(flash))
      /\ timeouts \in Nat /\ LoopOK /\ QueueOK
    BY DEF IInv, Control, IsOff, FdsInit, LoopOK, StatusOK, FlashOK
<1>2. /\ pages' = [i \in Index |-> PageAt(i)]
      /\ swap' = [phys |-> SwapPage, offset |-> IF SwapPage = 0 THEN 1 ELSE Scan(SwapPage)]
      /\ gc' = [NoGc EXCEPT !.cur = CurAtBoot]
      /\ UNCHANGED <<flash, timeouts, busy, opened, reserved>>
    BY DEF FdsInit, static, users, ghosts, counts
<1>3. /\ GcType'
      /\ gc'.state = "begin" /\ gc'.src = 0 /\ ~gc'.resume /\ gc'.cur \in Index
  <2>1. CurAtBoot \in Index
    BY <1>1, CurAtBootIs
  <2>2. gc' = [state |-> "begin", cur |-> CurAtBoot, src |-> 0, resume |-> FALSE, todo |-> {}]
    BY <1>2 DEF NoGc
  <2> QED
    BY <2>1, <2>2 DEF GcType
<1>14. latest' \in Nat
    BY <1>1, LastIdIs DEF FdsInit
<1>4. Done' = flash' /\ busy' = NoBusy
    BY <1>1, <1>2, DoneIsFlash1
<1>5. /\ Consistent(flash)' /\ (timeouts = 0 => SwapIsWhole(flash))'
  <2>1. Consistent(flash')
    BY <1>1, <1>2
  <2>2. timeouts' = 0 => SwapIsWhole(flash')
    BY <1>1, <1>2
  <2> QED
    BY <2>1, <2>2
<1>6. FlashOK(flash)' /\ FlashOK(Done)'
    BY <1>4, <1>5 DEF FlashOK
<1>7. BusyOK'
    BY <1>4 DEF BusyOK
<1>8. PagesOK' \/ status' = "ready"
  <2>1. pages' \in [Index -> [type : {"erased", "data"}, phys : Phys,
                            offset : Offsets, reserved : 0 .. PageSlots,
                            canGc : BOOLEAN, open : 0 .. 1]]
    BY <1>1, <1>2, BootPages
  <2>2. /\ \A i \in Index : pages'[i].phys = Layout[i] /\ pages'[i].phys # SwapPage
        /\ swap' \in [phys : Phys, offset : Offsets] /\ swap'.phys = SwapPage
    BY <1>1, <1>2, BootPages
  <2>3. \A i, j \in Index : pages'[i].phys = pages'[j].phys => i = j
    BY <1>1, <2>2, LayoutIs
  <2>4. \A p \in Phys : p = swap'.phys \/ \E i \in Index : p = pages'[i].phys
    BY <1>1, <2>2, LayoutIs
  <2> QED
    BY <2>1, <2>2, <2>3, <2>4 DEF PagesOK
<1>9. ASSUME Writing' = 0
      PROVE  /\ \A i \in Index : Filled(flash, i)' /\ Whole(flash, i)'
             /\ \A i \in Index : pages'[i].type = "erased" => pages'[i].offset = 1
             /\ \A s \in Slots : s < swap'.offset => SwapSt(flash, s)' # "erased"
             /\ \A s \in Slots : s >= swap'.offset => SwapSt(flash, s)' = "erased"
             /\ \A i \in Index : flash'[pages'[i].phys].tag = pages'[i].type
             /\ \A i \in Index : pages'[i].reserved = 0 /\ pages'[i].open = 0
    BY <1>1, <1>2, <1>9, BootRecords, BootPages
<1>10. swap'.phys = SwapPage /\ swap'.offset = Scan(SwapPage)
    BY <1>1, <1>2, BootPages
<1>11. CASE InitStep = "failed" /\ status' = "failed" /\ UNCHANGED <<queue, loop>>
  <2>1. Control'
    BY <1>1, <1>2, <1>3, <1>4, <1>14, <1>11 DEF Control, QueueOK, LoopOK, StatusOK
  <2> QED
    BY <2>1, <1>6, <1>7, <1>8, <1>11 DEF IInv
<1>12. CASE InitStep = "installed" /\ status' = "ready" /\ UNCHANGED <<queue, loop>>
  <2>1. Control'
    BY <1>1, <1>2, <1>3, <1>4, <1>14, <1>12 DEF Control, QueueOK, LoopOK, StatusOK, Head1
  <2>2. Writing' = 0
    BY <1>1, <1>12 DEF Writing, Head1
  <2>3. IsSwap(SwapPage) /\ Scan(SwapPage) = 1 /\ \A p \in Phys : ~IsErased(p)
    BY <1>1, <1>12, InitStepIs
  <2>4. \A i \in Index : pages'[i].type = "data"
    <3>1. \A i \in Index : Layout[i] \in Phys
      BY <1>1, LayoutIs
    <3> QED
      BY <1>1, <1>2, <2>3, <3>1, BootPages
  <2>5. PagesOK'
    <3>1. pages' \in [Index -> [type : {"erased", "data"}, phys : Phys,
                            offset : Offsets, reserved : 0 .. PageSlots,
                            canGc : BOOLEAN, open : 0 .. 1]]
      BY <1>1, <1>2, BootPages
    <3>2. /\ \A i \in Index : pages'[i].phys = Layout[i] /\ pages'[i].phys # SwapPage
          /\ swap' \in [phys : Phys, offset : Offsets] /\ swap'.phys = SwapPage
      BY <1>1, <1>2, BootPages
    <3>3. \A i, j \in Index : pages'[i].phys = pages'[j].phys => i = j
      BY <1>1, <3>2, LayoutIs
    <3>4. \A p \in Phys : p = swap'.phys \/ \E i \in Index : p = pages'[i].phys
      BY <1>1, <3>2, LayoutIs
    <3> QED
      BY <3>1, <3>2, <3>3, <3>4, <2>4 DEF PagesOK
  <2>6. Known(flash)'
    <3>1. \A i \in Index : Kept(flash, i)'
      BY <1>9, <2>2, <2>4 DEF Kept
    <3>2. GcSwap(flash)'
      BY <1>2, <1>3, <1>9, <1>10, <2>2, <2>3 DEF GcSwap, EmptyFrom, IsSwap, SwapTag
    <3>3. OpenOK(flash)'
      BY <1>1, <1>2 DEF OpenOK
    <3> QED
      BY <3>1, <3>2, <3>3, <1>9, <2>2 DEF Known
  <2>7. Known(Done)'
    BY <2>6, <1>4 DEF Known, Kept, Filled, Whole, GcSwap, OpenOK, EmptyFrom, FullBelow, SwapSt, SwapTag, St
  <2>8. SpaceOK'
    <3>1. \A i \in Index : Claims(i)' = 0
      <4> SUFFICES ASSUME NEW i \in Index
                   PROVE  Claims(i)' = 0
        OBVIOUS
      <4>1. Claimed(i)' = {}
        BY <1>1, <1>12 DEF Claimed
      <4>2. i # 0
        BY DEF Index
      <4> QED
        BY <4>1, <4>2, <1>1, <1>2, FS_EmptySet DEF Claims
    <3>2. \A i \in Index : pages'[i].offset \in Offsets
      BY <1>1, <1>2, BootPages
    <3> QED
      BY <3>1, <3>2, <1>1, <1>2, <1>9, <2>2, FdsAssumption DEF SpaceOK, Offsets
  <2>9. Opens'
    BY <1>1, <1>2, <1>9, <2>2 DEF Opens, NotOpen, Index
  <2>10. IsReady'
    <3>1. ~Head1({"gc"})'
      BY <1>1, <1>12 DEF Head1
    <3> QED
      BY <3>1, <2>2, <2>6, <2>7, <2>8, <2>9, <1>3 DEF IsReady, GcWaits, WriteResult
  <2> QED
    BY <2>1, <2>5, <2>10, <1>6, <1>7, <1>12 DEF IInv
<1>13. CASE /\ InitStep \notin {"failed", "installed"}
            /\ status' = "starting"
            /\ queue' = <<Op("init", InitStep)>>
            /\ loop' = Again("success", FALSE)
  <2>1. InitStep \in {"promote", "tagSwap", "tagData", "eraseSwap"}
    BY <1>1, <1>13, InitStepIs
  <2> DEFINE o == Op("init", InitStep)
  <2>2. o \in Operation /\ o.op = "init" /\ o.step = InitStep /\ o.page = 0
    BY <2>1, OpIs DEF Kinds, Steps
  <2> HIDE DEF o
  <2>3. queue' \in Seq(Operation) /\ Len(queue') = 1 /\ queue'[1] = o /\ Head(queue') = o
        /\ queue' # <<>>
    BY <1>13, <2>2, One DEF o
  <2>4. loop'.at = "run" /\ loop'.ret = "success"
    BY <1>13 DEF Again
  <2>5. Control'
    <3>1. QueueOK'
      BY <2>1, <2>2, <2>3, FdsAssumption DEF QueueOK, OpOK
    <3>2. LoopOK'
      BY <2>3, <2>4, <1>4 DEF LoopOK
    <3>3. StatusOK'
      BY <2>2, <2>3, <2>4, <1>13 DEF StatusOK, Head1, Cur
    <3> QED
      BY <3>1, <3>2, <3>3, <1>1, <1>2, <1>3, <1>14 DEF Control
  <2>6. Writing' = 0
    BY <2>2, <2>3 DEF Writing, Head1, Cur
  <2>7. InitOK(Done)'
    <3>1. Cur' = o
      BY <2>3 DEF Cur
    <3>2. InitOK(flash)'
      <4>1. IsErased(SwapPage) => SwapPage \in Phys /\ flash[SwapPage] = ErasedPage
        BY <1>1, SwapPageIs DEF IsErased
      <4> QED
        BY <3>1, <2>1, <2>2, <1>1, <1>2, <1>9, <1>10, <2>6, <4>1, InitStepIs
           DEF InitOK, EmptyFrom, FullBelow, SwapTag, IsSwap
    <3> QED
      BY <3>2, <1>4 DEF InitOK, EmptyFrom, FullBelow, SwapTag, SwapSt, Filled, Whole, St
  <2>8. IsStarting'
    BY <2>7, <1>1, <1>2, <1>3, <1>9, <2>6 DEF IsStarting
  <2> QED
    BY <2>5, <2>8, <1>6, <1>7, <1>8, <1>13 DEF IInv
<1> QED
    BY <1>11, <1>12, <1>13 DEF FdsInit

-------------------------------------------------------------------------------
(* The queue                                                                 *)

\* a step of the first operation
LEMMA StepIs ==
    ASSUME QueueOK, queue # <<>>, NEW s \in Steps, Step(s)
    PROVE  /\ queue' \in Seq(Operation) /\ Len(queue') = Len(queue) /\ queue' # <<>>
           /\ Cur' = [Cur EXCEPT !.step = s]
           /\ Cur' = queue'[1] /\ Cur = queue[1]
           /\ \A k \in 1 .. Len(queue) : k > 1 => queue'[k] = queue[k]
           /\ Cur \in Operation /\ Cur' \in Operation
           /\ Cur'.step = s /\ Cur'.op = Cur.op /\ Cur'.page = Cur.page
           /\ Cur'.id = Cur.id /\ Cur'.file = Cur.file /\ Cur'.old = Cur.old
<1> DEFINE o == [Cur EXCEPT !.step = s]
<1>1. queue \in Seq(Operation) /\ Cur \in Operation /\ Cur = queue[1]
    BY DEF QueueOK, Cur
<1>2. /\ o \in Operation /\ o.step = s /\ o.op = Cur.op /\ o.page = Cur.page
      /\ o.id = Cur.id /\ o.file = Cur.file /\ o.old = Cur.old
    BY ONLY <1>1, s \in Steps DEF Operation
<1>3. queue' = <<o>> \o Tail(queue)
    BY DEF Step
<1> HIDE DEF o
<1>4. /\ <<o>> \in Seq(Operation) /\ Tail(queue) \in Seq(Operation)
      /\ Len(Tail(queue)) = Len(queue) - 1 /\ Len(<<o>>) = 1 /\ <<o>>[1] = o
      /\ Len(queue) \in Nat /\ Len(queue) >= 1
      /\ \A k \in 1 .. Len(queue) - 1 : Tail(queue)[k] = queue[k + 1]
    BY ONLY <1>1, <1>2, queue # <<>>
<1>5. queue' \in Seq(Operation) /\ Len(queue') = Len(queue)
    BY ONLY <1>3, <1>4
<1>6. queue'[1] = o /\ \A k \in 1 .. Len(queue) : k > 1 => queue'[k] = queue[k]
    BY ONLY <1>3, <1>4
<1>7. queue' # <<>> /\ Cur' = o
    BY ONLY <1>3, <1>4, <1>5, <1>6 DEF Cur
<1>8. o = [Cur EXCEPT !.step = s]
    BY DEF o
<1> QED
    BY ONLY <1>1, <1>2, <1>5, <1>6, <1>7, <1>8

\* a step of the operation under way leaves the others alone
LEMMA StepKeepsQueue ==
    ASSUME QueueOK, queue # <<>>, NEW s \in Steps, Step(s), OpOK(Cur)'
    PROVE  QueueOK'
<1>1. /\ queue' \in Seq(Operation) /\ Len(queue') = Len(queue) /\ Cur' = queue'[1]
      /\ \A k \in 1 .. Len(queue) : k > 1 => queue'[k] = queue[k]
    BY StepIs
<1>2. \A k \in 1 .. Len(queue') : OpOK(queue'[k]) /\ (k > 1 => Unstarted(queue'[k]))
  <2> SUFFICES ASSUME NEW k \in 1 .. Len(queue)
               PROVE  OpOK(queue'[k]) /\ (k > 1 => Unstarted(queue'[k]))
    BY <1>1
  <2>1. CASE k = 1
    <3>1. OpOK(queue'[1])
      BY <1>1 DEF OpOK
    <3> QED
      BY <2>1, <3>1
  <2>2. CASE k # 1
    <3>1. k > 1 /\ queue'[k] = queue[k]
      BY <2>2, <1>1
    <3> QED
      BY <3>1 DEF QueueOK
  <2> QED
    BY <2>1, <2>2
<1> QED
    BY <1>1, <1>2 DEF QueueOK

\* the first operation leaves
LEMMA TailIs ==
    ASSUME QueueOK, queue # <<>>, queue' = Tail(queue)
    PROVE  /\ QueueOK' /\ Len(queue') = Len(queue) - 1 /\ Len(queue) \in Nat
           /\ \A k \in 1 .. Len(queue') : queue'[k] = queue[k + 1]
           /\ \A k \in 1 .. Len(queue') : Unstarted(queue'[k])
           /\ queue' # <<>> => Cur' = queue'[1] /\ Len(queue') >= 1 /\ Unstarted(Cur)'
<1>1. queue \in Seq(Operation)
    BY DEF QueueOK
<1>2. /\ queue' \in Seq(Operation) /\ Len(queue') = Len(queue) - 1 /\ Len(queue) \in Nat
      /\ Len(queue) >= 1
      /\ \A k \in 1 .. Len(queue') : queue'[k] = queue[k + 1]
      /\ queue' # <<>> => Cur' = queue'[1] /\ Len(queue') >= 1
    BY <1>1 DEF Cur
<1>3. \A k \in 1 .. Len(queue') : OpOK(queue'[k]) /\ Unstarted(queue'[k])
  <2> SUFFICES ASSUME NEW k \in 1 .. Len(queue')
               PROVE  OpOK(queue'[k]) /\ Unstarted(queue'[k])
    OBVIOUS
  <2>1. k + 1 \in 1 .. Len(queue) /\ k + 1 > 1 /\ queue'[k] = queue[k + 1]
    BY <1>2
  <2> QED
    BY <2>1 DEF QueueOK
<1>4. QueueOK'
    BY <1>2, <1>3, FdsAssumption DEF QueueOK
<1>5. queue' # <<>> => Unstarted(Cur)'
  <2> SUFFICES ASSUME queue' # <<>>
               PROVE  Unstarted(Cur)'
    OBVIOUS
  <2>1. Cur' = queue'[1] /\ 1 \in 1 .. Len(queue')
    BY <1>2
  <2>2. Unstarted(queue'[1])
    BY <2>1, <1>3
  <2> QED
    BY <2>1, <2>2 DEF Unstarted
<1> QED
    BY <1>2, <1>3, <1>4, <1>5

\* a call puts its operation behind the others
LEMMA AppendIs ==
    ASSUME QueueOK, NEW o \in Operation, OpOK(o), Unstarted(o),
           Len(queue) < QueueSize, queue' = Append(queue, o)
    PROVE  /\ QueueOK' /\ Len(queue') = Len(queue) + 1 /\ Len(queue) \in Nat
           /\ queue' # <<>> /\ queue'[Len(queue')] = o
           /\ \A k \in 1 .. Len(queue) : queue'[k] = queue[k]
           /\ queue # <<>> => Cur' = Cur
           /\ queue = <<>> => Cur' = o
<1>1. queue \in Seq(Operation)
    BY DEF QueueOK
<1>2. /\ queue' \in Seq(Operation) /\ Len(queue') = Len(queue) + 1 /\ Len(queue) \in Nat
      /\ queue' # <<>> /\ queue'[Len(queue')] = o
      /\ \A k \in 1 .. Len(queue) : queue'[k] = queue[k]
      /\ queue # <<>> => Cur' = Cur
      /\ queue = <<>> => Cur' = o
    BY <1>1 DEF Cur
<1>3. QueueOK'
  <2>1. \A k \in 1 .. Len(queue') : OpOK(queue'[k]) /\ (k > 1 => Unstarted(queue'[k]))
    <3> SUFFICES ASSUME NEW k \in 1 .. Len(queue')
                 PROVE  OpOK(queue'[k]) /\ (k > 1 => Unstarted(queue'[k]))
      OBVIOUS
    <3>1. CASE k \in 1 .. Len(queue)
      BY <3>1, <1>2 DEF QueueOK
    <3>2. CASE k \notin 1 .. Len(queue)
      <4>1. k = Len(queue')
        BY <3>2, <1>2
      <4> QED
        BY <4>1, <1>2
    <3> QED
      BY <3>1, <3>2
  <2> QED
    BY <1>2, <2>1, FdsAssumption DEF QueueOK
<1> QED
    BY <1>2, <1>3

-------------------------------------------------------------------------------
(* What the storage knows, and the words that are claimed                    *)

\* what the storage knows of its pages is as it was
Places ==
    /\ swap' = swap
    /\ \A i \in Index : /\ pages'[i].phys = pages[i].phys
                        /\ pages'[i].offset = pages[i].offset
                        /\ pages[i].canGc => pages'[i].canGc
    /\ gc'.state = gc.state /\ gc'.cur = gc.cur /\ gc'.src = gc.src
    /\ timeouts' = 0 => timeouts = 0

\* What the storage knows stays true when neither the pages nor the flash changes:
\* of the flash as it is ...
LEMMA KnownFlash ==
    ASSUME Known(flash), GcType, Places, Writing' = Writing, flash' = flash, OpenOK(flash)',
           Erasing /\ gc.state = "erase" /\ flash[pages[gc.cur].phys] = ErasedPage => Erasing'
    PROVE  Known(flash)'
<1>1. gc.cur \in Index
    BY DEF GcType
<1>2. \A i \in Index : Kept(flash, i)'
    BY DEF Known, Kept, Places, Filled, St
<1>3. \A i \in Index : Whole(flash, i)'
    BY DEF Known, Whole, Places, St
<1>4. GcSwap(flash)'
    BY <1>1 DEF Known, GcSwap, Places, SwapTag, SwapSt, EmptyFrom, FullBelow, St
<1> QED
    BY <1>2, <1>3, <1>4 DEF Known

\* ... of the flash once the operation is over ...
LEMMA KnownDone ==
    ASSUME Known(Done), GcType, Places, Writing' = Writing, Done' = Done, OpenOK(Done)',
           Erasing /\ gc.state = "erase" /\ Done[pages[gc.cur].phys] = ErasedPage => Erasing'
    PROVE  Known(Done)'
<1>1. gc.cur \in Index
    BY DEF GcType
<1>2. \A i \in Index : Kept(Done, i)'
    BY DEF Known, Kept, Places, Filled, St
<1>3. \A i \in Index : Whole(Done, i)'
    BY DEF Known, Whole, Places, St
<1>4. GcSwap(Done)'
    BY <1>1 DEF Known, GcSwap, Places, SwapTag, SwapSt, EmptyFrom, FullBelow, St
<1> QED
    BY <1>2, <1>3, <1>4 DEF Known

\* ... and of the flash when the operation is over.
LEMMA KnownBecomes ==
    ASSUME Known(Done), GcType, Places, Writing' = Writing, flash' = Done, OpenOK(flash)',
           Erasing /\ gc.state = "erase" /\ Done[pages[gc.cur].phys] = ErasedPage => Erasing'
    PROVE  Known(flash)'
<1>1. gc.cur \in Index
    BY DEF GcType
<1>2. \A i \in Index : Kept(flash, i)'
    BY DEF Known, Kept, Places, Filled, St
<1>3. \A i \in Index : Whole(flash, i)'
    BY DEF Known, Whole, Places, St
<1>4. GcSwap(flash)'
    BY <1>1 DEF Known, GcSwap, Places, SwapTag, SwapSt, EmptyFrom, FullBelow, St
<1> QED
    BY <1>2, <1>3, <1>4 DEF Known

\* once nothing is under way
LEMMA KnownAfter ==
    ASSUME Known(flash)', Done' = flash'
    PROVE  Known(Done)'
    BY DEF Known, Kept, Filled, St, Whole, GcSwap, SwapTag, SwapSt, EmptyFrom, FullBelow, OpenOK

\* claims are counted
LEMMA ClaimsType ==
    ASSUME QueueOK
    PROVE  \A i \in Index : IsFiniteSet(Claimed(i)) /\ Cardinality(Claimed(i)) \in Nat
                            /\ Claims(i) \in Nat
<1> SUFFICES ASSUME NEW i \in Index
             PROVE  IsFiniteSet(Claimed(i)) /\ Cardinality(Claimed(i)) \in Nat /\ Claims(i) \in Nat
    OBVIOUS
<1>1. Len(queue) \in Nat
    BY DEF QueueOK
<1>2. IsFiniteSet(1 .. Len(queue)) /\ Claimed(i) \subseteq 1 .. Len(queue)
    BY <1>1, FS_Interval DEF Claimed
<1>3. IsFiniteSet(Claimed(i))
    BY <1>2, FS_Subset
<1>4. Cardinality(Claimed(i)) \in Nat
    BY <1>3, FS_CardinalityType
<1> QED
    BY <1>3, <1>4 DEF Claims

\* Claims stay when no operation comes or ends ...
LEMMA ClaimsStay ==
    ASSUME QueueOK, Len(queue') = Len(queue), reserved' = reserved,
           \A k \in 1 .. Len(queue) : queue'[k].page = queue[k].page,
           loop'.at = "event" <=> loop.at = "event"
    PROVE  \A i \in Index : Claims(i)' = Claims(i)
<1> SUFFICES ASSUME NEW i \in Index
             PROVE  Claims(i)' = Claims(i)
    OBVIOUS
<1>1. Claimed(i)' = Claimed(i)
    BY DEF Claimed
<1> QED
    BY <1>1 DEF Claims

\* ... and when an operation that has ended leaves the queue;
LEMMA ClaimsTail ==
    ASSUME QueueOK, queue # <<>>, queue' = Tail(queue), loop.at = "event", loop'.at # "event",
           reserved' = reserved
    PROVE  \A i \in Index : Claims(i)' = Claims(i)
<1> SUFFICES ASSUME NEW i \in Index
             PROVE  Claims(i)' = Claims(i)
    OBVIOUS
<1> DEFINE S == Claimed(i)
           T == Claimed(i)'
           f == [k \in T |-> k + 1]
<1>1. /\ Len(queue') = Len(queue) - 1 /\ Len(queue) \in Nat
      /\ \A k \in 1 .. Len(queue') : queue'[k] = queue[k + 1]
    BY TailIs
<1>2. S = {k \in 1 .. Len(queue) : queue[k].page = i /\ k # 1}
    BY DEF Claimed
<1>3. T = {k \in 1 .. Len(queue') : queue'[k].page = i}
    BY DEF Claimed
<1> HIDE DEF S, T
<1>4. f \in Bijection(T, S)
  <2>1. \A k \in T : k + 1 \in S /\ k \in Nat
    BY <1>1, <1>2, <1>3
  <2>2. \A k \in S : k - 1 \in T /\ (k - 1) + 1 = k
    BY <1>1, <1>2, <1>3
  <2>3. f \in [T -> S]
    BY <2>1
  <2>4. \A a, b \in T : f[a] = f[b] => a = b
    BY <2>1
  <2>5. \A k \in S : \E a \in T : f[a] = k
    BY <2>2
  <2> QED
    BY <2>3, <2>4, <2>5 DEF Bijection, Injection, Surjection, IsInjective
<1>5. IsFiniteSet(S)
    BY ClaimsType DEF S
<1>6. Cardinality(T) = Cardinality(S)
  <2>1. ExistsBijection(T, S)
    BY <1>4 DEF ExistsBijection
  <2>2. ExistsBijection(S, T)
    BY <2>1, Fun_ExistsBijSymmetric
  <2> QED
    BY <1>5, <2>2, FS_Bijection
<1> QED
    BY <1>6 DEF Claims, S, T

\* a call adds its own, and a reservation that it uses passes to it.
LEMMA ClaimsAppend ==
    ASSUME QueueOK, NEW o \in Operation, OpOK(o), Unstarted(o), Len(queue) < QueueSize,
           queue' = Append(queue, o), queue # <<>> => loop' = loop, queue = <<>> => loop'.at = "run",
           NEW i \in Index, NEW r \in {0, 1}, r = (IF reserved = i THEN 1 ELSE 0),
           NEW r2 \in {0, 1}, r2 = (IF reserved' = i THEN 1 ELSE 0)
    PROVE  Claims(i)' = Claims(i) - r + r2 + (IF o.page = i THEN 1 ELSE 0)
<1> DEFINE S == Claimed(i)
           T == Claimed(i)'
           n == Len(queue) + 1
<1>1. /\ Len(queue') = n /\ Len(queue) \in Nat /\ queue'[n] = o
      /\ \A k \in 1 .. Len(queue) : queue'[k] = queue[k]
    BY AppendIs
<1>2. S = {k \in 1 .. Len(queue) : queue[k].page = i /\ ~(k = 1 /\ loop.at = "event")}
    BY DEF Claimed
<1>3. T = {k \in 1 .. Len(queue') : queue'[k].page = i /\ ~(k = 1 /\ loop'.at = "event")}
    BY DEF Claimed
<1>4. IsFiniteSet(S) /\ Cardinality(S) \in Nat
    BY ClaimsType DEF S
<1>5. Len(queue) = 0 <=> queue = <<>>
    BY DEF QueueOK
<1> HIDE DEF S, T
<1>6. T = S \cup (IF o.page = i THEN {n} ELSE {})
  <2>1. CASE queue = <<>>
    BY <2>1, <1>1, <1>2, <1>3, <1>5
  <2>2. CASE queue # <<>>
    BY <2>2, <1>1, <1>2, <1>3, <1>5
  <2> QED
    BY <2>1, <2>2
<1>7. n \notin S
    BY <1>1, <1>2
<1>8. Cardinality(T) = Cardinality(S) + (IF o.page = i THEN 1 ELSE 0)
  <2>1. CASE o.page = i
    <3>1. Cardinality(S \cup {n}) = Cardinality(S) + 1
      BY <1>4, <1>7, FS_AddElement
    <3> QED
      BY <2>1, <3>1, <1>6
  <2>2. CASE o.page # i
    BY <2>2, <1>4, <1>6
  <2> QED
    BY <2>1, <2>2
<1> QED
    BY <1>4, <1>8 DEF Claims, S, T

-------------------------------------------------------------------------------
(* The flash, the power, and the first start                                 *)

\* The flash answers: what would be done is.
LEMMA FlashDoneInv ==
    ASSUME IInv, FlashDone
    PROVE  IInv'
<1>1. /\ busy # NoBusy /\ flash' = Done /\ busy' = NoBusy /\ loop' = Again("success", FALSE)
      /\ UNCHANGED <<status, pages, swap, gc, latest, queue, desc, tok, reserved, opened, damage,
                     timeouts>>
    BY DEF FlashDone, Done, ram, static, users, ghosts, counts
<1>2. loop'.at = "run" /\ loop'.ret = "success"
    BY <1>1 DEF Again
<1>3. Done' = flash'
    BY <1>1, DoneIsFlash1
<1>4. queue # <<>> /\ loop.at = "idle" /\ Cur' = Cur
    BY <1>1 DEF IInv, Control, LoopOK, Cur
<1>5. Control'
  <2>1. QueueOK' /\ GcType' /\ timeouts' \in Nat /\ latest' \in Nat
    BY <1>1 DEF IInv, Control, QueueOK, GcType
  <2>2. LoopOK'
    BY <1>1, <1>2, <1>4 DEF LoopOK
  <2>3. StatusOK'
    BY <1>1, <1>2, <1>4 DEF IInv, Control, StatusOK, Head1, Cur
  <2> QED
    BY <2>1, <2>2, <2>3 DEF Control
<1>6. BusyOK'
    BY <1>1 DEF BusyOK
<1>7. FlashOK(flash)' /\ FlashOK(Done)'
  <2>1. FlashOK(flash)'
    BY <1>1 DEF IInv, FlashOK
  <2> QED
    BY <2>1, <1>3 DEF FlashOK
<1>8. status' # "off" => PagesOK'
    BY <1>1 DEF IInv, PagesOK
<1>9. status' # "off"
    BY <1>1, <1>4 DEF IInv, Control, StatusOK
<1>10. Going /\ Writing' = Writing /\ (Erasing => Erasing')
    BY <1>1, <1>2, <1>4 DEF Going, Writing, Head1, Erasing
<1>11. ASSUME status' = "starting"
       PROVE  IsStarting'
  <2>1. IsStarting /\ InitOK(Done)
    BY <1>1, <1>10, <1>11 DEF IInv, IsStarting
  <2>2. InitOK(Done)'
    BY <2>1, <1>1, <1>3, <1>4, <1>10
       DEF InitOK, Filled, St, Whole, SwapTag, SwapSt, FullBelow, EmptyFrom
  <2> QED
    BY <2>1, <2>2, <1>1 DEF IsStarting
<1>12. ASSUME status' = "ready"
       PROVE  IsReady'
  <2>1. IsReady /\ GcType /\ QueueOK
    BY <1>1, <1>12 DEF IInv, Control
  <2>2. GcWaits'
    BY <2>1, <1>1, <1>2, <1>4 DEF IsReady, GcWaits, Head1, Going
  <2>3. SpaceOK'
    <3>1. \A i \in Index : Claims(i)' = Claims(i)
      BY <2>1, <1>1, <1>2, <1>4, ClaimsStay
    <3> QED
      BY <2>1, <3>1, <1>1 DEF IsReady, SpaceOK
  <2>4. Opens'
    BY <2>1, <1>1 DEF IsReady, Opens
  <2>5. Known(flash)' /\ Known(Done)'
    <3>1. OpenOK(flash)'
      BY <2>1, <1>1 DEF IsReady, Known, OpenOK
    <3>2. Places
      BY <1>1 DEF Places
    <3>3. Known(flash)'
      BY <2>1, <3>1, <3>2, <1>1, <1>10, KnownBecomes DEF IsReady
    <3> QED
      BY <3>3, <1>3, KnownAfter
  <2>6. WriteResult(Done)'
    BY <2>1, <1>1, <1>3, <1>4, <1>10 DEF IsReady, WriteResult, St
  <2>7. (Going /\ Head1({"gc"}) /\ ~gc.resume)' => GcResult(Done)'
    BY <2>1, <1>1, <1>3, <1>4, <1>10 DEF IsReady, GcResult, Head1, SwapSt, SwapTag
  <2> QED
    BY <2>2, <2>3, <2>4, <2>5, <2>6, <2>7, <1>2 DEF IsReady, Going
<1> QED
    BY <1>5, <1>6, <1>7, <1>8, <1>9, <1>11, <1>12 DEF IInv

\* The flash does not answer: what would be done is not.
LEMMA FlashTimeoutInv ==
    ASSUME IInv, FlashTimeout, Sound'
    PROVE  IInv'
<1>1. /\ busy # NoBusy /\ busy' = NoBusy /\ loop' = Again("timeout", TRUE)
      /\ timeouts' = timeouts + 1
      /\ UNCHANGED <<flash, status, pages, swap, gc, latest, queue, desc, tok, reserved, opened>>
    BY DEF FlashTimeout, ram, static, users
<1>2. damage' = damage /\ ~(gc.state = "erase" /\ IsErased(pages[gc.cur].phys))
    BY DEF FlashTimeout, Met, Sound
<1>3. loop'.at = "run" /\ loop'.ret = "timeout"
    BY <1>1 DEF Again
<1>4. Done' = flash'
    BY <1>1, DoneIsFlash1
<1>5. queue # <<>> /\ loop.at = "idle" /\ Cur' = Cur
    BY <1>1 DEF IInv, Control, LoopOK, Cur
<1>6. timeouts' \in Nat /\ timeouts' # 0
    BY <1>1 DEF IInv, Control
<1>7. Control'
  <2>1. QueueOK' /\ GcType' /\ latest' \in Nat
    BY <1>1 DEF IInv, Control, QueueOK, GcType
  <2>2. LoopOK'
    BY <1>1, <1>3, <1>5 DEF LoopOK
  <2>3. StatusOK'
    BY <1>1, <1>3, <1>5 DEF IInv, Control, StatusOK, Head1, Cur
  <2> QED
    BY <2>1, <2>2, <2>3, <1>6 DEF Control
<1>8. BusyOK'
    BY <1>1 DEF BusyOK
<1>9. FlashOK(flash)' /\ FlashOK(Done)'
  <2>1. Consistent(flash)'
    BY <1>1 DEF IInv, FlashOK
  <2> QED
    BY <2>1, <1>4, <1>6 DEF FlashOK
<1>10. status' # "off" => PagesOK'
    BY <1>1 DEF IInv, PagesOK
<1>11. status' # "off" /\ ~Going'
    BY <1>1, <1>3, <1>5 DEF IInv, Control, StatusOK, Going
<1>12. status' = "starting" => IsStarting'
    BY <1>1, <1>11 DEF IInv, IsStarting
<1>13. ASSUME status' = "ready"
       PROVE  IsReady'
  <2>1. IsReady /\ GcType /\ QueueOK
    BY <1>1, <1>13 DEF IInv, Control
  <2>2. GcWaits'
    BY <1>3, <1>6 DEF GcWaits
  <2>3. SpaceOK'
    <3>1. \A i \in Index : Claims(i)' = Claims(i)
      BY <2>1, <1>1, <1>3, <1>5, ClaimsStay
    <3> QED
      BY <2>1, <3>1, <1>1, <1>2 DEF IsReady, SpaceOK
  <2>4. Opens'
    BY <2>1, <1>1 DEF IsReady, Opens
  <2>5. Known(flash)' /\ Known(Done)'
    <3>1. OpenOK(flash)'
      BY <2>1, <1>1 DEF IsReady, Known, OpenOK
    <3>2. Places
      BY <1>1, <1>6 DEF Places
    <3>3. Writing' = Writing
      BY <1>1, <1>3, <1>5 DEF Writing, Head1
    <3>4. Known(flash)'
      BY <2>1, <3>1, <3>2, <3>3, <1>1, <1>2, KnownFlash DEF IsReady, IsErased
    <3> QED
      BY <3>4, <1>4, KnownAfter
  <2> QED
    BY <2>2, <2>3, <2>4, <2>5, <1>6, <1>11 DEF IsReady
<1> QED
    BY <1>7, <1>8, <1>9, <1>10, <1>11, <1>12, <1>13 DEF IInv

\* queue_process takes the operation that has ended from the queue.
LEMMA FreeInv ==
    ASSUME IInv, Free
    PROVE  IInv'
<1>1. /\ loop.at = "event" /\ queue' = Tail(queue)
      /\ loop' = IF Tail(queue) = <<>> THEN Idle ELSE Again(loop.ret, FALSE)
      /\ UNCHANGED <<flash, status, pages, swap, gc, latest, busy, desc, tok, reserved, opened,
                     damage, timeouts>>
    BY DEF Free, ram, static, users, ghosts, counts
<1>2. queue # <<>> /\ busy = NoBusy /\ QueueOK /\ LoopOK
    BY <1>1 DEF IInv, Control, LoopOK
<1>3. IF queue' = <<>> THEN loop'.at = "idle" /\ loop'.ret = "success"
      ELSE loop'.at = "run" /\ loop'.ret = loop.ret
    BY <1>1 DEF Idle, Again
<1>4. Done' = flash' /\ Done = flash
    BY <1>1, <1>2, DoneIsFlash1, DoneIsFlash
<1>5. /\ QueueOK' /\ Len(queue') = Len(queue) - 1 /\ Len(queue) \in Nat
      /\ \A k \in 1 .. Len(queue') : queue'[k] = queue[k + 1]
      /\ queue' # <<>> => Cur' = queue'[1] /\ Len(queue') >= 1 /\ Unstarted(Cur)'
    BY <1>1, <1>2, TailIs
<1>6. Writing = 0 /\ Writing' = 0
    BY <1>1, <1>5 DEF Writing, Head1, Unstarted
<1>7. ~Going /\ ~Erasing
    BY <1>1, <1>2 DEF Going, Erasing, NoBusy, Erase
<1>8. Control'
  <2>1. GcType' /\ timeouts' \in Nat /\ latest' \in Nat
    BY <1>1 DEF IInv, Control, GcType
  <2>2. LoopOK'
    BY <1>1, <1>2, <1>3 DEF LoopOK
  <2>3. StatusOK'
    <3>1. ~Head1({"init"})'
      BY <1>5 DEF Head1, Unstarted
    <3>2. status # "starting" /\ status # "off"
      BY <1>1, <1>2 DEF IInv, Control, StatusOK
    <3>3. status = "failed" => queue' = <<>>
      BY <1>2, <1>5 DEF IInv, Control, StatusOK
    <3> QED
      BY <3>1, <3>2, <3>3, <1>1 DEF IInv, Control, StatusOK
  <2> QED
    BY <2>1, <2>2, <2>3, <1>5 DEF Control
<1>9. BusyOK'
    BY <1>1, <1>2 DEF BusyOK
<1>10. FlashOK(flash)' /\ FlashOK(Done)'
  <2>1. FlashOK(flash)'
    BY <1>1 DEF IInv, FlashOK
  <2> QED
    BY <2>1, <1>4 DEF FlashOK
<1>11. status' # "off" => PagesOK'
    BY <1>1 DEF IInv, PagesOK
<1>12. status' # "starting" /\ status' # "off"
    BY <1>1, <1>2 DEF IInv, Control, StatusOK
<1>13. ASSUME status' = "ready"
       PROVE  IsReady'
  <2>1. IsReady /\ GcType
    BY <1>1, <1>13 DEF IInv, Control
  <2>2. ASSUME gc.state # "begin", ~gc.resume, NEW k \in 1 .. Len(queue'), queue'[k].op = "gc"
        PROVE  loop'.at # "idle" /\ loop'.ret # "success"
    <3>1. k + 1 \in 1 .. Len(queue) /\ queue[k + 1].op = "gc"
      BY <1>5, <2>2
    <3>2. loop.ret # "success"
      BY <2>1, <2>2, <3>1, <1>1 DEF IsReady, GcWaits
    <3>3. queue' # <<>>
      BY <2>2
    <3> QED
      BY <3>2, <3>3, <1>3
  <2>3. GcWaits'
    BY <2>1, <2>2, <1>1, <1>7 DEF IsReady, GcWaits
  <2>4. SpaceOK'
    <3>1. \A i \in Index : Claims(i)' = Claims(i)
      BY <1>1, <1>2, <1>3, ClaimsTail
    <3> QED
      BY <2>1, <3>1, <1>1 DEF IsReady, SpaceOK
  <2>5. Opens'
    BY <2>1, <1>1 DEF IsReady, Opens
  <2>6. Known(flash)' /\ Known(Done)'
    <3>1. OpenOK(flash)'
      BY <2>1, <1>1 DEF IsReady, Known, OpenOK
    <3>2. Places
      BY <1>1 DEF Places
    <3>4. Known(flash)'
      BY <2>1, <3>1, <3>2, <1>1, <1>6, <1>7, KnownFlash DEF IsReady
    <3> QED
      BY <3>4, <1>4, KnownAfter
  <2>7. WriteResult(Done)'
    BY <1>6 DEF WriteResult
  <2>8. (Going /\ Head1({"gc"}) /\ ~gc.resume)' => gc'.state = "begin"
    <3> SUFFICES ASSUME Going', Head1({"gc"})', ~gc'.resume, gc'.state # "begin"
                 PROVE  FALSE
      OBVIOUS
    <3>1. queue' # <<>> /\ 1 \in 1 .. Len(queue') /\ queue'[1].op = "gc"
      BY <1>5 DEF Head1
    <3>2. loop'.at # "idle" /\ loop'.ret # "success"
      BY <3>1, <2>2, <1>1
    <3> QED
      BY <3>2, <1>1, <1>2 DEF Going
  <2>9. (Going /\ Head1({"gc"}) /\ ~gc.resume)' => GcResult(Done)'
    BY <2>8 DEF GcResult
  <2> QED
    BY <2>3, <2>4, <2>5, <2>6, <2>7, <2>9, <1>6 DEF IsReady
<1> QED
    BY <1>8, <1>9, <1>10, <1>11, <1>12, <1>13 DEF IInv

\* what the storage is when it is switched off
LEMMA OffInv ==
    ASSUME FlashOK(flash)', timeouts' \in Nat, latest' \in Nat, status' = "off",
           pages' = [i \in Index |-> NoPage], swap' = [phys |-> 0, offset |-> 1], gc' = NoGc,
           queue' = <<>>, loop' = Idle, busy' = NoBusy, reserved' = 0, opened' = NotOpen
    PROVE  IInv'
<1>1. GcType'
    BY FdsAssumption DEF GcType, NoGc, Index
<1>2. QueueOK'
    BY FdsAssumption DEF QueueOK
<1>3. LoopOK' /\ StatusOK'
    BY DEF LoopOK, StatusOK, Idle
<1>4. Done' = flash'
    BY DoneIsFlash1
<1>5. FlashOK(Done)'
    BY <1>4 DEF FlashOK
<1>6. BusyOK' /\ IsOff'
    BY DEF BusyOK, IsOff
<1> QED
    BY <1>1, <1>2, <1>3, <1>5, <1>6 DEF IInv, Control

\* Switched off at any time, the flash is what the next start can take over.
LEMMA ResetInv ==
    ASSUME IInv, Reset
    PROVE  IInv'
<1>1. FlashOK(flash)' /\ timeouts' \in Nat
  <2>1. flash' = flash \/ flash' = Done
    BY DEF Reset, Done
  <2>2. timeouts' = timeouts /\ timeouts \in Nat
    BY DEF Reset, IInv, Control
  <2> QED
    BY <2>1, <2>2 DEF IInv, FlashOK
<1> QED
    BY <1>1, OffInv DEF Reset

\* The invariant holds when the device is first switched on.
LEMMA InitInv ==
    ASSUME Init
    PROVE  IInv
<1>1. FlashOK(flash)
    BY FirstFlashAssumption DEF Init, FlashOK
<1>2. GcType /\ latest \in Nat
    BY FdsAssumption DEF Init, GcType, NoGc, Index
<1>3. QueueOK
    BY FdsAssumption DEF Init, QueueOK
<1>4. LoopOK /\ StatusOK
    BY DEF Init, LoopOK, StatusOK, Idle
<1>5. Done = flash
    BY DoneIsFlash DEF Init
<1>6. FlashOK(Done)
    BY <1>1, <1>5 DEF FlashOK
<1>7. BusyOK /\ IsOff
    BY DEF Init, BusyOK, IsOff
<1> QED
    BY <1>1, <1>2, <1>3, <1>4, <1>6, <1>7 DEF IInv, Control, Init

-------------------------------------------------------------------------------
(* The calls                                                                 *)

\* what a call leaves alone
Quiet ==
    /\ status = "ready" /\ loop.at # "run"
    /\ UNCHANGED <<flash, status, swap, busy, desc, timeouts>>
    /\ \A i \in Index : /\ pages'[i].phys = pages[i].phys
                        /\ pages'[i].offset = pages[i].offset
                        /\ pages'[i].canGc = pages[i].canGc

\* the page of a write is one of the pages
LEMMA WritingIs ==
    ASSUME QueueOK
    PROVE  Writing \in Index \cup {0}
<1>1. queue # <<>> => Cur \in Operation
    BY DEF QueueOK, Cur
<1>2. Head1({"write", "update"}) => Cur.page \in Index \cup {0}
    BY <1>1 DEF Head1, Operation
<1> QED
    BY <1>2 DEF Writing

\* the pages are as they were, so is what has been written on them
LEMMA WrittenStays ==
    ASSUME WriteResult(Done), QueueOK, Quiet, Writing' = Writing, Cur' = Cur, Done' = Done
    PROVE  WriteResult(Done)'
<1> SUFFICES ASSUME Writing # 0
             PROVE  WriteResult(Done)'
    BY DEF WriteResult
<1>1. Writing \in Index
    BY WritingIs
<1>2. /\ pages'[Writing'].phys = pages[Writing].phys
      /\ pages'[Writing'].offset = pages[Writing].offset
    BY <1>1 DEF Quiet
<1>3. desc' = desc
    BY DEF Quiet
<1>4. desc \in [page : Index, slot : Slots] =>
         /\ pages'[desc.page].phys = pages[desc.page].phys
         /\ pages'[desc.page].offset = pages[desc.page].offset
    BY DEF Quiet
<1>5. St(Done, Writing, pages[Writing].offset)' = St(Done, Writing, pages[Writing].offset)
    BY <1>2 DEF St
<1>6. desc \in [page : Index, slot : Slots] =>
         St(Done, desc.page, desc.slot)' = St(Done, desc.page, desc.slot)
    BY <1>3, <1>4 DEF St
<1> QED
    BY <1>3, <1>4, <1>5, <1>6 DEF WriteResult

\* A call that queues an operation: with the words it takes accounted for, the
\* rest of the invariant stays.
LEMMA QueuedInv ==
    ASSUME IInv, Quiet, NEW o \in Operation, OpOK(o), Unstarted(o), Call(o), opened' = opened,
           \/ gc' = gc /\ o.op # "gc"
           \/ gc' = [gc EXCEPT !.resume = @ \/ gc.state # "begin"],
           latest' \in Nat, PagesOK', SpaceOK', Opens'
    PROVE  IInv'
<1>1. /\ status = "ready" /\ loop.at # "run"
      /\ UNCHANGED <<flash, status, swap, busy, desc, timeouts>>
    BY DEF Quiet
<1>2. /\ Len(queue) < QueueSize /\ queue' = Append(queue, o)
      /\ loop' = IF queue = <<>> THEN Again("success", FALSE) ELSE loop
    BY DEF Call
<1>3. IsReady /\ GcType /\ QueueOK /\ LoopOK /\ StatusOK /\ timeouts \in Nat
    BY <1>1 DEF IInv, Control
<1>4. /\ QueueOK' /\ Len(queue') = Len(queue) + 1 /\ Len(queue) \in Nat
      /\ queue' # <<>> /\ queue'[Len(queue')] = o
      /\ \A k \in 1 .. Len(queue) : queue'[k] = queue[k]
      /\ queue # <<>> => Cur' = Cur
      /\ queue = <<>> => Cur' = o
    BY <1>2, <1>3, AppendIs
<1>5. queue = <<>> => loop'.at = "run" /\ loop'.ret = "success" /\ busy = NoBusy
    BY <1>2, <1>3 DEF Again, LoopOK
<1>6. queue # <<>> => loop' = loop
    BY <1>2
<1>7. /\ gc'.state = gc.state /\ gc'.cur = gc.cur /\ gc'.src = gc.src
      /\ GcType' /\ (gc.resume => gc'.resume)
      /\ o.op = "gc" /\ ~gc'.resume => gc.state = "begin"
    BY <1>3 DEF GcType
<1>8. Control'
  <2>1. LoopOK'
    BY <1>1, <1>3, <1>4, <1>5, <1>6 DEF LoopOK
  <2>2. StatusOK'
    BY <1>1, <1>3, <1>4, <1>5, <1>6 DEF StatusOK, Head1, Unstarted
  <2> QED
    BY <2>1, <2>2, <1>1, <1>3, <1>4, <1>7 DEF Control
<1>9. Done' = Done
    BY <1>1 DEF Done
<1>10. BusyOK'
    BY <1>1 DEF IInv, BusyOK
<1>11. FlashOK(flash)' /\ FlashOK(Done)'
    BY <1>1, <1>9 DEF IInv, FlashOK
<1>12. Writing' = Writing /\ (Erasing => Erasing')
  <2>1. CASE queue = <<>>
    BY <2>1, <1>4 DEF Writing, Head1, Erasing, Unstarted
  <2>2. CASE queue # <<>>
    <3>1. Writing' = Writing
      BY <2>2, <1>4, <1>6 DEF Writing, Head1
    <3>2. pages'[gc'.cur].phys = pages[gc.cur].phys
      BY <1>3, <1>7 DEF Quiet, GcType
    <3>3. Erasing => Erasing'
      BY <3>2, <2>2, <1>1, <1>4, <1>6 DEF Erasing, Head1
    <3> QED
      BY <3>1, <3>3
  <2> QED
    BY <2>1, <2>2
<1>13. Going' => Going \/ queue = <<>>
    BY <1>1, <1>6 DEF Going
<1>14. GcWaits'
  <2>1. ASSUME gc.state # "begin", ~gc'.resume, NEW k \in 1 .. Len(queue'), queue'[k].op = "gc"
        PROVE  queue # <<>> /\ k \in 1 .. Len(queue) /\ queue[k].op = "gc"
    <3>1. o.op # "gc"
      BY <2>1, <1>7
    <3>2. k \in 1 .. Len(queue)
      BY <2>1, <3>1, <1>4
    <3> QED
      BY <2>1, <3>2, <1>4
  <2>2. ASSUME gc.state # "begin", ~gc'.resume, \E k \in 1 .. Len(queue') : queue'[k].op = "gc"
        PROVE  (Cur'.op = "gc" /\ loop'.at # "event") \/ (loop'.at # "idle" /\ loop'.ret # "success")
    BY <2>1, <2>2, <1>3, <1>4, <1>6, <1>7 DEF IsReady, GcWaits
  <2>3. ASSUME gc.state # "begin", timeouts = 0
        PROVE  Head1({"gc"})' /\ Going'
    <3>1. Head1({"gc"}) /\ Going
      BY <2>3, <1>3 DEF IsReady, GcWaits
    <3> QED
      BY <3>1, <1>1, <1>4, <1>6 DEF Head1, Going
  <2> QED
    BY <2>2, <2>3, <1>1, <1>7 DEF GcWaits
<1>15. Known(flash)' /\ Known(Done)'
  <2>1. OpenOK(flash)' /\ OpenOK(Done)'
    BY <1>1, <1>3, <1>9 DEF IsReady, Known, OpenOK
  <2>2. Places
    BY <1>1, <1>7 DEF Places, Quiet
  <2> QED
    BY <2>1, <2>2, <1>1, <1>3, <1>9, <1>12, KnownFlash, KnownDone DEF IsReady
<1>16. Going' => WriteResult(Done)'
  <2>1. CASE queue = <<>>
    BY <2>1, <1>12 DEF WriteResult, Writing, Head1
  <2>2. CASE queue # <<>>
    <3>1. Going' => WriteResult(Done)
      BY <2>2, <1>3, <1>13 DEF IsReady
    <3> QED
      BY <3>1, <2>2, <1>3, <1>4, <1>9, <1>12, WrittenStays
  <2> QED
    BY <2>1, <2>2
<1>17. (Going /\ Head1({"gc"}) /\ ~gc.resume)' => GcResult(Done)'
  <2>1. CASE queue = <<>>
    BY <2>1, <1>4, <1>7 DEF GcResult, Head1
  <2>2. CASE queue # <<>>
    <3>1. (Going /\ Head1({"gc"}) /\ ~gc.resume)' => GcResult(Done)
      BY <2>2, <1>3, <1>4, <1>7, <1>13 DEF IsReady, Head1
    <3>2. pages'[gc'.cur].phys = pages[gc.cur].phys
      BY <1>3, <1>7 DEF Quiet, GcType
    <3> QED
      BY <3>1, <3>2, <1>1, <1>7, <1>9 DEF GcResult, SwapSt, SwapTag
  <2> QED
    BY <2>1, <2>2
<1>19. (Writing # 0 /\ timeouts = 0)' => Going'
  <2>1. CASE queue = <<>>
    BY <2>1, <1>12 DEF Writing, Head1
  <2>2. CASE queue # <<>>
    BY <2>2, <1>1, <1>3, <1>6, <1>12 DEF IsReady, Going
  <2> QED
    BY <2>1, <2>2
<1>18. IsReady'
    BY <1>19, <1>14, <1>15, <1>16, <1>17 DEF IsReady
<1> QED
    BY <1>1, <1>8, <1>10, <1>11, <1>18 DEF IInv

\* a call that queues none
LEMMA LookInv ==
    ASSUME IInv, Quiet, UNCHANGED <<queue, loop, gc, latest>>, PagesOK', SpaceOK', Opens',
           OpenOK(flash)', OpenOK(Done)'
    PROVE  IInv'
<1>1. /\ status = "ready" /\ loop.at # "run"
      /\ UNCHANGED <<flash, status, swap, busy, desc, timeouts, queue, loop, gc, latest>>
    BY DEF Quiet
<1>3. IsReady /\ GcType
    BY <1>1 DEF IInv, Control
<1>4. Control'
    BY <1>1 DEF IInv, Control, QueueOK, LoopOK, StatusOK, GcType, Head1, Cur
<1>9. Done' = Done /\ Cur' = Cur
    BY <1>1 DEF Done, Cur
<1>10. BusyOK'
    BY <1>1 DEF IInv, BusyOK
<1>11. FlashOK(flash)' /\ FlashOK(Done)'
    BY <1>1, <1>9 DEF IInv, FlashOK
<1>12. pages'[gc'.cur].phys = pages[gc.cur].phys
    BY <1>1, <1>3 DEF Quiet, GcType
<1>13. Writing' = Writing /\ Going' = Going /\ Head1({"gc"})' = Head1({"gc"}) /\ Erasing' = Erasing
    BY <1>1, <1>9, <1>12 DEF Writing, Going, Head1, Erasing
<1>14. GcWaits'
    BY <1>1, <1>3, <1>9, <1>13 DEF IsReady, GcWaits
<1>15. Known(flash)' /\ Known(Done)'
  <2>1. Places
    BY <1>1 DEF Places, Quiet
  <2> QED
    BY <2>1, <1>1, <1>3, <1>9, <1>13, KnownFlash, KnownDone DEF IsReady
<1>16. Going' => WriteResult(Done)'
  <2>1. QueueOK
    BY DEF IInv, Control
  <2>2. Going' => WriteResult(Done)
    BY <1>3, <1>13 DEF IsReady
  <2> QED
    BY <2>1, <2>2, <1>9, <1>13, WrittenStays
<1>17. (Going /\ Head1({"gc"}) /\ ~gc.resume)' => GcResult(Done)'
  <2>1. (Going /\ Head1({"gc"}) /\ ~gc.resume)' => GcResult(Done)
    BY <1>1, <1>3, <1>13 DEF IsReady
  <2> QED
    BY <2>1, <1>1, <1>9, <1>12 DEF GcResult, SwapSt, SwapTag
<1>18. IsReady'
    BY <1>1, <1>3, <1>13, <1>14, <1>15, <1>16, <1>17 DEF IsReady
<1> QED
    BY <1>1, <1>4, <1>10, <1>11, <1>18 DEF IInv

\* what a page and the swap page are made of
LEMMA PagesTyped ==
    ASSUME PagesOK, NEW i \in Index
    PROVE  /\ pages[i] \in [type : {"erased", "data"}, phys : Phys, offset : Offsets,
                            reserved : 0 .. PageSlots, canGc : BOOLEAN, open : 0 .. 1]
           /\ pages[i].phys \in Phys /\ pages[i].offset \in Nat /\ pages[i].offset >= 1
           /\ pages[i].offset <= PageSlots + 1 /\ pages[i].reserved \in Nat
           /\ swap.phys \in Phys /\ swap.offset \in Nat /\ swap.offset >= 1
           /\ swap.offset <= PageSlots + 1 /\ PageSlots \in Nat
<1>1. pages[i] \in [type : {"erased", "data"}, phys : Phys, offset : Offsets,
                            reserved : 0 .. PageSlots, canGc : BOOLEAN, open : 0 .. 1]
    BY DEF PagesOK
<1>2. swap \in [phys : Phys, offset : Offsets]
    BY DEF PagesOK
<1> QED
    BY <1>1, <1>2, FdsAssumption DEF Offsets

\* the pages and the swap page are the same physical pages
LEMMA SamePages ==
    ASSUME PagesOK, status' = status,
           pages' \in [Index -> [type : {"erased", "data"}, phys : Phys, offset : Offsets,
                                 reserved : 0 .. PageSlots, canGc : BOOLEAN, open : 0 .. 1]],
           swap' \in [phys : Phys, offset : Offsets], swap'.phys = swap.phys,
           \A i \in Index : pages'[i].phys = pages[i].phys /\ pages'[i].type = pages[i].type
    PROVE  PagesOK'
<1>1. \A i, j \in Index : pages'[i].phys = pages'[j].phys => i = j
    BY DEF PagesOK
<1>2. \A i \in Index : pages'[i].phys # swap'.phys
    BY DEF PagesOK
<1>3. \A p \in Phys : p = swap'.phys \/ \E i \in Index : p = pages'[i].phys
    BY DEF PagesOK
<1>4. status' = "ready" => \A i \in Index : pages'[i].type = "data"
    BY DEF PagesOK
<1> QED
    BY <1>1, <1>2, <1>3, <1>4 DEF PagesOK

\* the words of a page are taken or given back
LEMMA TakeIs ==
    ASSUME PagesOK, NEW i \in Index, NEW v \in 0 .. PageSlots, status' = status, swap' = swap,
           pages' = [pages EXCEPT ![i].reserved = v]
    PROVE  /\ PagesOK'
           /\ \A j \in Index : /\ pages'[j].phys = pages[j].phys
                               /\ pages'[j].offset = pages[j].offset
                               /\ pages'[j].canGc = pages[j].canGc
                               /\ pages'[j].open = pages[j].open
                               /\ pages'[j].reserved = IF j = i THEN v ELSE pages[j].reserved
<1> DEFINE P == [type : {"erased", "data"}, phys : Phys, offset : Offsets,
                 reserved : 0 .. PageSlots, canGc : BOOLEAN, open : 0 .. 1]
<1>1. pages \in [Index -> P]
    BY DEF PagesOK
<1>2. \A j \in Index : /\ pages'[j] \in P
                       /\ pages'[j].phys = pages[j].phys
                       /\ pages'[j].type = pages[j].type
                       /\ pages'[j].offset = pages[j].offset
                       /\ pages'[j].canGc = pages[j].canGc
                       /\ pages'[j].open = pages[j].open
                       /\ pages'[j].reserved = IF j = i THEN v ELSE pages[j].reserved
    BY <1>1
<1>3. pages' \in [Index -> P]
    BY <1>1, <1>2
<1> HIDE DEF P
<1>4. PagesOK'
  <2>1. swap' \in [phys : Phys, offset : Offsets] /\ swap'.phys = swap.phys
    BY DEF PagesOK
  <2> QED
    BY <1>2, <1>3, <2>1, SamePages DEF P
<1> QED
    BY <1>2, <1>4

\* a page is opened or closed
LEMMA OpenIs ==
    ASSUME PagesOK, NEW i \in Index, NEW v \in 0 .. 1, status' = status, swap' = swap,
           pages' = [pages EXCEPT ![i].open = v]
    PROVE  /\ PagesOK'
           /\ \A j \in Index : /\ pages'[j].phys = pages[j].phys
                               /\ pages'[j].offset = pages[j].offset
                               /\ pages'[j].canGc = pages[j].canGc
                               /\ pages'[j].reserved = pages[j].reserved
                               /\ pages'[j].open = IF j = i THEN v ELSE pages[j].open
<1> DEFINE P == [type : {"erased", "data"}, phys : Phys, offset : Offsets,
                 reserved : 0 .. PageSlots, canGc : BOOLEAN, open : 0 .. 1]
<1>1. pages \in [Index -> P]
    BY DEF PagesOK
<1>2. \A j \in Index : /\ pages'[j] \in P
                       /\ pages'[j].phys = pages[j].phys
                       /\ pages'[j].type = pages[j].type
                       /\ pages'[j].offset = pages[j].offset
                       /\ pages'[j].canGc = pages[j].canGc
                       /\ pages'[j].reserved = pages[j].reserved
                       /\ pages'[j].open = IF j = i THEN v ELSE pages[j].open
    BY <1>1
<1>3. pages' \in [Index -> P]
    BY <1>1, <1>2
<1> HIDE DEF P
<1>4. PagesOK'
  <2>1. swap' \in [phys : Phys, offset : Offsets] /\ swap'.phys = swap.phys
    BY DEF PagesOK
  <2> QED
    BY <1>2, <1>3, <2>1, SamePages DEF P
<1> QED
    BY <1>2, <1>4

\* where a call finds space
LEMMA SpaceIs ==
    ASSUME PagesOK, Space # {}
    PROVE  /\ Min(Space) \in Index
           /\ pages[Min(Space)].offset + pages[Min(Space)].reserved <= PageSlots
           /\ pages[Min(Space)].reserved + 1 \in 0 .. PageSlots
<1>1. Space \subseteq Nat
    BY DEF Space, Index
<1>2. Min(Space) \in Space
    BY <1>1, MinIs
<1> DEFINE i == Min(Space)
<1>3. i \in Index /\ HasSpace(i)
    BY <1>2 DEF Space
<1> HIDE DEF i
<1>4. pages[i].offset \in Nat /\ pages[i].offset >= 1 /\ pages[i].reserved \in Nat /\ PageSlots \in Nat
    BY <1>3, PagesTyped
<1>5. pages[i].offset + pages[i].reserved <= PageSlots
    BY <1>3 DEF HasSpace
<1>6. pages[i].reserved + 1 \in 0 .. PageSlots
    BY <1>4, <1>5
<1> QED
    BY <1>3, <1>5, <1>6 DEF i

\* a write or an update, as it is queued
LEMMA WriteOpIs ==
    ASSUME latest \in Nat, NEW i \in Index, NEW f \in Files, NEW old \in Nat
    PROVE  /\ WriteOp("write", "begin", i, f) \in Operation
           /\ OpOK(WriteOp("write", "begin", i, f)) /\ Unstarted(WriteOp("write", "begin", i, f))
           /\ WriteOp("write", "begin", i, f).page = i
           /\ WriteOp("write", "begin", i, f).op # "gc"
           /\ [WriteOp("update", "find", i, f) EXCEPT !.old = old] \in Operation
           /\ OpOK([WriteOp("update", "find", i, f) EXCEPT !.old = old])
           /\ Unstarted([WriteOp("update", "find", i, f) EXCEPT !.old = old])
           /\ [WriteOp("update", "find", i, f) EXCEPT !.old = old].page = i
           /\ [WriteOp("update", "find", i, f) EXCEPT !.old = old].op # "gc"
<1>1. i # 0 /\ latest + 1 \in Nat
    BY DEF Index
<1> DEFINE n == latest + 1
           w == WriteOp("write", "begin", i, f)
           v == WriteOp("update", "find", i, f)
           u == [v EXCEPT !.old = old]
<1>2. w = [op |-> "write", step |-> "begin", page |-> i, id |-> n, file |-> f, old |-> 0]
  <2>1. w = [Op("write", "begin") EXCEPT !.page = i, !.file = f, !.id = n]
    BY DEF WriteOp
  <2> HIDE DEF n, w
  <2> QED
    BY <2>1 DEF Op
<1>3. u = [op |-> "update", step |-> "find", page |-> i, id |-> n, file |-> f, old |-> old]
  <2>1. v = [Op("update", "find") EXCEPT !.page = i, !.file = f, !.id = n]
    BY DEF WriteOp
  <2>2. u = [v EXCEPT !.old = old]
    OBVIOUS
  <2> HIDE DEF n, v, u
  <2> QED
    BY <2>1, <2>2 DEF Op
<1> HIDE DEF w, u, v
<1>4. w \in Operation /\ OpOK(w) /\ Unstarted(w) /\ w.page = i /\ w.op # "gc"
  <2>1. w.op = "write" /\ w.page = i /\ w.step = "begin"
    BY <1>2
  <2>2. w \in Operation
    BY <1>1, <1>2 DEF Operation, Kinds, Steps
  <2>3. OpOK(w) /\ Unstarted(w)
    BY <1>1, <2>1 DEF OpOK, Unstarted
  <2> QED
    BY <2>1, <2>2, <2>3
<1>5. u \in Operation /\ OpOK(u) /\ Unstarted(u) /\ u.page = i /\ u.op # "gc"
  <2>1. u.op = "update" /\ u.page = i /\ u.step = "find"
    BY <1>3
  <2>2. u \in Operation
    BY <1>1, <1>3 DEF Operation, Kinds, Steps
  <2>3. OpOK(u) /\ Unstarted(u)
    BY <1>1, <2>1 DEF OpOK, Unstarted
  <2> QED
    BY <2>1, <2>2, <2>3
<1> QED
    BY <1>4, <1>5 DEF w, u, v

\* a deletion, of a record ...
LEMMA DeleteOpIs ==
    ASSUME NEW id \in Nat
    PROVE  /\ [Op("delete", "flag") EXCEPT !.old = id] \in Operation
           /\ OpOK([Op("delete", "flag") EXCEPT !.old = id])
           /\ Unstarted([Op("delete", "flag") EXCEPT !.old = id])
           /\ [Op("delete", "flag") EXCEPT !.old = id].page = 0
           /\ [Op("delete", "flag") EXCEPT !.old = id].op # "gc"
<1> DEFINE d == [Op("delete", "flag") EXCEPT !.old = id]
<1>1. d = [op |-> "delete", step |-> "flag", page |-> 0, id |-> 0, file |-> NoFile, old |-> id]
    BY DEF Op
<1> HIDE DEF d
<1>2. d \in Operation /\ OpOK(d) /\ Unstarted(d) /\ d.page = 0 /\ d.op # "gc"
    BY <1>1 DEF Operation, OpOK, Unstarted, Kinds, Steps
<1> QED
    BY <1>2 DEF d

\* ... of a file ...
LEMMA DeleteFileOpIs ==
    ASSUME NEW f \in Files
    PROVE  /\ [Op("deleteFile", "flag") EXCEPT !.file = f] \in Operation
           /\ OpOK([Op("deleteFile", "flag") EXCEPT !.file = f])
           /\ Unstarted([Op("deleteFile", "flag") EXCEPT !.file = f])
           /\ [Op("deleteFile", "flag") EXCEPT !.file = f].page = 0
           /\ [Op("deleteFile", "flag") EXCEPT !.file = f].op # "gc"
<1> DEFINE e == [Op("deleteFile", "flag") EXCEPT !.file = f]
<1>1. e = [op |-> "deleteFile", step |-> "flag", page |-> 0, id |-> 0, file |-> f, old |-> 0]
    BY DEF Op
<1> HIDE DEF e
<1>2. e \in Operation /\ OpOK(e) /\ Unstarted(e) /\ e.page = 0 /\ e.op # "gc"
    BY <1>1 DEF Operation, OpOK, Unstarted, Kinds, Steps
<1> QED
    BY <1>2 DEF e

\* ... and a collection, as they are queued
LEMMA GcOpIs ==
    Op("gc", "gc") \in Operation /\ OpOK(Op("gc", "gc")) /\ Unstarted(Op("gc", "gc"))
        /\ Op("gc", "gc").page = 0
    BY DEF Op, Operation, OpOK, Unstarted, Kinds, Steps

\* the parts of the invariant that the calls need
LEMMA IInvReady ==
    ASSUME IInv, status = "ready"
    PROVE  /\ IsReady /\ PagesOK /\ QueueOK /\ LoopOK /\ GcType /\ SpaceOK /\ Opens
           /\ timeouts \in Nat /\ latest \in Nat
           /\ reserved \in Index \cup {0}
           /\ \A i \in Index : /\ Claims(i) \in Nat /\ Claims(i) <= pages[i].reserved
                               /\ damage = {} => Claims(i) = pages[i].reserved
                               /\ pages[i].offset + pages[i].reserved <= PageSlots + 1
                               /\ pages[i].reserved \in 0 .. PageSlots
                               /\ pages[i].offset \in Nat /\ PageSlots \in Nat
<1>1. IsReady /\ PagesOK /\ QueueOK /\ LoopOK /\ GcType /\ timeouts \in Nat /\ latest \in Nat
    BY DEF IInv, Control
<1>2. SpaceOK /\ Opens
    BY <1>1 DEF IsReady
<1>3. \A i \in Index : Claims(i) \in Nat
    BY <1>1, ClaimsType
<1>4. \A i \in Index : /\ pages[i].reserved \in 0 .. PageSlots
                       /\ pages[i].offset \in Nat /\ PageSlots \in Nat
    BY <1>1, PagesTyped
<1> QED
    BY <1>1, <1>2, <1>3, <1>4 DEF SpaceOK

\* one more word of a page is taken, by an operation or by a caller
LEMMA TakenSpace ==
    ASSUME IInv, status = "ready", NEW i \in Index,
           pages[i].offset + pages[i].reserved <= PageSlots,
           \A j \in Index : /\ pages'[j].offset = pages[j].offset
                            /\ pages'[j].reserved = IF j = i THEN pages[i].reserved + 1
                                                    ELSE pages[j].reserved
                            /\ Claims(j)' = Claims(j) + (IF j = i THEN 1 ELSE 0),
           damage' = damage, reserved' \in Index \cup {0}
    PROVE  SpaceOK'
<1>1. \A j \in Index : /\ Claims(j) \in Nat /\ Claims(j) <= pages[j].reserved
                       /\ damage = {} => Claims(j) = pages[j].reserved
                       /\ pages[j].offset + pages[j].reserved <= PageSlots + 1
                       /\ pages[j].reserved \in Nat
                       /\ pages[j].offset \in Nat /\ PageSlots \in Nat
    BY IInvReady
<1> SUFFICES ASSUME NEW j \in Index
             PROVE  /\ Claims(j)' <= pages'[j].reserved
                    /\ damage' = {} => Claims(j)' = pages'[j].reserved
                    /\ pages'[j].offset + pages'[j].reserved <= PageSlots + 1
    BY DEF SpaceOK
<1>2. CASE j = i
    BY <1>1, <1>2
<1>3. CASE j # i
    BY <1>1, <1>3
<1> QED
    BY <1>2, <1>3

\* the words of a write or an update are claimed by it
LEMMA QueuedClaims ==
    ASSUME QueueOK, NEW o \in Operation, OpOK(o), Unstarted(o), Call(o), reserved' = reserved
    PROVE  \A j \in Index : Claims(j)' = Claims(j) + (IF o.page = j THEN 1 ELSE 0)
<1> SUFFICES ASSUME NEW j \in Index
             PROVE  Claims(j)' = Claims(j) + (IF o.page = j THEN 1 ELSE 0)
    OBVIOUS
<1> DEFINE r == IF reserved = j THEN 1 ELSE 0
<1>1. r \in {0, 1} /\ r = (IF reserved' = j THEN 1 ELSE 0)
    OBVIOUS
<1>2. Claims(j)' = Claims(j) - r + r + (IF o.page = j THEN 1 ELSE 0)
    BY <1>1, ClaimsAppend DEF Call, Again
<1>3. Claims(j) \in Nat
    BY ClaimsType
<1> HIDE DEF r
<1> QED
    BY <1>1, <1>2, <1>3

\* a write or an update
LEMMA WritingCallInv ==
    ASSUME IInv, status = "ready", loop.at # "run", Space # {}, NEW o \in Operation, OpOK(o),
           Unstarted(o), o.page = Min(Space), o.op # "gc", Take(Min(Space)), Call(o),
           latest' \in Nat,
           UNCHANGED <<flash, status, swap, gc, busy, desc, reserved, opened, damage, timeouts>>
    PROVE  IInv'
<1> DEFINE i == Min(Space)
<1>2. /\ PagesOK /\ QueueOK /\ Opens /\ reserved \in Index \cup {0}
    BY IInvReady
<1>3. /\ i \in Index /\ pages[i].offset + pages[i].reserved <= PageSlots
      /\ pages[i].reserved + 1 \in 0 .. PageSlots
    BY <1>2, SpaceIs
<1> DEFINE v == pages[i].reserved + 1
<1>5. pages' = [pages EXCEPT ![i].reserved = v] /\ v \in 0 .. PageSlots
    BY <1>3 DEF Take
<1>9. \A j \in Index : Claims(j)' = Claims(j) + (IF j = i THEN 1 ELSE 0)
  <2>1. o.page = i
    OBVIOUS
  <2> HIDE DEF i
  <2> QED
    BY <1>2, <2>1, QueuedClaims
<1> HIDE DEF v, i
<1>6. /\ PagesOK'
      /\ \A j \in Index : /\ pages'[j].phys = pages[j].phys
                          /\ pages'[j].offset = pages[j].offset
                          /\ pages'[j].canGc = pages[j].canGc
                          /\ pages'[j].open = pages[j].open
                          /\ pages'[j].reserved = IF j = i THEN v ELSE pages[j].reserved
    BY <1>2, <1>3, <1>5, TakeIs
<1>7. Quiet
    BY <1>6 DEF Quiet
<1>8. Opens'
    BY <1>2, <1>6 DEF Opens
<1>10. SpaceOK'
    BY <1>2, <1>3, <1>6, <1>9, TakenSpace DEF v
<1> QED
    BY <1>2, <1>6, <1>7, <1>8, <1>10, QueuedInv

\* fds_record_write
LEMMA WriteInv ==
    ASSUME IInv, NEW f \in Files, Write(f)
    PROVE  IInv'
<1> DEFINE i == Min(Space)
           o == WriteOp("write", "begin", i, f)
<1>1. /\ status = "ready" /\ loop.at # "run" /\ Space # {} /\ Take(i) /\ Call(o)
      /\ UNCHANGED <<flash, status, swap, gc, busy, desc, reserved, opened, damage, timeouts>>
      /\ latest' = latest + 1
    BY DEF Write, MayCall, static, users, ghosts
<1>2. /\ PagesOK /\ latest \in Nat
    BY <1>1, IInvReady
<1>3. i \in Index
    BY <1>1, <1>2, SpaceIs
<1>4. o \in Operation /\ OpOK(o) /\ Unstarted(o) /\ o.page = i /\ o.op # "gc"
  <2> HIDE DEF i
  <2> QED
    BY <1>2, <1>3, 0 \in Nat, WriteOpIs
<1> HIDE DEF o
<1> QED
    BY <1>1, <1>2, <1>4, WritingCallInv

\* fds_record_update
LEMMA UpdateInv ==
    ASSUME IInv, NEW f \in Files, NEW id \in Nat, Update(id, f)
    PROVE  IInv'
<1> DEFINE i == Min(Space)
           o == [WriteOp("update", "find", i, f) EXCEPT !.old = id]
<1>1. /\ status = "ready" /\ loop.at # "run" /\ Space # {} /\ Take(i) /\ Call(o)
      /\ UNCHANGED <<flash, status, swap, gc, busy, desc, reserved, opened, damage, timeouts>>
      /\ latest' = latest + 1
    BY DEF Update, MayCall, static, users, ghosts
<1>2. /\ PagesOK /\ latest \in Nat
    BY <1>1, IInvReady
<1>3. i \in Index
    BY <1>1, <1>2, SpaceIs
<1>4. o \in Operation /\ OpOK(o) /\ Unstarted(o) /\ o.page = i /\ o.op # "gc"
  <2> HIDE DEF i
  <2> QED
    BY <1>2, <1>3, WriteOpIs
<1> HIDE DEF o
<1> QED
    BY <1>1, <1>2, <1>4, WritingCallInv

\* fds_record_write_reserved: the words pass from the caller to the operation
LEMMA WriteReservedInv ==
    ASSUME IInv, NEW f \in Files, WriteReserved(f)
    PROVE  IInv'
<1> DEFINE o == WriteOp("write", "begin", reserved, f)
<1>1. /\ status = "ready" /\ loop.at # "run" /\ reserved # 0 /\ Call(o) /\ reserved' = 0
      /\ UNCHANGED <<flash, status, pages, swap, gc, busy, desc, opened, damage, timeouts>>
      /\ latest' = latest + 1
    BY DEF WriteReserved, MayCall, static, users, ghosts
<1>2. /\ PagesOK /\ QueueOK /\ latest \in Nat /\ Opens /\ reserved \in Index /\ SpaceOK
    BY <1>1, IInvReady
<1>4. o \in Operation /\ OpOK(o) /\ Unstarted(o) /\ o.page = reserved /\ o.op # "gc"
    BY <1>2, 0 \in Nat, WriteOpIs
<1> HIDE DEF o
<1>6. PagesOK'
    BY <1>1, <1>2 DEF PagesOK
<1>7. Quiet
    BY <1>1 DEF Quiet
<1>8. Opens'
    BY <1>1, <1>2 DEF Opens
<1>9. \A j \in Index : Claims(j)' = Claims(j)
  <2> SUFFICES ASSUME NEW j \in Index
               PROVE  Claims(j)' = Claims(j)
    OBVIOUS
  <2> DEFINE r == IF reserved = j THEN 1 ELSE 0
  <2>1. r \in {0, 1} /\ 0 \in {0, 1} /\ 0 = (IF reserved' = j THEN 1 ELSE 0)
    BY <1>1 DEF Index
  <2>2. Claims(j)' = Claims(j) - r + 0 + (IF o.page = j THEN 1 ELSE 0)
    BY <2>1, <1>1, <1>2, <1>4, ClaimsAppend DEF Call, Again
  <2>3. Claims(j) \in Nat
    BY <1>2, ClaimsType
  <2>4. r = IF o.page = j THEN 1 ELSE 0
    BY <1>4
  <2> HIDE DEF r
  <2> QED
    BY <2>1, <2>2, <2>3, <2>4
<1>10. SpaceOK'
    BY <1>1, <1>2, <1>9 DEF SpaceOK
<1> QED
    BY <1>1, <1>2, <1>4, <1>6, <1>7, <1>8, <1>10, QueuedInv

\* an operation that takes no words
LEMMA OtherCallInv ==
    ASSUME IInv, status = "ready", loop.at # "run", NEW o \in Operation, OpOK(o), Unstarted(o),
           o.page = 0, Call(o),
           \/ gc' = gc /\ o.op # "gc"
           \/ gc' = [gc EXCEPT !.resume = @ \/ gc.state # "begin"],
           UNCHANGED <<flash, status, pages, swap, latest, busy, desc, reserved, opened, damage,
                       timeouts>>
    PROVE  IInv'
<1>2. /\ PagesOK /\ QueueOK /\ latest \in Nat /\ Opens /\ SpaceOK
    BY IInvReady
<1>6. PagesOK'
    BY <1>2 DEF PagesOK
<1>7. Quiet
    BY DEF Quiet
<1>8. Opens'
    BY <1>2 DEF Opens
<1>9. \A j \in Index : Claims(j)' = Claims(j)
  <2>1. \A j \in Index : Claims(j)' = Claims(j) + (IF o.page = j THEN 1 ELSE 0)
    BY <1>2, QueuedClaims
  <2>2. \A j \in Index : j # 0 /\ Claims(j) \in Nat
    BY <1>2, ClaimsType DEF Index
  <2> QED
    BY <2>1, <2>2
<1>10. SpaceOK'
    BY <1>2, <1>9 DEF SpaceOK
<1> QED
    BY <1>2, <1>6, <1>7, <1>8, <1>10, QueuedInv

\* fds_record_delete
LEMMA DeleteInv ==
    ASSUME IInv, NEW id \in Nat, Delete(id)
    PROVE  IInv'
<1> DEFINE o == [Op("delete", "flag") EXCEPT !.old = id]
<1>1. o \in Operation /\ OpOK(o) /\ Unstarted(o) /\ o.page = 0 /\ o.op # "gc"
    BY DeleteOpIs
<1>2. /\ status = "ready" /\ loop.at # "run" /\ gc' = gc /\ Call(o)
      /\ UNCHANGED <<flash, status, pages, swap, latest, busy, desc, reserved, opened, damage,
                     timeouts>>
    BY DEF Delete, MayCall, ram, static, users, ghosts
<1> HIDE DEF o
<1> QED
    BY <1>1, <1>2, OtherCallInv

\* fds_file_delete
LEMMA DeleteFileInv ==
    ASSUME IInv, NEW f \in Files, DeleteFile(f)
    PROVE  IInv'
<1> DEFINE o == [Op("deleteFile", "flag") EXCEPT !.file = f]
<1>1. o \in Operation /\ OpOK(o) /\ Unstarted(o) /\ o.page = 0 /\ o.op # "gc"
    BY DeleteFileOpIs
<1>2. /\ status = "ready" /\ loop.at # "run" /\ gc' = gc /\ Call(o)
      /\ UNCHANGED <<flash, status, pages, swap, latest, busy, desc, reserved, opened, damage,
                     timeouts>>
    BY DEF DeleteFile, MayCall, ram, static, users, ghosts
<1> HIDE DEF o
<1> QED
    BY <1>1, <1>2, OtherCallInv

\* fds_gc
LEMMA GcInv ==
    ASSUME IInv, Gc
    PROVE  IInv'
<1> DEFINE o == Op("gc", "gc")
<1>1. o \in Operation /\ OpOK(o) /\ Unstarted(o) /\ o.page = 0
    BY GcOpIs
<1>2. /\ status = "ready" /\ loop.at # "run" /\ gc' = [gc EXCEPT !.resume = @ \/ gc.state # "begin"] /\ Call(o)
      /\ UNCHANGED <<flash, status, pages, swap, latest, busy, desc, reserved, opened, damage,
                     timeouts>>
    BY DEF Gc, MayCall, ram, static, users, ghosts
<1> HIDE DEF o
<1> QED
    BY <1>1, <1>2, OtherCallInv

\* fds_reserve
LEMMA ReserveInv ==
    ASSUME IInv, Reserve
    PROVE  IInv'
<1> DEFINE i == Min(Space)
<1>1. /\ status = "ready" /\ loop.at # "run" /\ Space # {} /\ Take(i)
      /\ reserved = 0 /\ reserved' = i
      /\ UNCHANGED <<flash, status, swap, gc, latest, queue, loop, busy, desc, opened, damage,
                     timeouts>>
    BY DEF Reserve, MayCall, static, users, ghosts
<1>2. /\ PagesOK /\ QueueOK /\ Opens /\ IsReady
    BY <1>1, IInvReady
<1>3. /\ i \in Index /\ pages[i].offset + pages[i].reserved <= PageSlots
      /\ pages[i].reserved + 1 \in 0 .. PageSlots
    BY <1>1, <1>2, SpaceIs
<1> DEFINE v == pages[i].reserved + 1
<1>5. pages' = [pages EXCEPT ![i].reserved = v] /\ v \in 0 .. PageSlots
    BY <1>1, <1>3 DEF Take
<1> HIDE DEF v, i
<1>6. /\ PagesOK'
      /\ \A j \in Index : /\ pages'[j].phys = pages[j].phys
                          /\ pages'[j].offset = pages[j].offset
                          /\ pages'[j].canGc = pages[j].canGc
                          /\ pages'[j].open = pages[j].open
                          /\ pages'[j].reserved = IF j = i THEN v ELSE pages[j].reserved
    BY <1>1, <1>2, <1>3, <1>5, TakeIs
<1>7. Quiet
    BY <1>1, <1>6 DEF Quiet
<1>8. Opens'
    BY <1>1, <1>2, <1>6 DEF Opens
<1>9. \A j \in Index : Claims(j)' = Claims(j) + (IF j = i THEN 1 ELSE 0)
  <2> SUFFICES ASSUME NEW j \in Index
               PROVE  Claims(j)' = Claims(j) + (IF j = i THEN 1 ELSE 0)
    OBVIOUS
  <2>1. Claimed(j)' = Claimed(j)
    BY <1>1 DEF Claimed
  <2>2. Cardinality(Claimed(j)) \in Nat
    BY <1>2, ClaimsType
  <2>3. j # 0
    BY DEF Index
  <2> QED
    BY <2>1, <2>2, <2>3, <1>1 DEF Claims
<1>10. SpaceOK'
    BY <1>1, <1>3, <1>6, <1>9, TakenSpace DEF v
<1>11. OpenOK(flash)' /\ OpenOK(Done)'
    BY <1>1, <1>2 DEF IsReady, Known, OpenOK, Done
<1> QED
    BY <1>1, <1>6, <1>7, <1>8, <1>10, <1>11, LookInv

\* fds_reserve_cancel
LEMMA ReserveCancelInv ==
    ASSUME IInv, ReserveCancel
    PROVE  IInv'
<1> DEFINE i == reserved
           v == pages[i].reserved - 1
<1>1. /\ status = "ready" /\ loop.at # "run" /\ reserved # 0 /\ pages[i].reserved > 0
      /\ pages' = [pages EXCEPT ![i].reserved = v] /\ reserved' = 0
      /\ UNCHANGED <<flash, status, swap, gc, latest, queue, loop, busy, desc, opened, damage,
                     timeouts>>
    BY DEF ReserveCancel, MayCall, static, users, ghosts, counts
<1>2. /\ PagesOK /\ QueueOK /\ Opens /\ IsReady
    BY <1>1, IInvReady
<1>3. i \in Index /\ v \in 0 .. PageSlots
  <2>1. i \in Index
    BY <1>1, IInvReady
  <2>2. pages[i].reserved \in 0 .. PageSlots /\ PageSlots \in Nat
    BY <1>1, <2>1, IInvReady
  <2> QED
    BY <2>1, <2>2, <1>1
<1>4. \A j \in Index : Claims(j)' = Claims(j) - (IF j = i THEN 1 ELSE 0)
  <2> SUFFICES ASSUME NEW j \in Index
               PROVE  Claims(j)' = Claims(j) - (IF j = i THEN 1 ELSE 0)
    OBVIOUS
  <2>1. Claimed(j)' = Claimed(j)
    BY <1>1 DEF Claimed
  <2>2. Cardinality(Claimed(j)) \in Nat
    BY <1>2, ClaimsType
  <2>3. j # 0
    BY DEF Index
  <2> QED
    BY <2>1, <2>2, <2>3, <1>1 DEF Claims
<1> HIDE DEF v
<1>6. /\ PagesOK'
      /\ \A j \in Index : /\ pages'[j].phys = pages[j].phys
                          /\ pages'[j].offset = pages[j].offset
                          /\ pages'[j].canGc = pages[j].canGc
                          /\ pages'[j].open = pages[j].open
                          /\ pages'[j].reserved = IF j = i THEN v ELSE pages[j].reserved
    BY <1>1, <1>2, <1>3, TakeIs
<1>7. Quiet
    BY <1>1, <1>6 DEF Quiet
<1>8. Opens'
    BY <1>1, <1>2, <1>6 DEF Opens
<1>10. SpaceOK'
  <2>1. \A j \in Index : /\ Claims(j) \in Nat /\ Claims(j) <= pages[j].reserved
                         /\ damage = {} => Claims(j) = pages[j].reserved
                         /\ pages[j].offset + pages[j].reserved <= PageSlots + 1
                         /\ pages[j].reserved \in 0 .. PageSlots
                         /\ pages[j].offset \in Nat /\ PageSlots \in Nat
    BY <1>1, IInvReady
  <2>2. \A j \in Index : pages'[j].reserved = pages[j].reserved - (IF j = i THEN 1 ELSE 0)
    BY <1>6, <2>1 DEF v
  <2>3. ASSUME NEW j \in Index
        PROVE  /\ Claims(j)' <= pages'[j].reserved
               /\ damage' = {} => Claims(j)' = pages'[j].reserved
               /\ pages'[j].offset + pages'[j].reserved <= PageSlots + 1
    BY <2>1, <2>2, <1>1, <1>4, <1>6
  <2> QED
    BY <2>3, <1>1 DEF SpaceOK
<1>11. OpenOK(flash)' /\ OpenOK(Done)'
    BY <1>1, <1>2 DEF IsReady, Known, OpenOK, Done
<1> QED
    BY <1>1, <1>6, <1>7, <1>8, <1>10, <1>11, LookInv

\* a record that is looked up is there, and is whole
LEMMA FoundIs ==
    ASSUME NEW id, Found(id) # {}
    PROVE  LET d == First(Found(id))
           IN  /\ d \in [page : Index, slot : Slots]
               /\ Valid(flash, pages[d.page].phys, d.slot)
               /\ flash[pages[d.page].phys].rec[d.slot].id = id
<1> DEFINE P(d) == /\ Valid(flash, pages[d.page].phys, d.slot)
                   /\ flash[pages[d.page].phys].rec[d.slot].id = id
           S == Found(id)
<1>1. S = {d \in [page : Index, slot : Slots] : P(d)}
    BY DEF Found
<1>2. S \subseteq [page : Index, slot : Slots] /\ \A d \in S : P(d)
  <2> HIDE DEF S, P
  <2> QED
    BY <1>1
<1>3. First(S) \in S
  <2>1. S # {}
    OBVIOUS
  <2> HIDE DEF S, P
  <2> QED
    BY <1>2, <2>1, FirstIs
<1>4. First(S) \in [page : Index, slot : Slots] /\ P(First(S))
  <2> HIDE DEF S, P
  <2> QED
    BY <1>2, <1>3
<1> QED
    BY <1>4

\* what is whole is not erased under way, unless its page is
LEMMA WholeInDone ==
    ASSUME FlashOK(flash), BusyOK, NEW p \in Phys, NEW s \in Slots,
           flash[p].rec[s].st \in {"whole", "dirty"},
           flash[p].rec[s].st = "dirty" => ~(busy.kind = "slot" /\ busy.phys = p /\ busy.slot = s),
           busy # Erase(p)
    PROVE  /\ Done[p].rec[s].st \in {"whole", "dirty"}
           /\ Done[p].rec[s].id = flash[p].rec[s].id
<1>1. flash \in FlashType
    BY DEF FlashOK, Consistent
<1>2. CASE busy = NoBusy
    BY <1>2, DoneIsFlash
<1>3. ASSUME NEW q \in Phys, busy = Tag(q, "swap") \/ busy = Tag(q, "data")
      PROVE  Done[p].rec = flash[p].rec
  <2>1. CASE busy = Tag(q, "swap")
    BY <2>1, <1>1, TagEffect DEF Done
  <2>2. CASE busy = Tag(q, "data")
    BY <2>2, <1>1, TagEffect DEF Done
  <2> QED
    BY <1>3, <2>1, <2>2
<1>4. ASSUME NEW q \in Phys, busy = Erase(q)
      PROVE  Done[p] = flash[p]
  <2>1. p # q
    BY <1>4
  <2> QED
    BY <2>1, <1>1, <1>4, EraseEffect DEF Done
<1>5. ASSUME busy.kind = "slot", busy = WriteSlot(busy.phys, busy.slot, busy.val),
             busy.phys \in Phys, busy.slot \in Slots, busy.val \in Slot,
             LET old == flash[busy.phys].rec[busy.slot] IN
             old.st = "whole" => busy.val.st \in {"whole", "dirty"} /\ busy.val.id = old.id
      PROVE  /\ Done[p].rec[s].st \in {"whole", "dirty"}
             /\ Done[p].rec[s].id = flash[p].rec[s].id
  <2> DEFINE q == busy.phys
             t == busy.slot
             r == busy.val
  <2>1. Done = Applied(flash, WriteSlot(q, t, r))
    BY <1>5 DEF Done
  <2>2. /\ Done[q].rec[t] = r
        /\ \A u \in Slots : u # t => Done[q].rec[u] = flash[q].rec[u]
        /\ \A u \in Phys : u # q => Done[u] = flash[u]
    <3> q \in Phys /\ t \in Slots /\ r \in Slot
      BY <1>5
    <3> HIDE DEF q, t, r
    <3> QED
      BY <2>1, <1>1, SlotEffect
  <2>3. CASE p = q /\ s = t
    BY <2>2, <2>3, <1>5
  <2>4. CASE p # q \/ s # t
    BY <2>2, <2>4
  <2> QED
    BY <2>3, <2>4
<1> QED
    BY <1>2, <1>3, <1>4, <1>5 DEF BusyOK

\* fds_record_open: unless the page is being erased, the record stays
LEMMA OpenInv ==
    ASSUME IInv, NEW id \in Nat, Open(id), Sound'
    PROVE  IInv'
<1> DEFINE d == First(Found(id))
           i == d.page
           p == pages[i].phys
<1>1. /\ status = "ready" /\ loop.at # "run" /\ opened = NotOpen /\ Found(id) # {}
      /\ opened' = [id |-> id, phys |-> p, slot |-> d.slot, page |-> i, moved |-> FALSE]
      /\ pages' = [pages EXCEPT ![i].open = @ + 1]
      /\ UNCHANGED <<flash, status, swap, gc, latest, queue, loop, busy, desc, reserved, timeouts>>
    BY DEF Open, MayCall, static
<1>2. damage' = damage /\ busy # Erase(p)
    BY DEF Open, Met, Sound
<1>3. /\ PagesOK /\ QueueOK /\ Opens /\ IsReady /\ SpaceOK
    BY <1>1, IInvReady
<1>4. /\ d \in [page : Index, slot : Slots]
      /\ Valid(flash, p, d.slot) /\ flash[p].rec[d.slot].id = id
    BY <1>1, FoundIs
<1> HIDE DEF d
<1>5. i \in Index /\ d.slot \in Slots
    BY <1>4
<1> HIDE DEF i
<1>6. p \in Phys /\ pages[i].open = 0
  <2>1. opened.page = 0 /\ i # 0
    BY <1>1, <1>5 DEF NotOpen, Index
  <2> QED
    BY <2>1, <1>3, <1>5, PagesTyped DEF Opens
<1>7. pages' = [pages EXCEPT ![i].open = 1] /\ 1 \in 0 .. 1
    BY <1>1, <1>3, <1>5, <1>6 DEF PagesOK
<1>8. /\ PagesOK'
      /\ \A j \in Index : /\ pages'[j].phys = pages[j].phys
                          /\ pages'[j].offset = pages[j].offset
                          /\ pages'[j].canGc = pages[j].canGc
                          /\ pages'[j].reserved = pages[j].reserved
                          /\ pages'[j].open = IF j = i THEN 1 ELSE pages[j].open
    BY <1>1, <1>3, <1>5, <1>7, OpenIs
<1>9. Quiet
    BY <1>1, <1>8 DEF Quiet
<1>10. Opens'
  <2>1. opened.page = 0 /\ i # 0 /\ d.slot # 0
    BY <1>1, <1>5 DEF NotOpen, Index, Slots
  <2>2. \A j \in Index : pages[j].open = 0
    BY <2>1, <1>3 DEF Opens, Index
  <2>3. \A j \in Index : pages'[j].open = (IF opened'.page = j THEN 1 ELSE 0)
    BY <2>1, <2>2, <1>1, <1>8
  <2>4. /\ opened' \in [id : Nat, phys : Phys \cup {0}, slot : Slots \cup {0},
                        page : Index \cup {0}, moved : BOOLEAN]
        /\ opened'.page = i /\ opened'.slot = d.slot /\ opened'.phys = p
    BY <1>1, <1>5, <1>6
  <2>5. pages'[opened'.page].phys = opened'.phys
    BY <2>4, <1>5, <1>8
  <2> QED
    BY <2>1, <2>3, <2>4, <2>5 DEF Opens
<1>11. SpaceOK'
  <2>1. \A j \in Index : Claims(j)' = Claims(j)
    BY <1>1, <1>3, ClaimsStay
  <2> QED
    BY <2>1, <1>1, <1>2, <1>3, <1>8 DEF SpaceOK
<1>12. OpenOK(flash)' /\ OpenOK(Done)'
  <2>1. flash[p].rec[d.slot].st = "whole"
    BY <1>4 DEF Valid
  <2>2. FlashOK(flash) /\ BusyOK
    BY DEF IInv
  <2>3. /\ Done[p].rec[d.slot].st \in {"whole", "dirty"}
        /\ Done[p].rec[d.slot].id = flash[p].rec[d.slot].id
    BY <2>1, <2>2, <1>2, <1>5, <1>6, WholeInDone
  <2>4. opened'.phys = p /\ opened'.slot = d.slot /\ opened'.id = id
    BY <1>1
  <2>5. Done' = Done
    BY <1>1 DEF Done
  <2> HIDE DEF p
  <2> QED
    BY <2>1, <2>3, <2>4, <2>5, <1>1, <1>4 DEF OpenOK
<1> QED
    BY <1>1, <1>8, <1>9, <1>10, <1>11, <1>12, LookInv

\* fds_record_close
LEMMA CloseInv ==
    ASSUME IInv, Close
    PROVE  IInv'
<1> DEFINE i == IF opened.moved THEN First(Found(opened.id)).page ELSE opened.page
<1>1. /\ status = "ready" /\ loop.at # "run" /\ opened # NotOpen
      /\ opened.moved => Found(opened.id) # {}
      /\ pages[i].open > 0 /\ pages' = [pages EXCEPT ![i].open = @ - 1] /\ opened' = NotOpen
      /\ UNCHANGED <<flash, status, swap, gc, latest, queue, loop, busy, desc, reserved, damage,
                     timeouts>>
    BY DEF Close, MayCall, static, ghosts, counts
<1>2. /\ PagesOK /\ QueueOK /\ Opens /\ IsReady /\ SpaceOK
    BY <1>1, IInvReady
<1>3. i \in Index
  <2>1. CASE opened.moved
    <3> DEFINE d == First(Found(opened.id))
    <3>1. d \in [page : Index, slot : Slots]
      BY <2>1, <1>1, FoundIs
    <3> HIDE DEF d
    <3>2. d.page \in Index
      BY <3>1
    <3> QED
      BY <3>2, <2>1 DEF d
  <2>2. CASE ~opened.moved
    BY <2>2, <1>1, <1>2 DEF Opens
  <2> QED
    BY <2>1, <2>2
<1> HIDE DEF i
<1>4. pages[i].open = 1 /\ opened.page = i
    BY <1>1, <1>2, <1>3 DEF Opens
<1>5. pages' = [pages EXCEPT ![i].open = 0] /\ 0 \in 0 .. 1
    BY <1>1, <1>2, <1>3, <1>4 DEF PagesOK
<1>6. /\ PagesOK'
      /\ \A j \in Index : /\ pages'[j].phys = pages[j].phys
                          /\ pages'[j].offset = pages[j].offset
                          /\ pages'[j].canGc = pages[j].canGc
                          /\ pages'[j].reserved = pages[j].reserved
                          /\ pages'[j].open = IF j = i THEN 0 ELSE pages[j].open
    BY <1>1, <1>2, <1>3, <1>5, OpenIs
<1>7. Quiet
    BY <1>1, <1>6 DEF Quiet
<1>8. Opens'
  <2>1. \A j \in Index : pages'[j].open = 0
    BY <1>2, <1>4, <1>6 DEF Opens
  <2>2. \A j \in Index : j # 0
    BY DEF Index
  <2> QED
    BY <2>1, <2>2, <1>1 DEF Opens, NotOpen
<1>9. SpaceOK'
  <2>1. \A j \in Index : Claims(j)' = Claims(j)
    BY <1>1, <1>2, ClaimsStay
  <2> QED
    BY <2>1, <1>1, <1>2, <1>6 DEF SpaceOK
<1>10. OpenOK(flash)' /\ OpenOK(Done)'
    BY <1>1 DEF OpenOK
<1> QED
    BY <1>1, <1>6, <1>7, <1>8, <1>9, <1>10, LookInv

\* Every call preserves the invariant.
LEMMA CallsInv ==
    ASSUME IInv, Calls, Sound'
    PROVE  IInv'
<1>1. ASSUME NEW f \in Files, Write(f) \/ WriteReserved(f) \/ DeleteFile(f)
      PROVE  IInv'
    BY <1>1, WriteInv, WriteReservedInv, DeleteFileInv
<1>2. ASSUME NEW id \in 1 .. latest, Delete(id) \/ Open(id) \/ \E f \in Files : Update(id, f)
      PROVE  IInv'
    BY <1>2, OpenInv, UpdateInv, DeleteInv
<1>3. CASE Gc \/ Reserve \/ ReserveCancel \/ Close
    BY <1>3, ReserveInv, ReserveCancelInv, CloseInv, GcInv
<1> QED
    BY <1>1, <1>2, <1>3 DEF Calls
===============================================================================
