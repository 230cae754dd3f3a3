----------------------------- MODULE FdsIds_proofs -----------------------------
(***************************************************************************)
(* The records of fds.c, for all sizes of flash, page and queue.  No two   *)
(* have the same id: what the operations write is new, or a copy whose     *)
(* original is erased before the copy is taken for a record.  And they are *)
(* kept as RecordStore promises: each step changes them as the operation   *)
(* at the head of the queue may, or not at all.                            *)
(***************************************************************************)
EXTENDS Fds_proofs

-------------------------------------------------------------------------------
(* What is written to flash, and the ids there                               *)

\* the whole records of a flash f2 are there in another one, fl
Among(f2, fl) ==
    \A p \in Phys : \A s \in Slots : f2[p].rec[s].st = "whole" => fl[p].rec[s] = f2[p].rec[s]

\* An id that is there twice is that of a record and of its copy.
LEMMA TwiceIs ==
    ASSUME NEW fl, IdsOnce(fl), NEW p \in Phys, NEW q \in Phys, NEW s \in Slots, NEW t \in Slots,
           fl[p].rec[s].st = "whole", fl[q].rec[t].st = "whole",
           fl[p].rec[s].id = fl[q].rec[t].id
    PROVE  \/ p = q /\ s = t
           \/ /\ fl[p].rec[s] = fl[q].rec[t]
              /\ MayBeTwice(fl, p, q) \/ MayBeTwice(fl, q, p)
    BY DEF IdsOnce

\* A tag is written while a page is erased, or to a page without records: ...
LEMMA OnceTag ==
    ASSUME NEW fl, NEW f2, IdsOnce(fl), Among(f2, fl),
           \/ \E x \in Phys : fl[x].tag = "erased"
           \/ /\ \A p \in Phys : \A s \in Slots : f2[p].rec[s].st = "whole" => f2[p].tag = fl[p].tag
              /\ \A x \in Phys : f2[x].tag # "erased"
    PROVE  IdsOnce(f2)
<1> SUFFICES ASSUME NEW p \in Phys, NEW q \in Phys, NEW s \in Slots, NEW t \in Slots,
                    f2[p].rec[s].st = "whole", f2[q].rec[t].st = "whole",
                    f2[p].rec[s].id = f2[q].rec[t].id
             PROVE  \/ p = q /\ s = t
                    \/ /\ f2[p].rec[s] = f2[q].rec[t]
                       /\ MayBeTwice(f2, p, q) \/ MayBeTwice(f2, q, p)
    BY DEF IdsOnce
<1>1. /\ fl[p].rec[s] = f2[p].rec[s] /\ fl[q].rec[t] = f2[q].rec[t]
      /\ fl[p].rec[s].st = "whole" /\ fl[q].rec[t].st = "whole"
      /\ fl[p].rec[s].id = fl[q].rec[t].id
    BY DEF Among
<1>2. \/ p = q /\ s = t
      \/ fl[p].rec[s] = fl[q].rec[t] /\ (MayBeTwice(fl, p, q) \/ MayBeTwice(fl, q, p))
    BY <1>1, TwiceIs
<1> QED
    BY <1>1, <1>2 DEF MayBeTwice

\* ... the swap page is erased, or has no records: ...
LEMMA OnceSwap ==
    ASSUME NEW fl, NEW f2, IdsOnce(fl), Among(f2, fl),
           \A p \in Phys : \A s \in Slots : f2[p].rec[s].st = "whole" => fl[p].tag # "swap"
    PROVE  IdsOnce(f2)
<1> SUFFICES ASSUME NEW p \in Phys, NEW q \in Phys, NEW s \in Slots, NEW t \in Slots,
                    f2[p].rec[s].st = "whole", f2[q].rec[t].st = "whole",
                    f2[p].rec[s].id = f2[q].rec[t].id
             PROVE  p = q /\ s = t
    BY DEF IdsOnce
<1>1. /\ fl[p].rec[s] = f2[p].rec[s] /\ fl[q].rec[t] = f2[q].rec[t]
      /\ fl[p].rec[s].st = "whole" /\ fl[q].rec[t].st = "whole"
      /\ fl[p].rec[s].id = fl[q].rec[t].id
      /\ fl[p].tag # "swap" /\ fl[q].tag # "swap"
    BY DEF Among
<1>2. \/ p = q /\ s = t
      \/ MayBeTwice(fl, p, q) \/ MayBeTwice(fl, q, p)
    BY <1>1, TwiceIs
<1> QED
    BY <1>1, <1>2 DEF MayBeTwice

\* ... the page of data c is erased, and what the swap page has are copies from there: ...
LEMMA OnceErase ==
    ASSUME NEW fl, NEW f2, IdsOnce(fl), Among(f2, fl), NEW c \in Phys, fl[c].tag # "swap",
           \A p, q \in Phys : fl[p].tag = "swap" /\ fl[q].tag = "swap" => p = q,
           \A s \in Slots : f2[c].rec[s].st # "whole",
           \A p \in Phys : \A s \in Slots : fl[p].tag = "swap" /\ fl[p].rec[s].st = "whole" =>
              \E t \in Slots : fl[c].rec[t] = fl[p].rec[s]
    PROVE  IdsOnce(f2)
<1> SUFFICES ASSUME NEW p \in Phys, NEW q \in Phys, NEW s \in Slots, NEW t \in Slots,
                    f2[p].rec[s].st = "whole", f2[q].rec[t].st = "whole",
                    f2[p].rec[s].id = f2[q].rec[t].id
             PROVE  p = q /\ s = t
    BY DEF IdsOnce
<1>1. /\ fl[p].rec[s] = f2[p].rec[s] /\ fl[q].rec[t] = f2[q].rec[t]
      /\ fl[p].rec[s].st = "whole" /\ fl[q].rec[t].st = "whole"
      /\ fl[p].rec[s].id = fl[q].rec[t].id
      /\ p # c /\ q # c
    BY DEF Among
<1>2. ASSUME NEW a \in Phys, NEW b \in Phys, NEW m \in Slots, NEW n \in Slots,
             fl[a].tag = "swap", fl[b].tag # "swap", b # c,
             fl[a].rec[m].st = "whole", fl[b].rec[n].st = "whole",
             fl[a].rec[m].id = fl[b].rec[n].id
      PROVE  FALSE
  <2>1. PICK k \in Slots : fl[c].rec[k] = fl[a].rec[m]
    BY <1>2
  <2>2. fl[c].rec[k].st = "whole" /\ fl[c].rec[k].id = fl[b].rec[n].id
    BY <2>1, <1>2
  <2> QED
    BY <2>2, <1>2, TwiceIs DEF MayBeTwice
<1>3. \/ p = q /\ s = t
      \/ MayBeTwice(fl, p, q) \/ MayBeTwice(fl, q, p)
    BY <1>1, TwiceIs
<1> QED
    BY <1>1, <1>2, <1>3 DEF MayBeTwice

\* ... a place is written over with what is no whole record or has an id of its own: ...
LEMMA OnceWrite ==
    ASSUME NEW fl, NEW f2, IdsOnce(fl), NEW a \in Phys, NEW m \in Slots,
           \A p \in Phys : f2[p].tag = fl[p].tag,
           \A p \in Phys : \A s \in Slots : p # a \/ s # m => f2[p].rec[s] = fl[p].rec[s],
           f2[a].rec[m].st = "whole" =>
              \A p \in Phys : \A s \in Slots :
                 fl[p].rec[s].st = "whole" => fl[p].rec[s].id # f2[a].rec[m].id
    PROVE  IdsOnce(f2)
<1> SUFFICES ASSUME NEW p \in Phys, NEW q \in Phys, NEW s \in Slots, NEW t \in Slots,
                    f2[p].rec[s].st = "whole", f2[q].rec[t].st = "whole",
                    f2[p].rec[s].id = f2[q].rec[t].id
             PROVE  \/ p = q /\ s = t
                    \/ /\ f2[p].rec[s] = f2[q].rec[t]
                       /\ MayBeTwice(f2, p, q) \/ MayBeTwice(f2, q, p)
    BY DEF IdsOnce
<1>1. CASE (p # a \/ s # m) /\ (q # a \/ t # m)
  <2>1. f2[p].rec[s] = fl[p].rec[s] /\ f2[q].rec[t] = fl[q].rec[t]
    BY <1>1
  <2> QED
    BY <2>1, TwiceIs DEF MayBeTwice
<1>2. CASE p = a /\ s = m
    BY <1>2
<1>3. CASE q = a /\ t = m
    BY <1>3
<1> QED
    BY <1>1, <1>2, <1>3

\* ... or with a copy, on the swap page w, of place n of page c, of which there is no other.
LEMMA OnceCopy ==
    ASSUME NEW fl, NEW f2, IdsOnce(fl), NEW w \in Phys, NEW m \in Slots, NEW c \in Phys,
           NEW n \in Slots, w # c,
           \A p \in Phys : f2[p].tag = fl[p].tag,
           \A p \in Phys : \A s \in Slots : p # w \/ s # m => f2[p].rec[s] = fl[p].rec[s],
           f2[w].rec[m] = fl[c].rec[n], fl[c].rec[n].st = "whole",
           fl[w].tag = "swap", \A p \in Phys : p # w => fl[p].tag = "data",
           \A s \in Slots : s # m /\ fl[w].rec[s].st = "whole" =>
               fl[w].rec[s].id # fl[c].rec[n].id
    PROVE  IdsOnce(f2)
<1>1. \A x \in Phys : f2[x].tag # "erased"
    OBVIOUS
<1>2. ASSUME NEW q \in Phys, NEW t \in Slots, q # w \/ t # m, fl[q].rec[t].st = "whole",
             fl[q].rec[t].id = fl[c].rec[n].id
      PROVE  q = c /\ t = n
  <2>1. q # w
    BY <1>2
  <2>2. fl[q].tag = "data" /\ fl[c].tag = "data"
    BY <2>1
  <2> QED
    BY <2>2, <1>2, TwiceIs DEF MayBeTwice
<1> SUFFICES ASSUME NEW p \in Phys, NEW q \in Phys, NEW s \in Slots, NEW t \in Slots,
                    f2[p].rec[s].st = "whole", f2[q].rec[t].st = "whole",
                    f2[p].rec[s].id = f2[q].rec[t].id
             PROVE  \/ p = q /\ s = t
                    \/ /\ f2[p].rec[s] = f2[q].rec[t]
                       /\ MayBeTwice(f2, p, q) \/ MayBeTwice(f2, q, p)
    BY DEF IdsOnce
<1>3. CASE (p # w \/ s # m) /\ (q # w \/ t # m)
  <2>1. f2[p].rec[s] = fl[p].rec[s] /\ f2[q].rec[t] = fl[q].rec[t]
    BY <1>3
  <2> QED
    BY <2>1, TwiceIs DEF MayBeTwice
<1>4. CASE p = w /\ s = m /\ (q # w \/ t # m)
  <2>1. f2[q].rec[t] = fl[q].rec[t]
    BY <1>4
  <2>2. q = c /\ t = n
    BY <2>1, <1>2, <1>4
  <2> QED
    BY <2>1, <2>2, <1>1, <1>4 DEF MayBeTwice
<1>5. CASE q = w /\ t = m /\ (p # w \/ s # m)
  <2>1. f2[p].rec[s] = fl[p].rec[s]
    BY <1>5
  <2>2. p = c /\ s = n
    BY <2>1, <1>2, <1>5
  <2> QED
    BY <2>1, <2>2, <1>1, <1>5 DEF MayBeTwice
<1> QED
    BY <1>3, <1>4, <1>5

-------------------------------------------------------------------------------
(* The ids that are given to operations                                      *)

\* the operations keep their ids, and one that has used its own stays so
SameIds ==
    /\ Len(queue') = Len(queue) /\ latest' = latest
    /\ \A k \in 1 .. Len(queue) :
          /\ queue'[k].id = queue[k].id /\ queue'[k].op = queue[k].op
          /\ Unused(k)' => Unused(k)

\* an id that was given, to an operation that uses it now if it is still queued
Given(id) ==
    id <= latest /\ \A k \in 1 .. Len(queue) : queue[k].id = id => ~Unused(k)'

\* the ids in flash are those that were there, or such an id
IdsKept ==
    \A p \in Phys : \A s \in Slots : Done'[p].rec[s].st = "whole" =>
       \/ Given(Done'[p].rec[s].id)
       \/ \E q \in Phys : \E t \in Slots :
             flash[q].rec[t].st = "whole" /\ flash[q].rec[t].id = Done'[p].rec[s].id

LEMMA QueueIdsStay ==
    ASSUME QueueIds, SameIds
    PROVE  QueueIds'
<1>1. \A k \in 1 .. Len(queue') :
         IF queue'[k].op \in {"write", "update"} THEN queue'[k].id \in 1 .. latest'
         ELSE queue'[k].id = 0
    BY DEF QueueIds, SameIds
<1>2. \A j, k \in 1 .. Len(queue') : queue'[j].id # 0 /\ queue'[j].id = queue'[k].id => j = k
    BY DEF QueueIds, SameIds
<1> QED
    BY <1>1, <1>2 DEF QueueIds

LEMMA FlashFresh ==
    ASSUME Fresh(flash), Bound(flash), SameIds, flash' = flash
    PROVE  Fresh(flash)' /\ Bound(flash)'
<1>1. Fresh(flash)'
    BY DEF Fresh, SameIds
<1>2. Bound(flash)'
    BY DEF Bound, SameIds
<1> QED
    BY <1>1, <1>2

LEMMA DoneFresh ==
    ASSUME Fresh(flash), Bound(flash), SameIds, IdsKept
    PROVE  Fresh(Done)' /\ Bound(Done)'
<1>1. ASSUME NEW p \in Phys, NEW s \in Slots, Done'[p].rec[s].st = "whole",
             NEW k \in 1 .. Len(queue), queue'[k].id # 0, Unused(k)'
      PROVE  Done'[p].rec[s].id # queue'[k].id
  <2>1. queue'[k].id = queue[k].id /\ Unused(k)
    BY <1>1 DEF SameIds
  <2>2. CASE Given(Done'[p].rec[s].id)
    BY <2>1, <2>2, <1>1 DEF Given
  <2>3. CASE \E q \in Phys : \E t \in Slots :
               flash[q].rec[t].st = "whole" /\ flash[q].rec[t].id = Done'[p].rec[s].id
    BY <2>1, <2>3, <1>1 DEF Fresh
  <2> QED
    BY <2>2, <2>3, <1>1 DEF IdsKept
<1>2. Len(queue') = Len(queue)
    BY DEF SameIds
<1>3. Fresh(Done)'
    BY <1>1, <1>2 DEF Fresh
<1>4. Bound(Done)'
    BY DEF Bound, SameIds, IdsKept, Given
<1> QED
    BY <1>3, <1>4

\* A flash operation is started: what is left is what it writes.
LEMMA StartIds ==
    ASSUME IdsInv, status # "off", busy = NoBusy, flash' = flash, SameIds,
           IdsOnce(Done'), IdsKept,
           status' = "ready" => Copies(flash)' /\ Copies(Done)'
    PROVE  IdsInv'
<1>1. QueueIds /\ IdsOnce(flash) /\ Fresh(flash) /\ Bound(flash)
    BY DEF IdsInv, Ids
<1>2. QueueIds'
    BY <1>1, QueueIdsStay
<1>3. Fresh(flash)' /\ Bound(flash)'
    BY <1>1, FlashFresh
<1>4. Fresh(Done)' /\ Bound(Done)'
    BY <1>1, DoneFresh
<1>5. IdsOnce(flash)' /\ IdsOnce(Done)'
    BY <1>1
<1> QED
    BY <1>2, <1>3, <1>4, <1>5 DEF IdsInv, Ids

\* None is started.
LEMMA RestIds ==
    ASSUME IdsInv, status # "off", busy = NoBusy, busy' = NoBusy, flash' = flash, SameIds,
           status' = "ready" => Copies(flash)'
    PROVE  IdsInv'
<1>1. Done' = flash'
    BY DoneIsFlash1
<1>2. IdsOnce(Done')
    BY <1>1 DEF IdsInv, Ids
<1>3. IdsKept
    BY <1>1 DEF IdsKept
<1>4. Copies(flash)' => Copies(Done)'
    BY <1>1 DEF Copies, CopyOf
<1> QED
    BY <1>2, <1>3, <1>4, StartIds

\* The copies stay where they are, when nothing is written.
LEMMA CopiesStay ==
    ASSUME Copies(flash), flash' = flash, GcType, swap' = swap,
           gc'.state = gc.state /\ gc'.cur = gc.cur /\ gc'.src = gc.src,
           \A i \in Index : pages'[i].phys = pages[i].phys
    PROVE  Copies(flash)'
<1>1. gc.cur \in Index
    BY DEF GcType
<1> QED
    BY <1>1 DEF Copies, CopyOf

\* queue_process is called: no flash operation is under way
LEMMA Called ==
    ASSUME IInv, IdsInv, loop.at = "run", status # "off"
    PROVE  /\ busy = NoBusy /\ Done = flash /\ queue # <<>>
           /\ QueueOK /\ GcType /\ PagesOK /\ flash \in FlashType
           /\ gc.cur \in Index /\ gc.src \in Nat /\ \A s \in Slots : s \in Nat
           /\ swap.phys \in Phys /\ \A i \in Index : pages[i].phys \in Phys
           /\ IdsOnce(flash) /\ (status = "ready" => Copies(flash))
<1>1. LoopOK /\ PagesOK /\ QueueOK /\ GcType /\ FlashOK(flash)
    BY DEF IInv, Control
<1>2. busy = NoBusy /\ queue # <<>>
    BY <1>1 DEF LoopOK
<1>3. gc.cur \in Index /\ gc.src \in Nat /\ \A s \in Slots : s \in Nat
    BY <1>1 DEF GcType, Slots
<1>4. swap.phys \in Phys /\ \A i \in Index : pages[i].phys \in Phys
    BY <1>1 DEF PagesOK
<1>5. flash \in FlashType
    BY <1>1 DEF FlashOK, Consistent
<1> QED
    BY <1>1, <1>2, <1>3, <1>4, <1>5, DoneIsFlash DEF IdsInv, Ids

\* A place is written that is not on the page collected, or not copied yet.
LEMMA SlotIds ==
    ASSUME IInv, IdsInv, status = "ready", loop.at = "run",
           NEW j \in Index, NEW t \in Slots, NEW r \in Slot,
           Executes(WriteSlot(pages[j].phys, t, r)), UNCHANGED <<flash, swap, gc>>,
           \A i \in Index : pages'[i].phys = pages[i].phys,
           j = gc.cur => gc.state # "erase" /\ (gc.state = "copy" => t > gc.src),
           SameIds,
           r.st = "whole" =>
              /\ Given(r.id)
              /\ \A p \in Phys : \A s \in Slots :
                    flash[p].rec[s].st = "whole" => flash[p].rec[s].id # r.id
    PROVE  IdsInv'
<1> DEFINE f2 == Done'
           a == pages[j].phys
<1>1. /\ busy = NoBusy /\ GcType /\ PagesOK /\ flash \in FlashType
      /\ gc.cur \in Index /\ swap.phys \in Phys /\ gc.src \in Nat /\ \A s \in Slots : s \in Nat
      /\ a \in Phys /\ IdsOnce(flash) /\ Copies(flash)
    BY Called
<1>2. f2 = Applied(flash, WriteSlot(a, t, r))
    BY DEF Executes, Done
<1>3. /\ f2[a].tag = flash[a].tag
      /\ f2[a].rec[t] = r
      /\ \A u \in Slots : u # t => f2[a].rec[u] = flash[a].rec[u]
      /\ \A p \in Phys : p # a => f2[p] = flash[p]
  <2> HIDE DEF f2, a
  <2> QED
    BY <1>1, <1>2, SlotEffect
<1>4. /\ \A p \in Phys : f2[p].tag = flash[p].tag
      /\ \A p \in Phys : \A s \in Slots : p # a \/ s # t => f2[p].rec[s] = flash[p].rec[s]
    BY <1>3
<1>5. IdsOnce(f2)
  <2> HIDE DEF f2, a
  <2> QED
    BY <1>1, <1>3, <1>4, OnceWrite
<1>6. IdsKept
    BY <1>3, <1>4 DEF IdsKept
<1>7. Copies(flash)'
    BY <1>1, CopiesStay
<1>8. a # swap.phys /\ \A i \in Index : i # j => pages[i].phys \in Phys /\ pages[i].phys # a
    BY <1>1 DEF PagesOK
<1>9. \A u \in Slots : (gc.state = "copy" /\ u < gc.src) \/ gc.state = "erase" =>
          f2[pages[gc.cur].phys].rec[u] = flash[pages[gc.cur].phys].rec[u]
  <2>1. CASE gc.cur = j
    BY <2>1, <1>1, <1>3
  <2>2. CASE gc.cur # j
    BY <2>2, <1>1, <1>3, <1>8
  <2> QED
    BY <2>1, <2>2
<1>10. f2[swap.phys] = flash[swap.phys]
    BY <1>1, <1>3, <1>8
<1>11. gc.state = "erase" => f2[pages[gc.cur].phys] = flash[pages[gc.cur].phys]
    BY <1>1, <1>3, <1>8
<1>12. Copies(Done)'
  <2>1. gc'.state = "copy" => \A s \in Slots : s < swap'.offset => CopyOf(Done, s, gc.src)'
    BY <1>1, <1>9, <1>10 DEF Copies, CopyOf
  <2>2. gc'.state = "erase" => \/ Done'[pages'[gc'.cur].phys] = ErasedPage
                               \/ \A s \in Slots : s < swap'.offset => CopyOf(Done, s, gc.src + 1)'
    <3> SUFFICES ASSUME gc.state = "erase"
                 PROVE  \/ f2[pages'[gc.cur].phys] = ErasedPage
                        \/ \A s \in Slots : s < swap.offset => CopyOf(Done, s, gc.src + 1)'
      OBVIOUS
    <3>1. pages'[gc.cur].phys = pages[gc.cur].phys
      BY <1>1
    <3>2. f2[pages[gc.cur].phys] = flash[pages[gc.cur].phys]
      BY <1>11
    <3>3. CASE flash[pages[gc.cur].phys] = ErasedPage
      BY <3>1, <3>2, <3>3, SMTT(30)
    <3>4. CASE \A s \in Slots : s < swap.offset => CopyOf(flash, s, gc.src + 1)
      <4> SUFFICES ASSUME NEW s \in Slots, s < swap.offset
                   PROVE  CopyOf(Done, s, gc.src + 1)'
        OBVIOUS
      <4>1. PICK u \in Slots : /\ u < gc.src + 1
                               /\ flash[swap.phys].rec[s] = flash[pages[gc.cur].phys].rec[u]
        BY <3>4 DEF CopyOf
      <4>2. f2[swap.phys].rec[s] = f2[pages'[gc.cur].phys].rec[u]
        BY <4>1, <3>1, <3>2, <1>10
      <4> HIDE DEF f2
      <4> QED
        BY <4>1, <4>2 DEF CopyOf, f2
    <3> QED
      BY <1>1, <3>3, <3>4 DEF Copies
  <2> QED
    BY <2>1, <2>2 DEF Copies
<1> QED
    BY <1>1, <1>5, <1>6, <1>7, <1>12, StartIds

-------------------------------------------------------------------------------
(* Writing and deleting                                                      *)

\* a step of the first operation, or none
LEMMA StepIds ==
    ASSUME QueueOK, queue # <<>>, loop.at = "run", latest' = latest,
           \/ queue' = queue
           \/ \E s \in Steps : /\ Step(s)
                               /\ s \in {"begin", "find", "final"} =>
                                     Cur.step \in {"begin", "find", "final"}
    PROVE  SameIds
<1>1. CASE queue' = queue
    BY <1>1 DEF SameIds, Unused
<1>2. ASSUME NEW s \in Steps, Step(s),
             s \in {"begin", "find", "final"} => Cur.step \in {"begin", "find", "final"}
      PROVE  SameIds
  <2>1. /\ Len(queue') = Len(queue) /\ Cur' = queue'[1] /\ Cur = queue[1]
        /\ \A k \in 1 .. Len(queue) : k > 1 => queue'[k] = queue[k]
        /\ Cur'.step = s /\ Cur'.op = Cur.op /\ Cur'.id = Cur.id
    BY <1>2, StepIs
  <2> SUFFICES ASSUME NEW k \in 1 .. Len(queue)
               PROVE  /\ queue'[k].id = queue[k].id /\ queue'[k].op = queue[k].op
                      /\ Unused(k)' => Unused(k)
    BY <2>1 DEF SameIds
  <2>2. CASE k = 1
    BY <2>1, <2>2, <1>2 DEF Unused
  <2>3. CASE k # 1
    <3>1. k > 1
      BY <2>3
    <3> QED
      BY <3>1, <2>1 DEF Unused
  <2> QED
    BY <2>2, <2>3
<1> QED
    BY <1>1, <1>2

\* a record is flagged as dirty
LEMMA FlagIds ==
    ASSUME IInv, IdsInv, status = "ready", loop.at = "run", NEW d \in [page : Index, slot : Slots],
           FlagDirty(d), Sound', UNCHANGED <<flash, swap, gc>>, SameIds
    PROVE  IdsInv'
<1>1. /\ PagesOK /\ flash \in FlashType /\ gc.src \in Nat /\ \A s \in Slots : s \in Nat
      /\ \A i \in Index : pages[i].phys \in Phys
    BY Called
<1> DEFINE j == d.page
           t == d.slot
           r == [At(d) EXCEPT !.st = "dirty"]
<1>2. /\ Executes(WriteSlot(pages[j].phys, t, r)) /\ ~Stale(d)
      /\ pages' = [pages EXCEPT ![j].canGc = TRUE]
    BY DEF FlagDirty, Met, Sound
<1>3. j \in Index /\ t \in Slots /\ t \in Nat
    BY <1>1
<1>4. At(d) \in Slot
    BY <1>1, <1>3 DEF At, FlashType
<1>5. r \in Slot /\ r.st = "dirty"
    BY <1>4 DEF Slot
<1>6. j = gc.cur => gc.state # "erase" /\ (gc.state = "copy" => t > gc.src)
    BY <1>1, <1>2, <1>3 DEF Stale
<1>7. \A i \in Index : pages'[i].phys = pages[i].phys
    BY <1>1, <1>2, <1>3 DEF PagesOK
<1> HIDE DEF j, t, r
<1> QED
    BY <1>2, <1>3, <1>5, <1>6, <1>7, SlotIds

\* what a write or an update writes
LEMMA WriteToIds ==
    ASSUME IInv, IdsInv, status = "ready", loop.at = "run", NEW i \in Index, NEW r \in Slot,
           pages[i].offset \in Slots, WriteTo(i, r), Sound', UNCHANGED <<flash, swap, gc, pages>>,
           SameIds,
           r.st = "whole" =>
              /\ Given(r.id)
              /\ \A p \in Phys : \A s \in Slots :
                    flash[p].rec[s].st = "whole" => flash[p].rec[s].id # r.id
    PROVE  IdsInv'
<1> DEFINE t == pages[i].offset
<1>1. /\ gc.src \in Nat /\ t \in Nat
    BY Called
<1>2. Executes(WriteSlot(pages[i].phys, t, r)) /\ ~Stale([page |-> i, slot |-> t])
    BY DEF WriteTo, Met, Sound
<1>3. i = gc.cur => gc.state # "erase" /\ (gc.state = "copy" => t > gc.src)
    BY <1>1, <1>2 DEF Stale
<1> HIDE DEF t
<1>4. t \in Slots
    BY DEF t
<1> QED
    BY <1>2, <1>3, <1>4, SlotIds

\* an operation ends
LEMMA EndIds ==
    ASSUME IInv, IdsInv, status # "off", loop.at = "run", NEW ret, Ends(ret),
           UNCHANGED <<flash, swap, gc, latest, queue>>,
           \A i \in Index : pages'[i].phys = pages[i].phys,
           status' = "ready" => status = "ready"
    PROVE  IdsInv'
<1>1. busy' = NoBusy
    BY Called DEF Ends
<1>2. SameIds
    BY Called, StepIds
<1>3. status' = "ready" => Copies(flash)'
    BY Called, CopiesStay
<1> QED
    BY <1>1, <1>2, <1>3, Called, RestIds

LEMMA WriteExecuteIds ==
    ASSUME IInv, IdsInv, WriteExecute, Sound'
    PROVE  IdsInv'
<1> DEFINE i == Cur.page
<1>1. /\ loop.at = "run" /\ (Cur.op = "write" \/ Cur.op = "update")
      /\ UNCHANGED <<flash, status, swap, gc, latest>>
    BY DEF WriteExecute, Process
<1>2. QueueOK /\ queue # <<>> /\ status = "ready"
  <2>1. queue # <<>> /\ QueueOK
    BY <1>1 DEF IInv, Control, LoopOK, NoBusy
  <2> QED
    BY <2>1, <1>1 DEF IInv, Control, StatusOK, Head1
<1>3. i \in Index /\ PagesOK
    BY <1>1, <1>2, HeadIs, IInvReady
<1>4. pages[i].offset \in Slots /\ pages[i].reserved >= 1 /\ pages[i].offset <= PageSlots
    BY <1>1, <1>2, <1>3, OffsetInSlots
<1>5. CASE pages' = OffsetsUpdate(pages, i) /\ (\E ret : Ends(ret)) /\ UNCHANGED queue
  <2>1. \A j \in Index : pages'[j].phys = pages[j].phys
    BY <1>1, <1>3, <1>4, <1>5, OffsetsIs
  <2> QED
    BY <2>1, <1>1, <1>2, <1>5, EndIds
<1>6. CASE Ends("notFound") /\ UNCHANGED <<queue, pages, desc>>
    BY <1>1, <1>2, <1>6, EndIds
<1>7. CASE Cur.step \in {"find", "begin"} /\ Step("final") /\ WriteTo(i, Begun) /\ UNCHANGED pages
  <2>1. Begun \in Slot /\ Begun.st = "begun"
    BY DEF Begun, ErasedSlot, Slot
  <2>2. SameIds
    BY <1>1, <1>2, <1>7, StepIds DEF Steps
  <2> HIDE DEF i
  <2> QED
    BY <2>1, <2>2, <1>1, <1>2, <1>3, <1>4, <1>7, WriteToIds
<1>8. CASE /\ Cur.step = "final"
           /\ Step(IF Cur.op = "update" THEN "flag" ELSE "done")
           /\ WriteTo(i, [st |-> "whole", id |-> Cur.id, file |-> Cur.file])
           /\ UNCHANGED pages
  <2> DEFINE r == [st |-> "whole", id |-> Cur.id, file |-> Cur.file]
             s == IF Cur.op = "update" THEN "flag" ELSE "done"
  <2>1. r \in Slot /\ r.st = "whole" /\ r.id = Cur.id
    BY <1>2, HeadIs DEF Operation, Slot
  <2>2. s \in Steps /\ s \notin {"begin", "find", "final"}
    BY DEF Steps
  <2> HIDE DEF r, s
  <2>3. Step(s) /\ WriteTo(i, r)
    BY <1>8 DEF r, s
  <2>4. SameIds
    BY <2>2, <2>3, <1>1, <1>2, StepIds
  <2>5. Len(queue) \in Nat /\ Len(queue) >= 1 /\ Cur = queue[1] /\ Cur' = queue'[1] /\ Cur'.step = s
    BY <2>2, <2>3, <1>2, StepIs DEF QueueOK
  <2>6. QueueIds /\ Fresh(flash) /\ Cur.id \in 1 .. latest
    BY <2>5, <1>1 DEF IdsInv, Ids, QueueIds
  <2>7. latest \in Nat
    BY DEF IInv, Control
  <2>8. Given(r.id)
    <3>1. ASSUME NEW k \in 1 .. Len(queue), queue[k].id = Cur.id
          PROVE  ~Unused(k)'
      <4>1. k = 1
        BY <3>1, <2>5, <2>6, <2>7 DEF QueueIds
      <4> QED
        BY <4>1, <2>2, <2>5 DEF Unused
    <3> QED
      BY <3>1, <2>1, <2>6, <2>7 DEF Given
  <2>9. \A p \in Phys : \A t \in Slots :
           flash[p].rec[t].st = "whole" => flash[p].rec[t].id # r.id
    <3>1. Unused(1) /\ Cur.id # 0 /\ 1 \in 1 .. Len(queue)
      BY <2>5, <2>6, <2>7, <1>1, <1>8 DEF Unused
    <3> QED
      BY <3>1, <2>1, <2>5, <2>6 DEF Fresh
  <2> HIDE DEF i
  <2> QED
    BY <2>1, <2>3, <2>4, <2>8, <2>9, <1>1, <1>2, <1>3, <1>4, <1>8, WriteToIds
<1>9. CASE Cur.step = "flag" /\ loop.ret = "success" /\ Step("done") /\ FlagDirty(desc)
  <2>1. Cur.op = "update"
    BY <1>1, <1>2, <1>9, HeadIs DEF OpOK
  <2>2. Writing = i /\ Going /\ IsReady /\ i # 0
    BY <2>1, <1>1, <1>2, <1>3, <1>9, IInvReady DEF Writing, Head1, Going, Index
  <2>3. desc \in [page : Index, slot : Slots]
    BY <2>1, <2>2, <1>9 DEF IsReady, WriteResult
  <2>4. SameIds
    BY <1>1, <1>2, <1>9, StepIds DEF Steps
  <2> QED
    BY <2>3, <2>4, <1>1, <1>2, <1>9, FlagIds
<1> QED
    BY <1>5, <1>6, <1>7, <1>8, <1>9 DEF WriteExecute

LEMMA DeleteExecuteIds ==
    ASSUME IInv, IdsInv, DeleteExecute, Sound'
    PROVE  IdsInv'
<1>1. loop.at = "run" /\ Cur.op = "delete" /\ UNCHANGED <<flash, status, swap, gc, latest>>
    BY DEF DeleteExecute, Process
<1>2. QueueOK /\ queue # <<>> /\ status = "ready"
  <2>1. queue # <<>> /\ QueueOK
    BY <1>1 DEF IInv, Control, LoopOK, NoBusy
  <2> QED
    BY <2>1, <1>1 DEF IInv, Control, StatusOK, Head1
<1>3. CASE (\E ret : Ends(ret)) /\ UNCHANGED <<queue, pages, damage>>
    BY <1>1, <1>2, <1>3, EndIds
<1>4. CASE Found(Cur.old) # {} /\ Step("done") /\ FlagDirty(First(Found(Cur.old)))
  <2>1. First(Found(Cur.old)) \in [page : Index, slot : Slots]
    BY <1>4, FoundIs
  <2>2. SameIds
    BY <1>1, <1>2, <1>4, StepIds DEF Steps
  <2> QED
    BY <2>1, <2>2, <1>1, <1>2, <1>4, FlagIds
<1> QED
    BY <1>3, <1>4 DEF DeleteExecute

LEMMA DeleteFileExecuteIds ==
    ASSUME IInv, IdsInv, DeleteFileExecute, Sound'
    PROVE  IdsInv'
<1>1. /\ loop.at = "run" /\ Cur.op = "deleteFile"
      /\ UNCHANGED <<flash, status, swap, gc, latest, queue>>
    BY DEF DeleteFileExecute, Process
<1>2. QueueOK /\ queue # <<>> /\ status = "ready"
  <2>1. queue # <<>> /\ QueueOK
    BY <1>1 DEF IInv, Control, LoopOK, NoBusy
  <2> QED
    BY <2>1, <1>1 DEF IInv, Control, StatusOK, Head1
<1>3. CASE (\E ret : Ends(ret)) /\ UNCHANGED pages
    BY <1>1, <1>2, <1>3, EndIds
<1>4. CASE FoundInFile(Cur.file) # {} /\ FlagDirty(First(FoundInFile(Cur.file)))
  <2>1. First(FoundInFile(Cur.file)) \in [page : Index, slot : Slots]
    BY <1>4, FoundInFileIs
  <2>2. SameIds
    BY <1>1, <1>2, StepIds
  <2> QED
    BY <2>1, <2>2, <1>1, <1>2, <1>4, FlagIds
<1> QED
    BY <1>3, <1>4 DEF DeleteFileExecute

-------------------------------------------------------------------------------
(* Tags and erasures                                                         *)

\* The records are where they were when a tag is written.
LEMMA TagIds ==
    ASSUME IInv, IdsInv, status # "off", loop.at = "run",
           NEW p \in Phys, NEW t, t = "swap" \/ t = "data", Executes(Tag(p, t)), flash' = flash,
           SameIds,
           \/ \E x \in Phys : flash[x].tag = "erased"
           \/ \A s \in Slots : flash[p].rec[s].st # "whole",
           status' = "ready" => gc'.state \notin {"copy", "erase"}
    PROVE  IdsInv'
<1> DEFINE f2 == Done'
<1>1. busy = NoBusy /\ flash \in FlashType /\ IdsOnce(flash)
    BY Called
<1>2. f2 = Applied(flash, Tag(p, t))
    BY DEF Executes, Done
<1>3. /\ f2[p].rec = flash[p].rec
      /\ f2[p].tag = TagOver(flash[p].tag, t)
      /\ \A q \in Phys : q # p => f2[q] = flash[q]
  <2> HIDE DEF f2
  <2> QED
    BY <1>1, <1>2, TagEffect
<1>4. \A q \in Phys : f2[q].rec = flash[q].rec
    BY <1>3
<1>5. Among(f2, flash)
    BY <1>4 DEF Among
<1>6. IdsOnce(f2)
  <2>1. CASE \E x \in Phys : flash[x].tag = "erased"
    <3> HIDE DEF f2
    <3> QED
      BY <2>1, <1>1, <1>5, OnceTag
  <2>2. CASE ~\E x \in Phys : flash[x].tag = "erased"
    <3>1. f2[p].tag # "erased"
      BY <1>3 DEF TagOver
    <3>2. \A x \in Phys : f2[x].tag # "erased"
      BY <3>1, <2>2, <1>3
    <3>3. \A q \in Phys : \A s \in Slots : f2[q].rec[s].st = "whole" => f2[q].tag = flash[q].tag
      BY <2>2, <1>3, <1>4
    <3> HIDE DEF f2
    <3> QED
      BY <3>2, <3>3, <1>1, <1>5, OnceTag
  <2> QED
    BY <2>1, <2>2
<1>7. IdsKept
    BY <1>4 DEF IdsKept
<1>8. status' = "ready" => Copies(flash)' /\ Copies(Done)'
    BY DEF Copies
<1> QED
    BY <1>1, <1>6, <1>7, <1>8, StartIds

\* Records are lost with their page.
LEMMA EraseIds ==
    ASSUME IInv, IdsInv, status # "off", loop.at = "run",
           NEW p \in Phys, Executes(Erase(p)), flash' = flash, SameIds,
           \/ \A q \in Phys : flash[q].tag = "swap" => q = p
           \/ flash[p] = ErasedPage
           \/ /\ flash[p].tag # "swap"
              /\ \A q \in Phys : \A s \in Slots :
                    flash[q].tag = "swap" /\ flash[q].rec[s].st = "whole" =>
                       \E t \in Slots : flash[p].rec[t] = flash[q].rec[s],
           status' = "ready" => Copies(flash)' /\ Copies(Done)'
    PROVE  IdsInv'
<1> DEFINE f2 == Done'
<1>1. /\ busy = NoBusy /\ flash \in FlashType /\ IdsOnce(flash)
      /\ \A q, r \in Phys : flash[q].tag = "swap" /\ flash[r].tag = "swap" => q = r
  <2>1. Consistent(flash)
    BY DEF IInv, FlashOK
  <2> QED
    BY <2>1, Called DEF Consistent
<1>2. f2 = Applied(flash, Erase(p))
    BY DEF Executes, Done
<1>3. /\ f2[p] = ErasedPage
      /\ \A q \in Phys : q # p => f2[q] = flash[q]
  <2> HIDE DEF f2
  <2> QED
    BY <1>1, <1>2, EraseEffect
<1>4. \A s \in Slots : f2[p].rec[s].st # "whole"
    BY <1>3, ErasedType
<1>5. \A q \in Phys : \A s \in Slots : f2[q].rec[s].st = "whole" => q # p /\ f2[q] = flash[q]
    BY <1>3, <1>4
<1>6. Among(f2, flash)
    BY <1>5 DEF Among
<1>7. IdsOnce(f2)
  <2>1. CASE \A q \in Phys : flash[q].tag = "swap" => q = p
    <3>1. \A q \in Phys : \A s \in Slots : f2[q].rec[s].st = "whole" => flash[q].tag # "swap"
      BY <2>1, <1>5
    <3> HIDE DEF f2
    <3> QED
      BY <3>1, <1>1, <1>6, OnceSwap
  <2>2. CASE flash[p] = ErasedPage
    <3>1. flash[p].tag = "erased"
      BY <2>2, ErasedType
    <3> HIDE DEF f2
    <3> QED
      BY <3>1, <1>1, <1>6, OnceTag
  <2>3. CASE /\ flash[p].tag # "swap"
             /\ \A q \in Phys : \A s \in Slots :
                   flash[q].tag = "swap" /\ flash[q].rec[s].st = "whole" =>
                      \E t \in Slots : flash[p].rec[t] = flash[q].rec[s]
    <3> HIDE DEF f2
    <3> QED
      BY <2>3, <1>1, <1>4, <1>6, OnceErase
  <2> QED
    BY <2>1, <2>2, <2>3
<1>8. IdsKept
    BY <1>5 DEF IdsKept
<1> QED
    BY <1>1, <1>7, <1>8, StartIds

-------------------------------------------------------------------------------
(* fds_init                                                                  *)

\* The ids go on from the last one that is found.
LEMMA FdsInitIds ==
    ASSUME IInv, IdsInv, FdsInit
    PROVE  IdsInv'
<1>1. /\ status = "off" /\ queue = <<>> /\ busy = NoBusy /\ Consistent(flash) /\ IdsOnce(flash)
    BY DEF IInv, Control, IsOff, FdsInit, StatusOK, FlashOK, IdsInv, Ids
<1>2. /\ flash' = flash /\ Done' = flash' /\ latest' = LastId /\ gc'.state = "begin"
    BY <1>1, DoneIsFlash1 DEF FdsInit, NoGc
<1>3. queue' = <<>> \/ queue' = <<Op("init", InitStep)>>
    BY <1>1 DEF FdsInit
<1>4. QueueIds' /\ \A k \in 1 .. Len(queue') : queue'[k].id = 0
  <2>1. CASE queue' = <<>>
    BY <2>1 DEF QueueIds
  <2>2. CASE queue' = <<Op("init", InitStep)>>
    <3> DEFINE o == Op("init", InitStep)
    <3>1. o.op = "init" /\ o.id = 0
      BY DEF Op
    <3> HIDE DEF o
    <3>2. Len(queue') = 1 /\ queue'[1] = o
      BY <2>2 DEF o
    <3> QED
      BY <3>1, <3>2 DEF QueueIds
  <2> QED
    BY <2>1, <2>2, <1>3
<1>5. \A p \in Phys : \A s \in Slots : flash[p].rec[s].st = "whole" => flash[p].rec[s].id <= LastId
  <2> SUFFICES ASSUME NEW p \in Phys, NEW s \in Slots, flash[p].rec[s].st = "whole"
               PROVE  flash[p].rec[s].id <= LastId
    OBVIOUS
  <2>1. InOrder(flash[p]) /\ p # 0
    BY <1>1 DEF Consistent, Phys
  <2>2. s \in Nat /\ s >= 1 /\ s <= PageSlots /\ PageSlots \in Nat
    BY FdsAssumption DEF Slots
  <2>3. ASSUME NEW t \in 1 .. s, flash[p].rec[t].st = "erased"
        PROVE  FALSE
    <3>1. t \in Slots /\ (s > t \/ s = t)
      BY <2>2 DEF Slots
    <3> QED
      BY <3>1, <2>1, <2>3 DEF InOrder
  <2>4. Valid(flash, p, s)
    BY <2>1, <2>3 DEF Valid, Reachable
  <2> DEFINE r == [id |-> flash[p].rec[s].id, file |-> flash[p].rec[s].file]
  <2>5. r \in RecordsOn(flash, p)
    BY <2>4 DEF RecordsOn, ValidSlots
  <2>6. r.id <= LastId
    <3> HIDE DEF r
    <3> QED
      BY <2>5, <1>1, LastIdIs
  <2> QED
    BY <2>6
<1>6. Bound(flash)' /\ Fresh(flash)' /\ Copies(flash)'
    BY <1>2, <1>4, <1>5 DEF Bound, Fresh, Copies
<1>7. Bound(Done)' /\ Fresh(Done)' /\ Copies(Done)'
    BY <1>2, <1>4, <1>5 DEF Bound, Fresh, Copies
<1>8. IdsOnce(flash)' /\ IdsOnce(Done)'
    BY <1>1, <1>2
<1> QED
    BY <1>4, <1>6, <1>7, <1>8 DEF IdsInv, Ids

\* init_execute
LEMMA InitExecuteIds ==
    ASSUME IInv, IdsInv, InitExecute, Sound'
    PROVE  IdsInv'
<1>1. Process({"init"}) /\ UNCHANGED <<flash, gc, latest>> /\ loop.at = "run"
    BY DEF InitExecute, users, counts, Process
<1>2. /\ status = "starting" /\ gc.state = "begin" /\ PagesOK /\ QueueOK /\ queue # <<>>
      /\ swap.phys \in Phys /\ gc.cur \in Index
      /\ \A i \in Index : pages[i].phys \in Phys /\ pages[i].phys # swap.phys
      /\ Consistent(flash)
      /\ loop.ret = "success" => InitOK(flash)
    BY <1>1, Starting DEF IsStarting, GcType, FlashOK
<1>3. CASE status' = "failed" /\ Ends("timeout") /\ UNCHANGED <<queue, pages, swap, damage>>
    BY <1>1, <1>2, <1>3, EndIds
<1>4. CASE loop.ret = "success" /\ Cur.step = "tagSwap" /\ Step("tagData")
           /\ Executes(Tag(swap.phys, "swap")) /\ UNCHANGED <<status, pages, swap, damage>>
  <2>1. SameIds
    BY <1>1, <1>2, <1>4, StepIds DEF Steps
  <2>2. flash[swap.phys].tag = "erased"
    BY <1>2, <1>4, ErasedType DEF InitOK
  <2> QED
    BY <2>1, <2>2, <1>1, <1>2, <1>4, TagIds
<1>5. CASE /\ loop.ret = "success" /\ Cur.step = "tagData"
           /\ IF \E i \in Index : pages[i].type = "erased"
              THEN LET i == Min({j \in Index : pages[j].type = "erased"})
                   IN /\ pages' = [pages EXCEPT ![i].type = "data"]
                      /\ Executes(Tag(pages[i].phys, "data"))
                      /\ UNCHANGED status
              ELSE /\ status' = "ready"
                   /\ Ends("success")
                   /\ UNCHANGED pages
           /\ UNCHANGED <<queue, swap, damage>>
  <2>1. SameIds
    BY <1>1, <1>2, <1>5, StepIds
  <2>2. CASE \E i \in Index : pages[i].type = "erased"
    <3> DEFINE S == {j \in Index : pages[j].type = "erased"}
    <3>1. Min(S) \in S
      <4>1. S \subseteq Nat /\ S # {}
        BY <2>2 DEF Index
      <4> HIDE DEF S
      <4> QED
        BY <4>1, MinIs
    <3> DEFINE i == Min(S)
    <3>2. i \in Index /\ pages[i].type = "erased"
      <4> HIDE DEF i
      <4>1. i \in S
        BY <3>1 DEF i
      <4> QED
        BY <4>1
    <3>3. Executes(Tag(pages[i].phys, "data")) /\ UNCHANGED status
      BY <2>2, <1>5
    <3> HIDE DEF i
    <3>4. flash[pages[i].phys].tag = "erased"
      BY <3>2, <1>2, <1>5 DEF InitOK
    <3> QED
      BY <2>1, <3>2, <3>3, <3>4, <1>1, <1>2, TagIds
  <2>3. CASE ~\E i \in Index : pages[i].type = "erased"
    <3>1. busy' = NoBusy /\ busy = NoBusy
      BY <2>3, <1>1, <1>2, <1>5, Called DEF Ends
    <3>2. Copies(flash)'
      BY <1>1, <1>2 DEF Copies
    <3> QED
      BY <2>1, <3>1, <3>2, <1>1, <1>2, RestIds
  <2> QED
    BY <2>2, <2>3
<1>6. CASE loop.ret = "success" /\ Cur.step = "eraseSwap" /\ Step("tagSwap")
           /\ swap' = [swap EXCEPT !.offset = 1] /\ Executes(Erase(swap.phys))
           /\ UNCHANGED <<status, pages, damage>>
  <2>1. SameIds
    BY <1>1, <1>2, <1>6, StepIds DEF Steps
  <2>2. flash[swap.phys].tag = "swap"
    BY <1>2, <1>6 DEF InitOK, SwapTag
  <2>3. \A q \in Phys : flash[q].tag = "swap" => q = swap.phys
    BY <2>2, <1>2 DEF Consistent
  <2> QED
    BY <2>1, <2>3, <1>1, <1>2, <1>6, EraseIds
<1>7. CASE /\ loop.ret = "success" /\ Cur.step = "promote" /\ Step("tagSwap")
           /\ Executes(Tag(swap.phys, "data"))
           /\ Met("promotion", pages[gc.cur].type # "erased")
           /\ UNCHANGED status
  <2>1. SameIds
    BY <1>1, <1>2, <1>7, StepIds DEF Steps
  <2>2. pages[gc.cur].type = "erased"
    BY <1>7 DEF Met, Sound
  <2>3. flash[pages[gc.cur].phys].tag = "erased"
    BY <2>2, <1>2, <1>7 DEF InitOK
  <2> QED
    BY <2>1, <2>3, <1>1, <1>2, <1>7, TagIds
<1> QED
    BY <1>1, <1>3, <1>4, <1>5, <1>6, <1>7 DEF InitExecute

-------------------------------------------------------------------------------
(* gc_execute                                                                *)

\* What the swap page has below its offset are copies of places of page i below n.
Copied(i, w, n) ==
    \A u \in Slots : u < w.offset =>
        \E t \in Slots : t < n /\ flash[swap.phys].rec[u] = flash[pages[i].phys].rec[t]

\* what a step of the collection finds
LEMMA GcCalled ==
    ASSUME IInv, IdsInv, Process({"gc"})
    PROVE  /\ status = "ready" /\ loop.at = "run" /\ busy = NoBusy /\ queue # <<>> /\ QueueOK
           /\ latest' = latest /\ queue' = queue => SameIds
           /\ gc.cur \in Index /\ gc.src \in Nat /\ IdsOnce(flash) /\ Copies(flash)
           /\ flash \in FlashType /\ swap.phys \in Phys
           /\ \A i \in Index : pages[i].phys \in Phys /\ pages[i].phys # swap.phys
           /\ \A p \in Phys : p = swap.phys \/ \E i \in Index : p = pages[i].phys
           /\ \A p, q \in Phys : flash[p].tag = "swap" /\ flash[q].tag = "swap" => p = q
<1>1. /\ status = "ready" /\ loop.at = "run" /\ queue # <<>> /\ QueueOK /\ PagesOK
      /\ Consistent(flash)
    BY Collecting DEF FlashOK
<1>2. latest' = latest /\ queue' = queue => SameIds
    BY <1>1, StepIds
<1>3. \A p \in Phys : p = swap.phys \/ \E i \in Index : p = pages[i].phys
    BY <1>1 DEF PagesOK
<1>4. \A i \in Index : pages[i].phys # swap.phys
    BY <1>1 DEF PagesOK
<1> QED
    BY <1>1, <1>2, <1>3, <1>4, Called DEF Consistent

\* a record is copied to the swap page
LEMMA CopyIds ==
    ASSUME IInv, IdsInv, Process({"gc"}),
           NEW g \in Cursor, NEW w \in [phys : Phys, offset : Offsets], NEW s \in Slots,
           CopyRecord(g, w, s), UNCHANGED <<flash, status, pages, latest, queue>>,
           w.phys = swap.phys, w.offset <= s, St(flash, g.cur, s) = "whole",
           SwapTag(flash) = "swap", EmptyFrom(flash, w.offset + 1),
           \A i \in Index : flash[pages[i].phys].tag = "data",
           Copied(g.cur, w, s)
    PROVE  IdsInv'
<1>1. PICK m \in Slots : m = w.offset
  <2>1. w.offset \in Nat /\ w.offset >= 1 /\ s \in Nat /\ s <= PageSlots /\ PageSlots \in Nat
    BY FdsAssumption DEF Slots, Offsets
  <2> QED
    BY <2>1 DEF Slots
<1>2. PICK a \in Phys : a = swap.phys
    BY GcCalled
<1>3. PICK c \in Phys : c = pages[g.cur].phys
    BY GcCalled DEF Cursor
<1>4. /\ status = "ready" /\ loop.at = "run" /\ busy = NoBusy /\ SameIds
      /\ IdsOnce(flash) /\ flash \in FlashType /\ a # c /\ g.cur \in Index
    BY <1>2, <1>3, GcCalled DEF Cursor
<1>5. /\ flash[a].tag = "swap" /\ flash[c].tag = "data"
      /\ \A p \in Phys : p # a => flash[p].tag = "data"
    BY <1>2, <1>3, <1>4, GcCalled DEF SwapTag
<1> DEFINE f2 == Done'
           r == flash[c].rec[s]
<1>6. r \in Slot /\ r.st = "whole"
    BY <1>3, <1>4 DEF St, FlashType
<1>7. f2 = Applied(flash, WriteSlot(a, m, r))
    BY <1>1, <1>2, <1>3 DEF CopyRecord, Executes, Done
<1>8. /\ f2[a].tag = flash[a].tag
      /\ f2[a].rec[m] = r
      /\ \A u \in Slots : u # m => f2[a].rec[u] = flash[a].rec[u]
      /\ \A p \in Phys : p # a => f2[p] = flash[p]
  <2> HIDE DEF f2, r
  <2> QED
    BY <1>4, <1>6, <1>7, SlotEffect
<1>9. m \in Nat /\ \A u \in Slots : u \in Nat
    BY DEF Slots
<1>10. \A u \in Slots : u < m =>
          \E t \in Slots : t < s /\ flash[a].rec[u] = flash[c].rec[t]
    BY <1>1, <1>2, <1>3 DEF Copied
<1>11. ASSUME NEW u \in Slots, u # m, flash[a].rec[u].st = "whole"
       PROVE  flash[a].rec[u].id # r.id
  <2>1. ~(u >= m + 1)
    <3>1. EmptyFrom(flash, m + 1)
      BY <1>1
    <3> QED
      BY <3>1, <1>2, <1>11 DEF EmptyFrom, SwapSt
  <2>2. u < m
    <3>1. u \in Nat /\ m \in Nat /\ u # m
      BY <1>9, <1>11
    <3> QED
      BY ONLY <3>1, <2>1
  <2>3. PICK t \in Slots : t < s /\ flash[a].rec[u] = flash[c].rec[t]
    BY <2>2, <1>10
  <2>4. t # s /\ flash[c].rec[t].st = "whole"
    BY <2>3, <1>9, <1>11
  <2>5. flash[c].rec[t].id # r.id
    <3>1. ~MayBeTwice(flash, c, c)
      BY <1>5 DEF MayBeTwice
    <3> QED
      BY <3>1, <2>4, <1>4, <1>6, TwiceIs
  <2> QED
    BY <2>3, <2>5
<1>12. IdsOnce(f2)
  <2>1. /\ \A p \in Phys : f2[p].tag = flash[p].tag
        /\ \A p \in Phys : \A u \in Slots : p # a \/ u # m => f2[p].rec[u] = flash[p].rec[u]
    BY <1>8
  <2>2. f2[a].rec[m] = flash[c].rec[s] /\ flash[c].rec[s].st = "whole"
        /\ \A u \in Slots : u # m /\ flash[a].rec[u].st = "whole" =>
               flash[a].rec[u].id # flash[c].rec[s].id
    BY <1>6, <1>8, <1>11
  <2>3. IdsOnce(flash) /\ a # c /\ flash[a].tag = "swap" /\ a \in Phys /\ c \in Phys
        /\ m \in Slots /\ s \in Slots /\ \A p \in Phys : p # a => flash[p].tag = "data"
    BY <1>4, <1>5
  <2> HIDE DEF f2, r
  <2> QED
    BY ONLY <2>1, <2>2, <2>3, OnceCopy
<1>13. IdsKept
    BY <1>6, <1>8 DEF IdsKept
<1>14. gc'.state = "copy" /\ gc'.cur = g.cur /\ gc'.src = s /\ swap' = w
    BY DEF CopyRecord, Cursor
<1>15. Copies(flash)'
    BY <1>1, <1>2, <1>3, <1>10, <1>14 DEF Copies, CopyOf
<1>16. Copies(Done)'
  <2>1. ASSUME NEW u \in Slots, u < m
        PROVE  \E t \in Slots : t < s /\ f2[a].rec[u] = f2[c].rec[t]
    BY <2>1, <1>4, <1>8, <1>9, <1>10
  <2> QED
    BY <2>1, <1>1, <1>2, <1>3, <1>14 DEF Copies, CopyOf
<1> QED
    BY <1>4, <1>12, <1>13, <1>15, <1>16, StartIds

\* the page that was copied is erased, or the copies are
LEMMA PageEraseIds ==
    ASSUME IInv, IdsInv, Process({"gc"}),
           NEW g \in Cursor, NEW w \in [phys : Phys, offset : Offsets], PageErase(g, w),
           UNCHANGED <<flash, status, pages, latest, queue>>,
           w.phys = swap.phys, SwapTag(flash) = "swap", EmptyFrom(flash, w.offset),
           \/ flash[pages[g.cur].phys] = ErasedPage
           \/ Copied(g.cur, w, g.src + 1)
    PROVE  IdsInv'
<1>1. PICK a \in Phys : a = swap.phys
    BY GcCalled
<1>2. PICK c \in Phys : c = pages[g.cur].phys
    BY GcCalled DEF Cursor
<1>3. /\ status = "ready" /\ loop.at = "run" /\ busy = NoBusy /\ SameIds
      /\ flash \in FlashType /\ a # c /\ g.cur \in Index
      /\ \A q \in Phys : flash[q].tag = "swap" => q = a
    BY <1>1, <1>2, GcCalled DEF Cursor, SwapTag
<1>4. CASE pages[g.cur].open = 0
  <2>1. /\ gc'.state = "erase" /\ gc'.cur = g.cur /\ gc'.src = g.src /\ swap' = w
        /\ Executes(Erase(c))
    BY <1>2, <1>4 DEF PageErase, Cursor
  <2>2. Done' = Applied(flash, Erase(c))
    BY <2>1 DEF Executes, Done
  <2>3. Done'[c] = ErasedPage
    BY <2>2, <1>3, EraseEffect
  <2>4. Copies(Done)'
    BY <2>1, <2>3, <1>2 DEF Copies
  <2>5. Copies(flash)'
    BY <2>1, <1>1, <1>2 DEF Copies, CopyOf, Copied
  <2>6. \/ flash[c] = ErasedPage
        \/ \A q \in Phys : \A s \in Slots :
              flash[q].tag = "swap" /\ flash[q].rec[s].st = "whole" =>
                 \E t \in Slots : flash[c].rec[t] = flash[q].rec[s]
    <3>1. ASSUME Copied(g.cur, w, g.src + 1), NEW s \in Slots, flash[a].rec[s].st = "whole"
          PROVE  \E t \in Slots : flash[c].rec[t] = flash[a].rec[s]
      <4>1. ~(s >= w.offset)
        BY <3>1, <1>1 DEF EmptyFrom, SwapSt
      <4>2. s \in Nat /\ w.offset \in Nat
        BY DEF Slots, Offsets
      <4>3. s < w.offset
        BY <4>1, <4>2
      <4> QED
        BY <4>3, <3>1, <1>1, <1>2 DEF Copied
    <3> QED
      BY <3>1, <1>2, <1>3, SMTT(30)
  <2>7. flash[c].tag # "swap"
    BY <1>3
  <2> QED
    BY <2>1, <2>4, <2>5, <2>6, <2>7, <1>3, EraseIds
<1>5. CASE pages[g.cur].open # 0
  <2>1. gc'.state = "discard" /\ Executes(Erase(a))
    BY <1>1, <1>5 DEF PageErase, Cursor
  <2>2. Copies(flash)' /\ Copies(Done)'
    BY <2>1 DEF Copies
  <2> QED
    BY <2>1, <2>2, <1>3, EraseIds
<1> QED
    BY <1>4, <1>5

LEMMA NextRecordIds ==
    ASSUME IInv, IdsInv, Process({"gc"}),
           NEW g \in Cursor, NEW w \in [phys : Phys, offset : Offsets], NextRecord(g, w),
           UNCHANGED <<flash, status, pages, latest, queue>>,
           w.phys = swap.phys, w.offset <= g.src + 1,
           SwapTag(flash) = "swap", EmptyFrom(flash, w.offset),
           \A i \in Index : flash[pages[i].phys].tag = "data",
           Copied(g.cur, w, g.src + 1)
    PROVE  IdsInv'
<1>1. CASE ToCopy(g) # {}
  <2>1. ToCopy(g) \subseteq Nat
    BY DEF ToCopy, ValidSlots, Slots
  <2>2. Min(ToCopy(g)) \in ToCopy(g)
    BY <1>1, <2>1, MinIs
  <2>3. PICK s \in Slots : s = Min(ToCopy(g)) /\ s > g.src /\ Valid(flash, pages[g.cur].phys, s)
    BY <2>2 DEF ToCopy, ValidSlots
  <2>4. /\ w.offset \in Nat /\ s \in Nat /\ g.src \in Nat /\ \A u \in Slots : u \in Nat
    BY DEF Slots, Cursor, Offsets
  <2>5. St(flash, g.cur, s) = "whole"
    BY <2>3 DEF Valid, St
  <2>6. w.offset <= s
    BY <2>3, <2>4
  <2>7. EmptyFrom(flash, w.offset + 1)
    BY <2>4 DEF EmptyFrom
  <2>8. Copied(g.cur, w, s)
    <3>1. \A t \in Slots : t < g.src + 1 => t < s
      <4>1. s > g.src
        BY <2>3
      <4> QED
        BY ONLY <4>1, <2>4
    <3> QED
      BY <3>1 DEF Copied
  <2>9. CopyRecord(g, w, s)
    BY <1>1, <2>3 DEF NextRecord
  <2> QED
    BY <2>5, <2>6, <2>7, <2>8, <2>9, CopyIds
<1>2. CASE ToCopy(g) = {}
  <2>1. PageErase(g, w)
    BY <1>2 DEF NextRecord
  <2> QED
    BY <2>1, PageEraseIds
<1> QED
    BY <1>1, <1>2

LEMMA NextPageIds ==
    ASSUME IInv, IdsInv, Process({"gc"}), NEW g \in Cursor, NextPage(g), g.src = 0,
           UNCHANGED <<flash, status, pages, latest, queue>>,
           swap.offset = 1, EmptyFrom(flash, 1), SwapTag(flash) = "swap",
           \A i \in Index : flash[pages[i].phys].tag = "data"
    PROVE  IdsInv'
<1>1. CASE Collectable(g) = {}
  <2>1. gc'.state = "begin" /\ busy' = busy
    BY <1>1 DEF NextPage, NoGc, Ends
  <2>2. Copies(flash)'
    BY <2>1 DEF Copies
  <2> QED
    BY <2>1, <2>2, GcCalled, RestIds
<1>2. CASE Collectable(g) # {}
  <2>1. Collectable(g) \subseteq Nat
    BY DEF Collectable, Cursor, Index
  <2>2. Min(Collectable(g)) \in Collectable(g)
    BY <1>2, <2>1, MinIs
  <2>3. PICK i \in Index : i = Min(Collectable(g)) /\ pages[i].canGc
    BY <2>2 DEF Collectable, Cursor
  <2> DEFINE h == [g EXCEPT !.cur = i, !.todo = {j \in @ : j > i}]
  <2>4. NextRecord(h, swap)
    BY <1>2, <2>3 DEF NextPage
  <2>5. h \in Cursor /\ h.cur = i /\ h.src = 0
    <3> DEFINE t == {j \in g.todo : j > i}
    <3>1. t \in SUBSET Index
      BY DEF Cursor
    <3>2. h = [g EXCEPT !.cur = i, !.todo = t]
      OBVIOUS
    <3> HIDE DEF h, t
    <3> QED
      BY <3>1, <3>2 DEF Cursor
  <2>6. swap \in [phys : Phys, offset : Offsets]
    BY Collecting DEF PagesOK
  <2>7. Copied(h.cur, swap, h.src + 1)
    BY DEF Copied, Slots
  <2> HIDE DEF h
  <2> QED
    BY <2>4, <2>5, <2>6, <2>7, NextRecordIds
<1> QED
    BY <1>1, <1>2

\* When a record has been copied the swap page has copies of what lies before the next.
LEMMA AdvancedCopies ==
    ASSUME IInv, IdsInv, Process({"gc"}), loop.ret = "success", ~gc.resume, gc.state = "copy",
           NEW w, w.offset = swap.offset + 1
    PROVE  Copied(gc.cur, w, gc.src + 1)
<1>1. /\ GcType /\ gc.src \in Nat /\ swap.offset \in Nat /\ gc.src # 0 /\ Copies(flash)
      /\ flash[swap.phys].rec[swap.offset] = flash[pages[gc.cur].phys].rec[gc.src]
    BY Collecting, GcCalled DEF GcSwap, GcResult
<1> SUFFICES ASSUME NEW u \in Slots, u < w.offset
             PROVE  \E t \in Slots : t < gc.src + 1 /\
                       flash[swap.phys].rec[u] = flash[pages[gc.cur].phys].rec[t]
    BY DEF Copied
<1>2. u \in Nat /\ (u < swap.offset \/ u = swap.offset)
    BY <1>1 DEF Slots
<1>3. CASE u < swap.offset
  <2>1. CopyOf(flash, u, gc.src)
    BY <1>1, <1>3 DEF Copies
  <2>2. PICK t \in Slots : t < gc.src /\
            flash[swap.phys].rec[u] = flash[pages[gc.cur].phys].rec[t]
    BY <2>1 DEF CopyOf
  <2>3. t < gc.src + 1
    BY <2>2, <1>1 DEF Slots
  <2> QED
    BY <2>2, <2>3
<1>4. CASE u = swap.offset
  <2>1. gc.src \in Slots /\ gc.src < gc.src + 1
    BY <1>1 DEF GcType
  <2> QED
    BY <2>1, <1>4, <1>1
<1> QED
    BY <1>2, <1>3, <1>4

LEMMA GcAdvanceIds ==
    ASSUME IInv, IdsInv, Process({"gc"}), loop.ret = "success", ~gc.resume, GcAdvance,
           UNCHANGED <<flash, status, latest, queue>>
    PROVE  IdsInv'
<1>1. /\ GcType /\ GcSwap(flash) /\ GcResult(flash) /\ gc.cur \in Index /\ gc.src \in Nat
      /\ \A i \in Index : Kept(flash, i)
      /\ swap \in [phys : Phys, offset : Offsets] /\ swap.offset \in Nat /\ swap.phys \in Phys
    BY Collecting DEF PagesOK
<1>2. /\ status = "ready" /\ loop.at = "run" /\ SameIds /\ Copies(flash)
    BY GcCalled
<1>3. gc.state \notin {"erase", "promote"} => \A i \in Index : flash[pages[i].phys].tag = "data"
    BY <1>1 DEF Kept
<1>4. CASE gc.state = "begin" /\ NextPage(GcInit) /\ UNCHANGED pages
  <2>1. GcInit \in Cursor /\ GcInit.src = 0
    <3> DEFINE t == {i \in Index : pages[i].type = "data"}
    <3>1. t \in SUBSET Index /\ 1 \in Index
      BY FdsAssumption DEF Index
    <3>2. GcInit = [gc EXCEPT !.state = "nextPage", !.cur = 1, !.resume = FALSE, !.todo = t]
      BY DEF GcInit
    <3> HIDE DEF t
    <3>3. gc.src = 0
      BY <1>1, <1>4 DEF GcSwap
    <3> QED
      BY <3>1, <3>2, <3>3, <1>1 DEF Cursor, GcType
  <2>2. swap.offset = 1 /\ EmptyFrom(flash, 1) /\ SwapTag(flash) = "swap"
    BY <1>1, <1>4 DEF GcSwap
  <2> QED
    BY <2>1, <2>2, <1>3, <1>4, NextPageIds
<1>5. CASE gc.state = "copy" /\ NextRecord(gc, [swap EXCEPT !.offset = @ + 1])
           /\ UNCHANGED <<pages, opened>>
  <2> DEFINE w == [swap EXCEPT !.offset = @ + 1]
  <2>1. gc \in Cursor
    BY <1>1 DEF Cursor, GcType
  <2>2. /\ SwapTag(flash) = "swap" /\ gc.src # 0 /\ swap.offset <= gc.src
        /\ gc.src < pages[gc.cur].offset
        /\ EmptyFrom(flash, swap.offset + 1) /\ SwapSt(flash, swap.offset) # "erased"
        /\ \/ SwapSt(flash, swap.offset) = "erased"
           \/ flash[swap.phys].rec[swap.offset] = flash[pages[gc.cur].phys].rec[gc.src]
    BY <1>1, <1>5 DEF GcSwap, GcResult
  <2>3. swap.offset + 1 \in Offsets
    <3>1. /\ pages[gc.cur].offset \in Nat /\ pages[gc.cur].offset <= PageSlots + 1
          /\ PageSlots \in Nat
      BY Collecting
    <3> QED
      BY <3>1, <2>2, <1>1 DEF Offsets
  <2>4. w \in [phys : Phys, offset : Offsets] /\ w.phys = swap.phys /\ w.offset = swap.offset + 1
    BY <2>3, <1>1
  <2>5. w.offset <= gc.src + 1
    BY <2>2, <2>4, <1>1
  <2>6. Copied(gc.cur, w, gc.src + 1)
    BY <2>4, <1>5, AdvancedCopies
  <2>7. NextRecord(gc, w) /\ UNCHANGED pages
    BY <1>5
  <2>8. EmptyFrom(flash, w.offset)
    BY <2>2, <2>4
  <2> HIDE DEF w
  <2> QED
    BY <2>1, <2>2, <2>4, <2>5, <2>6, <2>7, <2>8, <1>3, <1>5, NextRecordIds
<1>6. CASE gc.state = "erase" /\ gc' = [gc EXCEPT !.state = "promote"]
           /\ Executes(Tag(swap.phys, "data"))
  <2>1. flash[pages[gc.cur].phys].tag = "erased" /\ pages[gc.cur].phys \in Phys
    BY <1>1, <1>6, ErasedType, GcCalled DEF GcResult
  <2>2. gc'.state = "promote"
    BY <1>1, <1>6 DEF GcType
  <2> QED
    BY <2>1, <2>2, <1>1, <1>2, <1>6, TagIds
<1>7. CASE gc.state \in {"discard", "promote"} /\ gc' = [gc EXCEPT !.state = "tagSwap", !.src = 0]
           /\ Executes(Tag(swap.phys, "swap"))
  <2>1. flash[swap.phys].tag = "erased"
    BY <1>1, <1>7, ErasedType DEF GcSwap, GcResult
  <2>2. gc'.state = "tagSwap"
    BY <1>1, <1>7 DEF GcType
  <2> QED
    BY <2>1, <2>2, <1>1, <1>2, <1>7, TagIds
<1>8. CASE gc.state = "tagSwap" /\ NextPage(gc) /\ UNCHANGED <<pages, opened>>
  <2>1. gc \in Cursor
    BY <1>1 DEF Cursor, GcType
  <2>2. swap.offset = 1 /\ EmptyFrom(flash, 1) /\ SwapTag(flash) = "swap" /\ gc.src = 0
    BY <1>1, <1>8 DEF GcSwap, GcResult
  <2> QED
    BY <2>1, <2>2, <1>3, <1>8, NextPageIds
<1> QED
    BY <1>4, <1>5, <1>6, <1>7, <1>8 DEF GcAdvance

LEMMA GcResumeIds ==
    ASSUME IInv, IdsInv, Process({"gc"}), loop.ret = "success", GcResume, Sound',
           UNCHANGED <<flash, status, latest, queue>>
    PROVE  IdsInv'
<1> DEFINE g == [gc EXCEPT !.resume = FALSE]
<1>1. /\ GcType /\ GcSwap(flash) /\ gc.cur \in Index /\ gc.src \in Nat
      /\ \A i \in Index : Kept(flash, i)
      /\ swap \in [phys : Phys, offset : Offsets] /\ swap.phys \in Phys
    BY Collecting DEF PagesOK
<1>2. /\ status = "ready" /\ loop.at = "run" /\ SameIds /\ Copies(flash)
    BY GcCalled
<1>3. /\ g \in Cursor /\ g.cur = gc.cur /\ g.src = gc.src /\ g.state = gc.state
    BY <1>1 DEF Cursor, GcType
<1>4. gc.state # "discard" /\ pages' = pages
    BY DEF GcResume, Met, Sound
<1> HIDE DEF g
<1>5. CASE gc.state = "copy" /\ CopyRecord(g, swap, gc.src)
  <2>1. /\ SwapTag(flash) = "swap" /\ gc.src # 0 /\ swap.offset <= gc.src
        /\ St(flash, gc.cur, gc.src) = "whole" /\ EmptyFrom(flash, swap.offset + 1)
    BY <1>1, <1>5 DEF GcSwap
  <2>2. gc.src \in Slots
    BY <2>1, <1>1 DEF GcType
  <2>3. \A i \in Index : flash[pages[i].phys].tag = "data"
    BY <1>1, <1>5 DEF Kept
  <2>4. Copied(g.cur, swap, gc.src)
    BY <1>2, <1>3, <1>5 DEF Copied, Copies, CopyOf
  <2> QED
    BY <2>1, <2>2, <2>3, <2>4, <1>1, <1>3, <1>4, <1>5, CopyIds
<1>6. CASE gc.state = "erase" /\ PageErase(g, swap)
  <2>1. SwapTag(flash) = "swap" /\ EmptyFrom(flash, swap.offset)
    BY <1>1, <1>6 DEF GcSwap
  <2>2. flash[pages[g.cur].phys] = ErasedPage \/ Copied(g.cur, swap, g.src + 1)
    BY <1>2, <1>3, <1>6 DEF Copied, Copies, CopyOf
  <2> QED
    BY <2>1, <2>2, <1>1, <1>3, <1>4, <1>6, PageEraseIds
<1>7. CASE gc.state = "promote" /\ gc' = g /\ Executes(Tag(pages[gc.cur].phys, "data"))
  <2>1. flash[swap.phys].tag = "erased" /\ pages[gc.cur].phys \in Phys
    BY <1>1, <1>7, ErasedType, GcCalled DEF GcSwap
  <2> QED
    BY <2>1, <1>1, <1>2, <1>3, <1>7, TagIds
<1>8. CASE gc.state = "tagSwap" /\ gc' = g /\ Executes(Tag(swap.phys, "swap"))
  <2>1. EmptyFrom(flash, 1)
    BY <1>1, <1>8 DEF GcSwap
  <2>2. \A s \in Slots : flash[swap.phys].rec[s].st # "whole"
    BY <2>1 DEF EmptyFrom, SwapSt, Slots
  <2> QED
    BY <2>2, <1>1, <1>2, <1>3, <1>8, TagIds
<1> QED
    BY <1>4, <1>5, <1>6, <1>7, <1>8 DEF GcResume, g

LEMMA GcExecuteIds ==
    ASSUME IInv, IdsInv, GcExecute, Sound'
    PROVE  IdsInv'
<1>1. Process({"gc"}) /\ UNCHANGED <<flash, status, latest, queue>>
    BY DEF GcExecute
<1>2. CASE loop.ret = "success" /\ ~gc.resume /\ GcAdvance
    BY <1>1, <1>2, GcAdvanceIds
<1>3. CASE loop.ret = "success" /\ gc.resume /\ GcResume
    BY <1>1, <1>3, GcResumeIds
<1>4. CASE Ends("timeout") /\ UNCHANGED <<pages, swap, gc>>
    BY <1>1, <1>4, GcCalled, EndIds
<1> QED
    BY <1>1, <1>2, <1>3, <1>4 DEF GcExecute

-------------------------------------------------------------------------------
(* The flash, the power and the end of an operation                          *)

\* The flash operation is over, or has timed out.
LEMMA FlashIds ==
    ASSUME IInv, IdsInv, FlashDone \/ FlashTimeout
    PROVE  IdsInv'
<1>1. /\ UNCHANGED <<status, pages, swap, gc, latest, queue>> /\ busy' = NoBusy
      /\ busy # NoBusy /\ loop'.at = "run"
      /\ flash' = Done \/ flash' = flash
    BY DEF FlashDone, FlashTimeout, ram, Again, Done
<1>2. Done' = flash' /\ loop.at = "idle"
    BY <1>1, DoneIsFlash1 DEF IInv, Control, LoopOK
<1>3. QueueIds' /\ \A k \in 1 .. Len(queue) : Unused(k)' => Unused(k)
    BY <1>1, <1>2 DEF IdsInv, QueueIds, Unused
<1>4. CASE flash' = Done
  <2>1. IdsOnce(flash)' /\ IdsOnce(Done)'
    BY <1>2, <1>4 DEF IdsInv, Ids
  <2>2. Fresh(flash)' /\ Fresh(Done)'
    BY <1>1, <1>2, <1>3, <1>4 DEF IdsInv, Ids, Fresh
  <2>3. status' # "off" => Bound(flash)' /\ Bound(Done)'
    BY <1>1, <1>2, <1>4 DEF IdsInv, Ids, Bound
  <2>4. status' = "ready" => Copies(flash)' /\ Copies(Done)'
    BY <1>1, <1>2, <1>4 DEF IdsInv, Ids, Copies, CopyOf
  <2> QED
    BY <2>1, <2>2, <2>3, <2>4, <1>3 DEF IdsInv, Ids
<1>5. CASE flash' = flash
  <2>1. IdsOnce(flash)' /\ IdsOnce(Done)'
    BY <1>2, <1>5 DEF IdsInv, Ids
  <2>2. Fresh(flash)' /\ Fresh(Done)'
    BY <1>1, <1>2, <1>3, <1>5 DEF IdsInv, Ids, Fresh
  <2>3. status' # "off" => Bound(flash)' /\ Bound(Done)'
    BY <1>1, <1>2, <1>5 DEF IdsInv, Ids, Bound
  <2>4. status' = "ready" => Copies(flash)' /\ Copies(Done)'
    BY <1>1, <1>2, <1>5 DEF IdsInv, Ids, Copies, CopyOf
  <2> QED
    BY <2>1, <2>2, <2>3, <2>4, <1>3 DEF IdsInv, Ids
<1> QED
    BY <1>1, <1>4, <1>5

\* Before fds_init there is nothing but the flash.
LEMMA OffIds ==
    ASSUME status' = "off", queue' = <<>>, busy' = NoBusy, IdsOnce(flash')
    PROVE  IdsInv'
<1>1. Done' = flash'
    BY DoneIsFlash1
<1>2. IdsOnce(flash)' /\ IdsOnce(Done)'
    BY <1>1
<1>3. QueueIds' /\ Fresh(flash)' /\ Fresh(Done)'
    BY DEF QueueIds, Fresh
<1> QED
    BY <1>2, <1>3 DEF IdsInv, Ids

LEMMA ResetIds ==
    ASSUME IdsInv, Reset
    PROVE  IdsInv'
<1>1. flash' = flash \/ flash' = Done
    BY DEF Reset, Done
<1>2. IdsOnce(flash')
    BY <1>1 DEF IdsInv, Ids
<1> QED
    BY <1>2, OffIds DEF Reset

\* queue_process goes on to the next operation, which has not used its id.
LEMMA FreeIds ==
    ASSUME IInv, IdsInv, Free
    PROVE  IdsInv'
<1>1. /\ loop.at = "event" /\ queue' = Tail(queue)
      /\ UNCHANGED <<flash, status, pages, swap, gc, latest, busy>>
    BY DEF Free, ram
<1>2. QueueOK /\ queue # <<>> /\ busy = NoBusy
    BY <1>1 DEF IInv, Control, LoopOK
<1>3. /\ Len(queue') = Len(queue) - 1 /\ Len(queue) \in Nat
      /\ \A k \in 1 .. Len(queue') : queue'[k] = queue[k + 1]
    BY <1>1, <1>2, TailIs
<1>4. \A k \in 1 .. Len(queue') : k + 1 \in 1 .. Len(queue) /\ k + 1 # 1 /\ Unused(k + 1)
    BY <1>3 DEF Unused
<1>5. QueueIds'
  <2>1. \A k \in 1 .. Len(queue') :
           IF queue'[k].op \in {"write", "update"} THEN queue'[k].id \in 1 .. latest'
           ELSE queue'[k].id = 0
    BY <1>1, <1>3, <1>4 DEF IdsInv, QueueIds
  <2>2. ASSUME NEW j \in 1 .. Len(queue'), NEW k \in 1 .. Len(queue'),
               queue'[j].id # 0, queue'[j].id = queue'[k].id
        PROVE  j = k
    <3>1. j + 1 = k + 1
      BY <2>2, <1>3, <1>4 DEF IdsInv, QueueIds
    <3> QED
      BY <3>1
  <2> QED
    BY <2>1, <2>2 DEF QueueIds
<1>6. Done' = flash /\ Done = flash
    BY <1>1, <1>2, DoneIsFlash, DoneIsFlash1
<1>7. Fresh(flash)' /\ Fresh(Done)'
    BY <1>1, <1>3, <1>4, <1>6 DEF IdsInv, Ids, Fresh
<1>8. IdsOnce(flash)' /\ IdsOnce(Done)'
    BY <1>1, <1>6 DEF IdsInv, Ids
<1>9. status' # "off" => Bound(flash)' /\ Bound(Done)'
    BY <1>1, <1>6 DEF IdsInv, Ids, Bound
<1>10. status' = "ready" => Copies(flash)' /\ Copies(Done)'
    BY <1>1, <1>6 DEF IdsInv, Ids, Copies, CopyOf
<1> QED
    BY <1>5, <1>7, <1>8, <1>9, <1>10 DEF IdsInv, Ids

-------------------------------------------------------------------------------
(* The calls                                                                 *)

\* what the flash has, and the collection, are as they were
Untouched ==
    /\ UNCHANGED <<flash, status, swap, busy>>
    /\ gc'.state = gc.state /\ gc'.cur = gc.cur /\ gc'.src = gc.src
    /\ \A i \in Index : pages'[i].phys = pages[i].phys

LEMMA UntouchedIds ==
    ASSUME IInv, IdsInv, status = "ready", Untouched
    PROVE  /\ IdsOnce(flash)' /\ IdsOnce(Done)'
           /\ Copies(flash)' /\ Copies(Done)' /\ Done' = Done
<1>1. Done' = Done /\ gc.cur \in Index
    BY DEF Untouched, Done, IInv, Control, GcType
<1> QED
    BY <1>1 DEF Untouched, IdsInv, Ids, Copies, CopyOf

\* a call that queues nothing
LEMMA LookIds ==
    ASSUME IInv, IdsInv, status = "ready", Untouched, UNCHANGED <<queue, loop, latest>>
    PROVE  IdsInv'
<1>1. /\ IdsOnce(flash)' /\ IdsOnce(Done)' /\ Copies(flash)' /\ Copies(Done)' /\ Done' = Done
      /\ flash' = flash
    BY UntouchedIds DEF Untouched
<1>2. QueueIds' /\ \A k \in 1 .. Len(queue) : Unused(k)' => Unused(k)
    BY DEF IdsInv, QueueIds, Unused
<1>3. Fresh(flash)' /\ Fresh(Done)'
    BY <1>1, <1>2 DEF IdsInv, Ids, Fresh
<1>4. Bound(flash)' /\ Bound(Done)'
    BY <1>1 DEF IdsInv, Ids, Bound
<1> QED
    BY <1>1, <1>2, <1>3, <1>4 DEF IdsInv, Ids

\* a call that queues an operation, whose id is new if it has one
LEMMA CallIds ==
    ASSUME IInv, IdsInv, status = "ready", Untouched,
           NEW o \in Operation, OpOK(o), Unstarted(o), Call(o),
           IF o.op \in {"write", "update"} THEN o.id = latest + 1 /\ latest' = latest + 1
           ELSE o.id = 0 /\ latest' = latest
    PROVE  IdsInv'
<1>1. /\ IdsOnce(flash)' /\ IdsOnce(Done)' /\ Copies(flash)' /\ Copies(Done)' /\ Done' = Done
      /\ flash' = flash
    BY UntouchedIds DEF Untouched
<1>2. QueueOK /\ latest \in Nat /\ flash \in FlashType /\ Done \in FlashType
    BY DEF IInv, Control, FlashOK, Consistent
<1>3. PICK n \in Nat : n = Len(queue)
    BY <1>2 DEF QueueOK
<1>4. /\ Len(queue') = n + 1 /\ queue'[n + 1] = o
      /\ \A k \in 1 .. n : queue'[k] = queue[k]
    BY <1>2, <1>3, AppendIs DEF Call
<1>5. \A k \in 1 .. n + 1 : k \in 1 .. n \/ k = n + 1
    OBVIOUS
<1>6. \A k \in 1 .. n : Unused(k)' => Unused(k)
  <2>1. n # 0 => loop' = loop
    BY <1>3 DEF Call
  <2> QED
    BY <2>1, <1>4 DEF Unused
<1>7. \A k \in 1 .. n : queue[k].id \in Nat /\ queue[k].id <= latest
  <2>1. \A k \in 1 .. n : queue[k].id \in 1 .. latest \/ queue[k].id = 0
    BY <1>3 DEF IdsInv, QueueIds
  <2> QED
    BY <2>1, <1>2
<1>8. o.id = 0 \/ o.id = latest + 1
    OBVIOUS
<1>9. QueueIds'
  <2>1. \A k \in 1 .. n + 1 :
           IF queue'[k].op \in {"write", "update"} THEN queue'[k].id \in 1 .. latest'
           ELSE queue'[k].id = 0
    <3>1. \A k \in 1 .. n : IF queue[k].op \in {"write", "update"} THEN queue[k].id \in 1 .. latest
                            ELSE queue[k].id = 0
      BY <1>3 DEF IdsInv, QueueIds
    <3>2. 1 .. latest \subseteq 1 .. latest'
      BY <1>2
    <3>3. IF o.op \in {"write", "update"} THEN o.id \in 1 .. latest' ELSE o.id = 0
      BY <1>2
    <3> QED
      BY <3>1, <3>2, <3>3, <1>4, <1>5
  <2>2. ASSUME NEW j \in 1 .. n + 1, NEW k \in 1 .. n + 1,
               queue'[j].id # 0, queue'[j].id = queue'[k].id
        PROVE  j = k
    <3>1. CASE j \in 1 .. n /\ k \in 1 .. n
      BY <3>1, <2>2, <1>3, <1>4 DEF IdsInv, QueueIds
    <3>2. CASE j \in 1 .. n /\ k = n + 1
      BY <3>2, <2>2, <1>2, <1>4, <1>7, <1>8
    <3>3. CASE j = n + 1 /\ k \in 1 .. n
      BY <3>3, <2>2, <1>2, <1>4, <1>7, <1>8
    <3> QED
      BY <3>1, <3>2, <3>3, <1>5
  <2> QED
    BY <2>1, <2>2, <1>4 DEF QueueIds
<1>10. Fresh(flash) /\ Fresh(Done) /\ Bound(flash) /\ Bound(Done)
    BY DEF IdsInv, Ids
<1>11. Fresh(flash)'
  <2> SUFFICES ASSUME NEW k \in 1 .. n + 1, queue'[k].id # 0, Unused(k)',
                      NEW p \in Phys, NEW s \in Slots, flash[p].rec[s].st = "whole"
               PROVE  flash[p].rec[s].id # queue'[k].id
    BY <1>1, <1>4 DEF Fresh
  <2>1. CASE k \in 1 .. n
    BY <2>1, <1>3, <1>4, <1>6, <1>10 DEF Fresh
  <2>2. CASE k = n + 1
    <3>1. flash[p].rec[s].id \in Nat /\ flash[p].rec[s].id <= latest
      BY <1>2, <1>10 DEF Bound, FlashType, Slot
    <3> QED
      BY <3>1, <2>2, <1>2, <1>4, <1>8
  <2> QED
    BY <2>1, <2>2, <1>5
<1>12. Fresh(Done)'
  <2> SUFFICES ASSUME NEW k \in 1 .. n + 1, queue'[k].id # 0, Unused(k)',
                      NEW p \in Phys, NEW s \in Slots, Done[p].rec[s].st = "whole"
               PROVE  Done[p].rec[s].id # queue'[k].id
    BY <1>1, <1>4 DEF Fresh
  <2>1. CASE k \in 1 .. n
    BY <2>1, <1>3, <1>4, <1>6, <1>10 DEF Fresh
  <2>2. CASE k = n + 1
    <3>1. Done[p].rec[s].id \in Nat /\ Done[p].rec[s].id <= latest
      BY <1>2, <1>10 DEF Bound, FlashType, Slot
    <3> QED
      BY <3>1, <2>2, <1>2, <1>4, <1>8
  <2> QED
    BY <2>1, <2>2, <1>5
<1>13. Bound(flash)' /\ Bound(Done)'
  <2>1. \A m \in Nat : m <= latest => m <= latest'
    BY <1>2
  <2>2. \A p \in Phys : \A s \in Slots : flash[p].rec[s].id \in Nat /\ Done[p].rec[s].id \in Nat
    BY <1>2 DEF FlashType, Slot
  <2> QED
    BY <2>1, <2>2, <1>1, <1>10 DEF Bound
<1> QED
    BY <1>1, <1>9, <1>11, <1>12, <1>13 DEF IdsInv, Ids

\* a call that queues operation o, with a new id if it is to have one
Queues(o) ==
    /\ OpOK(o) /\ Unstarted(o) /\ Call(o)
    /\ IF o.op \in {"write", "update"} THEN o.id = latest + 1 /\ latest' = latest + 1
       ELSE o.id = 0 /\ latest' = latest

\* A call leaves the flash and the collection alone, and queues one operation or none.
LEMMA CallsAre ==
    ASSUME IInv, Calls
    PROVE  /\ status = "ready" /\ loop.at # "run" /\ Untouched /\ UNCHANGED <<desc, tok, kept>>
           /\ \A i \in Index : pages'[i].offset = pages[i].offset
           /\ UNCHANGED <<queue, loop, latest>> \/ \E o \in Operation : Queues(o)
<1>1. /\ status = "ready" /\ loop.at # "run"
      /\ UNCHANGED <<flash, status, swap, busy, desc, tok, kept>>
    BY DEF Calls, Write, WriteReserved, DeleteFile, Delete, Open, Update, Gc, Reserve,
       ReserveCancel, Close, MayCall, ram, static, ghosts
<1>2. PagesOK /\ latest \in Nat /\ GcType
    BY <1>1, IInvReady
<1> DEFINE Lie == \A j \in Index : pages'[j].phys = pages[j].phys /\ pages'[j].offset = pages[j].offset
           Stay == gc'.state = gc.state /\ gc'.cur = gc.cur /\ gc'.src = gc.src
<1>3. ASSUME NEW i, NEW v,
                   \/ pages' = [pages EXCEPT ![i].reserved = v]
                   \/ pages' = [pages EXCEPT ![i].open = v]
      PROVE  Lie
    BY <1>2, <1>3 DEF PagesOK
<1>4. ASSUME NEW i, Take(i)
      PROVE  Lie
    BY <1>2, <1>4 DEF Take, PagesOK
<1> HIDE DEF Lie
<1>5. ASSUME NEW f \in Files, Write(f)
      PROVE  Lie /\ Stay /\ \E o \in Operation : Queues(o)
  <2> DEFINE o == WriteOp("write", "begin", Min(Space), f)
  <2>1. o \in Operation /\ OpOK(o) /\ Unstarted(o)
    BY <1>2, <1>5, SpaceIs, WriteOpIs DEF Write
  <2>2. o.op = "write" /\ o.id = latest + 1
    BY DEF WriteOp, Op
  <2>3. Call(o) /\ latest' = latest + 1 /\ Lie /\ Stay
    BY <1>4, <1>5 DEF Write
  <2> HIDE DEF o
  <2> QED
    BY <2>1, <2>2, <2>3 DEF Queues
<1>6. ASSUME NEW f \in Files, WriteReserved(f)
      PROVE  Lie /\ Stay /\ \E o \in Operation : Queues(o)
  <2> DEFINE o == WriteOp("write", "begin", reserved, f)
  <2>1. reserved \in Index
    BY <1>1, <1>6, IInvReady DEF WriteReserved
  <2>2. o \in Operation /\ OpOK(o) /\ Unstarted(o)
    BY <2>1, <1>2, WriteOpIs
  <2>3. o.op = "write" /\ o.id = latest + 1
    BY DEF WriteOp, Op
  <2>4. Call(o) /\ latest' = latest + 1 /\ Lie /\ Stay
    BY <1>6 DEF WriteReserved, Lie
  <2> HIDE DEF o
  <2> QED
    BY <2>2, <2>3, <2>4 DEF Queues
<1>7. ASSUME NEW f \in Files, NEW id \in Nat, Update(id, f)
      PROVE  Lie /\ Stay /\ \E o \in Operation : Queues(o)
  <2> DEFINE o == [WriteOp("update", "find", Min(Space), f) EXCEPT !.old = id]
  <2>1. o \in Operation /\ OpOK(o) /\ Unstarted(o)
    BY <1>2, <1>7, SpaceIs, WriteOpIs DEF Update
  <2>2. o.op = "update" /\ o.id = latest + 1
    BY DEF WriteOp, Op
  <2>3. Call(o) /\ latest' = latest + 1 /\ Lie /\ Stay
    BY <1>4, <1>7 DEF Update
  <2> HIDE DEF o
  <2> QED
    BY <2>1, <2>2, <2>3 DEF Queues
<1>8. ASSUME NEW id \in Nat, Delete(id)
      PROVE  Lie /\ Stay /\ \E o \in Operation : Queues(o)
  <2> DEFINE o == [Op("delete", "flag") EXCEPT !.old = id]
  <2>1. o \in Operation /\ OpOK(o) /\ Unstarted(o)
    BY DeleteOpIs
  <2>2. o.op = "delete" /\ o.id = 0
    BY DEF Op
  <2>3. Call(o) /\ latest' = latest /\ Lie /\ Stay
    BY <1>8 DEF Delete, ram, Lie
  <2> HIDE DEF o
  <2> QED
    BY <2>1, <2>2, <2>3 DEF Queues
<1>9. ASSUME NEW f \in Files, DeleteFile(f)
      PROVE  Lie /\ Stay /\ \E o \in Operation : Queues(o)
  <2> DEFINE o == [Op("deleteFile", "flag") EXCEPT !.file = f]
  <2>1. o \in Operation /\ OpOK(o) /\ Unstarted(o)
    BY DeleteFileOpIs
  <2>2. o.op = "deleteFile" /\ o.id = 0
    BY DEF Op
  <2>3. Call(o) /\ latest' = latest /\ Lie /\ Stay
    BY <1>9 DEF DeleteFile, ram, Lie
  <2> HIDE DEF o
  <2> QED
    BY <2>1, <2>2, <2>3 DEF Queues
<1>10. ASSUME Gc
       PROVE  Lie /\ Stay /\ \E o \in Operation : Queues(o)
  <2> DEFINE o == Op("gc", "gc")
  <2>1. o \in Operation /\ OpOK(o) /\ Unstarted(o)
    BY GcOpIs
  <2>2. o.op = "gc" /\ o.id = 0
    BY DEF Op
  <2>3. Call(o) /\ latest' = latest /\ Lie /\ Stay
    BY <1>2, <1>10 DEF Gc, GcType, Lie
  <2> HIDE DEF o
  <2> QED
    BY <2>1, <2>2, <2>3 DEF Queues
<1>11. ASSUME Reserve \/ ReserveCancel \/ Close \/ \E id \in Nat : Open(id)
       PROVE  Lie /\ Stay /\ UNCHANGED <<queue, loop, latest>>
    BY <1>3, <1>11 DEF Reserve, ReserveCancel, Close, Open, Take
<1>12. 1 .. latest \subseteq Nat
    BY <1>2
<1>13. Lie /\ Stay /\ (UNCHANGED <<queue, loop, latest>> \/ \E o \in Operation : Queues(o))
    BY <1>5, <1>6, <1>7, <1>8, <1>9, <1>10, <1>11, <1>12 DEF Calls
<1> QED
    BY <1>1, <1>13 DEF Untouched, Lie

LEMMA CallsIds ==
    ASSUME IInv, IdsInv, Calls
    PROVE  IdsInv'
<1>1. CASE UNCHANGED <<queue, loop, latest>>
    BY <1>1, CallsAre, LookIds
<1>2. CASE \E o \in Operation : Queues(o)
    BY <1>2, CallsAre, CallIds DEF Queues
<1> QED
    BY <1>1, <1>2, CallsAre

-------------------------------------------------------------------------------
(* Every step, and what follows                                              *)

LEMMA StutterIds ==
    ASSUME IdsInv, UNCHANGED vars
    PROVE  IdsInv'
<1>1. UNCHANGED <<flash, status, pages, swap, gc, latest, queue, loop, busy>>
    BY DEF vars, ram
<1>2. Done' = Done
    BY <1>1 DEF Done
<1>3. QueueIds' /\ Fresh(flash)' /\ Fresh(Done)'
    BY <1>1, <1>2 DEF IdsInv, Ids, QueueIds, Fresh, Unused
<1>4. (status # "off" => Bound(flash))' /\ (status # "off" => Bound(Done))'
    BY <1>1, <1>2 DEF IdsInv, Ids, Bound
<1>5. (status = "ready" => Copies(flash))' /\ (status = "ready" => Copies(Done))'
    BY <1>1, <1>2 DEF IdsInv, Ids, Copies, CopyOf
<1>6. IdsOnce(flash)' /\ IdsOnce(Done)'
    BY <1>1, <1>2 DEF IdsInv, Ids
<1> QED
    BY <1>3, <1>4, <1>5, <1>6 DEF IdsInv, Ids

LEMMA NextIds ==
    ASSUME IInv, IdsInv, [Next]_vars, Sound'
    PROVE  IdsInv'
    BY FdsInitIds, InitExecuteIds, WriteExecuteIds, DeleteExecuteIds, DeleteFileExecuteIds,
       GcExecuteIds, FreeIds, FlashIds, ResetIds, CallsIds, StutterIds
    DEF Next, QueueProcess

\* The invariant of the ids holds of the storage.
LEMMA IdsInvariance == Spec => []IdsInductive
<1>1. Init => IdsInductive
  <2> SUFFICES ASSUME Init
               PROVE  IdsInv
    BY DEF IdsInductive
  <2>1. Done = flash /\ IdsOnce(flash)
    BY DoneIsFlash, FirstFlashAssumption DEF Init
  <2> QED
    BY <2>1 DEF Init, IdsInv, Ids, QueueIds, Fresh
<1>2. ASSUME Inductive, IdsInductive, [Next]_vars
      PROVE  IdsInductive'
    BY <1>2, SoundStays, NextIds DEF Inductive, IdsInductive
<1> QED
    BY <1>1, <1>2, Invariance, PTL DEF Spec

\* For all parameters: no two records have the same id, nor has one the id of an operation
\* that waits, whenever the device is switched off and wherever a collection is.
THEOREM IdsAreUnique == Spec => [](Sound => IdsUnique)
<1>1. Inductive /\ IdsInductive => (Sound => IdsUnique)
  <2> SUFFICES ASSUME IInv, IdsInv, status = "ready"
               PROVE  IdsUnique
    BY DEF Inductive, IdsInductive, IdsUnique
  <2>1. PagesOK /\ IdsOnce(flash) /\ Fresh(flash)
    BY DEF IInv, IdsInv, Ids
  <2>2. \A i \in Index : Holds(i) \in Phys /\ pages[i].phys \in Phys
    BY <2>1 DEF Holds, PagesOK
  <2>3. ASSUME NEW r \in Records
        PROVE  \E p \in Phys : \E s \in Slots :
                  /\ r = [id |-> flash[p].rec[s].id, file |-> flash[p].rec[s].file]
                  /\ flash[p].rec[s].st = "whole"
    <3>1. Records = Stored(flash)
      BY DEF Records
    <3>2. PICK i \in Index : r \in RecordsOn(flash, Holds(i))
      BY <3>1 DEF Stored
    <3>3. PICK s \in ValidSlots(flash, Holds(i)) :
             r = [id |-> flash[Holds(i)].rec[s].id, file |-> flash[Holds(i)].rec[s].file]
      BY <3>2 DEF RecordsOn
    <3>4. s \in Slots /\ flash[Holds(i)].rec[s].st = "whole"
      BY <3>3 DEF ValidSlots, Valid
    <3> QED
      BY <3>3, <3>4, <2>2
  <2>4. \A r, s \in Records : r.id = s.id => r = s
    <3> SUFFICES ASSUME NEW r \in Records, NEW s \in Records, r.id = s.id
                 PROVE  r = s
      OBVIOUS
    <3>1. PICK p \in Phys, m \in Slots :
             /\ r = [id |-> flash[p].rec[m].id, file |-> flash[p].rec[m].file]
             /\ flash[p].rec[m].st = "whole"
      BY <2>3
    <3>2. PICK q \in Phys, n \in Slots :
             /\ s = [id |-> flash[q].rec[n].id, file |-> flash[q].rec[n].file]
             /\ flash[q].rec[n].st = "whole"
      BY <2>3
    <3>3. flash[p].rec[m] = flash[q].rec[n]
      BY <3>1, <3>2, <2>1, TwiceIs
    <3> QED
      BY <3>1, <3>2, <3>3
  <2>5. ASSUME NEW i \in Index, NEW s \in ValidSlots(flash, pages[i].phys),
               NEW t \in ValidSlots(flash, pages[i].phys),
               flash[pages[i].phys].rec[s].id = flash[pages[i].phys].rec[t].id
        PROVE  s = t
    <3>1. PICK p \in Phys : p = pages[i].phys
      BY <2>2
    <3>2. /\ s \in Slots /\ t \in Slots
          /\ flash[p].rec[s].st = "whole" /\ flash[p].rec[t].st = "whole"
          /\ flash[p].rec[s].id = flash[p].rec[t].id
      BY <2>5, <3>1 DEF ValidSlots, Valid
    <3>3. ~MayBeTwice(flash, p, p)
      BY DEF MayBeTwice
    <3> QED
      BY <3>2, <3>3, <2>1, TwiceIs
  <2>6. ASSUME NEW k \in 2 .. Len(queue), queue[k].id # 0, NEW r \in Records
        PROVE  r.id # queue[k].id
    <3>1. PICK p \in Phys, m \in Slots :
             /\ r = [id |-> flash[p].rec[m].id, file |-> flash[p].rec[m].file]
             /\ flash[p].rec[m].st = "whole"
      BY <2>3
    <3>2. k \in 1 .. Len(queue) /\ k # 1
      BY DEF IInv, Control, QueueOK
    <3>3. Unused(k)
      BY <3>2 DEF Unused
    <3>4. flash[p].rec[m].id # queue[k].id
      BY <3>1, <3>2, <3>3, <2>1, <2>6 DEF Fresh
    <3> QED
      BY <3>1, <3>4
  <2> QED
    BY <2>4, <2>5, <2>6 DEF IdsUnique
<1> QED
    BY <1>1, Invariance, IdsInvariance, PTL

-------------------------------------------------------------------------------
(* The records that count                                                    *)

\* what a record is to those who look for it
Entry(fl, p, s) == [id |-> fl[p].rec[s].id, file |-> fl[p].rec[s].file]

\* place s of page p holds a record that counts
Holding(fl, p, s) == Counts(fl, p) /\ fl[p].rec[s].st = "whole"

\* Nothing is whole behind an erased place.
LEMMA ValidIs ==
    ASSUME NEW fl, Consistent(fl), NEW p \in Phys, NEW s \in Slots
    PROVE  Valid(fl, p, s) <=> fl[p].rec[s].st = "whole"
<1> SUFFICES ASSUME fl[p].rec[s].st = "whole"
             PROVE  Valid(fl, p, s)
    BY DEF Valid
<1>1. InOrder(fl[p]) /\ p # 0
    BY DEF Consistent, Phys
<1>2. s \in Nat /\ s >= 1 /\ s <= PageSlots /\ PageSlots \in Nat
    BY FdsAssumption DEF Slots
<1>3. ASSUME NEW t \in 1 .. s, fl[p].rec[t].st = "erased"
      PROVE  FALSE
  <2>1. t \in Slots /\ (s > t \/ s = t)
    BY <1>2 DEF Slots
  <2> QED
    BY <2>1, <1>1, <1>3 DEF InOrder
<1> QED
    BY <1>1, <1>3 DEF Valid, Reachable

LEMMA LiveIs ==
    ASSUME NEW fl, Consistent(fl), NEW r
    PROVE  r \in Live(fl) <=> \E p \in Phys : \E s \in Slots : Holding(fl, p, s) /\ r = Entry(fl, p, s)
<1>1. \A p \in Phys : r \in RecordsOn(fl, p) <=>
         \E s \in Slots : fl[p].rec[s].st = "whole" /\ r = Entry(fl, p, s)
  <2> SUFFICES ASSUME NEW p \in Phys
               PROVE  r \in RecordsOn(fl, p) <=>
                         \E s \in Slots : fl[p].rec[s].st = "whole" /\ r = Entry(fl, p, s)
    OBVIOUS
  <2>1. \A s \in Slots : Valid(fl, p, s) <=> fl[p].rec[s].st = "whole"
    BY ValidIs
  <2>2. r \in RecordsOn(fl, p) <=> \E s \in ValidSlots(fl, p) : r = Entry(fl, p, s)
    BY Zenon DEF RecordsOn, Entry
  <2> QED
    BY <2>1, <2>2 DEF ValidSlots
<1>2. r \in Live(fl) <=> \E p \in Phys : Counts(fl, p) /\ r \in RecordsOn(fl, p)
  <2> DEFINE P == {q \in Phys : Counts(fl, q)}
  <2>1. r \in UNION {RecordsOn(fl, p) : p \in P} <=> \E p \in P : r \in RecordsOn(fl, p)
    <3> HIDE DEF P
    <3> QED
      BY Zenon
  <2> QED
    BY <2>1 DEF Live
<1> QED
    BY <1>1, <1>2 DEF Holding

\* All that counts in f1 is to be found in f2.
HeldBy(f1, f2) ==
    \A p \in Phys : \A s \in Slots : Holding(f1, p, s) =>
        \E q \in Phys : \E t \in Slots : Holding(f2, q, t) /\ f2[q].rec[t] = f1[p].rec[s]

LEMMA LiveSame ==
    ASSUME NEW f1, NEW f2, Consistent(f1), Consistent(f2), HeldBy(f1, f2), HeldBy(f2, f1)
    PROVE  Live(f1) = Live(f2)
<1>1. ASSUME NEW g, NEW h, Consistent(g), Consistent(h), HeldBy(g, h), NEW r, r \in Live(g)
      PROVE  r \in Live(h)
  <2>1. PICK p \in Phys, s \in Slots : Holding(g, p, s) /\ r = Entry(g, p, s)
    BY <1>1, LiveIs
  <2>2. PICK q \in Phys, t \in Slots : Holding(h, q, t) /\ h[q].rec[t] = g[p].rec[s]
    BY <2>1, <1>1 DEF HeldBy
  <2>3. r = Entry(h, q, t)
    BY <2>1, <2>2 DEF Entry
  <2> QED
    BY <2>2, <2>3, <1>1, LiveIs
<1> QED
    BY <1>1

\* A record that counts is in one place only.
LEMMA LiveOnce ==
    ASSUME NEW fl, IdsOnce(fl), NEW p \in Phys, NEW q \in Phys, NEW s \in Slots, NEW t \in Slots,
           Holding(fl, p, s), Holding(fl, q, t), fl[p].rec[s].id = fl[q].rec[t].id
    PROVE  p = q /\ s = t
<1>1. \/ p = q /\ s = t
      \/ MayBeTwice(fl, p, q) \/ MayBeTwice(fl, q, p)
    BY TwiceIs DEF Holding
<1> QED
    BY <1>1 DEF MayBeTwice, Holding, Counts

-------------------------------------------------------------------------------
(* What a flash operation does to them                                       *)

\* Nothing, when a tag is written while another page is erased, ...
LEMMA PromoteLive ==
    ASSUME NEW fl, Consistent(fl), NEW p \in Phys, fl[p].tag # "erased",
           NEW x \in Phys, x # p, fl[x].tag = "erased",
           NEW f2, f2 = Applied(fl, Tag(p, "data")), Consistent(f2)
    PROVE  Live(f2) = Live(fl)
<1>1. fl \in FlashType
    BY DEF Consistent
<1>2. /\ f2[p].rec = fl[p].rec
      /\ f2[p].tag = TagOver(fl[p].tag, "data")
      /\ \A q \in Phys : q # p => f2[q] = fl[q]
    BY <1>1, TagEffect
<1>3. f2[p].tag = "data" /\ f2[x].tag = "erased" /\ fl[p].tag \in {"swap", "data"}
    BY <1>1, <1>2 DEF TagOver, FlashType
<1>4. \A q \in Phys : (Counts(f2, q) <=> Counts(fl, q)) /\ f2[q].rec = fl[q].rec
    BY <1>2, <1>3 DEF Counts
<1>5. HeldBy(fl, f2) /\ HeldBy(f2, fl)
    BY <1>4 DEF HeldBy, Holding
<1> QED
    BY <1>5, LiveSame

\* ... or to a page without records, and there are none on another swap page; ...
LEMMA TagLive ==
    ASSUME NEW fl, Consistent(fl), NEW p \in Phys, NEW t, t = "swap" \/ t = "data",
           \A s \in Slots : fl[p].rec[s].st # "whole",
           \A q \in Phys : \A s \in Slots : fl[q].tag = "swap" => fl[q].rec[s].st # "whole",
           NEW f2, f2 = Applied(fl, Tag(p, t)), Consistent(f2)
    PROVE  Live(f2) = Live(fl)
<1>1. fl \in FlashType
    BY DEF Consistent
<1>2. /\ f2[p].rec = fl[p].rec
      /\ \A q \in Phys : q # p => f2[q] = fl[q]
    BY <1>1, TagEffect
<1>3. \A q \in Phys : \A s \in Slots : Holding(fl, q, s) <=>
            q # p /\ fl[q].tag = "data" /\ fl[q].rec[s].st = "whole"
    BY DEF Holding, Counts
<1>4. \A q \in Phys : \A s \in Slots : Holding(f2, q, s) <=>
            q # p /\ fl[q].tag = "data" /\ fl[q].rec[s].st = "whole"
    BY <1>2 DEF Holding, Counts
<1>5. HeldBy(fl, f2) /\ HeldBy(f2, fl)
    BY <1>2, <1>3, <1>4 DEF HeldBy
<1> QED
    BY <1>5, LiveSame

\* ... nor when the swap page is erased while no page is, or a page that is, ...
LEMMA EraseLive ==
    ASSUME NEW fl, Consistent(fl), NEW p \in Phys,
           \/ fl[p].tag = "swap" /\ \A x \in Phys : fl[x].tag # "erased"
           \/ fl[p] = ErasedPage,
           NEW f2, f2 = Applied(fl, Erase(p)), Consistent(f2)
    PROVE  Live(f2) = Live(fl)
<1>1. fl \in FlashType
    BY DEF Consistent
<1>2. f2[p] = ErasedPage /\ \A q \in Phys : q # p => f2[q] = fl[q]
    BY <1>1, EraseEffect
<1>3. CASE fl[p] = ErasedPage
  <2>1. \A q \in Phys : f2[q] = fl[q]
    BY <1>2, <1>3
  <2>2. HeldBy(fl, f2) /\ HeldBy(f2, fl)
    BY <2>1 DEF HeldBy, Holding, Counts
  <2> QED
    BY <2>2, LiveSame
<1>4. CASE fl[p].tag = "swap" /\ \A x \in Phys : fl[x].tag # "erased"
  <2>1. \A q \in Phys : fl[q].tag = "swap" => q = p
    BY <1>4 DEF Consistent
  <2>2. \A q \in Phys : (Counts(fl, q) <=> fl[q].tag = "data") /\ (Counts(f2, q) <=> fl[q].tag = "data")
    BY <2>1, <1>2, <1>4, ErasedType DEF Counts
  <2>3. \A q \in Phys : fl[q].tag = "data" => f2[q] = fl[q]
    BY <1>2, <1>4
  <2>4. HeldBy(fl, f2) /\ HeldBy(f2, fl)
    BY <2>2, <2>3 DEF HeldBy, Holding
  <2> QED
    BY <2>4, LiveSame
<1> QED
    BY <1>3, <1>4

\* ... or a page whose records are all on the swap page, with no others.
LEMMA CollectLive ==
    ASSUME NEW fl, Consistent(fl), NEW a \in Phys, NEW c \in Phys, a # c, fl[a].tag = "swap",
           \A q \in Phys : q # a => fl[q].tag = "data",
           \A s \in Slots : fl[c].rec[s].st = "whole" => \E t \in Slots : fl[a].rec[t] = fl[c].rec[s],
           \A s \in Slots : fl[a].rec[s].st = "whole" => \E t \in Slots : fl[c].rec[t] = fl[a].rec[s],
           NEW f2, f2 = Applied(fl, Erase(c)), Consistent(f2)
    PROVE  Live(f2) = Live(fl)
<1>1. fl \in FlashType
    BY DEF Consistent
<1>2. f2[c] = ErasedPage /\ \A q \in Phys : q # c => f2[q] = fl[q]
    BY <1>1, EraseEffect
<1>3. \A q \in Phys : Counts(fl, q) <=> q # a
    BY DEF Counts
<1>4. \A q \in Phys : Counts(f2, q) <=> q # c
    BY <1>2, ErasedType DEF Counts
<1>5. HeldBy(fl, f2)
  <2> SUFFICES ASSUME NEW p \in Phys, NEW s \in Slots, p # a, fl[p].rec[s].st = "whole"
               PROVE  \E q \in Phys : \E t \in Slots :
                         q # c /\ f2[q].rec[t].st = "whole" /\ f2[q].rec[t] = fl[p].rec[s]
    BY <1>3, <1>4 DEF HeldBy, Holding
  <2>1. CASE p = c
    BY <2>1, <1>2
  <2>2. CASE p # c
    BY <2>2, <1>2
  <2> QED
    BY <2>1, <2>2
<1>6. HeldBy(f2, fl)
  <2> SUFFICES ASSUME NEW p \in Phys, NEW s \in Slots, p # c, f2[p].rec[s].st = "whole"
               PROVE  \E q \in Phys : \E t \in Slots :
                         q # a /\ fl[q].rec[t].st = "whole" /\ fl[q].rec[t] = f2[p].rec[s]
    BY <1>3, <1>4 DEF HeldBy, Holding
  <2>1. CASE p = a
    BY <2>1, <1>2
  <2>2. CASE p # a
    BY <2>2, <1>2
  <2> QED
    BY <2>1, <2>2
<1> QED
    BY <1>5, <1>6, LiveSame

\* What is not whole, and was not, does not count; nor does a copy.
LEMMA NoRecordLive ==
    ASSUME NEW fl, Consistent(fl), NEW p \in Phys, NEW s \in Slots, NEW r \in Slot,
           ~Counts(fl, p) \/ (r.st # "whole" /\ fl[p].rec[s].st # "whole"),
           NEW f2, f2 = Applied(fl, WriteSlot(p, s, r)), Consistent(f2)
    PROVE  Live(f2) = Live(fl)
<1>1. fl \in FlashType
    BY DEF Consistent
<1>2. /\ f2[p].tag = fl[p].tag
      /\ f2[p].rec[s] = r
      /\ \A t \in Slots : t # s => f2[p].rec[t] = fl[p].rec[t]
      /\ \A q \in Phys : q # p => f2[q] = fl[q]
    BY <1>1, SlotEffect
<1>3. \A q \in Phys : Counts(f2, q) <=> Counts(fl, q)
  <2>1. \A q \in Phys : f2[q].tag = fl[q].tag
    BY <1>2
  <2> QED
    BY <2>1 DEF Counts
<1>4. \A q \in Phys : \A t \in Slots : Holding(fl, q, t) <=> Holding(f2, q, t)
    BY <1>2, <1>3 DEF Holding
<1>5. \A q \in Phys : \A t \in Slots : Holding(fl, q, t) => f2[q].rec[t] = fl[q].rec[t]
    BY <1>2 DEF Holding
<1>6. HeldBy(fl, f2) /\ HeldBy(f2, fl)
    BY <1>4, <1>5 DEF HeldBy
<1> QED
    BY <1>6, LiveSame

\* A record is written: ...
LEMMA WrittenLive ==
    ASSUME NEW fl, Consistent(fl), NEW p \in Phys, NEW s \in Slots, NEW r \in Slot,
           Counts(fl, p), r.st = "whole", fl[p].rec[s].st # "whole",
           NEW f2, f2 = Applied(fl, WriteSlot(p, s, r)), Consistent(f2)
    PROVE  Live(f2) = Live(fl) \cup {[id |-> r.id, file |-> r.file]}
<1>1. fl \in FlashType
    BY DEF Consistent
<1>2. /\ f2[p].tag = fl[p].tag
      /\ f2[p].rec[s] = r
      /\ \A t \in Slots : t # s => f2[p].rec[t] = fl[p].rec[t]
      /\ \A q \in Phys : q # p => f2[q] = fl[q]
    BY <1>1, SlotEffect
<1>3. \A q \in Phys : Counts(f2, q) <=> Counts(fl, q)
  <2>1. \A q \in Phys : f2[q].tag = fl[q].tag
    BY <1>2
  <2> QED
    BY <2>1 DEF Counts
<1> DEFINE e == [id |-> r.id, file |-> r.file]
<1>4. Holding(f2, p, s) /\ Entry(f2, p, s) = e
    BY <1>2, <1>3 DEF Holding, Entry
<1>5. \A q \in Phys : \A t \in Slots : q # p \/ t # s =>
         (Holding(fl, q, t) <=> Holding(f2, q, t)) /\ Entry(fl, q, t) = Entry(f2, q, t)
    BY <1>2, <1>3 DEF Holding, Entry
<1>6. ~Holding(fl, p, s)
    BY DEF Holding
<1> HIDE DEF e
<1>7. ASSUME NEW x
      PROVE  x \in Live(f2) <=> x \in Live(fl) \/ x = e
    BY <1>4, <1>5, <1>6, LiveIs
<1> QED
    BY <1>7 DEF e

\* ... or deleted.
LEMMA DeletedLive ==
    ASSUME NEW fl, Consistent(fl), IdsOnce(fl), NEW p \in Phys, NEW s \in Slots, NEW r \in Slot,
           Holding(fl, p, s), r.st # "whole",
           NEW f2, f2 = Applied(fl, WriteSlot(p, s, r)), Consistent(f2)
    PROVE  /\ Live(f2) = {x \in Live(fl) : x.id # fl[p].rec[s].id}
           /\ Live(f2) = Live(fl) \ {Entry(fl, p, s)}
           /\ Entry(fl, p, s) \in Live(fl)
<1>1. fl \in FlashType
    BY DEF Consistent
<1>2. /\ f2[p].tag = fl[p].tag
      /\ f2[p].rec[s] = r
      /\ \A t \in Slots : t # s => f2[p].rec[t] = fl[p].rec[t]
      /\ \A q \in Phys : q # p => f2[q] = fl[q]
    BY <1>1, SlotEffect
<1>3. \A q \in Phys : Counts(f2, q) <=> Counts(fl, q)
  <2>1. \A q \in Phys : f2[q].tag = fl[q].tag
    BY <1>2
  <2> QED
    BY <2>1 DEF Counts
<1>4. ~Holding(f2, p, s)
    BY <1>2 DEF Holding
<1>5. \A q \in Phys : \A t \in Slots : q # p \/ t # s =>
         (Holding(fl, q, t) <=> Holding(f2, q, t)) /\ Entry(fl, q, t) = Entry(f2, q, t)
    BY <1>2, <1>3 DEF Holding, Entry
<1>6. \A q \in Phys : \A t \in Slots : Holding(fl, q, t) /\ Entry(fl, q, t).id = fl[p].rec[s].id =>
         q = p /\ t = s
    BY LiveOnce DEF Entry
<1>7. Entry(fl, p, s).id = fl[p].rec[s].id
    BY DEF Entry
<1>8. ASSUME NEW x
      PROVE  /\ x \in Live(f2) <=> x \in Live(fl) /\ x.id # fl[p].rec[s].id
             /\ x \in Live(f2) <=> x \in Live(fl) /\ x # Entry(fl, p, s)
  <2>1. x \in Live(f2) <=> \E q \in Phys : \E t \in Slots :
           (q # p \/ t # s) /\ Holding(fl, q, t) /\ x = Entry(fl, q, t)
    BY <1>4, <1>5, LiveIs
  <2>2. x \in Live(fl) <=> \E q \in Phys : \E t \in Slots : Holding(fl, q, t) /\ x = Entry(fl, q, t)
    BY LiveIs
  <2> QED
    BY <2>1, <2>2, <1>6, <1>7
<1>9. Entry(fl, p, s) \in Live(fl)
    BY LiveIs
<1> QED
    BY <1>8, <1>9

-------------------------------------------------------------------------------
(* What can be found is what counts                                          *)

\* The pages of the storage, and the swap page in the place of the one being erased.
LEMMA HoldsIs ==
    ASSUME PagesOK, GcType, status = "ready"
    PROVE  /\ \A p \in Phys :
                 (\E i \in Index : Holds(i) = p) <=>
                     IF gc.state = "erase" THEN p # pages[gc.cur].phys ELSE p # swap.phys
           /\ \A i \in Index : Holds(i) \in Phys
           /\ swap.phys \in Phys /\ pages[gc.cur].phys \in Phys /\ pages[gc.cur].phys # swap.phys
<1>1. /\ gc.cur \in Index /\ swap.phys \in Phys
      /\ \A i \in Index : pages[i].phys \in Phys /\ pages[i].phys # swap.phys
      /\ \A i, j \in Index : pages[i].phys = pages[j].phys => i = j
      /\ \A p \in Phys : p = swap.phys \/ \E i \in Index : p = pages[i].phys
    BY DEF PagesOK, GcType
<1>2. CASE gc.state = "erase"
  <2>1. Holds(gc.cur) = swap.phys /\ \A i \in Index : i # gc.cur => Holds(i) = pages[i].phys
    BY <1>2 DEF Holds
  <2> QED
    BY <2>1, <1>1, <1>2
<1>3. CASE gc.state # "erase"
  <2>1. \A i \in Index : Holds(i) = pages[i].phys
    BY <1>3 DEF Holds
  <2> QED
    BY <2>1, <1>1, <1>3
<1> QED
    BY <1>2, <1>3

\* which pages count
LEMMA CountsIs ==
    ASSUME PagesOK, GcType, status = "ready", NEW fl, Consistent(fl), Known(fl), NEW p \in Phys
    PROVE  IF gc.state = "erase" /\ fl[pages[gc.cur].phys] = ErasedPage
           THEN Counts(fl, p) <=> p # pages[gc.cur].phys
           ELSE Counts(fl, p) <=> p # swap.phys
<1>1. /\ gc.cur \in Index /\ swap.phys \in Phys
      /\ \A i \in Index : pages[i].phys \in Phys /\ pages[i].phys # swap.phys
      /\ \A i, j \in Index : pages[i].phys = pages[j].phys => i = j
      /\ \A q \in Phys : q = swap.phys \/ \E i \in Index : q = pages[i].phys
    BY DEF PagesOK, GcType
<1>2. GcSwap(fl) /\ \A i \in Index : Kept(fl, i)
    BY DEF Known
<1>3. fl[swap.phys].tag # "data"
    BY <1>2 DEF GcSwap, SwapTag
<1>4. CASE gc.state = "erase" /\ fl[pages[gc.cur].phys] = ErasedPage
  <2>1. fl[swap.phys].tag = "swap" /\ fl[pages[gc.cur].phys].tag = "erased"
    BY <1>2, <1>4, ErasedType DEF GcSwap, SwapTag
  <2>2. \A i \in Index : i # gc.cur => fl[pages[i].phys].tag = "data"
    BY <1>2, <1>4 DEF Kept
  <2> QED
    BY <2>1, <2>2, <1>1, <1>4 DEF Counts
<1>5. CASE gc.state = "promote"
  <2>1. fl[swap.phys].tag = "erased"
    BY <1>2, <1>5, ErasedType DEF GcSwap
  <2>2. \A i \in Index : fl[pages[i].phys].tag \in {"data", "swap"}
    BY <1>2, <1>5 DEF Kept
  <2> QED
    BY <2>1, <2>2, <1>1, <1>5 DEF Counts
<1>6. CASE gc.state # "promote" /\ ~(gc.state = "erase" /\ fl[pages[gc.cur].phys] = ErasedPage)
  <2>1. \A i \in Index : fl[pages[i].phys].tag = "data"
    BY <1>2, <1>6 DEF Kept
  <2> QED
    BY <2>1, <1>1, <1>3, <1>6 DEF Counts
<1> QED
    BY <1>4, <1>5, <1>6

LEMMA StoredIs ==
    ASSUME PagesOK, GcType, status = "ready", NEW fl, Consistent(fl), Known(fl),
           Copies(fl), AllCopied(fl)
    PROVE  Stored(fl) = Live(fl)
<1> DEFINE a == swap.phys
           c == pages[gc.cur].phys
<1>1. a \in Phys /\ c \in Phys /\ a # c /\ \A i \in Index : Holds(i) \in Phys
    BY HoldsIs
<1>2. \A r : r \in Stored(fl) <=>
         \E p \in Phys : \E s \in Slots :
            (\E i \in Index : Holds(i) = p) /\ fl[p].rec[s].st = "whole" /\ r = Entry(fl, p, s)
  <2>1. {j \in Index : pages[j].type = "data"} = Index
    BY DEF PagesOK
  <2>2. \A r : r \in Stored(fl) <=> \E i \in Index : r \in RecordsOn(fl, Holds(i))
    <3>1. Stored(fl) = UNION {RecordsOn(fl, Holds(i)) : i \in Index}
      BY <2>1 DEF Stored
    <3> QED
      BY <3>1, Zenon
  <2>3. ASSUME NEW p \in Phys, NEW r
        PROVE  r \in RecordsOn(fl, p) <=>
                  \E s \in Slots : fl[p].rec[s].st = "whole" /\ r = Entry(fl, p, s)
    <3>1. \A s \in Slots : Valid(fl, p, s) <=> fl[p].rec[s].st = "whole"
      BY ValidIs
    <3>2. r \in RecordsOn(fl, p) <=> \E s \in ValidSlots(fl, p) : r = Entry(fl, p, s)
      BY Zenon DEF RecordsOn, Entry
    <3> QED
      BY <3>1, <3>2 DEF ValidSlots
  <2> QED
    BY <2>2, <2>3, <1>1
<1>3. \A p \in Phys : IF gc.state = "erase" THEN (\E i \in Index : Holds(i) = p) <=> p # c
                      ELSE (\E i \in Index : Holds(i) = p) <=> p # a
    BY HoldsIs
<1>4. \A p \in Phys : IF gc.state = "erase" /\ fl[c] = ErasedPage
                      THEN Counts(fl, p) <=> p # c ELSE Counts(fl, p) <=> p # a
    BY CountsIs
<1>5. \A r : r \in Live(fl) <=>
         \E p \in Phys : \E s \in Slots : Holding(fl, p, s) /\ r = Entry(fl, p, s)
    BY LiveIs
<1> HIDE DEF a, c
<1>6. CASE gc.state = "erase" => fl[c] = ErasedPage
  <2>1. \A p \in Phys : (\E i \in Index : Holds(i) = p) <=> Counts(fl, p)
    BY <1>3, <1>4, <1>6
  <2>2. \A r : r \in Stored(fl) <=> r \in Live(fl)
    BY <2>1, <1>2, <1>5 DEF Holding
  <2> QED
    BY <2>2
<1>7. CASE gc.state = "erase" /\ fl[c] # ErasedPage
  <2>1. \A s \in Slots : fl[a].rec[s].st = "whole" => \E t \in Slots : fl[a].rec[s] = fl[c].rec[t]
    <3> SUFFICES ASSUME NEW s \in Slots, fl[a].rec[s].st = "whole"
                 PROVE  \E t \in Slots : fl[a].rec[s] = fl[c].rec[t]
      OBVIOUS
    <3>1. EmptyFrom(fl, swap.offset)
      BY <1>7 DEF Known, GcSwap
    <3>2. ~(s >= swap.offset)
      BY <3>1 DEF EmptyFrom, SwapSt, a
    <3>3. s < swap.offset
      <4>1. s \in Nat /\ swap.offset \in Nat
        BY DEF Slots, PagesOK, Offsets
      <4> QED
        BY <4>1, <3>2
    <3>4. CopyOf(fl, s, gc.src + 1)
      BY <3>3, <1>7 DEF Copies, c
    <3> QED
      BY <3>4 DEF CopyOf, a, c
  <2>2. \A s \in Slots : fl[c].rec[s].st = "whole" => \E t \in Slots : fl[a].rec[t] = fl[c].rec[s]
    BY <1>7, ZenonT(30) DEF AllCopied, HasCopy, St, a, c
  <2>3. ASSUME NEW r, r \in Stored(fl)
        PROVE  r \in Live(fl)
    <3>1. PICK p \in Phys, s \in Slots : p # c /\ fl[p].rec[s].st = "whole" /\ r = Entry(fl, p, s)
      BY <2>3, <1>2, <1>3, <1>7
    <3>2. CASE p # a
      BY <3>1, <3>2, <1>4, <1>5, <1>7 DEF Holding
    <3>3. CASE p = a
      <4>1. PICK t \in Slots : fl[c].rec[t] = fl[a].rec[s]
        BY <3>1, <3>3, <2>1
      <4>2. Holding(fl, c, t) /\ r = Entry(fl, c, t)
        BY <4>1, <3>1, <3>3, <1>1, <1>4, <1>7 DEF Holding, Entry, a, c
      <4>3. c \in Phys
        BY <1>1 DEF c
      <4> QED
        BY <4>2, <4>3, <1>5
    <3> QED
      BY <3>2, <3>3
  <2>4. ASSUME NEW r, r \in Live(fl)
        PROVE  r \in Stored(fl)
    <3>1. PICK p \in Phys, s \in Slots : p # a /\ fl[p].rec[s].st = "whole" /\ r = Entry(fl, p, s)
      BY <2>4, <1>4, <1>5, <1>7 DEF Holding
    <3>2. CASE p # c
      BY <3>1, <3>2, <1>2, <1>3, <1>7
    <3>3. CASE p = c
      <4>1. PICK t \in Slots : fl[a].rec[t] = fl[c].rec[s]
        BY <3>1, <3>3, <2>2
      <4>2. fl[a].rec[t].st = "whole" /\ r = Entry(fl, a, t) /\ a # c /\ a \in Phys
        BY <4>1, <3>1, <3>3, <1>1 DEF Entry, a, c
      <4> QED
        BY <4>2, <1>2, <1>3, <1>7
    <3> QED
      BY <3>2, <3>3
  <2> QED
    BY <2>3, <2>4
<1> QED
    BY <1>6, <1>7

\* The records that can be found are those that count in flash.
LEMMA RecordsAre == IInv /\ IdsInv /\ RecordsInv => Records = Live(flash)
<1> SUFFICES ASSUME IInv, IdsInv, RecordsInv
             PROVE  Records = Live(flash)
    OBVIOUS
<1>1. CASE status = "ready"
  <2>1. PagesOK /\ GcType /\ Consistent(flash) /\ Known(flash) /\ Copies(flash) /\ AllCopied(flash)
    BY <1>1 DEF IInv, Control, FlashOK, IsReady, IdsInv, Ids, RecordsInv
  <2>2. Stored(flash) = Live(flash)
    BY <2>1, <1>1, StoredIs
  <2> QED
    BY <2>2, <1>1 DEF Records
<1>2. CASE status # "ready"
    BY <1>2 DEF Records, RecordsInv
<1> QED
    BY <1>1, <1>2

\* When no collection is under way these are the records of the pages, without the swap page.
LEMMA PageCounts ==
    ASSUME IInv, status = "ready", ~Head1({"gc"}), NEW fl, fl = flash \/ fl = Done
    PROVE  /\ \A i \in Index : pages[i].phys \in Phys /\ Counts(fl, pages[i].phys)
           /\ \A p \in Phys : Counts(fl, p) => \E i \in Index : p = pages[i].phys
<1>1. PagesOK /\ GcType /\ Consistent(fl) /\ Known(fl)
    BY DEF IInv, Control, FlashOK, IsReady
<1>2. /\ gc.cur \in Index /\ swap.phys \in Phys
      /\ \A i \in Index : pages[i].phys \in Phys /\ pages[i].phys # swap.phys
      /\ \A p \in Phys : p = swap.phys \/ \E i \in Index : p = pages[i].phys
    BY <1>1 DEF PagesOK, GcType
<1>3. ~(gc.state = "erase" /\ fl[pages[gc.cur].phys] = ErasedPage)
  <2> SUFFICES ASSUME gc.state = "erase", fl[pages[gc.cur].phys] = ErasedPage
               PROVE  FALSE
    OBVIOUS
  <2>1. Kept(fl, gc.cur)
    BY <1>1, <1>2 DEF Known
  <2>2. fl[pages[gc.cur].phys].tag = "erased"
    BY ErasedType
  <2> QED
    BY <2>1, <2>2 DEF Kept, Erasing
<1>4. \A p \in Phys : Counts(fl, p) <=> p # swap.phys
    BY <1>1, <1>3, CountsIs
<1> QED
    BY <1>2, <1>4

-------------------------------------------------------------------------------
(* The invariant, when a flash operation starts or none does                 *)

\* the operations on records
RecordOps == {"write", "update", "delete", "deleteFile"}

\* what such an operation finds when it is called
LEMMA OpCalled ==
    ASSUME IInv, Process(RecordOps)
    PROVE  /\ queue # <<>> /\ QueueOK /\ status = "ready" /\ busy = NoBusy /\ Done = flash
           /\ loop.at = "run" /\ Cur.op \in RecordOps /\ IsReady /\ PagesOK /\ GcType
           /\ ~Head1({"gc"}) /\ Consistent(flash) /\ flash \in FlashType /\ gc.src \in Nat
           /\ \A i \in Index : /\ pages[i].phys \in Phys /\ Counts(flash, pages[i].phys)
                               /\ pages[i].offset \in Nat
           /\ \A p \in Phys : Counts(flash, p) => \E i \in Index : p = pages[i].phys
<1>1. loop.at = "run" /\ Cur.op \in RecordOps
    BY DEF Process
<1>2. queue # <<>> /\ QueueOK /\ busy = NoBusy
    BY <1>1 DEF IInv, Control, LoopOK
<1>3. status = "ready"
    BY <1>1, <1>2 DEF IInv, Control, StatusOK, Head1, RecordOps
<1>4. ~Head1({"gc"})
    BY <1>1 DEF Head1, RecordOps
<1>5. IsReady /\ PagesOK /\ GcType /\ Consistent(flash) /\ flash \in FlashType
    BY <1>3 DEF IInv, Control, FlashOK, Consistent
<1>6. gc.src \in Nat
    BY <1>5 DEF GcType, Slots
<1>7. \A i \in Index : pages[i].offset \in Nat
    BY <1>5 DEF PagesOK, Offsets
<1>8. /\ \A i \in Index : pages[i].phys \in Phys /\ Counts(flash, pages[i].phys)
      /\ \A p \in Phys : Counts(flash, p) => \E i \in Index : p = pages[i].phys
    BY <1>3, <1>4, PageCounts
<1> QED
    BY <1>1, <1>2, <1>3, <1>4, <1>5, <1>6, <1>7, <1>8, DoneIsFlash

\* Nothing is written, or the flash operation is over: what has been copied is still there.
LEMMA CopiedStays ==
    ASSUME NEW fl, AllCopied(fl), gc'.state = gc.state, gc'.cur = gc.cur, gc'.src = gc.src,
           swap' = swap, pages'[gc.cur].phys = pages[gc.cur].phys
    PROVE  AllCopied(fl)'
<1>1. pages'[gc'.cur].phys = pages[gc.cur].phys
    OBVIOUS
<1>2. ASSUME NEW t
      PROVE  HasCopy(fl, t)' <=> HasCopy(fl, t)
  <2>1. fl[pages'[gc'.cur].phys].rec[t] = fl[pages[gc.cur].phys].rec[t]
    BY ONLY <1>1
  <2> QED
    BY ONLY <2>1, swap' = swap DEF HasCopy
<1>3. ASSUME NEW t
      PROVE  St(fl, gc.cur, t)' = St(fl, gc.cur, t)
    BY ONLY <1>1 DEF St
<1>4. {t \in Slots : St(fl, gc.cur, t)' = "whole"} = {t \in Slots : St(fl, gc.cur, t) = "whole"}
    BY ONLY <1>3
<1> DEFINE whole == {t \in Slots : St(fl, gc.cur, t) = "whole"}
<1>5. gc.state = "copy" => \A t \in whole : t < gc.src => HasCopy(fl, t)
    BY ONLY AllCopied(fl) DEF AllCopied
<1>6. gc.state = "erase" => \/ fl[pages[gc.cur].phys] = ErasedPage
                            \/ \A t \in whole : HasCopy(fl, t)
    BY ONLY AllCopied(fl) DEF AllCopied
<1> HIDE DEF whole
<1>7. gc'.state = "copy" => \A t \in whole : t < gc'.src => HasCopy(fl, t)'
    BY <1>2, <1>5
<1>8. gc'.state = "erase" => \/ fl[pages'[gc'.cur].phys] = ErasedPage
                             \/ \A t \in whole : HasCopy(fl, t)'
    BY <1>1, <1>2, <1>6
<1> QED
    BY ONLY <1>4, <1>7, <1>8 DEF AllCopied, whole

LEMMA AllCopiedStays ==
    ASSUME AllCopied(flash), AllCopied(Done), flash' \in {flash, Done}, Done' \in {flash, Done},
           gc'.state = gc.state, gc'.cur = gc.cur, gc'.src = gc.src, swap' = swap,
           pages'[gc.cur].phys = pages[gc.cur].phys
    PROVE  AllCopied(flash)' /\ AllCopied(Done)'
<1>1. PICK f1 : f1 = flash' /\ AllCopied(f1)
    OBVIOUS
<1>2. PICK f2 : f2 = Done' /\ AllCopied(f2)
    OBVIOUS
<1>3. AllCopied(f1)' /\ AllCopied(f2)'
    BY <1>1, <1>2, CopiedStays, SMTT(30)
<1>4. AllCopied(flash)'
    BY ONLY <1>1, <1>3, SMTT(30) DEF AllCopied, HasCopy, St
<1>5. AllCopied(Done)'
  <2> DEFINE fd == Done'
  <2>1. fd = f2
    BY <1>2
  <2> HIDE DEF fd
  <2> QED
    BY ONLY <2>1, <1>3 DEF AllCopied, HasCopy, St, fd
<1> QED
    BY <1>4, <1>5

\* An operation ends: what it has done is no longer asked for.
LEMMA EndRecords ==
    ASSUME RecordsInv, GcType, loop.at = "run", NEW ret, Ends(ret), busy = NoBusy,
           UNCHANGED <<flash, status, swap, gc, queue, kept>>,
           \A i \in Index : pages'[i].phys = pages[i].phys,
           tok' = NoDesc \/ (tok' = tok /\ ~Head1({"deleteFile"}))
    PROVE  RecordsInv'
<1>1. Done' = flash' /\ Done = flash /\ loop'.at = "event" /\ ~Going' /\ busy' = NoBusy
    BY DoneIsFlash, DoneIsFlash1 DEF Ends, Event, Going
<1>2. tok' = NoDesc
    BY DEF RecordsInv, TokOK
<1>3. status = "ready" => AllCopied(flash)' /\ AllCopied(Done)'
  <2>1. gc.cur \in Index
    BY DEF GcType
  <2> QED
    BY <2>1, <1>1, AllCopiedStays DEF RecordsInv
<1>4. status' # "ready" => kept' = Live(flash)' /\ Live(Done)' = Live(flash)'
    BY <1>1 DEF RecordsInv
<1> QED
    BY <1>1, <1>2, <1>3, <1>4 DEF RecordsInv, OneChange, TokOK, ErasesCopies

\* A place is written that is not on the page collected, or not copied yet.
LEMMA SlotCopies ==
    ASSUME IInv, RecordsInv, status = "ready", busy = NoBusy,
           NEW j \in Index, NEW t \in Slots, NEW r \in Slot,
           Executes(WriteSlot(pages[j].phys, t, r)), UNCHANGED <<flash, swap, gc>>,
           \A i \in Index : pages'[i].phys = pages[i].phys,
           j = gc.cur => gc.state # "erase" /\ (gc.state = "copy" => t > gc.src)
    PROVE  AllCopied(flash)' /\ AllCopied(Done)'
<1> DEFINE f2 == Done'
           a == pages[j].phys
<1>1. /\ GcType /\ PagesOK /\ flash \in FlashType /\ Done = flash
      /\ gc.cur \in Index /\ gc.src \in Nat /\ \A s \in Slots : s \in Nat
      /\ a \in Phys /\ swap.phys \in Phys /\ a # swap.phys /\ AllCopied(flash)
      /\ \A i \in Index : pages[i].phys \in Phys /\ (i # j => pages[i].phys # a)
  <2>1. GcType /\ PagesOK /\ flash \in FlashType /\ AllCopied(flash)
    BY DEF IInv, Control, FlashOK, Consistent, RecordsInv
  <2>2. gc.cur \in Index /\ gc.src \in Nat /\ \A s \in Slots : s \in Nat
    BY <2>1 DEF GcType, Slots
  <2> QED
    BY <2>1, <2>2, DoneIsFlash DEF PagesOK
<1>2. f2 = Applied(flash, WriteSlot(a, t, r))
    BY DEF Executes, Done
<1>3. /\ \A u \in Slots : u # t => f2[a].rec[u] = flash[a].rec[u]
      /\ \A p \in Phys : p # a => f2[p] = flash[p]
  <2> HIDE DEF f2, a
  <2> QED
    BY <1>1, <1>2, SlotEffect
<1>4. \A u \in Slots : (gc.state = "copy" /\ u < gc.src) \/ gc.state = "erase" =>
          f2[pages[gc.cur].phys].rec[u] = flash[pages[gc.cur].phys].rec[u]
  <2>1. CASE gc.cur = j
    BY <2>1, <1>1, <1>3
  <2>2. CASE gc.cur # j
    BY <2>2, <1>1, <1>3
  <2> QED
    BY <2>1, <2>2
<1>5. f2[swap.phys] = flash[swap.phys]
    BY <1>1, <1>3
<1>6. gc.state = "erase" => f2[pages[gc.cur].phys] = flash[pages[gc.cur].phys]
    BY <1>1, <1>3, SMTT(30)
<1>7. AllCopied(flash)'
    BY <1>1 DEF AllCopied, HasCopy, St
<1>8. AllCopied(Done)'
  <2>1. PICK c \in Phys : c = pages[gc.cur].phys
    BY <1>1
  <2>2. /\ pages'[gc'.cur].phys = c /\ gc' = gc /\ swap' = swap /\ flash[swap.phys] = f2[swap.phys]
    BY <2>1, <1>1, <1>5, SMTT(30)
  <2>3. ASSUME NEW u \in Slots, f2[c].rec[u] = flash[c].rec[u], HasCopy(flash, u)
        PROVE  HasCopy(Done, u)'
    BY <2>1, <2>2, <2>3 DEF HasCopy
  <2>4. ASSUME gc.state = "copy", NEW u \in Slots, f2[c].rec[u].st = "whole", u < gc.src
        PROVE  HasCopy(Done, u)'
    <3>1. f2[c].rec[u] = flash[c].rec[u]
      BY <2>1, <2>4, <1>4, SMTT(30)
    <3>2. HasCopy(flash, u)
      BY <3>1, <2>1, <2>4, <1>1 DEF AllCopied, St
    <3> QED
      BY <3>1, <3>2, <2>3
  <2>5. ASSUME gc.state = "erase", f2[c] # ErasedPage, NEW u \in Slots, f2[c].rec[u].st = "whole"
        PROVE  HasCopy(Done, u)'
    <3>1. f2[c] = flash[c]
      BY <2>1, <2>5, <1>6, SMTT(30)
    <3>2. HasCopy(flash, u)
      BY <3>1, <2>1, <2>5, <1>1 DEF AllCopied, St
    <3> QED
      BY <3>1, <3>2, <2>3
  <2> QED
    BY <2>2, <2>4, <2>5 DEF AllCopied, St
<1> QED
    BY <1>7, <1>8

-------------------------------------------------------------------------------
(* Writing and deleting                                                      *)

\* a record is flagged as dirty: it no longer counts
LEMMA FlagRecords ==
    ASSUME IInv, IdsInv, RecordsInv, IInv', Process(RecordOps), NEW d \in [page : Index, slot : Slots],
           FlagDirty(d), Sound', UNCHANGED <<flash, swap, gc>>,
           flash[pages[d.page].phys].rec[d.slot].st = "whole"
    PROVE  LET p == pages[d.page].phys IN
           /\ AllCopied(flash)' /\ AllCopied(Done)'
           /\ Live(Done') = {x \in Live(flash) : x.id # flash[p].rec[d.slot].id}
           /\ Live(Done') = Live(flash) \ {Entry(flash, p, d.slot)}
           /\ Entry(flash, p, d.slot) \in Live(flash)
           /\ \A i \in Index : pages'[i].phys = pages[i].phys /\ pages'[i].offset = pages[i].offset
           /\ \A i \in Index : \A s \in Slots : (i # d.page \/ s # d.slot) =>
                  Done'[pages[i].phys].rec[s] = flash[pages[i].phys].rec[s]
           /\ Done'[p].rec[d.slot].st = "dirty"
<1> DEFINE j == d.page
           t == d.slot
           p == pages[j].phys
           r == [At(d) EXCEPT !.st = "dirty"]
<1>1. /\ Executes(WriteSlot(p, t, r)) /\ ~Stale(d)
      /\ pages' = [pages EXCEPT ![j].canGc = TRUE]
    BY DEF FlagDirty, Met, Sound
<1>2. j \in Index /\ t \in Slots /\ t \in Nat
    BY DEF Slots
<1>3. /\ p \in Phys /\ flash \in FlashType /\ Consistent(flash) /\ Counts(flash, p)
      /\ busy = NoBusy /\ status = "ready" /\ gc.src \in Nat /\ PagesOK
      /\ \A i \in Index : pages[i].phys \in Phys /\ (i # j => pages[i].phys # p)
    BY <1>2, OpCalled DEF PagesOK
<1>4. r \in Slot /\ r.st = "dirty"
  <2>1. At(d) \in Slot
    BY <1>2, <1>3 DEF At, FlashType
  <2> QED
    BY <2>1 DEF Slot
<1>5. \A i \in Index : pages'[i].phys = pages[i].phys /\ pages'[i].offset = pages[i].offset
    BY <1>1, <1>2, <1>3 DEF PagesOK
<1>6. j = gc.cur => gc.state # "erase" /\ (gc.state = "copy" => t > gc.src)
    BY <1>1, <1>2, <1>3 DEF Stale
<1>7. Done' = Applied(flash, WriteSlot(p, t, r)) /\ Consistent(Done') /\ IdsOnce(flash)
  <2>1. Consistent(Done')
    BY DEF IInv, FlashOK
  <2> QED
    BY <2>1, <1>1 DEF Executes, Done, IdsInv, Ids
<1>8. Holding(flash, p, t)
    BY <1>3 DEF Holding
<1> HIDE DEF r, j, t, p
<1>9. AllCopied(flash)' /\ AllCopied(Done)'
    BY <1>1, <1>2, <1>3, <1>4, <1>5, <1>6, SlotCopies DEF p
<1>10. /\ Live(Done') = {x \in Live(flash) : x.id # flash[p].rec[t].id}
       /\ Live(Done') = Live(flash) \ {Entry(flash, p, t)}
       /\ Entry(flash, p, t) \in Live(flash)
    BY <1>2, <1>3, <1>4, <1>7, <1>8, DeletedLive
<1>11. /\ Done'[p].rec[t] = r
       /\ \A u \in Slots : u # t => Done'[p].rec[u] = flash[p].rec[u]
       /\ \A q \in Phys : q # p => Done'[q] = flash[q]
    BY <1>2, <1>3, <1>4, <1>7, SlotEffect
<1>12. \A i \in Index : \A s \in Slots : (i # j \/ s # t) =>
                  Done'[pages[i].phys].rec[s] = flash[pages[i].phys].rec[s]
    BY <1>3, <1>11 DEF p
<1> QED
    BY <1>4, <1>5, <1>9, <1>10, <1>11, <1>12 DEF j, t, p

\* delete_execute, of a record
LEMMA DeleteExecuteRecords ==
    ASSUME IInv, IdsInv, RecordsInv, IInv', DeleteExecute, Sound'
    PROVE  RecordsInv'
<1>1. /\ Cur.op = "delete" /\ Process(RecordOps)
      /\ UNCHANGED <<flash, status, swap, gc, kept, tok>>
    BY DEF DeleteExecute, Process, static, RecordOps
<1>2. ~Head1({"deleteFile"}) /\ tok = NoDesc
    BY <1>1 DEF Head1, RecordsInv, TokOK
<1>3. CASE (\E ret : Ends(ret)) /\ UNCHANGED <<queue, pages>>
    BY <1>1, <1>2, <1>3, OpCalled, EndRecords
<1>4. CASE Found(Cur.old) # {} /\ Step("done") /\ FlagDirty(First(Found(Cur.old)))
  <2> DEFINE d == First(Found(Cur.old))
             p == pages[d.page].phys
  <2>1. /\ d \in [page : Index, slot : Slots] /\ FlagDirty(d)
        /\ flash[p].rec[d.slot].st = "whole" /\ flash[p].rec[d.slot].id = Cur.old
    BY <1>4, FoundIs, ZenonT(30) DEF Valid
  <2> HIDE DEF d
  <2>2. /\ AllCopied(flash)' /\ AllCopied(Done)'
        /\ Live(Done') = {x \in Live(flash) : x.id # Cur.old}
    BY <2>1, <1>1, FlagRecords, ZenonT(30)
  <2>3. /\ Cur'.op = "delete" /\ Cur'.old = Cur.old /\ queue' # <<>> /\ Writing' = 0
    <3>1. QueueOK /\ queue # <<>> /\ "done" \in Steps
      BY <1>1, OpCalled DEF Steps
    <3>2. Cur'.op = Cur.op /\ Cur'.old = Cur.old /\ queue' # <<>>
      BY <3>1, <1>4, StepIs
    <3> QED
      BY <3>2, <1>1 DEF Writing, Head1
  <2>4. OneChange'
    BY <2>2, <2>3, <1>1 DEF OneChange, Changed
  <2>5. HasWritten(Done)' /\ HasDeleted(Done)'
    BY <2>2, <2>3 DEF HasWritten, HasDeleted
  <2>6. status' = "ready"
    BY <1>1, OpCalled
  <2> QED
    BY <2>2, <2>4, <2>5, <2>6, <1>1, <1>2 DEF RecordsInv, TokOK, ErasesCopies
<1> QED
    BY <1>3, <1>4, SMTT(30) DEF DeleteExecute

\* ... and of a file, of which no record is left up to the token
LEMMA DeleteFileExecuteRecords ==
    ASSUME IInv, IdsInv, RecordsInv, IInv', DeleteFileExecute, Sound'
    PROVE  RecordsInv'
<1>1. /\ Cur.op = "deleteFile" /\ Process(RecordOps)
      /\ UNCHANGED <<flash, status, swap, gc, queue, kept>>
    BY DEF DeleteFileExecute, Process, RecordOps
<1>2. /\ queue # <<>> /\ busy = NoBusy /\ Done = flash /\ status = "ready" /\ PagesOK
      /\ loop.at = "run" /\ Consistent(flash) /\ GcType
      /\ \A i \in Index : pages[i].phys \in Phys /\ pages[i].type = "data"
    BY <1>1, OpCalled DEF PagesOK
<1>3. CASE loop.ret # "success" /\ Met("token", tok # NoDesc) /\ Ends("timeout")
           /\ UNCHANGED <<pages, tok>>
  <2>1. tok' = NoDesc
    BY <1>3 DEF Met, Sound
  <2> QED
    BY <2>1, <1>1, <1>2, <1>3, EndRecords
<1>4. CASE tok' = NoDesc /\ Ends("success") /\ UNCHANGED pages
    BY <1>1, <1>2, <1>4, EndRecords
<1>5. CASE /\ loop.ret = "success" /\ FoundInFile(Cur.file) # {}
           /\ tok' = First(FoundInFile(Cur.file))
           /\ FlagDirty(First(FoundInFile(Cur.file)))
  <2> DEFINE d == First(FoundInFile(Cur.file))
             p == pages[d.page].phys
  <2>1. /\ d \in [page : Index, slot : Slots] /\ FlagDirty(d) /\ tok' = d
        /\ flash[p].rec[d.slot].st = "whole" /\ flash[p].rec[d.slot].file = Cur.file
        /\ \A e \in FoundInFile(Cur.file) \ {d} : Before(d, e)
    BY <1>5, FoundInFileIs, ZenonT(30) DEF Valid
  <2> HIDE DEF d
  <2>2. /\ AllCopied(flash)' /\ AllCopied(Done)'
        /\ Live(Done') = Live(flash) \ {Entry(flash, p, d.slot)}
        /\ Entry(flash, p, d.slot) \in Live(flash)
        /\ \A i \in Index : pages'[i].phys = pages[i].phys
        /\ \A i \in Index : \A s \in Slots : (i # d.page \/ s # d.slot) =>
               Done'[pages[i].phys].rec[s] = flash[pages[i].phys].rec[s]
        /\ Done'[p].rec[d.slot].st = "dirty"
    BY <2>1, <1>1, FlagRecords, ZenonT(30)
  <2>3. Cur' = Cur /\ queue' # <<>> /\ Writing' = 0 /\ ~Head1({"update", "delete"})'
    BY <1>1, <1>2 DEF Cur, Writing, Head1
  <2>4. Entry(flash, p, d.slot).file = Cur.file
    BY <2>1 DEF Entry
  <2>5. OneChange'
    BY <2>2, <2>3, <2>4, <1>1 DEF OneChange, Changed
  <2>6. HasWritten(Done)' /\ HasDeleted(Done)'
    BY <2>3 DEF HasWritten, HasDeleted
  <2>7. Passed(Done)'
    <3> SUFFICES ASSUME NEW e \in [page : Index, slot : Slots], ~Before(d, e),
                        St(Done, e.page, e.slot)' = "whole"
                 PROVE  Done'[pages'[e.page].phys].rec[e.slot].file # Cur.file
      BY <2>1, <2>3 DEF Passed
    <3>1. e.page # d.page \/ e.slot # d.slot
      BY <2>2 DEF St
    <3>2. /\ Done'[pages'[e.page].phys].rec[e.slot] = flash[pages[e.page].phys].rec[e.slot]
          /\ St(flash, e.page, e.slot) = "whole"
      BY <3>1, <2>2 DEF St
    <3>3. CASE Before(tok, e)
      <4>1. Valid(flash, pages[e.page].phys, e.slot)
        BY <3>2, <1>2, ValidIs DEF St
      <4>2. e \notin FoundInFile(Cur.file)
        BY <3>1, <2>1, SMTT(30)
      <4> QED
        BY <4>1, <4>2, <3>2, <3>3, <1>2 DEF FoundInFile, At
    <3>4. CASE ~Before(tok, e)
      <4>1. tok # NoDesc
        BY <3>4 DEF NoDesc, Before, Index
      <4>2. Passed(flash)
        BY <4>1, <1>2, <1>5 DEF RecordsInv, TokOK, Going
      <4> QED
        BY <4>2, <3>2, <3>4 DEF Passed
    <3> QED
      BY <3>3, <3>4, SMTT(30)
  <2>8. TokOK'
    <3>1. Head1({"deleteFile"})' /\ loop'.at # "event"
      BY <2>3, <1>1, <1>5 DEF Head1, FlagDirty, Executes, Idle
    <3> QED
      BY <3>1, <2>1, <2>7, <1>1, <1>2 DEF TokOK
  <2> QED
    BY <2>2, <2>5, <2>6, <2>8, <1>1, <1>2 DEF RecordsInv, ErasesCopies
<1> QED
    BY <1>1, <1>3, <1>4, <1>5 DEF DeleteFileExecute

\* what a write or an update writes goes to the place at the offset
LEMMA WriteToRecords ==
    ASSUME IInv, RecordsInv, IInv', Process(RecordOps), NEW i \in Index, NEW r \in Slot,
           pages[i].offset \in Slots, WriteTo(i, r), Sound', UNCHANGED <<flash, swap, gc, pages>>
    PROVE  /\ AllCopied(flash)' /\ AllCopied(Done)' /\ Consistent(Done')
           /\ Done' = Applied(flash, WriteSlot(pages[i].phys, pages[i].offset, r))
           /\ Done'[pages[i].phys].rec[pages[i].offset] = r
           /\ \A j \in Index : \A s \in Slots : (j # i \/ s # pages[i].offset) =>
                  Done'[pages[j].phys].rec[s] = flash[pages[j].phys].rec[s]
<1> DEFINE p == pages[i].phys
           t == pages[i].offset
<1>1. /\ p \in Phys /\ flash \in FlashType /\ busy = NoBusy /\ status = "ready" /\ gc.src \in Nat
      /\ \A j \in Index : pages[j].phys \in Phys /\ (j # i => pages[j].phys # p)
    BY OpCalled DEF PagesOK
<1>2. Executes(WriteSlot(p, t, r)) /\ ~Stale([page |-> i, slot |-> t])
    BY DEF WriteTo, Met, Sound
<1>3. i = gc.cur => gc.state # "erase" /\ (gc.state = "copy" => t > gc.src)
  <2>1. t \in Nat
    BY DEF Slots
  <2> QED
    BY <2>1, <1>1, <1>2 DEF Stale
<1>4. Done' = Applied(flash, WriteSlot(p, t, r)) /\ Consistent(Done')
    BY <1>2 DEF Executes, Done, IInv, FlashOK
<1> HIDE DEF p, t
<1>5. /\ Done'[p].rec[t] = r
      /\ \A u \in Slots : u # t => Done'[p].rec[u] = flash[p].rec[u]
      /\ \A q \in Phys : q # p => Done'[q] = flash[q]
  <2>1. t \in Slots
    BY DEF t
  <2> QED
    BY <2>1, <1>1, <1>4, SlotEffect
<1>6. AllCopied(flash)' /\ AllCopied(Done)'
    BY <1>1, <1>2, <1>3, SlotCopies DEF p, t
<1>7. \A j \in Index : \A s \in Slots : (j # i \/ s # t) =>
          Done'[pages[j].phys].rec[s] = flash[pages[j].phys].rec[s]
    BY <1>1, <1>5 DEF p
<1> QED
    BY <1>4, <1>5, <1>6, <1>7 DEF p, t

\* write_execute
LEMMA WriteExecuteRecords ==
    ASSUME IInv, IdsInv, RecordsInv, IInv', WriteExecute, Sound'
    PROVE  RecordsInv'
<1> DEFINE i == Cur.page
           p == pages[i].phys
           o == pages[i].offset
<1>1. /\ Cur.op \in {"write", "update"} /\ Process(RecordOps)
      /\ UNCHANGED <<flash, status, swap, gc, tok, kept>>
    BY DEF WriteExecute, Process, RecordOps
<1>2. /\ queue # <<>> /\ QueueOK /\ status = "ready" /\ busy = NoBusy /\ Done = flash
      /\ loop.at = "run" /\ IsReady /\ PagesOK /\ GcType /\ ~Head1({"gc"}) /\ Consistent(flash)
    BY <1>1, OpCalled
<1>3. /\ i \in Index /\ o \in Slots /\ o \in Nat /\ o <= PageSlots /\ pages[i].reserved >= 1
      /\ p \in Phys /\ Counts(flash, p) /\ OpOK(Cur)
      /\ tok = NoDesc /\ ~Head1({"deleteFile"}) /\ Head1({"write", "update"}) /\ i # 0
  <2>1. i \in Index /\ OpOK(Cur)
    BY <1>1, <1>2, HeadIs
  <2>2. o \in Slots /\ o <= PageSlots /\ pages[i].reserved >= 1
    BY <2>1, <1>2, OffsetInSlots
  <2>3. ~Head1({"deleteFile"}) /\ Head1({"write", "update"})
    BY <1>1, <1>2 DEF Head1
  <2>4. tok = NoDesc
    BY <2>3 DEF RecordsInv, TokOK
  <2> QED
    BY <2>1, <2>2, <2>3, <2>4, <1>1, OpCalled DEF Index
<1>4. CASE (\E ret : Ends(ret)) /\ UNCHANGED queue
             /\ (pages' = pages \/ pages' = OffsetsUpdate(pages, i))
  <2>1. \A j \in Index : pages'[j].phys = pages[j].phys
    BY <1>1, <1>2, <1>3, <1>4, OffsetsIs
  <2> QED
    BY <2>1, <1>1, <1>2, <1>3, <1>4, EndRecords
\* what is said of each step that follows
<1>5. ASSUME NEW s \in Steps, s \in {"final", "flag", "done"}, Step(s), Executes(busy')
      PROVE  /\ queue' # <<>> /\ Cur'.op = Cur.op /\ Cur'.id = Cur.id /\ Cur'.file = Cur.file
             /\ Cur'.old = Cur.old /\ Cur'.step = s /\ Cur'.page = i /\ Writing' = i
  <2>1. /\ queue' # <<>> /\ Cur'.op = Cur.op /\ Cur'.id = Cur.id /\ Cur'.file = Cur.file
        /\ Cur'.old = Cur.old /\ Cur'.step = s /\ Cur'.page = i
    BY <1>2, <1>5, StepIs
  <2>2. loop'.at # "event"
    BY <1>5 DEF Executes, Idle
  <2> QED
    BY <2>1, <2>2, <1>1, <1>5, SMTT(30) DEF Writing, Head1
<1>6. ASSUME OneChange', AllCopied(flash)', AllCopied(Done)', HasWritten(Done)', HasDeleted(Done)'
      PROVE  RecordsInv'
    BY <1>1, <1>2, <1>3, <1>6, SMTT(30) DEF RecordsInv, TokOK, ErasesCopies
<1>7. CASE /\ Cur.step \in {"find", "begin"} /\ Step("final") /\ WriteTo(i, Begun) /\ UNCHANGED pages
           /\ Cur.step = "find" => Found(Cur.old) # {} /\ desc' = First(Found(Cur.old))
  <2>1. Begun \in Slot /\ Begun.st = "begun"
    BY DEF Begun, ErasedSlot, Slot
  <2>2. /\ AllCopied(flash)' /\ AllCopied(Done)' /\ Consistent(Done')
        /\ Done' = Applied(flash, WriteSlot(p, o, Begun))
        /\ \A j \in Index : \A s \in Slots : (j # i \/ s # o) =>
               Done'[pages[j].phys].rec[s] = flash[pages[j].phys].rec[s]
    BY <2>1, <1>1, <1>3, <1>7, WriteToRecords
  <2>3. Cur'.op = Cur.op /\ Cur'.old = Cur.old /\ Cur'.step = "final" /\ Writing' = i
    <3>1. Executes(busy') /\ "final" \in Steps
      BY <1>7 DEF WriteTo, Executes, Steps
    <3> QED
      BY <3>1, <1>5, <1>7
  <2>4. flash[p].rec[o].st = "erased"
    <3>1. Writing = 0
      BY <1>7 DEF Writing
    <3>2. Filled(flash, i)
      BY <1>2, <1>3 DEF IsReady, Known, Kept, Erasing
    <3>3. ~(i = Writing)
      BY <3>1, <1>3
    <3> HIDE DEF i
    <3>4. St(flash, i, o) = "erased"
      BY <3>2, <3>3, <1>3 DEF Filled
    <3> QED
      BY <3>4 DEF St
  <2>5. OneChange'
    <3>1. Live(Done') = Live(flash)
      <4> HIDE DEF i, p, o
      <4> QED
        BY <2>1, <2>2, <2>4, <1>2, <1>3, NoRecordLive
    <3> QED
      BY <3>1, <1>1 DEF OneChange
  <2>6. HasWritten(Done)'
    <3> SUFFICES ASSUME Cur.op = "update"
                 PROVE  Done'[pages[desc'.page].phys].rec[desc'.slot].id = Cur.old
      BY <2>3, <1>7 DEF HasWritten
    <3>1. Cur.step = "find"
      BY <1>3, <1>7 DEF OpOK
    <3>2. /\ desc' \in [page : Index, slot : Slots]
          /\ flash[pages[desc'.page].phys].rec[desc'.slot].st = "whole"
          /\ flash[pages[desc'.page].phys].rec[desc'.slot].id = Cur.old
      <4>1. Found(Cur.old) # {} /\ desc' = First(Found(Cur.old))
        BY <3>1, <1>7, SMTT(30)
      <4> DEFINE d == First(Found(Cur.old))
      <4>2. /\ d \in [page : Index, slot : Slots]
            /\ Valid(flash, pages[d.page].phys, d.slot)
            /\ flash[pages[d.page].phys].rec[d.slot].id = Cur.old
        <5> HIDE DEF i, p, o
        <5> QED
          BY <4>1, FoundIs
      <4> HIDE DEF d
      <4>3. desc' = d
        BY <4>1 DEF d
      <4> QED
        BY <4>2, <4>3 DEF Valid
    <3>3. desc'.page # i \/ desc'.slot # o
      BY <3>2, <2>4
    <3> QED
      BY <3>2, <3>3, <2>2, ZenonT(30)
  <2>7. HasDeleted(Done)'
    BY <2>3 DEF HasDeleted
  <2> QED
    BY <2>2, <2>5, <2>6, <2>7, <1>6
<1>8. CASE /\ loop.ret = "success" /\ Cur.step = "final"
           /\ Step(IF Cur.op = "update" THEN "flag" ELSE "done")
           /\ WriteTo(i, [st |-> "whole", id |-> Cur.id, file |-> Cur.file])
           /\ UNCHANGED <<pages, desc>>
  <2> DEFINE r == [st |-> "whole", id |-> Cur.id, file |-> Cur.file]
             s == IF Cur.op = "update" THEN "flag" ELSE "done"
  <2>1. r \in Slot /\ r.st = "whole" /\ r.id = Cur.id /\ r.file = Cur.file
    BY <1>2, HeadIs DEF Operation, Slot
  <2>2. s \in Steps /\ s \in {"flag", "done"} /\ (s = "flag" <=> Cur.op = "update")
    BY DEF Steps
  <2> HIDE DEF r, s
  <2>3. Step(s) /\ WriteTo(i, r) /\ UNCHANGED <<pages, desc>>
    BY <1>8 DEF r, s
  <2>4. /\ AllCopied(flash)' /\ AllCopied(Done)' /\ Consistent(Done')
        /\ Done' = Applied(flash, WriteSlot(p, o, r)) /\ Done'[p].rec[o] = r
        /\ \A j \in Index : \A u \in Slots : (j # i \/ u # o) =>
               Done'[pages[j].phys].rec[u] = flash[pages[j].phys].rec[u]
    BY <2>1, <2>3, <1>1, <1>3, WriteToRecords
  <2>5. /\ Cur'.op = Cur.op /\ Cur'.old = Cur.old /\ Cur'.id = Cur.id /\ Cur'.file = Cur.file
        /\ Cur'.step = s /\ Writing' = i /\ queue' # <<>>
    <3>1. Executes(busy')
      BY <2>3 DEF WriteTo, Executes
    <3> QED
      BY <3>1, <2>2, <2>3, <1>5
  <2>6. Writing = i /\ WriteResult(flash) /\ HasWritten(flash)
    <3>1. Going
      BY <1>2, <1>8, SMTT(30) DEF Going
    <3> QED
      BY <3>1, <1>2, <1>3, <1>8 DEF Writing, IsReady, RecordsInv
  <2>7. flash[p].rec[o].st = "begun"
    BY <2>6, <1>3, <1>8 DEF WriteResult, St
  <2>8. Live(Done') = Live(flash) \cup {[id |-> Cur.id, file |-> Cur.file]}
    <3> HIDE DEF i, p, o
    <3>1. Live(Done') = Live(flash) \cup {[id |-> r.id, file |-> r.file]}
      BY <2>1, <2>4, <2>7, <1>2, <1>3, WrittenLive
    <3> QED
      BY <3>1, <2>1
  <2>9. OneChange'
    BY <2>5, <2>8, <1>1 DEF OneChange, Changed
  <2>10. HasWritten(Done)'
    <3>1. Done'[pages'[Writing'].phys].rec[pages'[Writing'].offset] =
             [st |-> "whole", id |-> Cur'.id, file |-> Cur'.file]
      BY <2>3, <2>4, <2>5, ZenonT(30) DEF r
    <3>2. ASSUME Cur.op = "update"
          PROVE  Done'[pages[desc.page].phys].rec[desc.slot].id = Cur.old
      <4>1. /\ desc \in [page : Index, slot : Slots]
            /\ flash[pages[desc.page].phys].rec[desc.slot].st = "whole"
            /\ flash[pages[desc.page].phys].rec[desc.slot].id = Cur.old
        BY <3>2, <2>6, <1>3, <1>8 DEF WriteResult, HasWritten, St
      <4>2. desc.page # i \/ desc.slot # o
        BY <4>1, <2>7
      <4> QED
        BY <4>1, <4>2, <2>4, ZenonT(30)
    <3> QED
      BY <3>1, <3>2, <2>3, <2>5 DEF HasWritten
  <2>11. HasDeleted(Done)'
    BY <2>2, <2>5, <1>1 DEF HasDeleted, Head1
  <2> QED
    BY <2>4, <2>9, <2>10, <2>11, <1>6, ZenonT(30)
<1>9. CASE loop.ret = "success" /\ Cur.step = "flag" /\ Step("done") /\ FlagDirty(desc) /\ desc' = desc
  <2>1. Cur.op = "update"
    BY <1>1, <1>3, <1>9 DEF OpOK
  <2>2. Writing = i /\ WriteResult(flash) /\ HasWritten(flash)
    <3>1. Going
      BY <1>2, <1>9, SMTT(30) DEF Going
    <3> QED
      BY <3>1, <1>2, <1>3, <1>9 DEF Writing, IsReady, RecordsInv
  <2>3. /\ desc \in [page : Index, slot : Slots] /\ desc.slot < pages[desc.page].offset
        /\ flash[pages[desc.page].phys].rec[desc.slot].st = "whole"
        /\ flash[pages[desc.page].phys].rec[desc.slot].id = Cur.old
        /\ flash[p].rec[o] = [st |-> "whole", id |-> Cur.id, file |-> Cur.file]
    BY <2>1, <2>2, <1>3, <1>9 DEF WriteResult, HasWritten, St
  <2>4. /\ AllCopied(flash)' /\ AllCopied(Done)'
        /\ Live(Done') = {x \in Live(flash) : x.id # Cur.old}
        /\ \A j \in Index : pages'[j].phys = pages[j].phys /\ pages'[j].offset = pages[j].offset
        /\ \A j \in Index : \A s \in Slots : (j # desc.page \/ s # desc.slot) =>
               Done'[pages[j].phys].rec[s] = flash[pages[j].phys].rec[s]
    BY <2>3, <1>1, <1>9, FlagRecords, ZenonT(30)
  <2>5. /\ Cur'.op = Cur.op /\ Cur'.old = Cur.old /\ Cur'.id = Cur.id /\ Cur'.file = Cur.file
        /\ Cur'.step = "done" /\ Writing' = i /\ queue' # <<>>
    <3>1. Executes(busy') /\ "done" \in Steps
      BY <1>9 DEF FlagDirty, Executes, Steps
    <3> QED
      BY <3>1, <1>5, <1>9
  <2>6. [id |-> Cur.id, file |-> Cur.file] \in Live(flash)
    <3>1. Holding(flash, p, o) /\ Entry(flash, p, o) = [id |-> Cur.id, file |-> Cur.file]
      BY <2>3, <1>3 DEF Holding, Entry
    <3> HIDE DEF i, p, o
    <3> QED
      BY <3>1, <1>2, <1>3, LiveIs
  <2>7. OneChange'
    BY <2>1, <2>4, <2>5, <2>6, <1>1 DEF OneChange, Changed
  <2>8. HasWritten(Done)'
    <3>1. i # desc.page \/ o # desc.slot
      BY <2>3, <1>3
    <3>2. pages'[i].phys = p /\ pages'[i].offset = o
      BY <2>4, <1>3
    <3>3. Done'[p].rec[o] = [st |-> "whole", id |-> Cur.id, file |-> Cur.file]
      <4> HIDE DEF i
      <4>1. Done'[p].rec[o] = flash[p].rec[o]
        BY <3>1, <2>4, <1>3
      <4> QED
        BY <4>1, <2>3
    <3> QED
      BY <3>2, <3>3, <2>5 DEF HasWritten
  <2>9. HasDeleted(Done)'
    BY <2>4, <2>5 DEF HasDeleted
  <2> QED
    BY <2>4, <2>7, <2>8, <2>9, <1>6
<1> QED
    BY <1>4, <1>7, <1>8, <1>9 DEF WriteExecute

-------------------------------------------------------------------------------
(* fds_init                                                                  *)

\* before fds_init is done: nothing counts that did not
LEMMA StartRecords ==
    ASSUME RecordsInv, status # "ready", status' \in {"starting", "failed"}, busy = NoBusy,
           UNCHANGED <<flash, kept, tok>>, Live(Done') = Live(flash),
           status' = "starting" => Cur'.step # "eraseSwap"
    PROVE  RecordsInv'
<1>1. tok' = NoDesc
    BY DEF RecordsInv, TokOK
<1> QED
    BY <1>1 DEF RecordsInv, OneChange, TokOK, ErasesCopies

\* init_execute
LEMMA InitExecuteRecords ==
    ASSUME IInv, RecordsInv, IInv', InitExecute, Sound'
    PROVE  RecordsInv'
<1>1. Process({"init"}) /\ UNCHANGED <<flash, gc, kept, tok>>
    BY DEF InitExecute, static
<1>2. /\ status = "starting" /\ gc.state = "begin" /\ PagesOK /\ QueueOK /\ queue # <<>>
      /\ swap.phys \in Phys /\ gc.cur \in Index /\ busy = NoBusy /\ loop.at = "run"
      /\ \A i \in Index : /\ pages[i].phys \in Phys /\ pages[i].phys # swap.phys
                           /\ pages[i].type \in {"erased", "data"}
      /\ Consistent(flash)
      /\ loop.ret = "success" => InitOK(flash)
    BY <1>1, Starting DEF IsStarting, GcType, FlashOK
<1>3. tok = NoDesc /\ kept = Live(flash)
    BY <1>2 DEF RecordsInv, TokOK
\* the pages that are tagged as swap, and a page that is erased
<1>4. ASSUME loop.ret = "success", NEW p \in Phys, flash[p].tag = "swap"
      PROVE  p = swap.phys
  <2>1. p = swap.phys \/ \E i \in Index : p = pages[i].phys
    BY <1>2 DEF PagesOK
  <2>2. \A i \in Index : flash[pages[i].phys].tag # "swap"
    BY <1>2, <1>4 DEF InitOK
  <2> QED
    BY <2>1, <2>2, <1>4
<1>5. ASSUME NEW p \in Phys, flash[p].tag = "erased"
      PROVE  \A s \in Slots : flash[p].rec[s].st # "whole"
    BY <1>2, <1>5, ErasedType DEF Consistent
<1>6. Consistent(Done')
    BY DEF IInv, FlashOK
<1>7. ASSUME NEW s \in Steps, Step(s)
      PROVE  Cur'.step = s
    BY <1>2, <1>7, StepIs
<1>8. CASE status' = "failed" /\ Ends("timeout")
  <2>1. Done' = flash'
    BY <1>2, <1>8, DoneIsFlash1 DEF Ends
  <2> QED
    BY <2>1, <1>1, <1>2, <1>8, StartRecords
<1>9. CASE loop.ret = "success" /\ Cur.step = "tagSwap" /\ Step("tagData")
           /\ Executes(Tag(swap.phys, "swap")) /\ UNCHANGED status
  <2>1. flash[swap.phys].tag = "erased"
    BY <1>2, <1>9, ErasedType DEF InitOK
  <2>2. Live(Done') = Live(flash)
    <3>1. \A q \in Phys : \A s \in Slots : flash[q].tag = "swap" => flash[q].rec[s].st # "whole"
      BY <2>1, <1>4, <1>9
    <3>2. Done' = Applied(flash, Tag(swap.phys, "swap"))
      BY <1>1, <1>9 DEF Executes, Done
    <3> QED
      BY <2>1, <3>1, <3>2, <1>2, <1>5, <1>6, TagLive
  <2>3. Cur'.step # "eraseSwap"
    BY <1>7, <1>9 DEF Steps
  <2> QED
    BY <2>2, <2>3, <1>1, <1>2, <1>9, StartRecords
<1>10. CASE /\ loop.ret = "success" /\ Cur.step = "tagData"
            /\ \E i \in Index : /\ pages[i].type = "erased"
                                /\ Executes(Tag(pages[i].phys, "data"))
            /\ UNCHANGED <<status, queue>>
  <2>1. PICK i \in Index : pages[i].type = "erased" /\ Executes(Tag(pages[i].phys, "data"))
    BY <1>10
  <2>2. flash[pages[i].phys].tag = "erased" /\ EmptyFrom(flash, 1)
    BY <2>1, <1>2, <1>10 DEF InitOK
  <2>3. Live(Done') = Live(flash)
    <3>1. \A s \in Slots : flash[swap.phys].rec[s].st # "whole"
      BY <2>2 DEF EmptyFrom, SwapSt, Slots
    <3>2. \A q \in Phys : \A s \in Slots : flash[q].tag = "swap" => flash[q].rec[s].st # "whole"
      BY <3>1, <1>4, <1>10
    <3>3. Done' = Applied(flash, Tag(pages[i].phys, "data"))
      BY <2>1, <1>1 DEF Executes, Done
    <3>4. pages[i].phys \in Phys /\ \A s \in Slots : flash[pages[i].phys].rec[s].st # "whole"
      BY <2>2, <1>2, <1>5
    <3> QED
      BY <3>2, <3>3, <3>4, <1>2, <1>6, TagLive
  <2>4. Cur'.step # "eraseSwap"
    BY <1>10 DEF Cur
  <2> QED
    BY <2>3, <2>4, <1>1, <1>2, <1>10, StartRecords
<1>11. CASE status' = "ready" /\ Ends("success") /\ UNCHANGED queue
  <2>1. Done' = flash' /\ ~Going'
    BY <1>2, <1>11, DoneIsFlash1 DEF Ends, Event, Going
  <2>2. AllCopied(flash)' /\ AllCopied(Done)'
    BY <1>1, <1>2 DEF AllCopied
  <2> QED
    BY <2>1, <2>2, <1>1, <1>3, <1>11 DEF RecordsInv, OneChange, TokOK, ErasesCopies
<1>12. CASE loop.ret = "success" /\ Cur.step = "eraseSwap" /\ Step("tagSwap")
            /\ Executes(Erase(swap.phys)) /\ UNCHANGED status
  <2>1. flash[swap.phys].tag = "swap" /\ \A x \in Phys : flash[x].tag # "erased"
    BY <1>2, <1>12, DoneIsFlash DEF InitOK, SwapTag, RecordsInv, ErasesCopies, Going
  <2>2. Live(Done') = Live(flash)
    <3>1. Done' = Applied(flash, Erase(swap.phys))
      BY <1>1, <1>12 DEF Executes, Done
    <3> QED
      BY <2>1, <3>1, <1>2, <1>6, EraseLive
  <2>3. Cur'.step # "eraseSwap"
    BY <1>7, <1>12 DEF Steps
  <2> QED
    BY <2>2, <2>3, <1>1, <1>2, <1>12, StartRecords
<1>13. CASE /\ loop.ret = "success" /\ Cur.step = "promote" /\ Step("tagSwap")
            /\ Executes(Tag(swap.phys, "data"))
            /\ Met("promotion", pages[gc.cur].type # "erased")
            /\ UNCHANGED status
  <2>1. pages[gc.cur].type = "erased"
    BY <1>13 DEF Met, Sound
  <2>2. flash[pages[gc.cur].phys].tag = "erased" /\ flash[swap.phys].tag = "swap"
    BY <2>1, <1>2, <1>13 DEF InitOK, SwapTag
  <2>3. Live(Done') = Live(flash)
    <3>1. Done' = Applied(flash, Tag(swap.phys, "data"))
      BY <1>1, <1>13 DEF Executes, Done
    <3> QED
      BY <2>2, <3>1, <1>2, <1>6, PromoteLive
  <2>4. Cur'.step # "eraseSwap"
    BY <1>7, <1>13 DEF Steps
  <2> QED
    BY <2>3, <2>4, <1>1, <1>2, <1>13, StartRecords
<1>14. ASSUME \E i \in Index : pages[i].type = "erased"
       PROVE  LET i == Min({j \in Index : pages[j].type = "erased"})
              IN i \in Index /\ pages[i].type = "erased"
  <2> DEFINE S == {j \in Index : pages[j].type = "erased"}
  <2>1. S \subseteq Nat /\ S # {}
    BY <1>14 DEF Index
  <2>2. Min(S) \in S
    <3> HIDE DEF S
    <3> QED
      BY <2>1, MinIs
  <2> QED
    BY <2>2
<1> QED
    BY <1>8, <1>9, <1>10, <1>11, <1>12, <1>13, <1>14 DEF InitExecute

\* What fds_init finds is what was there.
LEMMA FdsInitRecords ==
    ASSUME IInv, RecordsInv, FdsInit
    PROVE  RecordsInv'
<1>1. /\ status = "off" /\ queue = <<>> /\ busy = NoBusy /\ busy' = NoBusy /\ Consistent(flash)
      /\ UNCHANGED <<flash, tok, kept>> /\ gc'.state = "begin"
    BY DEF IInv, Control, IsOff, FdsInit, StatusOK, FlashOK, static, ghosts, NoGc
<1>2. Done' = flash' /\ tok' = NoDesc /\ kept' = Live(flash')
    BY <1>1, DoneIsFlash1 DEF RecordsInv, TokOK
<1>3. AllCopied(flash)' /\ AllCopied(Done)' /\ OneChange' /\ TokOK'
    BY <1>1, <1>2 DEF AllCopied, OneChange, TokOK
<1>4. ASSUME status' = "starting", Cur'.step = "eraseSwap"
      PROVE  \A p \in Phys : Done'[p].tag # "erased"
  <2>1. InitStep = "eraseSwap"
    <3>1. queue' = <<Op("init", InitStep)>>
      BY <1>1, <1>4 DEF FdsInit
    <3>2. Cur' = Op("init", InitStep)
      BY <3>1 DEF Cur
    <3> QED
      BY <3>2, <1>4 DEF Op
  <2>2. \A p \in Phys : ~IsErased(p)
    BY <2>1 DEF InitStep
  <2> QED
    BY <2>2, <1>1, <1>2, TagsAre
<1>5. ErasesCopies'
    BY <1>4 DEF ErasesCopies
<1>6. ASSUME status' = "ready"
      PROVE  HasWritten(Done)' /\ HasDeleted(Done)'
  <2>1. queue' = <<>>
    BY <1>1, <1>6 DEF FdsInit
  <2>2. Writing' = 0 /\ ~Head1({"update", "delete"})'
    BY <2>1 DEF Writing, Head1
  <2> QED
    BY <2>2 DEF HasWritten, HasDeleted
<1> QED
    BY <1>2, <1>3, <1>5, <1>6 DEF RecordsInv

-------------------------------------------------------------------------------
(* gc_execute                                                                *)

\* The swap page has, below its offset, copies of all records of page i below n.
CopiesAll(i, w, n) ==
    \A t \in Slots : t < n /\ St(flash, i, t) = "whole" =>
        \E u \in Slots : u < w.offset /\ flash[swap.phys].rec[u] = flash[pages[i].phys].rec[t]

\* what a step of the collection has to leave
LEMMA CollectRecords ==
    ASSUME IInv, RecordsInv, Process({"gc"}), UNCHANGED <<flash, status, queue, tok>>,
           Live(Done') = Live(flash), AllCopied(flash)', AllCopied(Done)'
    PROVE  RecordsInv'
<1>1. status = "ready" /\ queue # <<>> /\ Cur.op = "gc"
    BY Collecting
<1>2. tok' = NoDesc
    BY <1>1 DEF RecordsInv, TokOK, Head1
<1>3. Cur' = Cur /\ Writing' = 0 /\ ~Head1({"update", "delete"})'
    BY <1>1 DEF Cur, Writing, Head1
<1>4. HasWritten(Done)' /\ HasDeleted(Done)'
    BY <1>3 DEF HasWritten, HasDeleted
<1> QED
    BY <1>1, <1>2, <1>4 DEF RecordsInv, OneChange, TokOK, ErasesCopies

\* what a step of it finds
LEMMA GcFinds ==
    ASSUME IInv, Process({"gc"})
    PROVE  /\ status = "ready" /\ busy = NoBusy /\ loop.at = "run" /\ flash \in FlashType
           /\ Consistent(flash) /\ GcType /\ GcSwap(flash) /\ Opens /\ OpenOK(flash)
           /\ gc.cur \in Index /\ gc.src \in Nat /\ swap.phys \in Phys
           /\ swap \in [phys : Phys, offset : Offsets] /\ swap.offset \in Nat /\ swap.offset >= 1
           /\ \A i \in Index : pages[i].phys \in Phys /\ pages[i].phys # swap.phys /\ Kept(flash, i)
           /\ \A p \in Phys : p = swap.phys \/ \E i \in Index : p = pages[i].phys
           /\ ~Head1({"deleteFile"})
<1>1. \A p \in Phys : p = swap.phys \/ \E i \in Index : p = pages[i].phys
    BY Collecting DEF PagesOK
<1>2. swap \in [phys : Phys, offset : Offsets]
    BY Collecting DEF PagesOK
<1>3. ~Head1({"deleteFile"})
    BY Collecting DEF Head1
<1> QED
    BY <1>1, <1>2, <1>3, Collecting DEF FlashOK

\* a record is copied to the swap page, where it does not count
LEMMA CopyRecords ==
    ASSUME IInv, RecordsInv, IInv', Process({"gc"}),
           NEW g \in Cursor, NEW w \in [phys : Phys, offset : Offsets], NEW s \in Slots,
           CopyRecord(g, w, s), UNCHANGED <<flash, status, pages, queue, tok>>,
           w.phys = swap.phys, w.offset <= s, St(flash, g.cur, s) = "whole", SwapTag(flash) = "swap",
           \A i \in Index : flash[pages[i].phys].tag = "data",
           CopiesAll(g.cur, w, s)
    PROVE  RecordsInv'
<1>1. PICK m \in Slots : m = w.offset
  <2>1. w.offset \in Nat /\ w.offset >= 1 /\ s \in Nat /\ s <= PageSlots /\ PageSlots \in Nat
    BY FdsAssumption DEF Slots, Offsets
  <2> QED
    BY <2>1 DEF Slots
<1>2. PICK a \in Phys : a = swap.phys
    BY GcFinds
<1>3. PICK c \in Phys : c = pages[g.cur].phys /\ c # a
    BY <1>2, GcFinds DEF Cursor
<1>4. flash \in FlashType /\ Consistent(flash) /\ flash[a].tag = "swap"
      /\ \A p \in Phys : p # a => flash[p].tag = "data"
    BY <1>2, GcFinds DEF SwapTag
<1> DEFINE f2 == Done'
           r == flash[c].rec[s]
<1>5. r \in Slot
    BY <1>4, SMTT(30) DEF FlashType
<1>6. f2 = Applied(flash, WriteSlot(a, m, r)) /\ Consistent(f2)
    BY <1>1, <1>2, <1>3 DEF CopyRecord, Executes, Done, IInv, FlashOK
<1>7. ~Counts(flash, a)
    BY <1>4 DEF Counts
<1> HIDE DEF f2, r
<1>8. /\ \A u \in Slots : u # m => f2[a].rec[u] = flash[a].rec[u]
      /\ \A p \in Phys : p # a => f2[p] = flash[p]
    BY ONLY <1>4, <1>5, <1>6, SlotEffect, SMTT(30)
<1>9. Live(f2) = Live(flash)
    BY <1>4, <1>5, <1>6, <1>7, NoRecordLive
<1>10. gc'.state = "copy" /\ gc'.cur = g.cur /\ gc'.src = s /\ swap' = w
    BY SMTT(30) DEF CopyRecord, Cursor
<1>11. \A t \in Slots : t < s /\ flash[c].rec[t].st = "whole" =>
           \E u \in Slots : u < m /\ flash[a].rec[u] = flash[c].rec[t]
    BY <1>1, <1>2, <1>3, SMTT(30) DEF CopiesAll, St
<1>12. AllCopied(flash)'
    BY <1>1, <1>2, <1>3, <1>10, <1>11, SMTT(30) DEF AllCopied, HasCopy, St
<1>13. \A t \in Slots : t < s /\ f2[c].rec[t].st = "whole" =>
           \E u \in Slots : u < m /\ f2[a].rec[u] = f2[c].rec[t]
  <2>1. \A u \in Slots : u < m => u # m
    BY DEF Slots
  <2> QED
    BY <2>1, <1>3, <1>8, <1>11
<1>14. AllCopied(Done)'
    BY <1>1, <1>2, <1>3, <1>10, <1>13 DEF AllCopied, HasCopy, St, f2
<1> QED
    BY <1>9, <1>12, <1>14, CollectRecords, SMTT(30) DEF f2

\* the page is erased when all its records are on the swap page, else the swap page is
LEMMA PageEraseRecords ==
    ASSUME IInv, RecordsInv, IInv', Process({"gc"}),
           NEW g \in Cursor, NEW w \in [phys : Phys, offset : Offsets], PageErase(g, w),
           UNCHANGED <<flash, status, pages, queue, tok>>,
           w.phys = swap.phys, SwapTag(flash) = "swap", EmptyFrom(flash, w.offset),
           \A i \in Index :
              flash[pages[i].phys].tag = "data" \/ (i = g.cur /\ flash[pages[i].phys] = ErasedPage),
           \/ flash[pages[g.cur].phys] = ErasedPage
           \/ /\ flash[pages[g.cur].phys].tag = "data"
              /\ Copied(g.cur, w, g.src + 1) /\ CopiesAll(g.cur, w, PageSlots + 1)
    PROVE  RecordsInv'
<1>1. PICK a \in Phys : a = swap.phys
    BY GcFinds
<1>2. PICK c \in Phys : c = pages[g.cur].phys /\ c # a
    BY <1>1, GcFinds DEF Cursor
<1>3. flash \in FlashType /\ Consistent(flash) /\ flash[a].tag = "swap" /\ g.cur \in Index
      /\ \A p \in Phys : p # a => flash[p].tag = "data" \/ (p = c /\ flash[p] = ErasedPage)
    BY <1>1, <1>2, GcFinds DEF SwapTag, Cursor
<1>4. Consistent(Done')
    BY DEF IInv, FlashOK
<1>5. \A s \in Slots : s \in Nat /\ s < PageSlots + 1
    BY FdsAssumption DEF Slots
<1>6. CASE pages[g.cur].open = 0
  <2>1. /\ gc'.state = "erase" /\ gc'.cur = g.cur /\ gc'.src = g.src /\ swap' = w
        /\ Executes(Erase(c))
    BY <1>2, <1>6 DEF PageErase, Cursor
  <2>2. Done' = Applied(flash, Erase(c))
    BY <2>1 DEF Executes, Done
  <2>3. Done'[c] = ErasedPage
    BY <2>2, <1>3, EraseEffect, SMTT(30)
  <2>4. AllCopied(Done)'
    BY <2>1, <2>3, <1>2 DEF AllCopied
  <2>5. flash[c] = ErasedPage \/ \A t \in Slots : flash[c].rec[t].st = "whole" =>
            \E u \in Slots : u < w.offset /\ flash[a].rec[u] = flash[c].rec[t]
    BY <1>1, <1>2, <1>5, ZenonT(30) DEF CopiesAll, St
  <2>6. AllCopied(flash)'
    <3>1. /\ pages'[gc'.cur].phys = c /\ swap'.phys = a /\ swap'.offset = w.offset /\ flash' = flash
          /\ gc'.state = "erase"
      BY <2>1, <1>1, <1>2
    <3>2. flash'[c] = ErasedPage' \/ \A t \in Slots : flash'[c].rec[t].st = "whole" =>
              \E u \in Slots : u < swap'.offset /\ flash'[a].rec[u] = flash'[c].rec[t]
      BY <2>5, <3>1 DEF ErasedPage, ErasedSlot, Slots
    <3> QED
      BY <3>1, <3>2 DEF AllCopied, HasCopy, St, Slots
  <2>7. CASE flash[c] = ErasedPage
    <3>1. Live(Done') = Live(flash)
      BY <2>2, <2>7, <1>3, <1>4, EraseLive
    <3> QED
      BY <3>1, <2>4, <2>6, CollectRecords
  <2>8. CASE flash[c] # ErasedPage
    <3>1. \A q \in Phys : q # a => flash[q].tag = "data"
      BY <2>8, <1>3
    <3>2. \A t \in Slots :
            flash[c].rec[t].st = "whole" => \E u \in Slots : flash[a].rec[u] = flash[c].rec[t]
      BY <2>5, <2>8, SMTT(30)
    <3>3. ASSUME NEW s \in Slots, flash[a].rec[s].st = "whole"
          PROVE  \E t \in Slots : flash[c].rec[t] = flash[a].rec[s]
      <4>1. ~(s >= w.offset)
        BY <3>3, <1>1 DEF EmptyFrom, SwapSt
      <4>2. s \in Nat /\ w.offset \in Nat
        BY DEF Slots, Offsets
      <4>3. s < w.offset
        BY <4>1, <4>2
      <4> QED
        BY <4>3, <2>8, <1>1, <1>2 DEF Copied
    <3>4. PICK f2 : f2 = Done'
      OBVIOUS
    <3>5. f2 = Applied(flash, Erase(c)) /\ Consistent(f2) /\ a # c /\ Consistent(flash) /\ flash[a].tag = "swap"
      BY <3>4, <2>2, <1>2, <1>3, <1>4
    <3>6. Live(f2) = Live(flash)
      BY <3>1, <3>2, <3>3, <3>5, CollectLive
    <3> QED
      BY <3>4, <3>6, <2>4, <2>6, CollectRecords
  <2> QED
    BY <2>7, <2>8
<1>7. CASE pages[g.cur].open # 0
  <2>1. gc'.state = "discard" /\ Executes(Erase(a))
    BY <1>1, <1>7 DEF PageErase, Cursor
  <2>2. AllCopied(flash)' /\ AllCopied(Done)'
    BY <2>1 DEF AllCopied
  <2>3. flash[c] # ErasedPage
    BY <1>2, <1>3, <1>7, GcFinds, OpenIsNotErased
  <2>4. \A x \in Phys : flash[x].tag # "erased"
    BY <2>3, <1>3
  <2>5. Done' = Applied(flash, Erase(a))
    BY <2>1 DEF Executes, Done
  <2>6. Live(Done') = Live(flash)
    BY <2>4, <2>5, <1>3, <1>4, EraseLive
  <2> QED
    BY <2>2, <2>6, CollectRecords
<1> QED
    BY <1>6, <1>7

LEMMA NextRecordRecords ==
    ASSUME IInv, RecordsInv, IInv', Process({"gc"}),
           NEW g \in Cursor, NEW w \in [phys : Phys, offset : Offsets], NextRecord(g, w),
           UNCHANGED <<flash, status, pages, queue, tok>>,
           w.phys = swap.phys, w.offset <= g.src + 1,
           SwapTag(flash) = "swap", EmptyFrom(flash, w.offset),
           \A i \in Index : flash[pages[i].phys].tag = "data",
           Copied(g.cur, w, g.src + 1), CopiesAll(g.cur, w, g.src + 1)
    PROVE  RecordsInv'
<1>1. /\ w.offset \in Nat /\ g.src \in Nat /\ \A u \in Slots : u \in Nat
      /\ g.cur \in Index /\ pages[g.cur].phys \in Phys /\ Consistent(flash)
    BY GcFinds DEF Slots, Cursor, Offsets
<1>2. \A t \in Slots : St(flash, g.cur, t) = "whole" /\ t > g.src => t \in ToCopy(g)
    BY <1>1, ValidIs DEF St, ToCopy, ValidSlots
<1>3. CASE ToCopy(g) # {}
  <2>1. ToCopy(g) \subseteq Nat
    BY DEF ToCopy, ValidSlots, Slots
  <2>2. Min(ToCopy(g)) \in ToCopy(g) /\ \A t \in ToCopy(g) : Min(ToCopy(g)) <= t
    BY <1>3, <2>1, MinIs
  <2>3. PICK s \in Slots : s = Min(ToCopy(g)) /\ s > g.src /\ Valid(flash, pages[g.cur].phys, s)
    BY <2>2 DEF ToCopy, ValidSlots
  <2>4. St(flash, g.cur, s) = "whole"
    BY <2>3 DEF Valid, St
  <2>5. w.offset <= s
    BY <2>3, <1>1
  <2>6. CopiesAll(g.cur, w, s)
    <3> SUFFICES ASSUME NEW t \in Slots, t < s, St(flash, g.cur, t) = "whole"
                 PROVE  \E u \in Slots : u < w.offset /\
                           flash[swap.phys].rec[u] = flash[pages[g.cur].phys].rec[t]
      BY DEF CopiesAll
    <3>1. ~(t > g.src)
      BY <2>2, <2>3, <1>1, <1>2
    <3>2. t < g.src + 1
      BY <3>1, <1>1
    <3> QED
      BY <3>2 DEF CopiesAll
  <2>7. CopyRecord(g, w, s)
    BY <1>3, <2>3 DEF NextRecord
  <2> QED
    BY <2>4, <2>5, <2>6, <2>7, CopyRecords
<1>4. CASE ToCopy(g) = {}
  <2>1. PageErase(g, w)
    BY <1>4 DEF NextRecord
  <2>2. CopiesAll(g.cur, w, PageSlots + 1)
    <3> SUFFICES ASSUME NEW t \in Slots, St(flash, g.cur, t) = "whole"
                 PROVE  \E u \in Slots : u < w.offset /\
                           flash[swap.phys].rec[u] = flash[pages[g.cur].phys].rec[t]
      BY DEF CopiesAll
    <3>1. ~(t > g.src)
      BY <1>2, <1>4
    <3>2. t < g.src + 1
      BY <3>1, <1>1
    <3> QED
      BY <3>2 DEF CopiesAll
  <2> QED
    BY <2>1, <2>2, <1>1, PageEraseRecords
<1> QED
    BY <1>3, <1>4

LEMMA NextPageRecords ==
    ASSUME IInv, RecordsInv, IInv', Process({"gc"}), NEW g \in Cursor, NextPage(g), g.src = 0,
           UNCHANGED <<flash, status, pages, queue, tok>>,
           swap.offset = 1, EmptyFrom(flash, 1), SwapTag(flash) = "swap",
           \A i \in Index : flash[pages[i].phys].tag = "data"
    PROVE  RecordsInv'
<1>1. CASE Collectable(g) = {}
  <2>1. gc'.state = "begin" /\ busy' = NoBusy
    BY <1>1, GcFinds DEF NextPage, NoGc, Ends
  <2>2. Done' = flash' /\ AllCopied(flash)' /\ AllCopied(Done)'
    BY <2>1, DoneIsFlash1 DEF AllCopied
  <2> QED
    BY <2>2, CollectRecords
<1>2. CASE Collectable(g) # {}
  <2>1. Collectable(g) \subseteq Nat
    BY DEF Collectable, Cursor, Index
  <2>2. Min(Collectable(g)) \in Collectable(g)
    BY <1>2, <2>1, MinIs
  <2>3. PICK i \in Index : i = Min(Collectable(g)) /\ pages[i].canGc
    BY <2>2 DEF Collectable, Cursor
  <2> DEFINE h == [g EXCEPT !.cur = i, !.todo = {j \in @ : j > i}]
  <2>4. NextRecord(h, swap)
    BY <1>2, <2>3 DEF NextPage
  <2>5. h \in Cursor /\ h.cur = i /\ h.src = 0
    <3> DEFINE t == {j \in g.todo : j > i}
    <3>1. t \in SUBSET Index
      BY DEF Cursor
    <3>2. h = [g EXCEPT !.cur = i, !.todo = t]
      OBVIOUS
    <3> HIDE DEF h, t
    <3> QED
      BY <3>1, <3>2 DEF Cursor
  <2>6. swap \in [phys : Phys, offset : Offsets]
    BY GcFinds
  <2>7. Copied(h.cur, swap, h.src + 1) /\ CopiesAll(h.cur, swap, h.src + 1)
    <3> HIDE DEF h
    <3>1. \A t \in Slots : ~(t < h.src + 1) /\ ~(t < swap.offset)
      BY <2>5 DEF Slots
    <3> QED
      BY <3>1 DEF Copied, CopiesAll
  <2> HIDE DEF h
  <2> QED
    BY <2>4, <2>5, <2>6, <2>7, NextRecordRecords
<1> QED
    BY <1>1, <1>2

\* a page is tagged: that its records are of the pages from now on, or that it is the swap page
LEMMA TagRecords ==
    ASSUME IInv, RecordsInv, IInv', Process({"gc"}), UNCHANGED <<flash, status, queue, tok>>,
           NEW p \in Phys, NEW t, Executes(Tag(p, t)), gc'.state \notin {"copy", "erase"},
           \/ /\ t = "data" /\ flash[p].tag # "erased"
              /\ \E x \in Phys : x # p /\ flash[x].tag = "erased"
           \/ /\ t = "swap" /\ \A s \in Slots : flash[p].rec[s].st # "whole"
              /\ \A q \in Phys : q # p => flash[q].tag = "data"
    PROVE  RecordsInv'
<1>1. PICK f2 : f2 = Done'
    OBVIOUS
<1>2. f2 = Applied(flash, Tag(p, t)) /\ Consistent(flash) /\ Consistent(f2)
    BY <1>1, GcFinds DEF Executes, Done, IInv, FlashOK
<1>3. AllCopied(flash)' /\ AllCopied(Done)'
    BY DEF AllCopied
<1>4. CASE /\ t = "data" /\ flash[p].tag # "erased"
           /\ \E x \in Phys : x # p /\ flash[x].tag = "erased"
  <2>1. Live(f2) = Live(flash)
    BY <1>2, <1>4, PromoteLive
  <2> QED
    BY <2>1, <1>1, <1>3, CollectRecords
<1>5. CASE /\ t = "swap" /\ \A s \in Slots : flash[p].rec[s].st # "whole"
           /\ \A q \in Phys : q # p => flash[q].tag = "data"
  <2>1. \A q \in Phys : \A s \in Slots : flash[q].tag = "swap" => flash[q].rec[s].st # "whole"
    BY <1>5
  <2>2. Live(f2) = Live(flash)
    BY <2>1, <1>2, <1>5, TagLive
  <2> QED
    BY <2>2, <1>1, <1>3, CollectRecords
<1> QED
    BY <1>4, <1>5

LEMMA GcAdvanceRecords ==
    ASSUME IInv, IdsInv, RecordsInv, IInv', Process({"gc"}),
            loop.ret = "success", ~gc.resume, GcAdvance,
           UNCHANGED <<flash, status, queue, tok>>
    PROVE  RecordsInv'
<1>1. /\ GcType /\ GcSwap(flash) /\ GcResult(flash) /\ gc.cur \in Index /\ gc.src \in Nat
      /\ \A i \in Index : /\ Kept(flash, i) /\ pages[i].phys \in Phys /\ pages[i].phys # swap.phys
                          /\ pages[i].offset \in Nat /\ pages[i].offset <= PageSlots + 1
      /\ \A p \in Phys : p = swap.phys \/ \E i \in Index : p = pages[i].phys
      /\ swap \in [phys : Phys, offset : Offsets] /\ swap.offset \in Nat /\ swap.phys \in Phys
      /\ PageSlots \in Nat
    BY Collecting, GcFinds
<1>3. AllCopied(flash)
    BY GcFinds DEF RecordsInv
<1>4. gc.state \notin {"erase", "promote"} => \A i \in Index : flash[pages[i].phys].tag = "data"
    BY <1>1 DEF Kept
<1>5. CASE gc.state = "begin" /\ NextPage(GcInit) /\ UNCHANGED pages
  <2>1. GcInit \in Cursor /\ GcInit.src = 0
    <3> DEFINE t == {i \in Index : pages[i].type = "data"}
    <3>1. t \in SUBSET Index /\ 1 \in Index
      BY FdsAssumption DEF Index
    <3>2. GcInit = [gc EXCEPT !.state = "nextPage", !.cur = 1, !.resume = FALSE, !.todo = t]
      BY DEF GcInit
    <3> HIDE DEF t
    <3>3. gc.src = 0
      BY <1>1, <1>5 DEF GcSwap
    <3> QED
      BY <3>1, <3>2, <3>3, <1>1 DEF Cursor, GcType
  <2>2. swap.offset = 1 /\ EmptyFrom(flash, 1) /\ SwapTag(flash) = "swap"
    BY <1>1, <1>5 DEF GcSwap
  <2> QED
    BY <2>1, <2>2, <1>4, <1>5, NextPageRecords
<1>6. CASE gc.state = "copy" /\ NextRecord(gc, [swap EXCEPT !.offset = @ + 1])
           /\ UNCHANGED <<pages, opened>>
  <2> DEFINE w == [swap EXCEPT !.offset = @ + 1]
  <2>1. gc \in Cursor
    BY <1>1 DEF Cursor, GcType
  <2>2. /\ SwapTag(flash) = "swap" /\ gc.src # 0 /\ swap.offset <= gc.src
        /\ gc.src < pages[gc.cur].offset
        /\ EmptyFrom(flash, swap.offset + 1)
        /\ flash[swap.phys].rec[swap.offset] = flash[pages[gc.cur].phys].rec[gc.src]
    BY <1>1, <1>6 DEF GcSwap, GcResult
  <2>3. swap.offset + 1 \in Offsets /\ swap.offset \in Slots
    <3>1. swap.offset + 1 \in Offsets
      BY <2>2, <1>1 DEF Offsets
    <3>2. gc.src \in Slots
      BY <2>2, <1>1 DEF GcType
    <3> QED
      BY <3>1, <3>2, <2>2, <1>1 DEF Offsets, Slots
  <2>4. w \in [phys : Phys, offset : Offsets] /\ w.phys = swap.phys /\ w.offset = swap.offset + 1
    BY <2>3, <1>1
  <2>5. w.offset <= gc.src + 1 /\ swap.offset < w.offset
    BY <2>2, <2>4, <1>1
  <2>6. Copied(gc.cur, w, gc.src + 1)
    BY <2>4, <1>6, AdvancedCopies
  <2>7. CopiesAll(gc.cur, w, gc.src + 1)
    <3> SUFFICES ASSUME NEW t \in Slots, t < gc.src + 1, St(flash, gc.cur, t) = "whole"
                 PROVE  \E u \in Slots : u < w.offset /\
                           flash[swap.phys].rec[u] = flash[pages[gc.cur].phys].rec[t]
      BY DEF CopiesAll
    <3>1. t \in Nat /\ (t < gc.src \/ t = gc.src)
      BY <1>1 DEF Slots
    <3>2. CASE t < gc.src
      <4>1. HasCopy(flash, t)
        BY <3>2, <1>3, <1>6 DEF AllCopied
      <4>2. PICK u \in Slots : u < swap.offset /\
                flash[swap.phys].rec[u] = flash[pages[gc.cur].phys].rec[t]
        BY <4>1 DEF HasCopy
      <4>3. u < w.offset
        BY <4>2, <2>4, <1>1 DEF Slots
      <4> QED
        BY <4>2, <4>3
    <3>3. CASE t = gc.src
      BY <3>3, <2>2, <2>3, <2>5
    <3> QED
      BY <3>1, <3>2, <3>3
  <2>8. NextRecord(gc, w) /\ UNCHANGED pages
    BY <1>6
  <2>9. EmptyFrom(flash, w.offset)
    BY <2>2, <2>4
  <2> HIDE DEF w
  <2> QED
    BY <2>1, <2>2, <2>4, <2>5, <2>6, <2>7, <2>8, <2>9, <1>4, <1>6, NextRecordRecords
<1>7. CASE gc.state = "erase" /\ gc' = [gc EXCEPT !.state = "promote"]
           /\ Executes(Tag(swap.phys, "data"))
  <2>1. /\ flash[pages[gc.cur].phys].tag = "erased" /\ pages[gc.cur].phys \in Phys
        /\ pages[gc.cur].phys # swap.phys /\ flash[swap.phys].tag # "erased"
    BY <1>1, <1>7, ErasedType DEF GcResult, GcSwap, SwapTag
  <2>2. gc'.state = "promote"
    BY <1>1, <1>7 DEF GcType
  <2> QED
    BY <2>1, <2>2, <1>1, <1>7, TagRecords
<1>8. CASE gc.state \in {"discard", "promote"} /\ gc' = [gc EXCEPT !.state = "tagSwap", !.src = 0]
           /\ Executes(Tag(swap.phys, "swap"))
  <2>1. flash[swap.phys] = ErasedPage
    BY <1>1, <1>8 DEF GcSwap, GcResult
  <2>2. \A s \in Slots : flash[swap.phys].rec[s].st # "whole"
    BY <2>1, ErasedType
  <2>3. \A i \in Index : flash[pages[i].phys].tag = "data"
    BY <1>1, <1>8 DEF Kept, GcResult
  <2>4. \A q \in Phys : q # swap.phys => flash[q].tag = "data"
    BY <2>3, <1>1
  <2>5. gc'.state = "tagSwap"
    BY <1>1, <1>8 DEF GcType
  <2> QED
    BY <2>2, <2>4, <2>5, <1>1, <1>8, TagRecords
<1>9. CASE gc.state = "tagSwap" /\ NextPage(gc) /\ UNCHANGED <<pages, opened>>
  <2>1. gc \in Cursor
    BY <1>1 DEF Cursor, GcType
  <2>2. swap.offset = 1 /\ EmptyFrom(flash, 1) /\ SwapTag(flash) = "swap" /\ gc.src = 0
    BY <1>1, <1>9 DEF GcSwap, GcResult
  <2> QED
    BY <2>1, <2>2, <1>4, <1>9, NextPageRecords
<1> QED
    BY <1>5, <1>6, <1>7, <1>8, <1>9 DEF GcAdvance

LEMMA GcResumeRecords ==
    ASSUME IInv, IdsInv, RecordsInv, IInv', Process({"gc"}), loop.ret = "success", GcResume, Sound',
           UNCHANGED <<flash, status, queue, tok>>
    PROVE  RecordsInv'
<1> DEFINE g == [gc EXCEPT !.resume = FALSE]
<1>1. /\ GcType /\ GcSwap(flash) /\ gc.cur \in Index /\ gc.src \in Nat
      /\ \A i \in Index : Kept(flash, i) /\ pages[i].phys \in Phys /\ pages[i].phys # swap.phys
      /\ \A p \in Phys : p = swap.phys \/ \E i \in Index : p = pages[i].phys
      /\ swap \in [phys : Phys, offset : Offsets] /\ swap.phys \in Phys
    BY GcFinds
<1>2. AllCopied(flash) /\ Copies(flash)
    BY GcFinds DEF RecordsInv, IdsInv, Ids
<1>3. /\ g \in Cursor /\ g.cur = gc.cur /\ g.src = gc.src /\ g.state = gc.state
    BY <1>1 DEF Cursor, GcType
<1>4. gc.state # "discard" /\ pages' = pages
    BY DEF GcResume, Met, Sound
<1>5. gc.state \notin {"erase", "promote"} => \A i \in Index : flash[pages[i].phys].tag = "data"
    BY <1>1 DEF Kept
<1> HIDE DEF g
<1>6. CASE gc.state = "copy" /\ CopyRecord(g, swap, gc.src)
  <2>1. /\ SwapTag(flash) = "swap" /\ gc.src # 0 /\ swap.offset <= gc.src
        /\ St(flash, gc.cur, gc.src) = "whole"
    BY <1>1, <1>6 DEF GcSwap
  <2>2. gc.src \in Slots
    BY <2>1, <1>1 DEF GcType
  <2>3. CopiesAll(g.cur, swap, gc.src)
    BY <1>2, <1>3, <1>6 DEF CopiesAll, AllCopied, HasCopy
  <2> QED
    BY <2>1, <2>2, <2>3, <1>1, <1>3, <1>4, <1>5, <1>6, CopyRecords
<1>7. CASE gc.state = "erase" /\ PageErase(g, swap)
  <2>1. SwapTag(flash) = "swap" /\ EmptyFrom(flash, swap.offset)
    BY <1>1, <1>7 DEF GcSwap
  <2>2. \A i \in Index :
          flash[pages[i].phys].tag = "data" \/ (i = g.cur /\ flash[pages[i].phys] = ErasedPage)
    BY <1>1, <1>3, <1>7 DEF Kept
  <2>3. flash[pages[g.cur].phys] = ErasedPage \/ Copied(g.cur, swap, g.src + 1)
    BY <1>2, <1>3, <1>7 DEF Copied, Copies, CopyOf
  <2>4. flash[pages[g.cur].phys] = ErasedPage \/ CopiesAll(g.cur, swap, PageSlots + 1)
    BY <1>2, <1>3, <1>7 DEF CopiesAll, AllCopied, HasCopy
  <2>5. \/ flash[pages[g.cur].phys] = ErasedPage
        \/ /\ flash[pages[g.cur].phys].tag = "data"
           /\ Copied(g.cur, swap, g.src + 1) /\ CopiesAll(g.cur, swap, PageSlots + 1)
    BY <2>2, <2>3, <2>4, <1>1, <1>3
  <2> QED
    BY <2>1, <2>2, <2>5, <1>1, <1>3, <1>4, <1>7, PageEraseRecords
<1>8. CASE gc.state = "promote" /\ gc' = g /\ Executes(Tag(pages[gc.cur].phys, "data"))
  <2>1. /\ flash[swap.phys].tag = "erased" /\ pages[gc.cur].phys \in Phys
        /\ swap.phys # pages[gc.cur].phys
    BY <1>1, <1>8, ErasedType DEF GcSwap
  <2>2. flash[pages[gc.cur].phys].tag # "erased"
    BY <1>1, <1>8 DEF Kept
  <2> QED
    BY <2>1, <2>2, <1>1, <1>3, <1>8, TagRecords
<1>9. CASE gc.state = "tagSwap" /\ gc' = g /\ Executes(Tag(swap.phys, "swap"))
  <2>1. EmptyFrom(flash, 1)
    BY <1>1, <1>9 DEF GcSwap
  <2>2. \A s \in Slots : flash[swap.phys].rec[s].st # "whole"
    BY <2>1 DEF EmptyFrom, SwapSt, Slots
  <2>3. \A q \in Phys : q # swap.phys => flash[q].tag = "data"
    BY <1>1, <1>5, <1>9
  <2> QED
    BY <2>2, <2>3, <1>1, <1>3, <1>9, TagRecords
<1> QED
    BY <1>4, <1>6, <1>7, <1>8, <1>9 DEF GcResume, g

LEMMA GcExecuteRecords ==
    ASSUME IInv, IdsInv, RecordsInv, IInv', GcExecute, Sound'
    PROVE  RecordsInv'
<1>1. Process({"gc"}) /\ UNCHANGED <<flash, status, queue, tok, kept>>
    BY DEF GcExecute, static
<1>2. CASE loop.ret = "success" /\ ~gc.resume /\ GcAdvance
    BY <1>1, <1>2, GcAdvanceRecords
<1>3. CASE loop.ret = "success" /\ gc.resume /\ GcResume
    BY <1>1, <1>3, GcResumeRecords
<1>4. CASE Ends("timeout") /\ UNCHANGED <<pages, swap, gc>>
    BY <1>1, <1>4, GcFinds, EndRecords
<1> QED
    BY <1>1, <1>2, <1>3, <1>4 DEF GcExecute

-------------------------------------------------------------------------------
(* The flash, the power, the end of an operation, and the calls              *)

\* The flash operation is over, or has timed out.
LEMMA FlashRecords ==
    ASSUME IInv, RecordsInv, FlashDone \/ FlashTimeout
    PROVE  RecordsInv'
<1>1. PICK f2 : f2 = Done
    OBVIOUS
<1>2. /\ UNCHANGED <<status, pages, swap, gc, queue, desc, tok, kept>> /\ busy' = NoBusy
      /\ busy # NoBusy /\ loop'.at = "run" /\ (flash' = f2 \/ (flash' = flash /\ ~Going'))
    BY <1>1, SMTT(30) DEF FlashDone, FlashTimeout, ram, static, ghosts, Again, Done, Going
<1>3. Done' = flash' /\ loop.at = "idle" /\ Going
    BY <1>2, DoneIsFlash1 DEF IInv, Control, LoopOK, Going
<1>4. Writing' = Writing /\ Cur' = Cur /\ (Head1({"update", "delete"})' <=> Head1({"update", "delete"}))
      /\ (Head1({"deleteFile"})' <=> Head1({"deleteFile"}))
    BY <1>2, <1>3, SMTT(30) DEF Writing, Cur, Head1
<1>5. TokOK'
    BY <1>1, <1>2, <1>3, <1>4, ZenonT(30) DEF RecordsInv, TokOK, Passed, St
<1>6. ErasesCopies'
    BY <1>1, <1>2, <1>3, <1>4 DEF RecordsInv, ErasesCopies
<1>7. OneChange'
    BY <1>3 DEF OneChange
<1>8. status = "ready" => AllCopied(flash)' /\ AllCopied(Done)'
    BY <1>1, <1>2, <1>3, AllCopiedStays DEF RecordsInv
<1>9. (status = "ready" /\ Going') => HasWritten(Done)' /\ HasDeleted(Done)'
    BY <1>1, <1>2, <1>3, <1>4 DEF RecordsInv, HasWritten, HasDeleted
<1>10. status # "ready" => kept' = Live(flash') /\ Live(Done') = Live(flash')
    BY <1>1, <1>2, <1>3 DEF RecordsInv
<1> QED
    BY <1>2, <1>5, <1>6, <1>7, <1>8, <1>9, <1>10 DEF RecordsInv

\* The device is switched off: what could be found is what the flash has.
LEMMA ResetRecords ==
    ASSUME IInv, IdsInv, RecordsInv, Reset
    PROVE  RecordsInv'
<1>1. PICK f2 : f2 = flash' /\ (f2 = flash \/ f2 = Done)
    BY DEF Reset, Done
<1>2. Done' = flash' /\ status' = "off" /\ tok' = NoDesc
    BY DoneIsFlash1 DEF Reset
<1>3. kept' = Live(f2)
  <2>1. CASE status = "ready"
    <3>1. PagesOK /\ GcType /\ Consistent(f2) /\ Known(f2) /\ Copies(f2) /\ AllCopied(f2)
      BY <1>1, <2>1 DEF IInv, Control, FlashOK, IsReady, IdsInv, Ids, RecordsInv
    <3>2. Stored(f2) = Live(f2)
      BY <3>1, <2>1, StoredIs
    <3> QED
      BY <3>2, <2>1, <1>1 DEF Reset
  <2>2. CASE status # "ready"
    BY <2>2, <1>1 DEF Reset, RecordsInv
  <2> QED
    BY <2>1, <2>2
<1> QED
    BY <1>1, <1>2, <1>3 DEF RecordsInv, OneChange, TokOK, ErasesCopies

\* queue_process goes on to the next operation, which has not begun.
LEMMA FreeRecords ==
    ASSUME IInv, RecordsInv, Free
    PROVE  RecordsInv'
<1>1. /\ loop.at = "event" /\ queue' = Tail(queue)
      /\ UNCHANGED <<flash, status, pages, swap, gc, busy, desc, tok, kept>>
    BY DEF Free, ram, static, ghosts
<1>2. QueueOK /\ queue # <<>> /\ busy = NoBusy /\ status # "starting"
    BY <1>1 DEF IInv, Control, LoopOK, StatusOK
<1>3. Done' = flash /\ Done = flash
    BY <1>1, <1>2, DoneIsFlash, DoneIsFlash1
<1>4. queue' # <<>> => Unstarted(Cur)'
    BY <1>1, <1>2, TailIs
<1>5. HasWritten(Done)' /\ HasDeleted(Done)'
  <2>1. Writing' = 0
    BY <1>4 DEF Writing, Head1, Unstarted
  <2>2. ~(Head1({"update", "delete"}) /\ Cur.step = "done")'
    BY <1>4 DEF Head1, Unstarted
  <2> QED
    BY <2>1, <2>2 DEF HasWritten, HasDeleted
<1>6. tok' = NoDesc
    BY <1>1 DEF RecordsInv, TokOK
<1>7. status = "ready" => AllCopied(flash)' /\ AllCopied(Done)'
    BY <1>1, <1>3, AllCopiedStays DEF RecordsInv
<1>8. status # "ready" => kept' = Live(flash') /\ Live(Done') = Live(flash')
    BY <1>1, <1>3 DEF RecordsInv
<1> QED
    BY <1>1, <1>2, <1>3, <1>5, <1>6, <1>7, <1>8 DEF RecordsInv, OneChange, TokOK, ErasesCopies

\* A call disturbs nothing: the operation at the head of the queue goes on.
LEMMA CallsRecords ==
    ASSUME IInv, RecordsInv, Calls
    PROVE  RecordsInv'
<1>1. /\ status = "ready" /\ status' = "ready" /\ loop.at # "run" /\ UNCHANGED <<flash, swap, busy, desc, tok>>
      /\ gc'.state = gc.state /\ gc'.cur = gc.cur /\ gc'.src = gc.src
      /\ \A i \in Index : pages'[i].phys = pages[i].phys /\ pages'[i].offset = pages[i].offset
    BY CallsAre DEF Untouched
<1>2. QueueOK /\ gc.cur \in Index /\ (Going => WriteResult(Done)) /\ LoopOK
    BY <1>1 DEF IInv, Control, GcType, IsReady
<1>3. PICK f2 : f2 = Done /\ Done' = f2
    BY <1>1 DEF Done
<1>4. queue # <<>> => queue' # <<>> /\ Cur' = Cur /\ loop' = loop
  <2>1. CASE UNCHANGED <<queue, loop, latest>>
    BY <2>1 DEF Cur
  <2>2. CASE \E o \in Operation : Queues(o)
    <3>1. PICK o \in Operation : Queues(o)
      BY <2>2
    <3>2. OpOK(o) /\ Unstarted(o) /\ Call(o)
      BY <3>1 DEF Queues
    <3>3. Len(queue) < QueueSize /\ queue' = Append(queue, o) /\ (queue # <<>> => loop' = loop)
      BY <3>2 DEF Call
    <3> QED
      BY <3>2, <3>3, <1>2, AppendIs
  <2> QED
    BY <2>1, <2>2, CallsAre
<1>5. queue = <<>> => queue' = <<>> \/ Unstarted(Cur)'
  <2>1. CASE UNCHANGED <<queue, loop, latest>>
    BY <2>1
  <2>2. CASE \E o \in Operation : Queues(o)
    <3>1. PICK o \in Operation : Queues(o)
      BY <2>2
    <3>2. OpOK(o) /\ Unstarted(o) /\ Call(o)
      BY <3>1 DEF Queues
    <3>3. Len(queue) < QueueSize /\ queue' = Append(queue, o)
      BY <3>2 DEF Call
    <3>4. queue = <<>> => Cur' = o
      BY <3>2, <3>3, <1>2, AppendIs
    <3> QED
      BY <3>2, <3>4 DEF Unstarted
  <2> QED
    BY <2>1, <2>2, CallsAre
<1>6. AllCopied(flash)' /\ AllCopied(Done)'
    BY <1>1, <1>2, <1>3, AllCopiedStays DEF RecordsInv
<1>7. OneChange'
    BY <1>1, <1>3, <1>4 DEF RecordsInv, OneChange
<1>8. TokOK'
  <2> SUFFICES ASSUME tok # NoDesc
               PROVE  TokOK'
    BY <1>1 DEF TokOK
  <2>1. /\ queue # <<>> /\ Cur.op = "deleteFile" /\ loop.at # "event"
        /\ tok \in [page : Index, slot : Slots] /\ (Going => Passed(f2))
    BY <1>3 DEF RecordsInv, TokOK, Head1
  <2>2. Head1({"deleteFile"})' /\ loop' = loop /\ Cur' = Cur /\ Going' = Going
    BY <2>1, <1>1, <1>4 DEF Head1, Going
  <2>3. Passed(f2) => Passed(Done)'
    BY <2>2, <1>1, <1>3 DEF Passed, St, Before
  <2> QED
    BY <2>1, <2>2, <2>3, <1>1 DEF TokOK, Slots, Index
<1>9. Going' => HasWritten(Done)' /\ HasDeleted(Done)'
  <2>1. CASE queue = <<>>
    <3>1. Writing' = 0
      BY <2>1, <1>5 DEF Writing, Head1, Unstarted
    <3>2. ~(Head1({"update", "delete"}) /\ Cur.step = "done")'
      BY <2>1, <1>5 DEF Head1, Unstarted
    <3> QED
      BY <3>1, <3>2 DEF HasWritten, HasDeleted
  <2>2. CASE queue # <<>>
    <3>1. /\ Writing' = Writing /\ Cur' = Cur /\ Going' = Going
          /\ Head1({"update", "delete"})' = Head1({"update", "delete"})
      BY <2>2, <1>1, <1>4 DEF Writing, Head1, Going
    <3>2. Writing # 0 => Writing \in Index
      BY <1>2, WritingIs
    <3>3. Going => HasWritten(f2) /\ HasDeleted(f2) /\ WriteResult(f2)
      BY <1>1, <1>2, <1>3 DEF RecordsInv
    <3>4. Going => HasDeleted(Done)'
      BY <3>1, <3>3, <1>3 DEF HasDeleted
    <3>5. (Writing # 0 /\ Cur.op = "update" /\ Cur.step \in {"final", "flag"} /\ Going) => desc.page \in Index
      BY <3>3 DEF WriteResult
    <3>6. Going => HasWritten(Done)'
      BY <3>1, <3>2, <3>3, <3>5, <1>1, <1>3 DEF HasWritten
    <3> QED
      BY <3>1, <3>4, <3>6
  <2> QED
    BY <2>1, <2>2
<1> QED
    BY <1>1, <1>6, <1>7, <1>8, <1>9 DEF RecordsInv, ErasesCopies

-------------------------------------------------------------------------------
(* Every step                                                                *)

LEMMA StutterRecords ==
    ASSUME RecordsInv, UNCHANGED vars
    PROVE  RecordsInv'
<1>1. UNCHANGED <<flash, status, pages, swap, gc, queue, loop, busy, desc, tok, kept>>
    BY DEF vars, ram, static, ghosts
<1>2. Done' = Done /\ Cur' = Cur /\ Going' = Going /\ Writing' = Writing
    BY <1>1 DEF Done, Cur, Going, Writing, Head1
<1>3. OneChange' /\ ErasesCopies'
    BY <1>1, <1>2, SMTT(30) DEF RecordsInv, OneChange, ErasesCopies
<1>4. TokOK'
    BY <1>1, <1>2 DEF RecordsInv, TokOK, Head1, Passed, St
<1>5. status = "ready" => AllCopied(flash)' /\ AllCopied(Done)'
    BY <1>1, <1>2, AllCopiedStays DEF RecordsInv
<1>6. (status = "ready" /\ Going) => HasWritten(Done)' /\ HasDeleted(Done)'
    BY <1>1, <1>2 DEF RecordsInv, HasWritten, HasDeleted, Head1
<1>7. status # "ready" => kept' = Live(flash') /\ Live(Done') = Live(flash')
    BY <1>1, <1>2 DEF RecordsInv
<1> QED
    BY <1>1, <1>2, <1>3, <1>4, <1>5, <1>6, <1>7 DEF RecordsInv

LEMMA NextRecords ==
    ASSUME IInv, IdsInv, RecordsInv, IInv', [Next]_vars, Sound'
    PROVE  RecordsInv'
    BY FdsInitRecords, InitExecuteRecords, WriteExecuteRecords, DeleteExecuteRecords,
       DeleteFileExecuteRecords, GcExecuteRecords, FreeRecords, FlashRecords, ResetRecords,
       CallsRecords, StutterRecords
    DEF Next, QueueProcess

\* The invariant of the records holds of the storage.
LEMMA RecordsInvariance == Spec => []RecordsInductive
<1>1. Init => RecordsInductive
  <2> SUFFICES ASSUME Init
               PROVE  RecordsInv
    BY DEF RecordsInductive
  <2>1. Done = flash
    BY DoneIsFlash DEF Init
  <2> QED
    BY <2>1 DEF Init, RecordsInv, OneChange, TokOK, ErasesCopies
<1>2. ASSUME Inductive, Inductive', IdsInductive, RecordsInductive, [Next]_vars
      PROVE  RecordsInductive'
    BY <1>2, SoundStays, NextRecords DEF Inductive, IdsInductive, RecordsInductive
<1> QED
    BY <1>1, <1>2, Invariance, IdsInvariance, PTL DEF Spec

-------------------------------------------------------------------------------
(* The operations as a RecordStore sees them                                 *)

\* the operations without the steps they are at
NoStep(o) == [o EXCEPT !.step = ""]
Shown(q)  == [k \in DOMAIN q |-> NoStep(q[k])]

\* what the operation at the head of the queue has come to
Outcome == IF loop.at # "event" THEN "none"
           ELSE IF loop.ret = "success" THEN "success" ELSE "error"

\* an operation, whatever step it is at
AnyStep == {NoStep(o) : o \in Operation}

LEMMA NoStepIs ==
    ASSUME NEW o \in Operation
    PROVE  /\ NoStep(o).op = o.op /\ NoStep(o).id = o.id
           /\ NoStep(o).file = o.file /\ NoStep(o).old = o.old
           /\ \A s \in Steps : NoStep([o EXCEPT !.step = s]) = NoStep(o)
    BY DEF NoStep, Operation

LEMMA ShownIs ==
    ASSUME NEW q \in Seq(Operation)
    PROVE  /\ Shown(q) \in Seq(AnyStep) /\ Len(Shown(q)) = Len(q) /\ Len(q) \in Nat
           /\ \A k \in 1 .. Len(q) : Shown(q)[k] = NoStep(q[k])
           /\ Shown(q) = <<>> <=> q = <<>>
           /\ q # <<>> => /\ Head(Shown(q)) = NoStep(Head(q))
                          /\ Head(q) \in Operation
<1>1. PICK n \in Nat : n = Len(q) /\ DOMAIN q = 1 .. n /\ \A k \in 1 .. n : q[k] \in Operation
    BY LenProperties, ElementOfSeq
<1>2. Shown(q) \in [1 .. n -> AnyStep]
  <2>1. \A k \in 1 .. n : NoStep(q[k]) \in AnyStep
    BY <1>1, Zenon DEF AnyStep
  <2> QED
    BY <2>1, <1>1, Zenon DEF Shown
<1>3. /\ Shown(q) \in Seq(AnyStep) /\ Len(Shown(q)) = n
      /\ \A k \in 1 .. n : Shown(q)[k] = NoStep(q[k])
  <2>1. \A k \in 1 .. n : Shown(q)[k] = NoStep(q[k])
    BY <1>1, Zenon DEF Shown
  <2>2. Shown(q) \in Seq(AnyStep) /\ Len(Shown(q)) = n
    BY <1>2, IsASeq, LenProperties
  <2> QED
    BY <2>1, <2>2
<1>4. Shown(q) = <<>> <=> q = <<>>
    BY <1>1, <1>3, EmptySeq
<1>5. ASSUME q # <<>>
      PROVE  Head(Shown(q)) = NoStep(Head(q)) /\ Head(q) \in Operation
  <2>1. Head(q) = q[1] /\ 1 \in 1 .. n
    BY <1>1, <1>5, EmptySeq
  <2>2. PICK r \in Seq(AnyStep) : r = Shown(q) /\ r # <<>>
    BY <1>3, <1>4, <1>5
  <2>3. Head(r) = r[1]
    BY <2>2
  <2> QED
    BY <2>1, <2>2, <2>3, <1>1, <1>3
<1> QED
    BY <1>1, <1>3, <1>4, <1>5

\* what is pending, and its changes
LEMMA PendingIs ==
    ASSUME QueueOK
    PROVE  /\ Pending = <<>> <=> queue = <<>>
           /\ queue # <<>> => /\ Head(Pending).op = Cur.op /\ Head(Pending).id = Cur.id
                              /\ Head(Pending).file = Cur.file /\ Head(Pending).old = Cur.old
<1>1. Pending = Shown(queue) /\ queue \in Seq(Operation)
    BY DEF Pending, Shown, NoStep, QueueOK
<1>2. queue # <<>> => Head(Pending) = NoStep(Cur) /\ Cur \in Operation
    BY <1>1, ShownIs DEF Cur
<1> QED
    BY <1>1, <1>2, ShownIs, NoStepIs

LEMMA PendingStays ==
    ASSUME QueueOK, queue # <<>>, queue' = queue \/ \E s \in Steps : Step(s)
    PROVE  Pending' = Pending
<1>1. CASE queue' = queue
    BY <1>1 DEF Pending
<1>2. ASSUME NEW s \in Steps, Step(s)
      PROVE  Pending' = Pending
  <2>1. /\ queue \in Seq(Operation) /\ queue' \in Seq(Operation) /\ Len(queue') = Len(queue)
        /\ queue'[1] = [queue[1] EXCEPT !.step = s] /\ queue[1] \in Operation
        /\ \A k \in 1 .. Len(queue) : k > 1 => queue'[k] = queue[k]
    BY <1>2, StepIs DEF QueueOK
  <2>2. \A k \in 1 .. Len(queue) : NoStep(queue'[k]) = NoStep(queue[k])
    <3>1. NoStep(queue'[1]) = NoStep(queue[1])
      BY <2>1, NoStepIs
    <3>2. \A k \in 1 .. Len(queue) : k = 1 \/ k > 1
      BY <2>1
    <3> QED
      BY <3>1, <3>2, <2>1
  <2>3. Pending = Shown(queue) /\ Pending' = Shown(queue')
    BY DEF Pending, Shown, NoStep
  <2>4. Shown(queue) \in Seq(AnyStep) /\ Shown(queue') \in Seq(AnyStep)
        /\ Len(Shown(queue)) = Len(queue) /\ Len(Shown(queue')) = Len(queue)
        /\ \A k \in 1 .. Len(queue) : Shown(queue')[k] = Shown(queue)[k]
    <3>1. PICK q \in Seq(Operation), r \in Seq(Operation) : q = queue /\ r = queue'
      BY <2>1
    <3>2. /\ Shown(q) \in Seq(AnyStep) /\ Shown(r) \in Seq(AnyStep)
          /\ Len(Shown(q)) = Len(q) /\ Len(Shown(r)) = Len(r)
          /\ \A k \in 1 .. Len(q) : Shown(q)[k] = NoStep(q[k])
          /\ \A k \in 1 .. Len(r) : Shown(r)[k] = NoStep(r[k])
      BY ShownIs
    <3> QED
      BY <3>1, <3>2, <2>1, <2>2
  <2> QED
    BY <2>3, <2>4, SeqEqual
<1> QED
    BY <1>1, <1>2

LEMMA PendingGrows ==
    ASSUME QueueOK, NEW o \in Operation, queue' = Append(queue, o)
    PROVE  /\ Len(Pending') = Len(Pending) + 1
           /\ SubSeq(Pending', 1, Len(Pending)) = Pending
<1>1. queue \in Seq(Operation) /\ queue' \in Seq(Operation)
    BY DEF QueueOK
<1>2. Pending = Shown(queue) /\ Pending' = Shown(queue')
    BY DEF Pending, Shown, NoStep
<1>3. PICK n \in Nat : n = Len(queue) /\ Len(queue') = n + 1 /\ \A k \in 1 .. n : queue'[k] = queue[k]
    BY <1>1
<1>4. /\ Shown(queue) \in Seq(AnyStep) /\ Shown(queue') \in Seq(AnyStep)
      /\ Len(Shown(queue)) = n /\ Len(Shown(queue')) = n + 1
    BY <1>1, <1>3, ShownIs
<1>5. \A k \in 1 .. n : Shown(queue')[k] = Shown(queue)[k]
  <2>1. \A k \in 1 .. n : k \in 1 .. n + 1
    BY <1>3
  <2>2. PICK q \in Seq(Operation), r \in Seq(Operation) : q = queue /\ r = queue'
    BY <1>1
  <2>3. /\ \A k \in 1 .. Len(q) : Shown(q)[k] = NoStep(q[k])
        /\ \A k \in 1 .. Len(r) : Shown(r)[k] = NoStep(r[k])
    BY ShownIs
  <2> QED
    BY <2>1, <2>2, <2>3, <1>3
<1>6. /\ SubSeq(Shown(queue'), 1, n) \in Seq(AnyStep) /\ Len(SubSeq(Shown(queue'), 1, n)) = n
      /\ \A k \in 1 .. n : SubSeq(Shown(queue'), 1, n)[k] = Shown(queue')[k]
    BY <1>3, <1>4, SubSeqProperties, ElementOfSeq
<1>7. SubSeq(Shown(queue'), 1, n) = Shown(queue)
    BY <1>4, <1>5, <1>6, SeqEqual
<1> QED
    BY <1>2, <1>4, <1>7

LEMMA PendingShrinks ==
    ASSUME QueueOK, queue # <<>>, queue' = Tail(queue)
    PROVE  Pending' = Tail(Pending)
<1>1. queue \in Seq(Operation) /\ queue' \in Seq(Operation)
    BY DEF QueueOK
<1>2. Pending = Shown(queue) /\ Pending' = Shown(queue')
    BY DEF Pending, Shown, NoStep
<1>3. PICK n \in Nat : n = Len(queue) /\ n >= 1 /\ Len(queue') = n - 1
                       /\ \A k \in 1 .. n - 1 : queue'[k] = queue[k + 1]
    BY <1>1
<1>4. /\ Shown(queue) \in Seq(AnyStep) /\ Shown(queue') \in Seq(AnyStep) /\ Shown(queue) # <<>>
      /\ Len(Shown(queue)) = n /\ Len(Shown(queue')) = n - 1
    BY <1>1, <1>3, ShownIs
<1>5. \A k \in 1 .. n - 1 : Shown(queue')[k] = Shown(queue)[k + 1]
  <2>1. \A k \in 1 .. n - 1 : k + 1 \in 1 .. n
    BY <1>3
  <2>2. PICK q \in Seq(Operation), r \in Seq(Operation) : q = queue /\ r = queue'
    BY <1>1
  <2>3. /\ \A k \in 1 .. Len(q) : Shown(q)[k] = NoStep(q[k])
        /\ \A k \in 1 .. Len(r) : Shown(r)[k] = NoStep(r[k])
    BY ShownIs
  <2> QED
    BY <2>1, <2>2, <2>3, <1>3
<1>6. /\ Tail(Shown(queue)) \in Seq(AnyStep) /\ Len(Tail(Shown(queue))) = n - 1
      /\ \A k \in 1 .. n - 1 : Tail(Shown(queue))[k] = Shown(queue)[k + 1]
    BY <1>3, <1>4
<1>7. Tail(Shown(queue)) = Shown(queue')
    BY <1>4, <1>5, <1>6, SeqEqual
<1> QED
    BY <1>2, <1>7

-------------------------------------------------------------------------------
(* Each step is one of a RecordStore                                         *)

\* the records are those of the flash
RecordsLive == Records = Live(flash)

\* what every step of the storage has to be
StoreStep == Store!Next \/ UNCHANGED Store!vars

\* a step that its users do not see ...
LEMMA SeesNothing ==
    ASSUME Records' = Records, Pending' = Pending, Outcome' = Outcome,
           status' = "ready" <=> status = "ready"
    PROVE  StoreStep
<1>1. (status' = "ready") = (status = "ready")
    OBVIOUS
<1> QED
    BY <1>1 DEF StoreStep, Store!vars, Outcome

\* ... and one that changes the records
LEMMA SeesChange ==
    ASSUME QueueOK, queue # <<>>, Changed(Cur, Records, Records'), Outcome = "none",
           UNCHANGED <<queue, status>>, Outcome' = "none"
    PROVE  StoreStep
<1>1. /\ Pending # <<>> /\ Head(Pending).op = Cur.op /\ Head(Pending).id = Cur.id
      /\ Head(Pending).file = Cur.file /\ Head(Pending).old = Cur.old
    BY PendingIs
<1>2. Store!Effect(Head(Pending))
    BY <1>1 DEF Changed, Store!Effect, Store!New
<1>3. Pending' = Pending
    BY DEF Pending
<1>4. Store!Change
    BY <1>1, <1>2, <1>3 DEF Store!Change, Outcome
<1> QED
    BY <1>4 DEF StoreStep, Store!Next

\* what an operation that ends with a success has done
Performed(o) ==
    /\ o.op \in {"write", "update"} => [id |-> o.id, file |-> o.file] \in Records
    /\ o.op \in {"update", "delete"} => \A r \in Records : r.id # o.old
    /\ o.op = "deleteFile" => \A r \in Records : r.file # o.file

\* The operation under way starts a flash operation, or ends.
LEMMA ExecuteStore ==
    ASSUME QueueOK, queue # <<>>, loop.at = "run", Records' = Records, Pending' = Pending,
           \/ loop' = Idle /\ (status' = "ready" <=> status = "ready")
           \/ \E ret : /\ loop' = Event(ret)
                       /\ \/ status = "ready" /\ status' = "ready"
                          \/ status # "ready" /\ (status' = "ready" <=> ret = "success")
                       /\ ret = "success" => Performed(Cur)
    PROVE  StoreStep
<1>1. /\ Pending # <<>> /\ Head(Pending).op = Cur.op /\ Head(Pending).id = Cur.id
      /\ Head(Pending).file = Cur.file /\ Head(Pending).old = Cur.old
    BY PendingIs
<1>2. Outcome = "none"
    BY DEF Outcome
<1>3. CASE loop' = Idle /\ (status' = "ready" <=> status = "ready")
  <2>1. Outcome' = "none"
    BY <1>3 DEF Outcome, Idle
  <2> QED
    BY <2>1, <1>2, <1>3, SeesNothing
<1>4. ASSUME NEW ret, loop' = Event(ret),
             \/ status = "ready" /\ status' = "ready"
             \/ status # "ready" /\ (status' = "ready" <=> ret = "success"),
             ret = "success" => Performed(Cur)
      PROVE  StoreStep
  <2>1. Outcome' = IF ret = "success" THEN "success" ELSE "error"
    BY <1>4 DEF Outcome, Event
  <2>2. ret = "success" => Store!Done(Head(Pending))
    BY <1>1, <1>4 DEF Performed, Store!Done, Store!New
  <2>3. \/ Outcome' = "success" /\ Store!Done(Head(Pending))
        \/ Outcome' = "error"
    BY <2>1, <2>2
  <2>4. /\ status = "ready" \/ (status' = "ready") = (Outcome' = "success")
        /\ status = "ready" => status' = "ready"
    BY <2>1, <1>4
  <2>5. Store!Finish
    BY <2>3, <2>4, <1>1, <1>2 DEF Store!Finish, Outcome
  <2> QED
    BY <2>5 DEF StoreStep, Store!Next
<1> QED
    BY <1>3, <1>4

LEMMA InitExecuteStore ==
    ASSUME IInv, InitExecute, RecordsLive, RecordsLive'
    PROVE  StoreStep
<1>1. Process({"init"}) /\ flash' = flash
    BY DEF InitExecute
<1>2. /\ QueueOK /\ queue # <<>> /\ loop.at = "run" /\ Cur.op = "init" /\ status # "ready"
    BY <1>1 DEF Process, IInv, Control, LoopOK, StatusOK, Head1
<1>3. Records' = Records
    BY <1>1 DEF RecordsLive
<1>4. Pending' = Pending
    BY <1>2, PendingStays DEF InitExecute, Steps
<1>5. Performed(Cur)
    BY <1>2 DEF Performed
<1>6. \/ loop' = Idle /\ status' = status
      \/ loop' = Event("success") /\ status' = "ready"
      \/ loop' = Event("timeout") /\ status' = "failed"
    BY DEF InitExecute, Executes, Ends
<1> QED
    BY <1>2, <1>3, <1>4, <1>5, <1>6, ExecuteStore

\* An operation on records, or a collection, finds and leaves the storage ready.
LEMMA ReadyStore ==
    ASSUME QueueOK, queue # <<>>, loop.at = "run", status = "ready", UNCHANGED <<flash, status>>,
           RecordsLive, RecordsLive', queue' = queue \/ \E s \in Steps : Step(s),
           \/ loop' = Idle
           \/ \E ret : loop' = Event(ret) /\ (ret = "success" => Performed(Cur))
    PROVE  StoreStep
<1>1. Records' = Records
    BY DEF RecordsLive
<1>2. Pending' = Pending
    BY PendingStays
<1> QED
    BY <1>1, <1>2, ExecuteStore

LEMMA WriteExecuteStore ==
    ASSUME IInv, RecordsInv, WriteExecute, RecordsLive, RecordsLive'
    PROVE  StoreStep
<1>1. /\ Cur.op \in {"write", "update"} /\ Process(RecordOps) /\ UNCHANGED <<flash, status>>
    BY DEF WriteExecute, Process, RecordOps
<1>2. /\ queue # <<>> /\ QueueOK /\ status = "ready" /\ Done = flash /\ loop.at = "run"
      /\ PagesOK /\ IsReady /\ Consistent(flash)
    BY <1>1, OpCalled
<1>3. queue' = queue \/ \E s \in Steps : Step(s)
    BY DEF WriteExecute, Steps
<1>4. CASE loop.ret = "success" /\ Cur.step = "done" /\ Ends("success")
  <2>1. Cur.page \in Index /\ Cur.page # 0
    BY <1>1, <1>2, HeadIs DEF Index
  <2>2. Writing = Cur.page /\ HasWritten(flash) /\ HasDeleted(flash)
    <3>1. Going
      BY <1>2, <1>4 DEF Going
    <3> QED
      BY <3>1, <1>1, <1>2, <1>4 DEF Writing, Head1, RecordsInv
  <2>3. PICK p \in Phys, o \in Slots : p = pages[Cur.page].phys /\ o = pages[Cur.page].offset /\ Counts(flash, p)
    BY <2>1, <1>1, <1>2, OffsetInSlots, OpCalled
  <2>4. flash[p].rec[o] = [st |-> "whole", id |-> Cur.id, file |-> Cur.file]
    BY <2>1, <2>2, <2>3, <1>4 DEF HasWritten
  <2>5. [id |-> Cur.id, file |-> Cur.file] \in Live(flash)
    <3>1. Holding(flash, p, o) /\ Entry(flash, p, o) = [id |-> Cur.id, file |-> Cur.file]
      BY <2>3, <2>4 DEF Holding, Entry
    <3> QED
      BY <3>1, <1>2, LiveIs
  <2>6. Cur.op = "update" => \A r \in Live(flash) : r.id # Cur.old
    BY <2>2, <1>2, <1>4 DEF HasDeleted, Head1
  <2>7. Performed(Cur)
    BY <2>5, <2>6, <1>1 DEF Performed, RecordsLive
  <2>8. loop' = Event("success")
    BY <1>4 DEF Ends
  <2> QED
    BY <2>7, <2>8, <1>1, <1>2, <1>3, ReadyStore
<1>5. CASE ~(loop.ret = "success" /\ Cur.step = "done")
  <2>1. loop' = Idle \/ loop' = Event("timeout") \/ loop' = Event("notFound")
    BY <1>5 DEF WriteExecute, WriteTo, FlagDirty, Executes, Ends
  <2> QED
    BY <2>1, <1>1, <1>2, <1>3, ReadyStore
<1>6. loop.ret = "success" /\ Cur.step = "done" => Ends("success")
    BY DEF WriteExecute
<1> QED
    BY <1>4, <1>5, <1>6

LEMMA DeleteExecuteStore ==
    ASSUME IInv, RecordsInv, DeleteExecute, RecordsLive, RecordsLive'
    PROVE  StoreStep
<1>1. /\ Cur.op = "delete" /\ Process(RecordOps) /\ UNCHANGED <<flash, status>>
    BY DEF DeleteExecute, Process, RecordOps
<1>2. /\ queue # <<>> /\ QueueOK /\ status = "ready" /\ Done = flash /\ loop.at = "run"
    BY <1>1, OpCalled
<1>3. queue' = queue \/ \E s \in Steps : Step(s)
    BY DEF DeleteExecute, Steps
<1>4. CASE loop.ret = "success" /\ Cur.step = "done" /\ Ends("success")
  <2>1. HasDeleted(flash)
    <3>1. Going
      BY <1>2, <1>4 DEF Going
    <3> QED
      BY <3>1, <1>2 DEF RecordsInv
  <2>2. \A r \in Live(flash) : r.id # Cur.old
    BY <2>1, <1>1, <1>2, <1>4 DEF HasDeleted, Head1
  <2>3. Performed(Cur)
    BY <2>2, <1>1 DEF Performed, RecordsLive
  <2>4. loop' = Event("success")
    BY <1>4 DEF Ends
  <2> QED
    BY <2>3, <2>4, <1>1, <1>2, <1>3, ReadyStore
<1>5. CASE ~(loop.ret = "success" /\ Cur.step = "done")
  <2>1. loop' = Idle \/ loop' = Event("timeout") \/ loop' = Event("notFound")
    BY <1>5 DEF DeleteExecute, FlagDirty, Executes, Ends
  <2> QED
    BY <2>1, <1>1, <1>2, <1>3, ReadyStore
<1>6. loop.ret = "success" /\ Cur.step = "done" => Ends("success")
    BY DEF DeleteExecute
<1> QED
    BY <1>4, <1>5, <1>6

LEMMA DeleteFileExecuteStore ==
    ASSUME IInv, RecordsInv, DeleteFileExecute, RecordsLive, RecordsLive'
    PROVE  StoreStep
<1>1. /\ Cur.op = "deleteFile" /\ Process(RecordOps) /\ UNCHANGED <<flash, status, queue>>
    BY DEF DeleteFileExecute, Process, RecordOps
<1>2. /\ queue # <<>> /\ QueueOK /\ status = "ready" /\ Done = flash /\ loop.at = "run"
      /\ PagesOK /\ Consistent(flash)
    BY <1>1, OpCalled
<1>3. CASE loop.ret = "success" /\ FoundInFile(Cur.file) = {} /\ Ends("success")
  <2>1. ASSUME NEW r \in Live(flash), r.file = Cur.file
        PROVE  FALSE
    <3>1. PICK p \in Phys, s \in Slots : Holding(flash, p, s) /\ r = Entry(flash, p, s)
      BY <2>1, <1>2, LiveIs
    <3>2. PICK i \in Index : p = pages[i].phys
      BY <3>1, <1>1, OpCalled DEF Holding
    <3> DEFINE d == [page |-> i, slot |-> s]
    <3>3. /\ d \in [page : Index, slot : Slots] /\ d.page = i /\ d.slot = s
          /\ pages[i].type = "data"
      BY <1>2 DEF PagesOK
    <3>4. /\ Valid(flash, pages[i].phys, s) /\ flash[pages[i].phys].rec[s].file = Cur.file
          /\ flash[pages[i].phys].rec[s].st = "whole"
      BY <3>1, <3>2, <2>1, <1>2, ValidIs DEF Holding, Entry
    <3>5. CASE Before(tok, d)
      <4>1. d \in FoundInFile(Cur.file)
        BY <3>3, <3>4, <3>5, SMTT(30) DEF FoundInFile, At
      <4> QED
        BY <4>1, <1>3
    <3>6. CASE ~Before(tok, d)
      <4>1. tok # NoDesc
        BY <3>3, <3>6 DEF NoDesc, Before, Index
      <4>2. Going
        BY <1>2, <1>3 DEF Going
      <4>3. Passed(flash)
        BY <4>1, <4>2, <1>2 DEF RecordsInv, TokOK
      <4> QED
        BY <4>3, <3>3, <3>4, <3>6 DEF Passed, St
    <3> QED
      BY <3>5, <3>6
  <2>2. Performed(Cur)
    BY <2>1, <1>1 DEF Performed, RecordsLive
  <2>3. loop' = Event("success")
    BY <1>3 DEF Ends
  <2> QED
    BY <2>2, <2>3, <1>1, <1>2, ReadyStore
<1>4. CASE ~(loop.ret = "success" /\ FoundInFile(Cur.file) = {})
  <2>1. loop' = Idle \/ loop' = Event("timeout")
    BY <1>4 DEF DeleteFileExecute, FlagDirty, Executes, Ends
  <2> QED
    BY <2>1, <1>1, <1>2, ReadyStore
<1>5. loop.ret = "success" /\ FoundInFile(Cur.file) = {} => Ends("success")
    BY DEF DeleteFileExecute
<1> QED
    BY <1>3, <1>4, <1>5

LEMMA GcExecuteStore ==
    ASSUME IInv, GcExecute, RecordsLive, RecordsLive'
    PROVE  StoreStep
<1>1. Process({"gc"}) /\ UNCHANGED <<flash, status, queue>>
    BY DEF GcExecute
<1>2. /\ queue # <<>> /\ QueueOK /\ status = "ready" /\ loop.at = "run" /\ Cur.op = "gc"
    BY <1>1, Collecting
<1>3. Performed(Cur)
    BY <1>2 DEF Performed
<1>4. \A b : Executes(b) => loop' = Idle
    BY DEF Executes
<1>5. \A ret : Ends(ret) => loop' = Event(ret)
    BY DEF Ends
<1>6. ASSUME NEW g, NEW w, PageErase(g, w) \/ \E s : CopyRecord(g, w, s)
      PROVE  loop' = Idle
    BY <1>4, <1>6, ZenonT(30) DEF PageErase, CopyRecord
<1>7. ASSUME NEW g, NextPage(g)
      PROVE  loop' = Idle \/ \E ret : loop' = Event(ret)
    BY <1>5, <1>6, <1>7 DEF NextPage, NextRecord
<1>8. loop' = Idle \/ \E ret : loop' = Event(ret)
    BY <1>4, <1>5, <1>6, <1>7 DEF GcExecute, GcAdvance, GcResume, NextRecord
<1> QED
    BY <1>1, <1>2, <1>3, <1>8, ReadyStore

LEMMA FreeStore ==
    ASSUME IInv, Free, RecordsLive, RecordsLive'
    PROVE  StoreStep
<1>1. /\ loop.at = "event" /\ queue' = Tail(queue) /\ UNCHANGED <<flash, status>>
      /\ loop' = Idle \/ \E ret : loop' = Again(ret, FALSE)
    BY DEF Free
<1>2. QueueOK /\ queue # <<>>
    BY <1>1 DEF IInv, Control, LoopOK
<1>3. Pending' = Tail(Pending)
    BY <1>1, <1>2, PendingShrinks
<1>4. Outcome # "none" /\ Outcome' = "none"
    BY <1>1 DEF Outcome, Idle, Again
<1>5. Store!Remove
    BY <1>1, <1>3, <1>4 DEF Store!Remove, Outcome, RecordsLive
<1> QED
    BY <1>5 DEF StoreStep, Store!Next

\* The flash operation changes the records as the operation under way may.
LEMMA FlashStore ==
    ASSUME IInv, RecordsInv, FlashDone \/ FlashTimeout, RecordsLive, RecordsLive'
    PROVE  StoreStep
<1>1. /\ UNCHANGED <<status, queue>> /\ busy # NoBusy /\ loop'.at = "run"
      /\ flash' = Done \/ flash' = flash
    BY DEF FlashDone, FlashTimeout, Again, Done
<1>2. loop.at = "idle" /\ queue # <<>> /\ QueueOK
    BY <1>1 DEF IInv, Control, LoopOK
<1>3. Outcome = "none" /\ Outcome' = "none" /\ Pending' = Pending
    BY <1>1, <1>2 DEF Outcome, Pending
<1>4. Records' = Records \/ Changed(Cur, Records, Records')
    BY <1>1 DEF RecordsInv, OneChange, RecordsLive
<1>5. CASE Records' = Records
    BY <1>1, <1>3, <1>5, SeesNothing
<1>6. CASE Changed(Cur, Records, Records')
    BY <1>1, <1>2, <1>3, <1>6, SeesChange
<1> QED
    BY <1>4, <1>5, <1>6

LEMMA ResetStore ==
    ASSUME IInv, RecordsInv, Reset, RecordsLive, RecordsLive'
    PROVE  StoreStep
<1>1. /\ flash' = Done \/ flash' = flash
      /\ queue' = <<>> /\ loop' = Idle /\ status' = "off"
    BY DEF Reset, Done
<1>2. Pending' = <<>> /\ Outcome' = "none"
  <2>1. DOMAIN queue' = {}
    BY <1>1
  <2>2. Pending' = Shown(queue') /\ queue' \in Seq(Operation)
    BY <1>1 DEF Pending, Shown, NoStep
  <2> QED
    BY <2>2, <1>1, ShownIs DEF Outcome, Idle
<1>3. QueueOK
    BY DEF IInv, Control
<1>4. Records' = Records \/ (Pending # <<>> /\ Outcome = "none" /\ Store!Effect(Head(Pending)))
  <2> SUFFICES ASSUME Records' # Records
               PROVE  Pending # <<>> /\ Outcome = "none" /\ Store!Effect(Head(Pending))
    OBVIOUS
  <2>1. Done # flash
    BY <1>1 DEF RecordsLive
  <2>2. Changed(Cur, Records, Records') /\ queue # <<>>
    BY <1>1 DEF RecordsInv, OneChange, RecordsLive
  <2>3. loop.at = "idle"
    BY <2>1, <2>2, DoneIsFlash DEF IInv, Control, LoopOK
  <2>4. /\ Pending # <<>> /\ Head(Pending).op = Cur.op /\ Head(Pending).id = Cur.id
        /\ Head(Pending).file = Cur.file /\ Head(Pending).old = Cur.old
    BY <2>2, <1>3, PendingIs
  <2>5. Store!Effect(Head(Pending))
    BY <2>2, <2>4 DEF Changed, Store!Effect, Store!New
  <2> QED
    BY <2>3, <2>4, <2>5 DEF Outcome
<1>5. Store!Reset
    BY <1>1, <1>2, <1>4 DEF Store!Reset, Outcome
<1> QED
    BY <1>5 DEF StoreStep, Store!Next

LEMMA FdsInitStore ==
    ASSUME IInv, FdsInit, RecordsLive, RecordsLive'
    PROVE  StoreStep
<1>1. status = "off" /\ queue = <<>> /\ loop.at = "idle" /\ QueueOK /\ flash' = flash
    BY DEF IInv, Control, StatusOK, LoopOK, FdsInit
<1>2. Pending = <<>> /\ Outcome = "none" /\ Records' = Records
    BY <1>1, PendingIs DEF Outcome, RecordsLive
<1>3. CASE status' = "failed" /\ UNCHANGED <<queue, loop>>
  <2>1. Pending' = Pending /\ Outcome' = Outcome
    BY <1>3 DEF Pending, Outcome
  <2> QED
    BY <2>1, <1>1, <1>2, <1>3, SeesNothing
<1>4. CASE status' = "ready" /\ UNCHANGED <<queue, loop>>
  <2>1. Pending' = Pending /\ Outcome' = Outcome
    BY <1>4 DEF Pending, Outcome
  <2>2. Store!Start
    BY <2>1, <1>1, <1>2, <1>4 DEF Store!Start, Outcome
  <2> QED
    BY <2>2 DEF StoreStep, Store!Next
<1>5. CASE status' = "starting" /\ queue' = <<Op("init", InitStep)>> /\ loop' = Again("success", FALSE)
  <2>1. Len(Pending') = 1
    <3>1. DOMAIN queue' = 1 .. 1
      BY <1>5
    <3>2. Pending' = [k \in 1 .. 1 |-> NoStep(queue'[k])]
      BY <3>1, Zenon DEF Pending, NoStep
    <3> QED
      BY <3>2
  <2>2. Outcome' = "none"
    BY <1>5 DEF Outcome, Again
  <2>3. Store!Start
    BY <2>1, <2>2, <1>1, <1>2, <1>5 DEF Store!Start, Outcome
  <2> QED
    BY <2>3 DEF StoreStep, Store!Next
<1> QED
    BY <1>3, <1>4, <1>5 DEF FdsInit

LEMMA CallsStore ==
    ASSUME IInv, Calls, RecordsLive, RecordsLive'
    PROVE  StoreStep
<1>1. status = "ready" /\ status' = "ready" /\ flash' = flash
    BY CallsAre DEF Untouched
<1>2. Records' = Records /\ QueueOK /\ LoopOK
    BY <1>1 DEF RecordsLive, IInv, Control
<1>3. CASE UNCHANGED <<queue, loop, latest>>
  <2>1. Pending' = Pending /\ Outcome' = Outcome
    BY <1>3 DEF Pending, Outcome
  <2> QED
    BY <2>1, <1>1, <1>2, SeesNothing
<1>4. ASSUME NEW o \in Operation, Queues(o)
      PROVE  StoreStep
  <2>1. queue' = Append(queue, o) /\ loop' = IF queue = <<>> THEN Again("success", FALSE) ELSE loop
    BY <1>4 DEF Queues, Call
  <2>2. /\ Len(Pending') = Len(Pending) + 1
        /\ SubSeq(Pending', 1, Len(Pending)) = Pending /\ Len(Pending) \in Nat
    <3>1. Len(Pending) \in Nat
      BY <1>2, ShownIs DEF QueueOK, Pending, Shown, NoStep
    <3> QED
      BY <3>1, <2>1, <1>2, PendingGrows
  <2>3. Outcome' = Outcome
    BY <2>1, <1>2 DEF LoopOK, Outcome, Again
  <2>4. Store!Request
    <3>1. SubSeq(Pending', 1, (Len(Pending) + 1) - 1) = Pending
      BY <2>2
    <3> QED
      BY <3>1, <2>2, <2>3, <1>1, <1>2 DEF Store!Request, Outcome
  <2> QED
    BY <2>4 DEF StoreStep, Store!Next
<1> QED
    BY <1>3, <1>4, CallsAre

LEMMA NextStore ==
    ASSUME IInv, RecordsInv, [Next]_vars, RecordsLive, RecordsLive'
    PROVE  StoreStep
<1>1. CASE UNCHANGED vars
  <2>1. UNCHANGED <<flash, status, queue, loop>>
    BY <1>1 DEF vars
  <2>2. Pending' = Pending /\ Outcome' = Outcome /\ Records' = Records
    BY <2>1 DEF Pending, Outcome, RecordsLive
  <2> QED
    BY <2>1, <2>2, SeesNothing
<1> QED
    BY <1>1, FdsInitStore, InitExecuteStore, WriteExecuteStore, DeleteExecuteStore,
       DeleteFileExecuteStore, GcExecuteStore, FreeStore, FlashStore, ResetStore, CallsStore
    DEF Next, QueueProcess

\* For all parameters: fds.c keeps the records as its users are promised, as long as it meets
\* none of its flaws.  They are changed by the operation at the head of the queue only, one by
\* one; it ends with a success only when it is done; fds_init and a collection, wherever it is,
\* change none; and a reset leaves them as they were, or with the one change under way.
THEOREM RecordsAreKept == Spec => KeepsRecords
<1>1. Init => Store!Init
  <2> SUFFICES ASSUME Init
               PROVE  Store!Init
    OBVIOUS
  <2>1. queue = <<>> /\ queue \in Seq(Operation) /\ loop.at = "idle" /\ status = "off"
    BY DEF Init, Idle
  <2>2. Pending = <<>>
    BY <2>1, ShownIs DEF Pending, Shown, NoStep
  <2> QED
    BY <2>1, <2>2 DEF Store!Init
<1>2. Inductive /\ IdsInductive /\ RecordsInductive => (Sound => RecordsLive)
    BY RecordsAre DEF Inductive, IdsInductive, RecordsInductive, RecordsLive
<1>3. ASSUME Inductive, RecordsInductive, Sound => RecordsLive, (Sound => RecordsLive)', [Next]_vars
      PROVE  [Store!Next \/ ~Sound']_(Store!vars)
    BY <1>3, SoundStays, NextStore DEF Inductive, RecordsInductive, StoreStep
<1> QED
    BY <1>1, <1>2, <1>3, Invariance, IdsInvariance, RecordsInvariance, PTL DEF Spec, KeepsRecords
===============================================================================
