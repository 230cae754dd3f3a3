------------------------------ MODULE Fds_proofs ------------------------------
(***************************************************************************)
(* The steps of queue_process preserve the invariant of fds.c, and what    *)
(* follows from it, for all sizes of flash, page and queue.                *)
(***************************************************************************)
EXTENDS FdsCalls_proofs

-------------------------------------------------------------------------------
(* The end of an operation                                                   *)

\* an operation has ended: its words are no longer its own
LEMMA ClaimsEnd ==
    ASSUME QueueOK, queue # <<>>, queue' = queue, loop.at # "event", loop'.at = "event",
           reserved' = reserved
    PROVE  \A i \in Index : Claims(i)' = Claims(i) - (IF Cur.page = i THEN 1 ELSE 0)
<1> SUFFICES ASSUME NEW i \in Index
             PROVE  Claims(i)' = Claims(i) - (IF Cur.page = i THEN 1 ELSE 0)
    OBVIOUS
<1> DEFINE S == Claimed(i)
           T == Claimed(i)'
<1>1. Cur = queue[1] /\ 1 \in 1 .. Len(queue)
    BY DEF QueueOK, Cur
<1>2. S = {k \in 1 .. Len(queue) : queue[k].page = i}
    BY DEF Claimed
<1>3. T = {k \in 1 .. Len(queue) : queue[k].page = i /\ k # 1}
    BY DEF Claimed
<1>4. IsFiniteSet(S) /\ Cardinality(S) \in Nat
    BY ClaimsType DEF S
<1> HIDE DEF S, T
<1>5. Cardinality(T) = Cardinality(S) - (IF Cur.page = i THEN 1 ELSE 0)
  <2>1. CASE Cur.page = i
    <3>1. T = S \ {1} /\ 1 \in S
      BY <2>1, <1>1, <1>2, <1>3
    <3>2. Cardinality(S \ {1}) = Cardinality(S) - 1
      BY <3>1, <1>4, FS_RemoveElement
    <3> QED
      BY <2>1, <3>1, <3>2
  <2>2. CASE Cur.page # i
    <3>1. T = S
      BY <2>2, <1>1, <1>2, <1>3
    <3> QED
      BY <2>2, <3>1, <1>4
  <2> QED
    BY <2>1, <2>2
<1> QED
    BY <1>4, <1>5 DEF Claims, S, T

\* an operation that is under way has a claim
LEMMA Claiming ==
    ASSUME QueueOK, queue # <<>>, loop.at # "event", Cur.page \in Index
    PROVE  Claims(Cur.page) >= 1
<1> DEFINE S == Claimed(Cur.page)
<1>1. Cur = queue[1] /\ 1 \in 1 .. Len(queue)
    BY DEF QueueOK, Cur
<1>2. 1 \in S
    BY <1>1 DEF Claimed
<1>3. IsFiniteSet(S) /\ Cardinality(S) \in Nat
    BY ClaimsType
<1> HIDE DEF S
<1>4. Cardinality(S) # 0
    BY <1>2, <1>3, FS_EmptySet
<1> QED
    BY <1>3, <1>4 DEF Claims, S

\* an operation ends; what it knows of the pages is what it knew
LEMMA EndInv ==
    ASSUME IInv, status = "ready", loop.at = "run", NEW ret, Ends(ret),
           ret \in {"success", "timeout", "notFound"}, ret = "success" => loop.ret = "success",
           Cur.op # "gc" \/ loop.ret # "success", Writing = 0,
           UNCHANGED <<flash, status, pages, swap, gc, latest, queue, reserved, opened, timeouts>>,
           Cur.page = 0 \/ damage' # {}, damage \subseteq damage'
    PROVE  IInv'
<1>1. /\ IsReady /\ PagesOK /\ QueueOK /\ LoopOK /\ StatusOK /\ GcType /\ SpaceOK /\ Opens
      /\ timeouts \in Nat /\ latest \in Nat
    BY IInvReady DEF IInv, Control
<1>2. /\ loop'.at = "event" /\ loop'.ret = ret /\ busy' = busy /\ busy = NoBusy /\ queue # <<>>
    BY <1>1 DEF Ends, Event, LoopOK
<1>3. Done' = flash' /\ Done = flash
    BY <1>2, DoneIsFlash, DoneIsFlash1
<1>4. Writing' = 0 /\ Cur' = Cur
    BY <1>2 DEF Writing, Cur
<1>5. Control'
  <2>1. QueueOK' /\ GcType' /\ timeouts' \in Nat /\ latest' \in Nat
    BY <1>1 DEF QueueOK, GcType
  <2>2. LoopOK'
    BY <1>1, <1>2 DEF LoopOK
  <2>3. StatusOK'
    BY <1>1, <1>2 DEF StatusOK
  <2> QED
    BY <2>1, <2>2, <2>3 DEF Control
<1>6. BusyOK'
    BY <1>2 DEF BusyOK
<1>7. FlashOK(flash)' /\ FlashOK(Done)'
  <2>1. FlashOK(flash)'
    BY DEF IInv, FlashOK
  <2> QED
    BY <2>1, <1>3 DEF FlashOK
<1>8. PagesOK'
    BY <1>1 DEF PagesOK
<1>9. ~Going'
    BY <1>2 DEF Going
<1>10. GcWaits'
  <2>1. CASE gc.state = "begin"
    BY <2>1 DEF GcWaits
  <2>2. CASE gc.state # "begin"
    <3>1. timeouts # 0
      BY <2>2, <1>1, <1>2 DEF IsReady, GcWaits, Head1, Going, NoBusy
    <3>2. (~gc.resume /\ \E k \in 1 .. Len(queue) : queue[k].op = "gc") => ret # "success"
      BY <2>2, <1>1, <1>2 DEF IsReady, GcWaits
    <3> QED
      BY <3>1, <3>2, <1>2 DEF GcWaits
  <2> QED
    BY <2>1, <2>2
<1>11. SpaceOK'
  <2>1. \A i \in Index : Claims(i)' = Claims(i) - (IF Cur.page = i THEN 1 ELSE 0)
    BY <1>1, <1>2, ClaimsEnd
  <2>2. \A i \in Index : i # 0 /\ Claims(i) \in Nat /\ pages[i].reserved \in Nat
    BY <1>1, ClaimsType, PagesTyped DEF Index
  <2>3. damage' = {} => damage = {}
    OBVIOUS
  <2> QED
    BY <2>1, <2>2, <2>3, <1>1 DEF SpaceOK
<1>12. Opens'
    BY <1>1 DEF Opens
<1>13. Known(flash)' /\ Known(Done)'
  <2>1. OpenOK(flash)'
    BY <1>1 DEF IsReady, Known, OpenOK
  <2>2. Places
    BY DEF Places
  <2>3. Cur.op = "gc" => loop.ret # "success"
    OBVIOUS
  <2>4. ~Erasing
    BY <2>3, <1>2 DEF Erasing, Head1, NoBusy, Erase
  <2>5. Known(flash)'
    BY <2>1, <2>2, <2>4, <1>1, <1>4, KnownFlash DEF IsReady
  <2> QED
    BY <2>5, <1>3, KnownAfter
<1> QED
    BY <1>4, <1>5, <1>6, <1>7, <1>8, <1>9, <1>10, <1>11, <1>12, <1>13 DEF IInv, IsReady

-------------------------------------------------------------------------------
(* A record is written, or written over                                      *)

\* a queued operation that is no collection writes one slot of a page of data
SlotStep(j, t, r) ==
    /\ status = "ready" /\ loop.at = "run" /\ loop.ret = "success"
    /\ queue # <<>> /\ Cur.op # "gc" /\ Cur.op # "init"
    /\ Executes(WriteSlot(pages[j].phys, t, r))
    /\ UNCHANGED <<flash, status, swap, gc, latest, reserved, opened, damage, timeouts>>
    /\ QueueOK' /\ Len(queue') = Len(queue) /\ Cur'.op = Cur.op
    /\ \A k \in 1 .. Len(queue) : queue'[k].page = queue[k].page /\ queue'[k].op = queue[k].op
    /\ PagesOK'
    /\ \A i \in Index : /\ pages'[i].phys = pages[i].phys /\ pages'[i].offset = pages[i].offset
                        /\ pages[i].canGc => pages'[i].canGc
                        /\ pages'[i].reserved = pages[i].reserved
                        /\ pages'[i].open = pages[i].open
    \* the place, and what was there
    /\ r.st # "erased"
    /\ j = gc.cur => gc.state # "erase" /\ (gc.state = "copy" => t > gc.src)
    /\ \/ t < pages[j].offset /\ pages'[j].canGc /\ Writing' = Writing
       \/ t = pages[j].offset /\ Writing \in {0, j} /\ Writing' = j
    /\ St(flash, j, t) # "dirty"
    /\ r.st = "begun" => St(flash, j, t) = "erased"
    /\ St(flash, j, t) = "whole" =>
         r.st \in {"whole", "dirty"} /\ r.id = flash[pages[j].phys].rec[t].id

\* what the flash will be when such a write is over ...
LEMMA SlotStepDone ==
    ASSUME IInv, NEW j \in Index, NEW t \in Slots, NEW r \in Slot, SlotStep(j, t, r)
    PROVE  /\ Done = flash /\ Done' \in FlashType
           /\ pages[j].phys \in Phys /\ pages[j].phys # swap.phys
           /\ Done'[pages[j].phys].tag = flash[pages[j].phys].tag
           /\ Done'[pages[j].phys].rec[t] = r
           /\ \A u \in Slots : u # t => Done'[pages[j].phys].rec[u] = flash[pages[j].phys].rec[u]
           /\ \A p \in Phys : p # pages[j].phys => Done'[p] = flash[p]
           /\ \A i \in Index : i # j => pages[i].phys \in Phys /\ pages[i].phys # pages[j].phys
           /\ busy' = WriteSlot(pages[j].phys, t, r) /\ busy' # NoBusy /\ busy = NoBusy
           /\ \A i \in Index : /\ flash[pages[i].phys].tag = "data" \/
                                   (i = gc.cur /\ gc.state = "promote"
                                      /\ flash[pages[i].phys].tag = "swap")
                               /\ Filled(flash, i)
           /\ gc.state # "begin" => timeouts # 0
<1>1. status = "ready" /\ PagesOK /\ IsReady /\ LoopOK
    BY IInvReady DEF SlotStep
<1>2. loop.at = "run" /\ busy' = WriteSlot(pages[j].phys, t, r) /\ flash' = flash /\ Cur.op # "gc"
    BY DEF SlotStep, Executes
<1>3. busy = NoBusy
    BY <1>1, <1>2 DEF LoopOK
<1>4. busy' # NoBusy
    BY <1>2 DEF WriteSlot, NoBusy
<1> DEFINE p == pages[j].phys
<1>5. p \in Phys /\ p # swap.phys
    BY <1>1, PagesTyped DEF PagesOK
<1>6. flash \in FlashType
    BY DEF IInv, FlashOK, Consistent
<1>7. Done' = Applied(flash, WriteSlot(p, t, r))
    BY <1>2 DEF Done
<1>8. /\ Done' \in FlashType
      /\ Done'[p].tag = flash[p].tag
      /\ Done'[p].rec[t] = r
      /\ \A u \in Slots : u # t => Done'[p].rec[u] = flash[p].rec[u]
      /\ \A q \in Phys : q # p => Done'[q] = flash[q]
  <2> HIDE DEF p
  <2> QED
    BY <1>5, <1>6, <1>7, SlotEffect
<1>9. \A i \in Index : i # j => pages[i].phys \in Phys /\ pages[i].phys # p
    BY <1>1, PagesTyped DEF PagesOK
<1>10. ~Erasing
    BY <1>2 DEF Erasing, Head1
<1>11. \A i \in Index : /\ flash[pages[i].phys].tag = "data" \/
                            (i = gc.cur /\ gc.state = "promote" /\ flash[pages[i].phys].tag = "swap")
                        /\ Filled(flash, i)
    BY <1>1, <1>10 DEF IsReady, Known, Kept
<1>12. gc.state # "begin" => timeouts # 0
    BY <1>1, <1>2 DEF IsReady, GcWaits, Head1
<1> QED
    BY <1>2, <1>3, <1>4, <1>5, <1>8, <1>9, <1>11, <1>12, DoneIsFlash

\* ... may be left behind ...
LEMMA SlotStepFlash ==
    ASSUME IInv, NEW j \in Index, NEW t \in Slots, NEW r \in Slot, SlotStep(j, t, r)
    PROVE  FlashOK(flash)' /\ FlashOK(Done)' /\ BusyOK'
<1> DEFINE p == pages[j].phys
<1>1. /\ Done = flash /\ p \in Phys /\ busy' = WriteSlot(p, t, r)
      /\ flash[p].tag \in {"data", "swap"} /\ (timeouts = 0 => flash[p].tag = "data")
      /\ Filled(flash, j)
    BY SlotStepDone
<1>2. flash' = flash /\ timeouts' = timeouts /\ r.st # "erased"
    BY DEF SlotStep
<1>3. FlashOK(flash)
    BY DEF IInv
<1>4. \A u \in Slots : u < t => flash[p].rec[u].st # "erased"
  <2>1. t <= pages[j].offset
    <3>1. pages[j].offset \in Nat /\ t \in Nat
      BY IInvReady DEF SlotStep, Slots
    <3> QED
      BY <3>1 DEF SlotStep
  <2>2. \A u \in Slots : u < t => u < pages[j].offset
    <3>1. pages[j].offset \in Nat /\ t \in Nat /\ \A u \in Slots : u \in Nat
      BY IInvReady DEF SlotStep, Slots
    <3> QED
      BY <2>1, <3>1
  <2> QED
    BY <2>2, <1>1 DEF Filled, St
<1>5. Consistent(flash) /\ (timeouts = 0 => SwapIsWhole(flash)) /\ flash[p].tag # "erased"
    BY <1>1, <1>3 DEF FlashOK
<1>6. Done' = Applied(flash, WriteSlot(p, t, r))
    BY <1>1, <1>2 DEF Done
<1>7. /\ Consistent(Done')
      /\ (SwapIsWhole(flash) /\ (flash[p].tag = "swap" => r.st = "whole")) => SwapIsWhole(Done')
  <2>1. p \in Phys
    BY <1>1
  <2> HIDE DEF p
  <2> QED
    BY <1>2, <1>4, <1>5, <1>6, <2>1, ConsistentSlot
<1>8. FlashOK(Done)'
  <2>1. timeouts = 0 => flash[p].tag # "swap"
    BY <1>1
  <2> QED
    BY <2>1, <1>2, <1>5, <1>7 DEF FlashOK
<1>9. FlashOK(flash)'
    BY <1>2, <1>3 DEF FlashOK
<1>10. BusyOK'
  <2> DEFINE w == WriteSlot(p, t, r)
  <2>1. w.kind = "slot" /\ w.phys = p /\ w.slot = t /\ w.val = r
    BY DEF WriteSlot
  <2>2. /\ r.st = "begun" => flash[p].rec[t].st = "erased"
        /\ flash[p].rec[t].st = "whole" =>
             r.st \in {"whole", "dirty"} /\ r.id = flash[p].rec[t].id
    BY DEF SlotStep, St
  <2>3. w = WriteSlot(w.phys, w.slot, w.val)
    BY <2>1
  <2>4. busy' = w /\ p \in Phys
    BY <1>1
  <2> HIDE DEF w, p
  <2>5. busy' = WriteSlot(busy'.phys, busy'.slot, busy'.val) /\ busy'.kind = "slot"
    BY <2>1, <2>3, <2>4
  <2> QED
    BY <2>1, <2>2, <2>4, <2>5, <1>2 DEF BusyOK
<1> QED
    BY <1>8, <1>9, <1>10

\* ... and is what the storage knows,
LEMMA SlotStepKnown ==
    ASSUME IInv, NEW j \in Index, NEW t \in Slots, NEW r \in Slot, SlotStep(j, t, r)
    PROVE  Known(flash)' /\ Known(Done)'
<1> DEFINE p == pages[j].phys
<1>1. /\ Done = flash /\ p \in Phys /\ p # swap.phys
      /\ Done'[p].tag = flash[p].tag
      /\ Done'[p].rec[t] = r
      /\ \A u \in Slots : u # t => Done'[p].rec[u] = flash[p].rec[u]
      /\ \A q \in Phys : q # p => Done'[q] = flash[q]
      /\ \A i \in Index : i # j => pages[i].phys \in Phys /\ pages[i].phys # p
      /\ \A i \in Index : /\ flash[pages[i].phys].tag = "data" \/
                             (i = gc.cur /\ gc.state = "promote"
                                /\ flash[pages[i].phys].tag = "swap")
                          /\ Filled(flash, i)
    BY SlotStepDone
<1>2. /\ IsReady /\ PagesOK /\ GcType /\ swap.phys \in Phys /\ Opens
      /\ \A i \in Index : pages[i].offset \in Nat
    BY IInvReady, PagesTyped DEF SlotStep
<1>3. /\ UNCHANGED <<flash, swap, gc, opened, timeouts>>
      /\ r.st # "erased" /\ St(flash, j, t) # "dirty"
      /\ \A i \in Index : /\ pages'[i].phys = pages[i].phys /\ pages'[i].offset = pages[i].offset
                          /\ pages[i].canGc => pages'[i].canGc
      /\ \/ t < pages[j].offset /\ pages'[j].canGc /\ Writing' = Writing
         \/ t = pages[j].offset /\ Writing \in {0, j} /\ Writing' = j
      /\ j = gc.cur => gc.state # "erase" /\ (gc.state = "copy" => t > gc.src)
      /\ St(flash, j, t) = "whole" => r.st \in {"whole", "dirty"} /\ r.id = flash[p].rec[t].id
    BY DEF SlotStep
<1> HIDE DEF p
<1>4. t \in Nat /\ \A s \in Slots : s \in Nat
    BY DEF Slots
<1>5. \A i \in Index : Filled(flash, i)' /\ Filled(Done, i)'
  <2>1. ASSUME NEW i \in Index, i # j
        PROVE  Filled(flash, i)' /\ Filled(Done, i)'
    <3>1. Done'[pages[i].phys] = flash[pages[i].phys] /\ Filled(flash, i)
      BY <2>1, <1>1
    <3>2. i = Writing' <=> i = Writing
      BY <2>1, <1>3 DEF Index
    <3>3. pages'[i].phys = pages[i].phys /\ pages'[i].offset = pages[i].offset /\ flash' = flash
      BY <1>3
    <3> QED
      BY <3>1, <3>2, <3>3 DEF Filled, St
  <2>2. Filled(flash, j)'
    BY <1>1, <1>3 DEF Filled, St
  <2>3. Filled(Done, j)'
    <3>1. \A s \in Slots : s = t \/ Done'[p].rec[s] = flash[p].rec[s]
      BY <1>1
    <3>2. CASE t < pages[j].offset /\ Writing' = Writing
      BY <3>1, <3>2, <1>1, <1>2, <1>3, <1>4 DEF Filled, St, p
    <3>3. CASE t = pages[j].offset /\ Writing' = j
      BY <3>1, <3>3, <1>1, <1>2, <1>3, <1>4 DEF Filled, St, p
    <3> QED
      BY <3>2, <3>3, <1>3
  <2> QED
    BY <2>1, <2>2, <2>3
<1>6. \A i \in Index : Kept(flash, i)' /\ Kept(Done, i)'
  <2> SUFFICES ASSUME NEW i \in Index
               PROVE  Kept(flash, i)' /\ Kept(Done, i)'
    OBVIOUS
  <2>1. Done'[pages[i].phys].tag = flash[pages[i].phys].tag
    BY <1>1 DEF p
  <2> QED
    BY <2>1, <1>1, <1>3, <1>5 DEF Kept
<1>7. \A i \in Index : Whole(flash, i)' /\ Whole(Done, i)'
  <2> SUFFICES ASSUME NEW i \in Index
               PROVE  Whole(flash, i)' /\ Whole(Done, i)'
    OBVIOUS
  <2>1. Whole(flash, i)
    BY <1>2 DEF IsReady, Known
  <2>2. Whole(flash, i)'
    BY <2>1, <1>3 DEF Whole, St
  <2>3. \A s \in Slots : Done'[pages[i].phys].rec[s] = flash[pages[i].phys].rec[s] \/ (i = j /\ s = t)
    BY <1>1 DEF p
  <2>4. i = j => (t < pages[j].offset => pages'[j].canGc)
    BY <1>2, <1>3, <1>4
  <2>5. Whole(Done, i)'
    BY <2>1, <2>3, <2>4, <1>3 DEF Whole, St
  <2> QED
    BY <2>2, <2>5
<1>8. GcSwap(flash)'
  <2>1. GcSwap(flash) /\ gc.cur \in Index
    BY <1>2 DEF IsReady, Known, GcType
  <2> QED
    BY <2>1, <1>3 DEF GcSwap, SwapTag, SwapSt, EmptyFrom, FullBelow, St
<1>9. GcSwap(Done)'
  <2>1. GcSwap(flash) /\ gc.cur \in Index
    BY <1>2 DEF IsReady, Known, GcType
  <2>2. Done'[swap.phys] = flash[swap.phys]
    BY <1>1, <1>2
  <2>3. gc.state = "copy" => Done'[pages[gc.cur].phys].rec[gc.src] = flash[pages[gc.cur].phys].rec[gc.src]
    <3> SUFFICES ASSUME gc.state = "copy"
                 PROVE  Done'[pages[gc.cur].phys].rec[gc.src] = flash[pages[gc.cur].phys].rec[gc.src]
      OBVIOUS
    <3>1. gc.src \in Slots /\ (j = gc.cur => gc.src # t)
      BY <2>1, <1>2, <1>3, <1>4 DEF GcSwap, GcType
    <3> QED
      BY <2>1, <3>1, <1>1 DEF p
  <2>4. /\ pages'[gc.cur].phys = pages[gc.cur].phys /\ pages'[gc.cur].offset = pages[gc.cur].offset
        /\ pages[gc.cur].canGc => pages'[gc.cur].canGc
        /\ swap' = swap /\ gc' = gc
    BY <2>1, <1>3
  <2>5. /\ SwapTag(Done)' = SwapTag(flash)
        /\ \A s \in Slots : SwapSt(Done, s)' = SwapSt(flash, s)
    BY <2>2, <2>4 DEF SwapTag, SwapSt
  <2>6. /\ \A n \in Offsets : EmptyFrom(flash, n) => EmptyFrom(Done, n)'
        /\ \A n \in Offsets : FullBelow(flash, n) => FullBelow(Done, n)'
    BY <2>5 DEF EmptyFrom, FullBelow
  <2>7. gc.state = "copy" =>
           /\ St(Done, gc.cur, gc.src)' = St(flash, gc.cur, gc.src)
           /\ SwapSt(Done, swap.offset)' = SwapSt(flash, swap.offset)
    BY <2>2, <2>3, <2>4 DEF St, SwapSt
  <2>8. /\ swap.offset \in Offsets /\ 1 \in Offsets
        /\ gc.state = "copy" => swap.offset + 1 \in Offsets
    <3>1. swap.offset \in Offsets /\ 1 \in Offsets
      BY <1>2, FdsAssumption DEF PagesOK, Offsets
    <3>2. gc.state = "copy" => swap.offset <= gc.src /\ gc.src \in Slots
      BY <2>1, <1>2 DEF GcSwap, GcType
    <3> QED
      BY <3>1, <3>2, FdsAssumption DEF Offsets, Slots
  <2>9. GcSwap(Done)' =
        /\ SwapTag(Done)' # "data"
        /\ gc.state = "begin" =>
             swap.offset = 1 /\ EmptyFrom(Done, 1)' /\ gc.src = 0 /\ SwapTag(Done)' = "swap"
        /\ gc.state = "tagSwap" =>
             swap.offset = 1 /\ EmptyFrom(Done, 1)' /\ gc.src = 0
        /\ gc.state = "promote" => swap.offset = 1 /\ Done'[swap.phys] = ErasedPage
        /\ gc.state = "discard" => swap.offset = 1
        /\ gc.state = "copy" =>
             /\ SwapTag(Done)' = "swap"
             /\ gc.src # 0 /\ swap.offset <= gc.src /\ gc.src < pages'[gc.cur].offset
             /\ St(Done, gc.cur, gc.src)' = "whole"
             /\ FullBelow(Done, swap.offset)' /\ EmptyFrom(Done, swap.offset + 1)'
             /\ \/ SwapSt(Done, swap.offset)' = "erased"
                \/ Done'[swap.phys].rec[swap.offset] = Done'[pages'[gc.cur].phys].rec[gc.src]
        /\ gc.state = "erase" =>
             /\ SwapTag(Done)' = "swap"
             /\ swap.offset <= gc.src + 1 /\ gc.src < pages'[gc.cur].offset
             /\ FullBelow(Done, swap.offset)' /\ EmptyFrom(Done, swap.offset)'
        /\ gc.state # "begin" => pages'[gc.cur].canGc
    BY <2>4 DEF GcSwap, St, SwapSt, SwapTag, FullBelow, EmptyFrom
  <2> QED
    BY <2>1, <2>2, <2>3, <2>4, <2>5, <2>6, <2>7, <2>8, <2>9 DEF GcSwap
<1>10. OpenOK(flash)' /\ OpenOK(Done)'
  <2>1. OpenOK(flash)
    BY <1>2 DEF IsReady, Known
  <2>2. ASSUME opened # NotOpen
        PROVE  /\ Done'[opened.phys].rec[opened.slot].id = opened.id
               /\ Done'[opened.phys].rec[opened.slot].st \in {"whole", "dirty"}
    <3>1. opened.phys \in Phys /\ opened.slot \in Slots
      <4>1. opened.page \in Index /\ opened.slot \in Slots /\ opened.phys = pages[opened.page].phys
        BY <2>2, <1>2 DEF Opens
      <4> QED
        BY <4>1, <1>2, PagesTyped
    <3>2. /\ flash[opened.phys].rec[opened.slot].id = opened.id
          /\ flash[opened.phys].rec[opened.slot].st \in {"whole", "dirty"}
      BY <2>1, <2>2 DEF OpenOK
    <3>3. CASE opened.phys = p /\ opened.slot = t
      BY <3>2, <3>3, <1>1, <1>3 DEF St, p
    <3>4. CASE opened.phys # p \/ opened.slot # t
      BY <3>1, <3>2, <3>4, <1>1
    <3> QED
      BY <3>3, <3>4
  <2> QED
    BY <2>1, <2>2, <1>3 DEF OpenOK
<1> QED
    BY <1>6, <1>7, <1>8, <1>9, <1>10 DEF Known

\* so that the invariant stays if the operation finds what it needs.
LEMMA SlotStepInv ==
    ASSUME IInv, NEW j \in Index, NEW t \in Slots, NEW r \in Slot, SlotStep(j, t, r),
           WriteResult(Done)'
    PROVE  IInv'
<1>1. /\ status = "ready" /\ loop.at = "run" /\ loop.ret = "success"
      /\ queue # <<>> /\ Cur.op # "gc" /\ Cur.op # "init"
      /\ loop' = Idle /\ PagesOK' /\ QueueOK'
      /\ Len(queue') = Len(queue) /\ Cur'.op = Cur.op
      /\ \A k \in 1 .. Len(queue) : queue'[k].page = queue[k].page /\ queue'[k].op = queue[k].op
      /\ \A i \in Index : /\ pages'[i].phys = pages[i].phys /\ pages'[i].offset = pages[i].offset
                          /\ pages'[i].reserved = pages[i].reserved
                          /\ pages'[i].open = pages[i].open
      /\ UNCHANGED <<flash, status, swap, gc, latest, reserved, opened, damage, timeouts>>
    BY DEF SlotStep, Executes
<1>2. /\ IsReady /\ QueueOK /\ LoopOK /\ GcType /\ SpaceOK /\ Opens
      /\ timeouts \in Nat /\ latest \in Nat
    BY <1>1, IInvReady
<1>3. loop'.at = "idle" /\ loop'.ret = "success" /\ busy' # NoBusy
    BY <1>1, SlotStepDone DEF Idle
<1>4. queue' # <<>>
    BY <1>1, <1>2 DEF QueueOK
<1>5. Control'
  <2>1. LoopOK'
    BY <1>2, <1>3, <1>4 DEF LoopOK
  <2>2. StatusOK'
    BY <1>1, <1>4 DEF StatusOK, Head1
  <2>3. GcType'
    BY <1>1, <1>2 DEF GcType
  <2> QED
    BY <2>1, <2>2, <2>3, <1>1, <1>2 DEF Control
<1>6. FlashOK(flash)' /\ FlashOK(Done)' /\ BusyOK' /\ Known(flash)' /\ Known(Done)'
    BY SlotStepFlash, SlotStepKnown
<1>7. ~Head1({"gc"})' /\ ~Head1({"gc"}) /\ Going'
    BY <1>1, <1>3 DEF Head1, Going
<1>8. GcWaits'
  <2>1. CASE gc.state = "begin"
    BY <2>1, <1>1 DEF GcWaits
  <2>2. CASE gc.state # "begin"
    <3>1. timeouts # 0
      BY <2>2, <1>2, <1>7 DEF IsReady, GcWaits
    <3>2. ~(~gc.resume /\ \E k \in 1 .. Len(queue) : queue[k].op = "gc")
      BY <2>2, <1>1, <1>2 DEF IsReady, GcWaits
    <3>3. ~(~gc.resume /\ \E k \in 1 .. Len(queue) : queue'[k].op = "gc")
      BY <3>2, <1>1
    <3> QED
      BY <3>1, <3>3, <1>1 DEF GcWaits
  <2> QED
    BY <2>1, <2>2
<1>9. SpaceOK'
  <2>1. \A i \in Index : Claims(i)' = Claims(i)
    BY <1>1, <1>2, <1>3, ClaimsStay
  <2> QED
    BY <2>1, <1>1, <1>2 DEF SpaceOK
<1>10. Opens'
    BY <1>1, <1>2 DEF Opens
<1>11. IsReady'
    BY <1>6, <1>7, <1>8, <1>9, <1>10 DEF IsReady
<1> QED
    BY <1>1, <1>5, <1>6, <1>11 DEF IInv

-------------------------------------------------------------------------------
(* delete_execute                                                            *)

\* the operation under way
LEMMA HeadIs ==
    ASSUME QueueOK, queue # <<>>
    PROVE  /\ Cur \in Operation /\ OpOK(Cur)
           /\ Cur.page \in Index \cup {0}
           /\ Cur.op = "write" \/ Cur.op = "update" <=> Cur.page \in Index
<1>1. Cur = queue[1] /\ 1 \in 1 .. Len(queue) /\ Cur \in Operation
    BY DEF QueueOK, Cur
<1>2. OpOK(Cur)
    BY <1>1 DEF QueueOK
<1>3. Cur.page \in Index \cup {0}
    BY <1>1 DEF Operation
<1>4. \A i \in Index : i # 0
    BY DEF Index
<1> QED
    BY <1>1, <1>2, <1>3, <1>4 DEF OpOK

\* records of the pages that no write is putting in place lie before the offset
LEMMA BeforeOffset ==
    ASSUME IInv, status = "ready", Cur.op # "gc", Writing = 0, NEW j \in Index, NEW s \in Slots,
           St(flash, j, s) # "erased"
    PROVE  s < pages[j].offset
<1>1. Filled(flash, j)
    BY IInvReady DEF IsReady, Known, Kept, Erasing, Head1
<1>2. s \in Nat /\ pages[j].offset \in Nat
    BY IInvReady DEF Slots
<1>3. j # Writing
    BY DEF Index
<1> QED
    BY <1>1, <1>2, <1>3 DEF Filled

\* a page is marked for the collection
LEMMA CanGcIs ==
    ASSUME PagesOK, NEW i \in Index, status' = status, swap' = swap,
           pages' = [pages EXCEPT ![i].canGc = TRUE]
    PROVE  /\ PagesOK'
           /\ pages'[i].canGc
           /\ \A j \in Index : /\ pages'[j].phys = pages[j].phys
                               /\ pages'[j].offset = pages[j].offset
                               /\ pages[j].canGc => pages'[j].canGc
                               /\ pages'[j].open = pages[j].open
                               /\ pages'[j].reserved = pages[j].reserved
<1> DEFINE P == [type : {"erased", "data"}, phys : Phys, offset : Offsets,
                 reserved : 0 .. PageSlots, canGc : BOOLEAN, open : 0 .. 1]
<1>1. pages \in [Index -> P]
    BY DEF PagesOK
<1>2. \A j \in Index : /\ pages'[j] \in P
                       /\ pages'[j].phys = pages[j].phys
                       /\ pages'[j].type = pages[j].type
                       /\ pages'[j].offset = pages[j].offset
                       /\ pages'[j].canGc = IF j = i THEN TRUE ELSE pages[j].canGc
                       /\ pages'[j].open = pages[j].open
                       /\ pages'[j].reserved = pages[j].reserved
    BY <1>1
<1>3. pages' \in [Index -> P]
    BY <1>1, <1>2
<1> HIDE DEF P
<1>4. PagesOK'
  <2>1. swap' \in [phys : Phys, offset : Offsets] /\ swap'.phys = swap.phys
    BY DEF PagesOK
  <2> QED
    BY <1>2, <1>3, <2>1, SamePages DEF P
<1> QED
    BY <1>2, <1>4

\* a whole record is flagged as deleted
LEMMA FlagStep ==
    ASSUME IInv, status = "ready", loop.at = "run", loop.ret = "success", queue # <<>>,
           Cur.op # "gc", Cur.op # "init",
           UNCHANGED <<flash, status, swap, gc, latest, reserved, opened, timeouts>>,
           QueueOK', Len(queue') = Len(queue), Cur'.op = Cur.op,
           \A k \in 1 .. Len(queue) :
              queue'[k].page = queue[k].page /\ queue'[k].op = queue[k].op,
           Writing' = Writing,
           NEW d \in [page : Index, slot : Slots], FlagDirty(d), Sound',
           d.slot < pages[d.page].offset, St(flash, d.page, d.slot) = "whole"
    PROVE  /\ [At(d) EXCEPT !.st = "dirty"] \in Slot
           /\ SlotStep(d.page, d.slot, [At(d) EXCEPT !.st = "dirty"])
<1> DEFINE j == d.page
           t == d.slot
           r == [At(d) EXCEPT !.st = "dirty"]
<1>1. j \in Index /\ t \in Slots
    OBVIOUS
<1>2. PagesOK /\ flash \in FlashType
    BY IInvReady DEF IInv, FlashOK, Consistent
<1>3. pages[j].phys \in Phys
    BY <1>1, <1>2, PagesTyped
<1>4. At(d) \in Slot /\ At(d) = flash[pages[j].phys].rec[t]
    BY <1>1, <1>2, <1>3 DEF At, FlashType
<1>5. r \in Slot /\ r.st = "dirty" /\ r.id = flash[pages[j].phys].rec[t].id
    BY <1>4 DEF Slot
<1>6. Executes(WriteSlot(pages[j].phys, t, r)) /\ pages' = [pages EXCEPT ![j].canGc = TRUE]
    BY DEF FlagDirty
<1>7. damage' = damage /\ ~Stale(d)
    BY DEF FlagDirty, Met, Sound
<1> HIDE DEF r, j, t
<1>8. /\ PagesOK' /\ pages'[j].canGc
      /\ \A i \in Index : /\ pages'[i].phys = pages[i].phys
                          /\ pages'[i].offset = pages[i].offset
                          /\ pages[i].canGc => pages'[i].canGc
                          /\ pages'[i].open = pages[i].open
                          /\ pages'[i].reserved = pages[i].reserved
    BY <1>1, <1>2, <1>6, CanGcIs
<1>9. j = gc.cur => gc.state # "erase" /\ (gc.state = "copy" => t > gc.src)
  <2>1. gc.src \in Nat /\ t \in Nat
    BY <1>1, IInvReady DEF GcType, Slots
  <2> QED
    BY <2>1, <1>7 DEF Stale, j, t
<1>10. St(flash, j, t) = "whole" /\ t < pages[j].offset
    BY DEF j, t
<1>11. SlotStep(j, t, r)
    BY <1>5, <1>6, <1>7, <1>8, <1>9, <1>10 DEF SlotStep
<1> QED
    BY <1>5, <1>11 DEF r, j, t

\* delete_execute, of a record
LEMMA DeleteExecuteInv ==
    ASSUME IInv, DeleteExecute, Sound'
    PROVE  IInv'
<1>1. /\ loop.at = "run" /\ Cur.op = "delete"
      /\ UNCHANGED <<flash, status, swap, gc, latest, desc, reserved, opened, calls, timeouts>>
      /\ damage \subseteq damage'
    BY DEF DeleteExecute, Process, static, users, counts, FlagDirty, Met
<1>2. QueueOK /\ queue # <<>> /\ status = "ready"
  <2>1. queue # <<>> /\ QueueOK
    BY <1>1 DEF IInv, Control, LoopOK, NoBusy
  <2> QED
    BY <2>1, <1>1 DEF IInv, Control, StatusOK, Head1
<1>3. Writing = 0 /\ Cur.page = 0 /\ IsReady
  <2>1. Cur.page = 0
    BY <1>1, <1>2, HeadIs DEF OpOK
  <2> QED
    BY <2>1, <1>1, <1>2, IInvReady DEF Writing, Head1
<1>4. CASE loop.ret # "success" /\ Ends("timeout") /\ UNCHANGED <<queue, pages, damage>>
    BY <1>1, <1>2, <1>3, <1>4, EndInv
<1>5. CASE loop.ret = "success" /\ Ends("notFound") /\ UNCHANGED <<queue, pages, damage>>
    BY <1>1, <1>2, <1>3, <1>5, EndInv
<1>6. CASE loop.ret = "success" /\ Ends("success") /\ UNCHANGED <<queue, pages, damage>>
    BY <1>1, <1>2, <1>3, <1>6, EndInv
<1>7. CASE /\ loop.ret = "success" /\ Cur.step = "flag" /\ Found(Cur.old) # {}
           /\ Step("done")
           /\ FlagDirty(First(Found(Cur.old)))
  <2> DEFINE d == First(Found(Cur.old))
  <2>1. /\ d \in [page : Index, slot : Slots]
        /\ Valid(flash, pages[d.page].phys, d.slot)
    BY <1>7, FoundIs
  <2>2. FlagDirty(d)
    BY <1>7
  <2> HIDE DEF d
  <2>3. St(flash, d.page, d.slot) = "whole"
    BY <2>1 DEF Valid, St
  <2>4. d.slot < pages[d.page].offset
    BY <2>1, <2>3, <1>1, <1>2, <1>3, BeforeOffset
  <2>5. /\ Len(queue') = Len(queue) /\ queue' # <<>>
        /\ Cur' = queue'[1] /\ Cur = queue[1]
        /\ \A k \in 1 .. Len(queue) : k > 1 => queue'[k] = queue[k]
        /\ Cur'.step = "done" /\ Cur'.op = Cur.op /\ Cur'.page = Cur.page
    BY <1>2, <1>7, StepIs DEF Steps
  <2>6. QueueOK'
    <3>1. OpOK(Cur)'
      BY <2>5, <1>1, <1>3 DEF OpOK
    <3> QED
      BY <3>1, <1>2, <1>7, StepKeepsQueue DEF Steps
  <2>7. \A k \in 1 .. Len(queue) : queue'[k].page = queue[k].page /\ queue'[k].op = queue[k].op
    <3> SUFFICES ASSUME NEW k \in 1 .. Len(queue)
                 PROVE  queue'[k].page = queue[k].page /\ queue'[k].op = queue[k].op
      OBVIOUS
    <3>1. CASE k = 1
      BY <3>1, <2>5
    <3>2. CASE k # 1
      <4>1. k > 1
        BY <3>2
      <4> QED
        BY <4>1, <2>5
    <3> QED
      BY <3>1, <3>2
  <2>8. Writing' = Writing
    BY <2>5, <1>1, <1>3 DEF Writing, Head1
  <2>9. /\ [At(d) EXCEPT !.st = "dirty"] \in Slot
        /\ SlotStep(d.page, d.slot, [At(d) EXCEPT !.st = "dirty"])
    BY <2>1, <2>2, <2>3, <2>4, <2>5, <2>6, <2>7, <2>8, <1>1, <1>2, <1>7, FlagStep
  <2>10. WriteResult(Done)'
    BY <2>8, <1>3 DEF WriteResult
  <2>11. d.page \in Index /\ d.slot \in Slots
    BY <2>1
  <2> QED
    BY <2>9, <2>10, <2>11, SlotStepInv
<1> QED
    BY <1>4, <1>5, <1>6, <1>7 DEF DeleteExecute

\* a record that is looked up in a file is there, and is whole
LEMMA FoundInFileIs ==
    ASSUME NEW f, FoundInFile(f) # {}
    PROVE  LET d == First(FoundInFile(f))
           IN  /\ d \in [page : Index, slot : Slots]
               /\ Valid(flash, pages[d.page].phys, d.slot)
               /\ flash[pages[d.page].phys].rec[d.slot].file = f /\ Before(tok, d)
               /\ \A e \in FoundInFile(f) \ {d} : Before(d, e)
<1> DEFINE P(d) == /\ pages[d.page].type = "data"
                   /\ Valid(flash, pages[d.page].phys, d.slot)
                   /\ At(d).file = f
                   /\ Before(tok, d)
           S == FoundInFile(f)
<1>1. S = {d \in [page : Index, slot : Slots] : P(d)} /\ S # {}
    BY DEF FoundInFile
<1>2. S \subseteq [page : Index, slot : Slots] /\ \A d \in S : P(d)
  <2> HIDE DEF S, P
  <2> QED
    BY <1>1
<1>3. First(S) \in S /\ \A e \in S \ {First(S)} : Before(First(S), e)
  <2> HIDE DEF S, P
  <2> QED
    BY <1>1, <1>2, FirstIs
<1>4. First(S) \in [page : Index, slot : Slots] /\ P(First(S))
  <2> HIDE DEF S, P
  <2> QED
    BY <1>2, <1>3
<1> QED
    BY <1>3, <1>4 DEF At

\* delete_execute, of a file
LEMMA DeleteFileExecuteInv ==
    ASSUME IInv, DeleteFileExecute, Sound'
    PROVE  IInv'
<1>1. /\ loop.at = "run" /\ Cur.op = "deleteFile"
      /\ UNCHANGED <<flash, status, swap, gc, latest, queue, desc, reserved, opened, timeouts>>
      /\ damage \subseteq damage'
    BY DEF DeleteFileExecute, Process, users, counts, FlagDirty, Met
<1>2. QueueOK /\ queue # <<>> /\ status = "ready"
  <2>1. queue # <<>> /\ QueueOK
    BY <1>1 DEF IInv, Control, LoopOK, NoBusy
  <2> QED
    BY <2>1, <1>1 DEF IInv, Control, StatusOK, Head1
<1>3. Writing = 0 /\ Cur.page = 0 /\ IsReady
  <2>1. Cur.page = 0
    BY <1>1, <1>2, HeadIs DEF OpOK
  <2> QED
    BY <2>1, <1>1, <1>2, IInvReady DEF Writing, Head1
<1>4. CASE loop.ret # "success" /\ Ends("timeout") /\ UNCHANGED <<pages, tok>>
    BY <1>1, <1>2, <1>3, <1>4, EndInv
<1>5. CASE loop.ret = "success" /\ Ends("success") /\ UNCHANGED <<pages, damage>>
    BY <1>1, <1>2, <1>3, <1>5, EndInv
<1>6. CASE /\ loop.ret = "success" /\ FoundInFile(Cur.file) # {}
           /\ FlagDirty(First(FoundInFile(Cur.file)))
  <2> DEFINE d == First(FoundInFile(Cur.file))
  <2>1. /\ d \in [page : Index, slot : Slots]
        /\ Valid(flash, pages[d.page].phys, d.slot)
    BY <1>6, FoundInFileIs
  <2>2. FlagDirty(d)
    BY <1>6
  <2> HIDE DEF d
  <2>3. St(flash, d.page, d.slot) = "whole"
    BY <2>1 DEF Valid, St
  <2>4. d.slot < pages[d.page].offset
    BY <2>1, <2>3, <1>1, <1>2, <1>3, BeforeOffset
  <2>5. QueueOK' /\ Len(queue') = Len(queue) /\ Cur' = Cur
    BY <1>1, <1>2 DEF QueueOK, Cur
  <2>6. \A k \in 1 .. Len(queue) : queue'[k].page = queue[k].page /\ queue'[k].op = queue[k].op
    BY <1>1
  <2>7. Writing' = Writing
    BY <2>5, <1>1, <1>3 DEF Writing, Head1
  <2>8. /\ [At(d) EXCEPT !.st = "dirty"] \in Slot
        /\ SlotStep(d.page, d.slot, [At(d) EXCEPT !.st = "dirty"])
    BY <2>1, <2>2, <2>3, <2>4, <2>5, <2>6, <2>7, <1>1, <1>2, <1>6, FlagStep
  <2>9. WriteResult(Done)'
    BY <2>7, <1>3 DEF WriteResult
  <2>10. d.page \in Index /\ d.slot \in Slots
    BY <2>1
  <2> QED
    BY <2>8, <2>9, <2>10, SlotStepInv
<1> QED
    BY <1>4, <1>5, <1>6 DEF DeleteFileExecute

-------------------------------------------------------------------------------
(* write_execute                                                             *)

\* page_offsets_update: the offset passes over the record, whose words are used
LEMMA OffsetsIs ==
    ASSUME PagesOK, NEW i \in Index, pages[i].offset <= PageSlots, pages[i].reserved >= 1,
           status' = status, swap' = swap, pages' = OffsetsUpdate(pages, i)
    PROVE  /\ PagesOK'
           /\ pages'[i].offset = pages[i].offset + 1
           /\ pages'[i].reserved = pages[i].reserved - 1
           /\ \A j \in Index : j # i => pages'[j] = pages[j]
           /\ \A j \in Index : /\ pages'[j].phys = pages[j].phys
                               /\ pages[j].canGc => pages'[j].canGc
                               /\ pages'[j].canGc = pages[j].canGc
                               /\ pages'[j].open = pages[j].open
<1> DEFINE P == [type : {"erased", "data"}, phys : Phys, offset : Offsets,
                 reserved : 0 .. PageSlots, canGc : BOOLEAN, open : 0 .. 1]
           o == pages[i].offset + 1
           v == pages[i].reserved - 1
<1>1. pages \in [Index -> P]
    BY DEF PagesOK
<1>2. o \in Offsets /\ v \in 0 .. PageSlots
  <2>1. pages[i].offset \in Offsets /\ pages[i].reserved \in 0 .. PageSlots /\ PageSlots \in Nat
    BY <1>1, FdsAssumption
  <2> QED
    BY <2>1 DEF Offsets
<1>3. pages' = [pages EXCEPT ![i].offset = o, ![i].reserved = v]
  <2>1. pages' = [pages EXCEPT ![i].offset = @ + 1, ![i].reserved = @ - 1]
    BY DEF OffsetsUpdate
  <2>2. i \in DOMAIN pages
    BY <1>1
  <2> QED
    BY <2>1, <2>2, <1>1
<1> HIDE DEF o, v
<1>4. /\ \A j \in Index : j # i => pages'[j] = pages[j]
      /\ pages' \in [Index -> P]
      /\ pages'[i].offset = o /\ pages'[i].reserved = v
      /\ pages'[i].phys = pages[i].phys /\ pages'[i].type = pages[i].type
      /\ pages'[i].canGc = pages[i].canGc /\ pages'[i].open = pages[i].open
    BY ONLY <1>1, <1>2, <1>3, i \in Index
<1> HIDE DEF P
<1>5. PagesOK'
  <2>1. swap' \in [phys : Phys, offset : Offsets] /\ swap'.phys = swap.phys
    BY DEF PagesOK
  <2>2. \A j \in Index : pages'[j].phys = pages[j].phys /\ pages'[j].type = pages[j].type
    BY <1>4
  <2> QED
    BY <1>4, <2>1, <2>2, SamePages DEF P
<1> QED
    BY <1>4, <1>5 DEF o, v

\* the place of a write is on its page
LEMMA OffsetInSlots ==
    ASSUME IInv, status = "ready", loop.at = "run", queue # <<>>, Cur.page \in Index
    PROVE  /\ pages[Cur.page].offset \in Slots
           /\ pages[Cur.page].reserved >= 1
           /\ pages[Cur.page].offset <= PageSlots
<1> DEFINE i == Cur.page
<1>1. QueueOK /\ PagesOK
    BY IInvReady
<1>2. Claims(i) >= 1
    BY <1>1, Claiming
<1>3. /\ Claims(i) \in Nat /\ Claims(i) <= pages[i].reserved
      /\ pages[i].offset + pages[i].reserved <= PageSlots + 1
      /\ pages[i].reserved \in Nat /\ pages[i].offset \in Nat /\ pages[i].offset >= 1
      /\ PageSlots \in Nat
    BY <1>1, IInvReady, PagesTyped
<1>4. pages[i].reserved >= 1 /\ pages[i].offset <= PageSlots /\ pages[i].offset \in 1 .. PageSlots
  <2> HIDE DEF i
  <2> QED
    BY <1>2, <1>3
<1> QED
    BY <1>4 DEF Slots

\* the end of a write: what is behind the offset is what it has written
LEMMA WriteEndInv ==
    ASSUME IInv, status = "ready", loop.at = "run", queue # <<>>, NEW i \in Index, i = Cur.page,
           Cur.op = "write" \/ Cur.op = "update", NEW ret, Ends(ret),
           ret \in {"success", "timeout"}, ret = "success" => loop.ret = "success",
           pages' = OffsetsUpdate(pages, i), St(flash, i, pages[i].offset) # "erased",
           timeouts = 0 => St(flash, i, pages[i].offset) = "whole",
           UNCHANGED <<flash, status, swap, gc, latest, queue, reserved, opened, timeouts, damage>>
    PROVE  IInv'
<1>1. /\ IsReady /\ PagesOK /\ QueueOK /\ LoopOK /\ StatusOK /\ GcType /\ SpaceOK /\ Opens
      /\ timeouts \in Nat /\ latest \in Nat
    BY IInvReady DEF IInv, Control
<1>2. /\ loop'.at = "event" /\ loop'.ret = ret /\ busy' = busy /\ busy = NoBusy /\ queue # <<>>
    BY <1>1 DEF Ends, Event, LoopOK
<1>3. Done' = flash' /\ Done = flash
    BY <1>2, DoneIsFlash, DoneIsFlash1
<1>4. Writing' = 0 /\ Cur' = Cur /\ Writing \in {0, i}
    BY <1>2 DEF Writing, Cur
<1>5. Control'
  <2>1. QueueOK' /\ GcType' /\ timeouts' \in Nat /\ latest' \in Nat
    BY <1>1 DEF QueueOK, GcType
  <2>2. LoopOK'
    BY <1>1, <1>2 DEF LoopOK
  <2>3. StatusOK'
    BY <1>1, <1>2 DEF StatusOK
  <2> QED
    BY <2>1, <2>2, <2>3 DEF Control
<1>6. BusyOK'
    BY <1>2 DEF BusyOK
<1>7. FlashOK(flash)' /\ FlashOK(Done)'
  <2>1. FlashOK(flash)'
    BY DEF IInv, FlashOK
  <2> QED
    BY <2>1, <1>3 DEF FlashOK
<1>8. pages[i].offset \in Slots /\ pages[i].reserved >= 1 /\ pages[i].offset <= PageSlots
    BY OffsetInSlots
<1>9. /\ PagesOK'
      /\ pages'[i].offset = pages[i].offset + 1
      /\ pages'[i].reserved = pages[i].reserved - 1
      /\ \A j \in Index : j # i => pages'[j] = pages[j]
      /\ \A j \in Index : /\ pages'[j].phys = pages[j].phys
                          /\ pages[j].canGc => pages'[j].canGc
                          /\ pages'[j].open = pages[j].open
    BY <1>1, <1>8, OffsetsIs
<1>10. ~Going' /\ ~Head1({"gc"}) /\ ~Erasing
    BY <1>2 DEF Going, Head1, Erasing
<1>11. GcWaits'
  <2>1. CASE gc.state = "begin"
    BY <2>1 DEF GcWaits
  <2>2. CASE gc.state # "begin"
    <3>1. timeouts # 0
      BY <2>2, <1>1, <1>10 DEF IsReady, GcWaits
    <3>2. (~gc.resume /\ \E k \in 1 .. Len(queue) : queue[k].op = "gc") => ret # "success"
      BY <2>2, <1>1, <1>2 DEF IsReady, GcWaits
    <3> QED
      BY <3>1, <3>2, <1>2 DEF GcWaits
  <2> QED
    BY <2>1, <2>2
<1>12. SpaceOK'
  <2>1. \A j \in Index : Claims(j)' = Claims(j) - (IF i = j THEN 1 ELSE 0)
    BY <1>1, <1>2, ClaimsEnd
  <2>2. \A j \in Index : /\ Claims(j) \in Nat /\ pages[j].reserved \in Nat /\ pages[j].offset \in Nat
                         /\ PageSlots \in Nat
    BY <1>1, ClaimsType, PagesTyped
  <2>3. ASSUME NEW j \in Index
        PROVE  /\ Claims(j)' <= pages'[j].reserved
               /\ damage = {} => Claims(j)' = pages'[j].reserved
               /\ pages'[j].offset + pages'[j].reserved <= PageSlots + 1
    <3>1. /\ Claims(j) <= pages[j].reserved
          /\ damage = {} => Claims(j) = pages[j].reserved
          /\ pages[j].offset + pages[j].reserved <= PageSlots + 1
      BY <1>1 DEF SpaceOK
    <3>2. CASE j = i
      BY <3>1, <3>2, <2>1, <2>2, <1>9
    <3>3. CASE j # i
      BY <3>1, <3>3, <2>1, <2>2, <1>9
    <3> QED
      BY <3>2, <3>3
  <2> QED
    BY <2>3, <1>1 DEF SpaceOK
<1>13. Opens'
    BY <1>1, <1>9 DEF Opens
<1>14. \A s \in Slots : s \in Nat
    BY DEF Slots
<1>15. pages[i].offset \in Nat
    BY <1>1, PagesTyped
<1>16. \A j \in Index : Kept(flash, j)'
  <2> SUFFICES ASSUME NEW j \in Index
               PROVE  Kept(flash, j)'
    OBVIOUS
  <2>1. /\ Filled(flash, j)
        /\ \/ flash[pages[j].phys].tag = "data"
           \/ j = gc.cur /\ gc.state = "promote" /\ flash[pages[j].phys].tag = "swap"
    BY <1>1, <1>10 DEF IsReady, Known, Kept
  <2>2. Filled(flash, j)'
    <3>1. CASE j = i
      <4>1. \A s \in Slots : s < pages[i].offset + 1 => s < pages[i].offset \/ s = pages[i].offset
        BY <1>14, <1>15
      <4>2. \A s \in Slots : s >= pages[i].offset + 1 => s >= pages[i].offset /\ s # pages[i].offset
        BY <1>14, <1>15
      <4>3. /\ pages'[j].offset = pages[i].offset + 1 /\ pages'[j].phys = pages[i].phys
            /\ pages[j].offset = pages[i].offset
        BY <3>1, <1>9
      <4>4. \A s \in Slots : St(flash, j, s)' = St(flash, i, s)
        BY <4>3 DEF St
      <4> QED
        BY <4>1, <4>2, <4>3, <4>4, <3>1, <2>1 DEF Filled
    <3>2. CASE j # i
      <4>1. j # Writing
        BY <3>2, <1>4 DEF Index
      <4>2. pages'[j].offset = pages[j].offset /\ \A s \in Slots : St(flash, j, s)' = St(flash, j, s)
        BY <3>2, <1>9 DEF St
      <4>3. j # Writing'
        BY <1>4 DEF Index
      <4> QED
        BY <4>1, <4>2, <4>3, <2>1 DEF Filled
    <3> QED
      BY <3>1, <3>2
  <2> QED
    BY <2>1, <2>2, <1>9 DEF Kept
<1>17. \A j \in Index : Whole(flash, j)'
  <2> SUFFICES ASSUME NEW j \in Index, timeouts = 0, NEW s \in Slots, s < pages'[j].offset
               PROVE  pages'[j].canGc \/ St(flash, j, s)' = "whole"
    BY DEF Whole
  <2>1. s < pages[j].offset => pages[j].canGc \/ St(flash, j, s) = "whole"
    BY <1>1 DEF IsReady, Known, Whole
  <2>2. St(flash, j, s)' = St(flash, j, s) /\ (pages[j].canGc => pages'[j].canGc)
    BY <1>9 DEF St
  <2>3. s < pages[j].offset \/ (j = i /\ s = pages[i].offset)
    BY <1>9, <1>14, <1>15
  <2> QED
    BY <2>1, <2>2, <2>3
<1>18. GcSwap(flash)'
  <2>1. GcSwap(flash) /\ gc.cur \in Index /\ gc.src \in Nat /\ pages[gc.cur].offset \in Nat
    BY <1>1, PagesTyped DEF IsReady, Known, GcType, Slots
  <2>2. /\ pages'[gc.cur].phys = pages[gc.cur].phys
        /\ pages[gc.cur].canGc => pages'[gc.cur].canGc
        /\ gc.src < pages[gc.cur].offset => gc.src < pages'[gc.cur].offset
    BY <2>1, <1>9
  <2> QED
    BY <2>1, <2>2 DEF GcSwap, SwapTag, SwapSt, EmptyFrom, FullBelow, St
<1>19. OpenOK(flash)'
    BY <1>1 DEF IsReady, Known, OpenOK
<1>20. Known(flash)' /\ Known(Done)'
    BY <1>3, <1>16, <1>17, <1>18, <1>19, KnownAfter DEF Known
<1> QED
    BY <1>4, <1>5, <1>6, <1>7, <1>9, <1>10, <1>11, <1>12, <1>13, <1>20 DEF IInv, IsReady

\* the first operation goes on with its next step
LEMMA NextStepIs ==
    ASSUME QueueOK, queue # <<>>, NEW s \in Steps, Step(s), OpOK(Cur)'
    PROVE  /\ QueueOK' /\ Len(queue') = Len(queue) /\ queue' # <<>>
           /\ \A k \in 1 .. Len(queue) :
                 queue'[k].page = queue[k].page /\ queue'[k].op = queue[k].op
           /\ Cur'.step = s /\ Cur'.op = Cur.op /\ Cur'.page = Cur.page
<1>1. /\ Len(queue') = Len(queue) /\ queue' # <<>>
      /\ Cur' = queue'[1] /\ Cur = queue[1]
      /\ \A k \in 1 .. Len(queue) : k > 1 => queue'[k] = queue[k]
      /\ Cur'.step = s /\ Cur'.op = Cur.op /\ Cur'.page = Cur.page
    BY StepIs
<1>2. QueueOK'
    BY StepKeepsQueue
<1>3. ASSUME NEW k \in 1 .. Len(queue)
      PROVE  queue'[k].page = queue[k].page /\ queue'[k].op = queue[k].op
  <2>1. CASE k = 1
    BY <2>1, <1>1
  <2>2. CASE k # 1
    <3>1. k > 1
      BY <2>2
    <3> QED
      BY <3>1, <1>1
  <2> QED
    BY <2>1, <2>2
<1> QED
    BY <1>1, <1>2, <1>3

\* a write puts something at the offset
LEMMA WriteStep ==
    ASSUME IInv, status = "ready", loop.at = "run", loop.ret = "success", queue # <<>>,
           Cur.op = "write" \/ Cur.op = "update", NEW s \in Steps,
           s \in {"final", "flag", "done"}, Step(s), OpOK(Cur)',
           UNCHANGED <<flash, status, pages, swap, gc, latest, reserved, opened, timeouts>>,
           NEW r \in Slot, WriteTo(Cur.page, r), Sound', r.st = "begun" \/ r.st = "whole",
           LET old == St(flash, Cur.page, pages[Cur.page].offset)
           IN old = "erased" \/ (old = "begun" /\ r.st = "whole")
    PROVE  /\ Cur.page \in Index /\ pages[Cur.page].offset \in Slots
           /\ SlotStep(Cur.page, pages[Cur.page].offset, r)
           /\ Writing' = Cur.page /\ Cur'.step = s /\ Cur'.op = Cur.op
<1> DEFINE i == Cur.page
           t == pages[i].offset
<1>1. QueueOK /\ PagesOK /\ GcType
    BY IInvReady
<1>2. i \in Index
    BY <1>1, HeadIs
<1>3. t \in Slots
    BY <1>2, OffsetInSlots
<1>4. /\ QueueOK' /\ Len(queue') = Len(queue) /\ queue' # <<>>
      /\ \A k \in 1 .. Len(queue) : queue'[k].page = queue[k].page /\ queue'[k].op = queue[k].op
      /\ Cur'.step = s /\ Cur'.op = Cur.op /\ Cur'.page = i
    BY <1>1, NextStepIs
<1>5. Executes(WriteSlot(pages[i].phys, t, r)) /\ damage' = damage /\ ~Stale([page |-> i, slot |-> t])
    BY DEF WriteTo, Met, Sound
<1>6. loop'.at = "idle"
    BY <1>5 DEF Executes, Idle
<1>7. Writing' = i /\ Writing \in {0, i}
    BY <1>4, <1>6 DEF Writing, Head1
<1>8. i = gc.cur => gc.state # "erase" /\ (gc.state = "copy" => t > gc.src)
  <2>1. gc.src \in Nat /\ t \in Nat
    BY <1>1, <1>3 DEF GcType, Slots
  <2> QED
    BY <2>1, <1>5 DEF Stale
<1>9. PagesOK'
    BY <1>1 DEF PagesOK
<1>10. SlotStep(i, t, r)
    BY <1>4, <1>5, <1>7, <1>8, <1>9 DEF SlotStep
<1> QED
    BY <1>2, <1>3, <1>4, <1>7, <1>10

\* write_execute: a write or an update goes on or ends.
LEMMA WriteExecuteInv ==
    ASSUME IInv, WriteExecute, Sound'
    PROVE  IInv'
<1> DEFINE i == Cur.page
<1>1. /\ loop.at = "run" /\ (Cur.op = "write" \/ Cur.op = "update")
      /\ UNCHANGED <<flash, status, swap, gc, latest, reserved, opened, timeouts>>
    BY DEF WriteExecute, Process, users, counts
<1>2. QueueOK /\ queue # <<>> /\ status = "ready"
  <2>1. queue # <<>> /\ QueueOK
    BY <1>1 DEF IInv, Control, LoopOK, NoBusy
  <2> QED
    BY <2>1, <1>1 DEF IInv, Control, StatusOK, Head1
<1>3. /\ i \in Index /\ IsReady /\ PagesOK /\ busy = NoBusy
      /\ i # 0
    BY <1>1, <1>2, HeadIs, IInvReady DEF Index, LoopOK
<1>4. pages[i].offset \in Slots
    BY <1>1, <1>2, <1>3, OffsetInSlots
<1>5. Writing = IF Cur.step \in {"final", "flag", "done"} THEN i ELSE 0
    BY <1>1, <1>2 DEF Writing, Head1
<1>6. Filled(flash, i) /\ Done = flash
    BY <1>1, <1>3, DoneIsFlash DEF IsReady, Known, Kept, Erasing, Head1
<1>7. Writing = 0 => St(flash, i, pages[i].offset) = "erased"
  <2>1. pages[i].offset \in Nat
    BY <1>3, PagesTyped
  <2> QED
    BY <2>1, <1>3, <1>4, <1>6 DEF Filled
<1>8. loop.ret = "success" => WriteResult(flash)
  <2>1. loop.ret = "success" => Going
    BY <1>1 DEF Going
  <2> QED
    BY <2>1, <1>3, <1>6 DEF IsReady, WriteResult, St
<1>9. /\ pages[i].offset \in Nat /\ \A s \in Slots : s \in Nat
    BY <1>3, PagesTyped DEF Slots
<1>10. CASE loop.ret # "success" /\ pages' = OffsetsUpdate(pages, i) /\ Ends("timeout")
            /\ Met("gap", Unwritten(i)) /\ UNCHANGED <<queue, desc>>
  <2>1. damage' = damage /\ St(flash, i, pages[i].offset) # "erased"
    BY <1>10 DEF Met, Sound, Unwritten, St
  <2>2. Writing # 0
    BY <2>1, <1>7
  <2>3. timeouts # 0
    BY <2>2, <1>1, <1>3, <1>10 DEF IsReady, Going
  <2> QED
    BY <2>1, <2>3, <1>1, <1>2, <1>3, <1>10, WriteEndInv
<1>11. CASE loop.ret = "success" /\ Cur.step = "find" /\ Ends("notFound") /\ Met("leak", TRUE)
            /\ UNCHANGED <<queue, pages, desc>>
  <2>1. damage' # {} /\ damage \subseteq damage'
    BY <1>11 DEF Met
  <2>2. Writing = 0
    BY <1>5, <1>11
  <2> QED
    BY <2>1, <2>2, <1>1, <1>2, <1>11, EndInv
<1>12. CASE /\ loop.ret = "success"
            /\ \/ Cur.step = "find" /\ Found(Cur.old) # {} /\ desc' = First(Found(Cur.old))
               \/ Cur.step = "begin" /\ UNCHANGED desc
            /\ Step("final") /\ WriteTo(i, Begun) /\ UNCHANGED pages
  <2>1. Begun \in Slot /\ Begun.st = "begun"
    BY DEF Begun, ErasedSlot, Slot
  <2>2. Writing = 0
    BY <1>5, <1>12
  <2>3. OpOK(Cur)'
    BY <1>1, <1>2, <1>3, <1>12, StepIs DEF Steps, OpOK
  <2> DEFINE t == pages[i].offset
  <2>4. /\ SlotStep(i, t, Begun)
        /\ Writing' = i /\ Cur'.step = "final" /\ Cur'.op = Cur.op
    BY <2>1, <2>2, <2>3, <1>1, <1>2, <1>7, <1>12, WriteStep DEF Steps
  <2> HIDE DEF i, t
  <2>5. /\ Done'[pages[i].phys].rec[t] = Begun
        /\ \A u \in Slots : u # t => Done'[pages[i].phys].rec[u] = flash[pages[i].phys].rec[u]
        /\ \A p \in Phys : p # pages[i].phys => Done'[p] = flash[p]
        /\ \A j \in Index : j # i => pages[j].phys \in Phys /\ pages[j].phys # pages[i].phys
    BY <2>1, <2>4, <1>3, <1>4, SlotStepDone DEF t
  <2>6. ASSUME Cur.op = "update"
        PROVE  /\ desc' \in [page : Index, slot : Slots]
               /\ desc'.slot < pages[desc'.page].offset
               /\ Done'[pages[desc'.page].phys].rec[desc'.slot].st = "whole"
    <3>1. desc' = First(Found(Cur.old)) /\ Found(Cur.old) # {}
      BY <2>6, <1>2, <1>12, HeadIs DEF OpOK
    <3>2. /\ desc' \in [page : Index, slot : Slots]
          /\ Valid(flash, pages[desc'.page].phys, desc'.slot)
      BY <3>1, FoundIs
    <3>3. desc'.page \in Index /\ desc'.slot \in Slots
      BY <3>2
    <3>4. St(flash, desc'.page, desc'.slot) = "whole"
      BY <3>2 DEF Valid, St
    <3>5. desc'.slot < pages[desc'.page].offset
      BY <3>3, <3>4, <2>2, <1>1, <1>2, BeforeOffset
    <3>6. desc'.page # i \/ desc'.slot # t
      BY <3>3, <3>5, <1>9 DEF t
    <3>7. Done'[pages[desc'.page].phys].rec[desc'.slot] = flash[pages[desc'.page].phys].rec[desc'.slot]
      BY <3>3, <3>6, <2>5
    <3> QED
      BY <3>2, <3>4, <3>5, <3>7 DEF St
  <2>7. WriteResult(Done)'
    <3>1. pages' = pages
      BY <1>12
    <3>2. St(Done, Writing, pages[Writing].offset)' = "begun"
      BY <3>1, <2>1, <2>4, <2>5 DEF St, t
    <3>3. Cur'.op = "update" =>
           /\ desc' \in [page : Index, slot : Slots]
           /\ desc'.slot < pages'[desc'.page].offset
           /\ St(Done, desc.page, desc.slot)' = "whole"
      BY <3>1, <2>4, <2>6 DEF St
    <3> QED
      BY <2>4, <3>2, <3>3 DEF WriteResult
  <2> QED
    BY <2>1, <2>4, <2>7, <1>3, <1>4, SlotStepInv DEF t
<1>13. CASE /\ loop.ret = "success" /\ Cur.step = "final"
            /\ Step(IF Cur.op = "update" THEN "flag" ELSE "done")
            /\ WriteTo(i, [st |-> "whole", id |-> Cur.id, file |-> Cur.file])
            /\ UNCHANGED <<pages, desc>>
  <2> DEFINE r == [st |-> "whole", id |-> Cur.id, file |-> Cur.file]
             s == IF Cur.op = "update" THEN "flag" ELSE "done"
             t == pages[i].offset
  <2>1. r \in Slot /\ r.st = "whole"
    BY <1>2, HeadIs DEF Operation, Slot
  <2>2. Writing = i
    BY <1>5, <1>13
  <2>3. s \in Steps /\ s \in {"final", "flag", "done"}
    BY DEF Steps
  <2>4. OpOK(Cur)'
    BY <2>3, <1>1, <1>2, <1>3, <1>13, StepIs DEF OpOK
  <2>5. St(flash, i, t) = "begun"
    BY <2>2, <1>3, <1>8, <1>13 DEF WriteResult
  <2> HIDE DEF r, s
  <2>6. Step(s) /\ WriteTo(i, r)
    BY <1>13 DEF r, s
  <2>7. /\ SlotStep(i, t, r)
        /\ Writing' = i /\ Cur'.step = s /\ Cur'.op = Cur.op
    BY <2>1, <2>3, <2>4, <2>5, <2>6, <1>1, <1>2, <1>13, WriteStep
  <2> HIDE DEF i, t
  <2>8. /\ Done'[pages[i].phys].rec[t] = r
        /\ \A u \in Slots : u # t => Done'[pages[i].phys].rec[u] = flash[pages[i].phys].rec[u]
        /\ \A p \in Phys : p # pages[i].phys => Done'[p] = flash[p]
        /\ \A j \in Index : j # i => pages[j].phys \in Phys /\ pages[j].phys # pages[i].phys
    BY <2>1, <2>7, <1>3, <1>4, SlotStepDone DEF t
  <2>9. ASSUME Cur.op = "update"
        PROVE  /\ desc \in [page : Index, slot : Slots]
               /\ desc.slot < pages[desc.page].offset
               /\ Done'[pages[desc.page].phys].rec[desc.slot].st = "whole"
    <3>1. /\ desc \in [page : Index, slot : Slots]
          /\ desc.slot < pages[desc.page].offset
          /\ St(flash, desc.page, desc.slot) = "whole"
      BY <2>2, <2>9, <1>3, <1>8, <1>13 DEF WriteResult
    <3>3. desc.page \in Index /\ desc.slot \in Slots
      BY <3>1
    <3>6. desc.page # i \/ desc.slot # t
      BY <3>1, <3>3, <1>9 DEF t
    <3>7. Done'[pages[desc.page].phys].rec[desc.slot] = flash[pages[desc.page].phys].rec[desc.slot]
      BY <3>3, <3>6, <2>8
    <3> QED
      BY <3>1, <3>7 DEF St
  <2>10. WriteResult(Done)'
    <3>1. pages' = pages /\ desc' = desc
      BY <1>13
    <3>2. St(Done, Writing, pages[Writing].offset)' = "whole"
      BY <3>1, <2>1, <2>7, <2>8 DEF St, t
    <3>3. Cur'.op = "update" =>
           /\ desc' \in [page : Index, slot : Slots]
           /\ desc'.slot < pages'[desc'.page].offset
           /\ St(Done, desc.page, desc.slot)' = "whole"
      BY <3>1, <2>7, <2>9 DEF St
    <3>4. s # "final"
      BY DEF s
    <3> QED
      BY <2>7, <3>2, <3>3, <3>4 DEF WriteResult
  <2> QED
    BY <2>1, <2>7, <2>10, <1>3, <1>4, SlotStepInv DEF t
<1>14. CASE loop.ret = "success" /\ Cur.step = "flag" /\ Step("done") /\ FlagDirty(desc)
            /\ UNCHANGED desc
  <2> DEFINE r == [At(desc) EXCEPT !.st = "dirty"]
             t == pages[i].offset
  <2>1. Writing = i /\ Cur.op = "update"
    BY <1>1, <1>2, <1>5, <1>14, HeadIs DEF OpOK
  <2>2. /\ desc \in [page : Index, slot : Slots]
        /\ desc.slot < pages[desc.page].offset
        /\ St(flash, desc.page, desc.slot) = "whole"
        /\ St(flash, i, t) = "whole"
    BY <2>1, <1>3, <1>8, <1>14 DEF WriteResult
  <2>3. OpOK(Cur)'
    BY <2>1, <1>1, <1>2, <1>3, <1>14, StepIs DEF Steps, OpOK
  <2>4. /\ QueueOK' /\ Len(queue') = Len(queue) /\ queue' # <<>>
        /\ \A k \in 1 .. Len(queue) : queue'[k].page = queue[k].page /\ queue'[k].op = queue[k].op
        /\ Cur'.step = "done" /\ Cur'.op = Cur.op /\ Cur'.page = i
    BY <2>3, <1>2, <1>14, NextStepIs DEF Steps
  <2>5. loop'.at = "idle"
    BY <1>14 DEF FlagDirty, Executes, Idle
  <2>6. Writing' = i
    BY <2>1, <2>4, <2>5 DEF Writing, Head1
  <2>7. r \in Slot /\ SlotStep(desc.page, desc.slot, r)
    BY <2>1, <2>2, <2>4, <2>6, <1>1, <1>2, <1>14, FlagStep
  <2> HIDE DEF i, t, r
  <2>8. desc.page \in Index /\ desc.slot \in Slots
    BY <2>2
  <2>9. /\ \A u \in Slots : u # desc.slot =>
                 Done'[pages[desc.page].phys].rec[u] = flash[pages[desc.page].phys].rec[u]
        /\ \A p \in Phys : p # pages[desc.page].phys => Done'[p] = flash[p]
        /\ \A j \in Index : j # desc.page =>
              pages[j].phys \in Phys /\ pages[j].phys # pages[desc.page].phys
    BY <2>7, <2>8, SlotStepDone
  <2>10. Done'[pages[i].phys].rec[t] = flash[pages[i].phys].rec[t]
    <3>1. desc.page # i \/ desc.slot # t
      BY <2>2, <2>8, <1>9 DEF t
    <3> QED
      BY <3>1, <2>9, <1>3, <1>4 DEF t
  <2>11. /\ pages'[i].phys = pages[i].phys /\ pages'[i].offset = t
    BY <2>7, <1>3 DEF SlotStep, t
  <2>12. WriteResult(Done)'
    <3>1. St(Done, Writing, pages[Writing].offset)' = "whole"
      BY <2>2, <2>6, <2>10, <2>11 DEF St
    <3> QED
      BY <3>1, <2>4 DEF WriteResult
  <2> QED
    BY <2>7, <2>8, <2>12, SlotStepInv
<1>15. CASE loop.ret = "success" /\ Cur.step = "done" /\ pages' = OffsetsUpdate(pages, i)
            /\ Ends("success") /\ UNCHANGED <<queue, desc, damage>>
  <2>1. Writing = i
    BY <1>5, <1>15
  <2>2. St(flash, i, pages[i].offset) = "whole"
    BY <2>1, <1>3, <1>8, <1>15 DEF WriteResult
  <2> QED
    BY <2>2, <1>1, <1>2, <1>3, <1>15, WriteEndInv
<1> QED
    BY <1>10, <1>11, <1>12, <1>13, <1>14, <1>15 DEF WriteExecute

-------------------------------------------------------------------------------
(* init_execute                                                              *)

\* what is known when a step of fds_init is taken
LEMMA Starting ==
    ASSUME IInv, Process({"init"})
    PROVE  /\ status = "starting" /\ IsStarting /\ PagesOK /\ QueueOK /\ LoopOK /\ GcType
           /\ queue # <<>> /\ Len(queue) = 1 /\ Cur.op = "init" /\ Cur = queue[1]
           /\ Cur \in Operation /\ OpOK(Cur)
           /\ busy = NoBusy /\ Done = flash /\ loop.at = "run" /\ Writing = 0
           /\ flash \in FlashType /\ FlashOK(flash) /\ timeouts \in Nat /\ latest \in Nat
           /\ loop.ret = "success" => InitOK(flash)
           /\ swap.phys \in Phys /\ swap.offset \in Nat /\ swap.offset >= 1
           /\ \A i \in Index : /\ pages[i].phys \in Phys /\ pages[i].phys # swap.phys
                               /\ pages[i].offset \in Nat
                               /\ pages[i].type \in {"erased", "data"}
<1>1. loop.at = "run" /\ Cur.op = "init"
    BY DEF Process
<1>2. LoopOK /\ QueueOK /\ StatusOK /\ GcType /\ timeouts \in Nat /\ latest \in Nat
    BY DEF IInv, Control
<1>3. queue # <<>> /\ busy = NoBusy
    BY <1>1, <1>2 DEF LoopOK
<1>4. status = "starting"
    BY <1>1, <1>2, <1>3 DEF StatusOK, Head1
<1>5. IsStarting /\ PagesOK /\ Len(queue) = 1
    BY <1>2, <1>4 DEF IInv, StatusOK
<1>6. Cur = queue[1] /\ Cur \in Operation /\ OpOK(Cur)
  <2>1. Cur = queue[1]
    BY <1>2, <1>3 DEF Cur, QueueOK
  <2> QED
    BY <2>1, <1>2, <1>3, HeadIs
<1>7. Done = flash
    BY <1>3, DoneIsFlash
<1>8. loop.ret = "success" => InitOK(flash)
    BY <1>1, <1>5, <1>7 DEF IsStarting, Going
<1>9. Writing = 0
    BY <1>1 DEF Writing, Head1
<1>10. flash \in FlashType /\ FlashOK(flash)
    BY DEF IInv, FlashOK, Consistent
<1>11. swap.phys \in Phys /\ \A i \in Index : pages[i].phys # swap.phys
    BY <1>5 DEF PagesOK
<1>12. swap.offset \in Nat /\ swap.offset >= 1
    BY <1>5, FdsAssumption DEF PagesOK, Offsets
<1>13. \A i \in Index : pages[i].phys \in Phys /\ pages[i].offset \in Nat
                        /\ pages[i].type \in {"erased", "data"}
    BY <1>5, PagesTyped
<1> QED
    BY <1>1, <1>2, <1>3, <1>4, <1>5, <1>6, <1>7, <1>8, <1>9, <1>10, <1>11, <1>12, <1>13

\* ... and what it has to leave
LEMMA StartingInv ==
    ASSUME IInv, Process({"init"}), NEW b, Executes(b),
           UNCHANGED <<flash, status, gc, latest, reserved, opened, timeouts>>,
           NEW p \in Phys, b \in {Tag(p, "swap"), Tag(p, "data"), Erase(p)},
           QueueOK', Len(queue') = 1, Cur'.op = "init",
           PagesOK', FlashOK(Done)', InitOK(Done)',
           \A i \in Index : pages'[i].reserved = 0 /\ pages'[i].open = 0
    PROVE  IInv'
<1>1. busy' = b /\ loop'.at = "idle" /\ loop'.ret = "success"
    BY DEF Executes, Idle
<1>2. b # NoBusy
  <2>1. b.kind \in {"swap", "data", "erase"}
    BY DEF Tag, Erase, NoBusy
  <2> QED
    BY <2>1 DEF NoBusy
<1>3. /\ status' = "starting" /\ IsStarting /\ GcType /\ timeouts \in Nat /\ latest \in Nat
      /\ FlashOK(flash)
    BY Starting
<1>4. queue' # <<>>
    OBVIOUS
<1>5. Control'
  <2>1. LoopOK'
    BY <1>1, <1>2, <1>4 DEF LoopOK
  <2>2. StatusOK'
    BY <1>1, <1>3, <1>4 DEF StatusOK, Head1
  <2> QED
    BY <2>1, <2>2, <1>3 DEF Control, GcType
<1>6. BusyOK'
    BY <1>1 DEF BusyOK
<1>7. FlashOK(flash)'
    BY <1>3 DEF FlashOK
<1>8. IsStarting'
    BY <1>3 DEF IsStarting
<1> QED
    BY <1>3, <1>5, <1>6, <1>7, <1>8 DEF IInv

\* the next step of fds_init
LEMMA StartingStep ==
    ASSUME IInv, Process({"init"}), NEW s \in Steps, Step(s), s = "tagSwap" \/ s = "tagData"
    PROVE  QueueOK' /\ Len(queue') = 1 /\ Cur'.op = "init" /\ Cur'.step = s
<1>1. /\ QueueOK /\ queue # <<>> /\ Len(queue) = 1 /\ Cur.op = "init" /\ Cur \in Operation
      /\ OpOK(Cur)
    BY Starting
<1>2. /\ Len(queue') = Len(queue) /\ Cur'.step = s /\ Cur'.op = Cur.op /\ Cur'.page = Cur.page
    BY <1>1, StepIs
<1>3. OpOK(Cur)'
    BY <1>1, <1>2 DEF OpOK
<1> QED
    BY <1>1, <1>2, <1>3, StepKeepsQueue

\* fds_init tags the swap page ...
LEMMA InitTagSwapInv ==
    ASSUME IInv, Process({"init"}), loop.ret = "success", Cur.step = "tagSwap",
           Step("tagData"), Executes(Tag(swap.phys, "swap")),
           UNCHANGED <<flash, status, pages, swap, gc, latest, reserved, opened, timeouts>>
    PROVE  IInv'
<1> DEFINE p == swap.phys
<1>1. /\ IsStarting /\ PagesOK /\ FlashOK(flash) /\ flash \in FlashType /\ InitOK(flash) /\ Writing = 0
      /\ p \in Phys /\ swap.offset = 1 /\ flash[p] = ErasedPage
      /\ \A i \in Index : pages[i].phys \in Phys /\ pages[i].phys # p
                          /\ pages[i].type \in {"erased", "data"}
    BY Starting DEF InitOK
<1>2. QueueOK' /\ Len(queue') = 1 /\ Cur'.op = "init" /\ Cur'.step = "tagData"
    BY StartingStep DEF Steps
<1>3. Writing' = 0
    BY <1>2 DEF Writing, Head1
<1>4. Done' = Applied(flash, Tag(p, "swap"))
    BY DEF Done, Executes
<1>5. flash[p].tag = "erased" /\ \A s \in Slots : flash[p].rec[s].st = "erased"
    BY <1>1, ErasedType
<1>6. \A q \in Phys \ {p} : flash[q].tag # "swap"
    BY <1>1 DEF PagesOK, InitOK
<1>7. /\ Done' \in FlashType
      /\ Done'[p].rec = flash[p].rec
      /\ Done'[p].tag = "swap"
      /\ \A q \in Phys : q # p => Done'[q] = flash[q]
  <2>1. p \in Phys
    BY <1>1
  <2> HIDE DEF p
  <2> QED
    BY <1>1, <1>4, <1>5, <2>1, TagEffect DEF TagOver
<1>8. FlashOK(Done)'
  <2>1. p \in Phys /\ Consistent(flash) /\ (timeouts = 0 => SwapIsWhole(flash))
    BY <1>1 DEF FlashOK
  <2> HIDE DEF p
  <2>2. Consistent(Done') /\ (SwapIsWhole(flash) => SwapIsWhole(Done'))
    BY <1>4, <1>5, <1>6, <2>1, ConsistentTag
  <2> QED
    BY <2>1, <2>2 DEF FlashOK
<1>9. InitOK(Done)'
  <2>1. \A i \in Index : Done'[pages[i].phys] = flash[pages[i].phys]
    BY <1>1, <1>7
  <2>2. \A i \in Index : /\ Filled(Done, i)' /\ Whole(Done, i)'
                         /\ Done'[pages[i].phys].tag = pages[i].type
    BY <2>1, <1>1, <1>3 DEF InitOK, Filled, Whole, St
  <2>3. EmptyFrom(Done, 1)' /\ SwapTag(Done)' = "swap"
    BY <1>5, <1>7 DEF EmptyFrom, SwapSt, SwapTag
  <2> QED
    BY <2>2, <2>3, <1>1, <1>2 DEF InitOK
<1>10. PagesOK'
    BY <1>1 DEF PagesOK
<1>11. \A i \in Index : pages'[i].reserved = 0 /\ pages'[i].open = 0
    BY <1>1 DEF IsStarting
<1> QED
    BY <1>1, <1>2, <1>8, <1>9, <1>10, <1>11, StartingInv

\* ... erases a swap page whose records are on the page that they came from ...
LEMMA InitEraseSwapInv ==
    ASSUME IInv, Process({"init"}), loop.ret = "success", Cur.step = "eraseSwap",
           Step("tagSwap"), Executes(Erase(swap.phys)), swap' = [swap EXCEPT !.offset = 1],
           UNCHANGED <<flash, status, pages, gc, latest, reserved, opened, timeouts>>
    PROVE  IInv'
<1> DEFINE p == swap.phys
<1>1. /\ IsStarting /\ PagesOK /\ FlashOK(flash) /\ flash \in FlashType /\ InitOK(flash) /\ Writing = 0
      /\ p \in Phys
      /\ \A i \in Index : pages[i].phys \in Phys /\ pages[i].phys # p
    BY Starting
<1>2. QueueOK' /\ Len(queue') = 1 /\ Cur'.op = "init" /\ Cur'.step = "tagSwap"
    BY StartingStep DEF Steps
<1>3. Writing' = 0
    BY <1>2 DEF Writing, Head1
<1>4. Done' = Applied(flash, Erase(p))
    BY DEF Done, Executes
<1>5. swap' \in [phys : Phys, offset : Offsets] /\ swap'.phys = p /\ swap'.offset = 1
    BY <1>1, FdsAssumption DEF PagesOK, Offsets
<1>7. /\ Done' \in FlashType /\ Done'[p] = ErasedPage
      /\ \A q \in Phys : q # p => Done'[q] = flash[q]
  <2>1. p \in Phys
    BY <1>1
  <2> HIDE DEF p
  <2> QED
    BY <1>1, <1>4, <2>1, EraseEffect
<1>8. FlashOK(Done)'
  <2>1. p \in Phys /\ Consistent(flash) /\ (timeouts = 0 => SwapIsWhole(flash))
    BY <1>1 DEF FlashOK
  <2> HIDE DEF p
  <2>2. Consistent(Done') /\ (SwapIsWhole(flash) => SwapIsWhole(Done'))
    BY <1>4, <2>1, ConsistentErase
  <2> QED
    BY <2>1, <2>2 DEF FlashOK
<1>9. InitOK(Done)'
  <2>1. \A i \in Index : Done'[pages[i].phys] = flash[pages[i].phys]
    BY <1>1, <1>7
  <2>2. \A i \in Index : /\ Filled(Done, i)' /\ Whole(Done, i)'
                         /\ Done'[pages[i].phys].tag = pages[i].type
    BY <2>1, <1>1, <1>3 DEF InitOK, Filled, Whole, St
  <2>3. \A i \in Index : pages[i].type = "erased" => pages[i].offset = 1
    BY <1>1 DEF InitOK
  <2> QED
    BY <2>2, <2>3, <1>2, <1>5, <1>7 DEF InitOK
<1>10. PagesOK'
    BY <1>1, <1>5 DEF PagesOK
<1>11. \A i \in Index : pages'[i].reserved = 0 /\ pages'[i].open = 0
    BY <1>1 DEF IsStarting
<1> QED
    BY <1>1, <1>2, <1>8, <1>9, <1>10, <1>11, StartingInv

\* ... tags an erased page as data ...
LEMMA InitTagDataInv ==
    ASSUME IInv, Process({"init"}), loop.ret = "success", Cur.step = "tagData", queue' = queue,
           NEW i \in Index, pages[i].type = "erased",
           pages' = [pages EXCEPT ![i].type = "data"], Executes(Tag(pages[i].phys, "data")),
           UNCHANGED <<flash, status, swap, gc, latest, reserved, opened, timeouts>>
    PROVE  IInv'
<1> DEFINE p == pages[i].phys
<1>1. /\ IsStarting /\ PagesOK /\ FlashOK(flash) /\ flash \in FlashType /\ InitOK(flash) /\ Writing = 0
      /\ QueueOK /\ Len(queue) = 1 /\ Cur.op = "init" /\ status = "starting"
      /\ swap.offset = 1 /\ EmptyFrom(flash, 1) /\ SwapTag(flash) = "swap" /\ swap.phys \in Phys
      /\ \A j \in Index : pages[j].phys \in Phys /\ pages[j].phys # swap.phys
    BY Starting DEF InitOK
<1>2. QueueOK' /\ Len(queue') = 1 /\ Cur' = Cur
    BY <1>1 DEF QueueOK, Cur
<1>3. Writing' = 0
    BY <1>1, <1>2 DEF Writing, Head1
<1>4. Done' = Applied(flash, Tag(p, "data"))
    BY DEF Done, Executes
<1>5. p \in Phys /\ p # swap.phys /\ \A j \in Index : j # i => pages[j].phys # p
    BY <1>1 DEF PagesOK
<1>6. /\ Done' \in FlashType
      /\ Done'[p].rec = flash[p].rec
      /\ Done'[p].tag = "data"
      /\ \A q \in Phys : q # p => Done'[q] = flash[q]
  <2> HIDE DEF p
  <2> QED
    BY <1>1, <1>4, <1>5, TagEffect DEF TagOver
<1>7. FlashOK(Done)'
  <2>1. Consistent(flash) /\ (timeouts = 0 => SwapIsWhole(flash))
    BY <1>1 DEF FlashOK
  <2>2. \E q \in Phys \ {p} : flash[q].tag # "data"
    BY <1>1, <1>5 DEF SwapTag
  <2> HIDE DEF p
  <2>3. Consistent(Done') /\ (SwapIsWhole(flash) => SwapIsWhole(Done'))
    BY <1>4, <1>5, <2>1, <2>2, ConsistentTag
  <2> QED
    BY <2>1, <2>3 DEF FlashOK
<1>8. \A j \in Index : /\ pages'[j].phys = pages[j].phys /\ pages'[j].offset = pages[j].offset
                       /\ pages'[j].canGc = pages[j].canGc
                       /\ pages'[j].reserved = pages[j].reserved
                       /\ pages'[j].open = pages[j].open
                       /\ pages'[j].type = IF j = i THEN "data" ELSE pages[j].type
    BY <1>1 DEF PagesOK
<1>9. PagesOK'
  <2>1. pages' \in [Index -> [type : {"erased", "data"}, phys : Phys, offset : Offsets,
                              reserved : 0 .. PageSlots, canGc : BOOLEAN, open : 0 .. 1]]
    BY <1>1 DEF PagesOK
  <2> QED
    BY <2>1, <1>1, <1>8 DEF PagesOK
<1>10. InitOK(Done)'
  <2>1. \A j \in Index : Done'[pages[j].phys].rec = flash[pages[j].phys].rec
    BY <1>1, <1>5, <1>6
  <2>2. \A j \in Index : /\ Filled(Done, j)' /\ Whole(Done, j)'
    BY <2>1, <1>1, <1>3, <1>8 DEF InitOK, Filled, Whole, St
  <2>3. \A j \in Index : Done'[pages[j].phys].tag = pages'[j].type
    BY <1>1, <1>5, <1>6, <1>8 DEF InitOK
  <2>4. \A j \in Index : pages'[j].type = "erased" => pages'[j].offset = 1
    BY <1>1, <1>8 DEF InitOK
  <2>5. EmptyFrom(Done, 1)' /\ SwapTag(Done)' = "swap"
    BY <1>1, <1>5, <1>6 DEF EmptyFrom, SwapSt, SwapTag
  <2> QED
    BY <2>2, <2>3, <2>4, <2>5, <1>1, <1>2, <1>8 DEF InitOK
<1>11. \A j \in Index : pages'[j].reserved = 0 /\ pages'[j].open = 0
    BY <1>1, <1>8 DEF IsStarting
<1> QED
    BY <1>1, <1>2, <1>5, <1>7, <1>9, <1>10, <1>11, StartingInv

\* the swap page becomes a page of data, the erased one the swap page
LEMMA InitPromoteInv ==
    ASSUME IInv, Process({"init"}), loop.ret = "success", Cur.step = "promote", Step("tagSwap"),
           Executes(Tag(swap.phys, "data")), pages[gc.cur].type = "erased",
           swap' = [phys |-> pages[gc.cur].phys, offset |-> 1],
           pages' = [pages EXCEPT ![gc.cur].phys = swap.phys,
                                  ![gc.cur].offset = swap.offset,
                                  ![gc.cur].type = "data"],
           UNCHANGED <<flash, status, gc, latest, reserved, opened, timeouts>>
    PROVE  IInv'
<1>0. PICK i \in Index : i = gc.cur
  <2>1. gc.cur \in Index
    BY Starting DEF GcType
  <2> QED
    BY <2>1
<1> DEFINE p == swap.phys
           q == pages[i].phys
<1>1. /\ IsStarting /\ PagesOK /\ FlashOK(flash) /\ flash \in FlashType /\ InitOK(flash) /\ Writing = 0
      /\ GcType /\ status = "starting"
      /\ FullBelow(flash, swap.offset) /\ EmptyFrom(flash, swap.offset) /\ SwapTag(flash) = "swap"
      /\ p \in Phys /\ swap.offset \in Nat
      /\ \A j \in Index : pages[j].phys \in Phys /\ pages[j].phys # p /\ pages[j].offset \in Nat
    BY Starting DEF InitOK
<1>2. QueueOK' /\ Len(queue') = 1 /\ Cur'.op = "init" /\ Cur'.step = "tagSwap"
    BY StartingStep DEF Steps
<1>3. Writing' = 0
    BY <1>2 DEF Writing, Head1
<1>4. Done' = Applied(flash, Tag(p, "data"))
    BY DEF Done, Executes
<1>5. i \in Index /\ q \in Phys /\ q # p /\ \A j \in Index : j # i => pages[j].phys # q
    BY <1>1 DEF PagesOK
<1>6. flash[q] = ErasedPage
  <2>1. flash[q].tag = "erased"
    BY <1>0, <1>1, <1>5 DEF InitOK
  <2> QED
    BY <2>1, <1>1, <1>5 DEF FlashOK, Consistent
<1>7. /\ Done' \in FlashType
      /\ Done'[p].rec = flash[p].rec
      /\ Done'[p].tag = "data"
      /\ \A u \in Phys : u # p => Done'[u] = flash[u]
  <2>1. p \in Phys
    BY <1>1
  <2> HIDE DEF p
  <2> QED
    BY <1>1, <1>4, <2>1, TagEffect DEF TagOver
<1>8. FlashOK(Done)'
  <2>1. Consistent(flash) /\ (timeouts = 0 => SwapIsWhole(flash)) /\ p \in Phys
    BY <1>1 DEF FlashOK
  <2>2. \E u \in Phys \ {p} : flash[u].tag # "data"
    BY <1>5, <1>6, ErasedType
  <2> HIDE DEF p
  <2>3. Consistent(Done') /\ (SwapIsWhole(flash) => SwapIsWhole(Done'))
    BY <1>4, <1>5, <2>1, <2>2, ConsistentTag
  <2> QED
    BY <2>1, <2>3 DEF FlashOK
<1>9. \A j \in Index : /\ pages'[j].phys = IF j = i THEN p ELSE pages[j].phys
                       /\ pages'[j].offset = IF j = i THEN swap.offset ELSE pages[j].offset
                       /\ pages'[j].canGc = pages[j].canGc
                       /\ pages'[j].reserved = pages[j].reserved
                       /\ pages'[j].open = pages[j].open
                       /\ pages'[j].type = IF j = i THEN "data" ELSE pages[j].type
    BY <1>0, <1>1, <1>5 DEF PagesOK
<1>10. PagesOK'
  <2>1. p \in Phys /\ swap.offset \in Offsets
    BY <1>1 DEF PagesOK
  <2>2. pages' \in [Index -> [type : {"erased", "data"}, phys : Phys, offset : Offsets,
                              reserved : 0 .. PageSlots, canGc : BOOLEAN, open : 0 .. 1]]
    <3> DEFINE o == swap.offset
    <3>1. /\ pages \in [Index -> [type : {"erased", "data"}, phys : Phys, offset : Offsets,
                              reserved : 0 .. PageSlots, canGc : BOOLEAN, open : 0 .. 1]]
          /\ pages' = [pages EXCEPT ![i].phys = p, ![i].offset = o, ![i].type = "data"]
          /\ p \in Phys /\ o \in Offsets
      BY <1>0, <1>1, <2>1 DEF PagesOK
    <3> HIDE DEF p, o
    <3>2. pages' = [pages EXCEPT ![i] = [pages[i] EXCEPT !.phys = p, !.offset = o, !.type = "data"]]
      BY <3>1, <1>5
    <3> DEFINE r == [pages[i] EXCEPT !.phys = p, !.offset = o, !.type = "data"]
    <3>3. r \in [type : {"erased", "data"}, phys : Phys, offset : Offsets,
                 reserved : 0 .. PageSlots, canGc : BOOLEAN, open : 0 .. 1]
      BY <3>1, <1>5
    <3> HIDE DEF r
    <3> QED
      BY <3>1, <3>2, <3>3 DEF r
  <2>3. swap' \in [phys : Phys, offset : Offsets] /\ swap'.phys = q
    BY <1>0, <1>5, FdsAssumption DEF Offsets
  <2>4. \A j, k \in Index : pages'[j].phys = pages'[k].phys => j = k
    BY <1>1, <1>5, <1>9 DEF PagesOK
  <2>5. \A j \in Index : pages'[j].phys # q
    BY <1>5, <1>9
  <2>6. \A u \in Phys : u = q \/ \E j \in Index : u = pages'[j].phys
    BY <1>1, <1>5, <1>9 DEF PagesOK
  <2> QED
    BY <2>2, <2>3, <2>4, <2>5, <2>6, <1>1 DEF PagesOK
<1>11. InitOK(Done)'
  <2>0. \A j \in Index : /\ pages[j].phys \in Phys /\ pages[j].phys # p
                         /\ Filled(flash, j) /\ Whole(flash, j)
                         /\ flash[pages[j].phys].tag = pages[j].type
                         /\ pages[j].type = "erased" => pages[j].offset = 1
    BY <1>1 DEF InitOK
  <2>8. /\ \A s \in Slots : s < swap.offset => flash[p].rec[s].st # "erased"
        /\ \A s \in Slots : s >= swap.offset => flash[p].rec[s].st = "erased"
        /\ timeouts = 0 => \A s \in Slots : flash[p].rec[s].st \in {"erased", "whole"}
        /\ flash[p].tag = "swap" /\ p \in Phys
    BY <1>1 DEF FullBelow, EmptyFrom, SwapSt, SwapTag, FlashOK, SwapIsWhole
  <2> HIDE DEF p, q
  <2>1. ASSUME NEW j \in Index, j # i
        PROVE  Filled(Done, j)' /\ Whole(Done, j)' /\ Done'[pages'[j].phys].tag = pages'[j].type
    <3>1. /\ pages'[j].phys = pages[j].phys /\ pages'[j].offset = pages[j].offset
          /\ pages'[j].canGc = pages[j].canGc /\ pages'[j].type = pages[j].type
      BY <2>1, <1>9
    <3>2. Done'[pages'[j].phys] = flash[pages[j].phys]
      BY <3>1, <2>0, <1>7
    <3>3. Filled(Done, j)'
      BY <3>1, <3>2, <2>0, <1>1, <1>3 DEF Filled, St
    <3>4. Whole(Done, j)'
      BY <3>1, <3>2, <2>0 DEF Whole, St
    <3> QED
      BY <3>1, <3>2, <3>3, <3>4, <2>0
  <2>2. pages'[i].phys = p /\ pages'[i].offset = swap.offset /\ pages'[i].type = "data"
    BY <1>5, <1>9
  <2>3. Done'[pages'[i].phys].tag = pages'[i].type
    BY <2>2, <1>7
  <2>4. Filled(Done, i)'
    <3>1. i # Writing'
      BY <1>3, <1>5 DEF Index
    <3> QED
      <4>1. \A s \in Slots : /\ s < pages'[i].offset => Done'[pages'[i].phys].rec[s].st # "erased"
                             /\ s >= pages'[i].offset => Done'[pages'[i].phys].rec[s].st = "erased"
        BY ONLY <2>2, <2>8, <1>7
      <4> QED
        BY ONLY <3>1, <4>1 DEF Filled, St
  <2>5. Whole(Done, i)'
    <3>1. timeouts' = timeouts
      OBVIOUS
    <3> QED
      <4>1. timeouts' = 0 => \A s \in Slots : s < pages'[i].offset =>
                  Done'[pages'[i].phys].rec[s].st = "whole"
        BY ONLY <2>2, <2>8, <3>1, <1>7
      <4> QED
        BY ONLY <4>1 DEF Whole, St
  <2>6. \A j \in Index : pages'[j].type = "erased" => pages'[j].offset = 1
    BY ONLY <1>9, <2>0
  <2>7. swap'.offset = 1 /\ swap'.phys = q
    BY <1>0 DEF q
  <2>9. Done'[q] = ErasedPage
    BY ONLY <1>5, <1>6, <1>7
  <2>10. \A j \in Index : Filled(Done, j)' /\ Done'[pages'[j].phys].tag = pages'[j].type
                          /\ Whole(Done, j)'
    <3> SUFFICES ASSUME NEW j \in Index
                 PROVE  Filled(Done, j)' /\ Done'[pages'[j].phys].tag = pages'[j].type
                        /\ Whole(Done, j)'
      OBVIOUS
    <3> QED
      BY <2>1, <2>3, <2>4, <2>5, Zenon
  <2> QED
    BY ONLY <2>6, <2>7, <2>9, <2>10, <1>2 DEF InitOK
<1>12. \A j \in Index : pages'[j].reserved = 0 /\ pages'[j].open = 0
    BY <1>1, <1>9 DEF IsStarting
<1> QED
    BY <1>1, <1>2, <1>8, <1>10, <1>11, <1>12, StartingInv

\* fds_init is done
LEMMA InitReadyInv ==
    ASSUME IInv, Process({"init"}), loop.ret = "success", Cur.step = "tagData", status' = "ready",
           Ends("success"), \A i \in Index : pages[i].type # "erased",
           UNCHANGED <<flash, pages, swap, gc, latest, queue, reserved, opened, timeouts>>
    PROVE  IInv'
<1>1. /\ IsStarting /\ PagesOK /\ FlashOK(flash) /\ flash \in FlashType /\ InitOK(flash) /\ Writing = 0
      /\ QueueOK /\ Len(queue) = 1 /\ Cur.op = "init" /\ busy = NoBusy /\ GcType /\ LoopOK
      /\ timeouts \in Nat /\ latest \in Nat
      /\ swap.offset = 1 /\ EmptyFrom(flash, 1) /\ SwapTag(flash) = "swap" /\ swap.phys \in Phys
      /\ \A i \in Index : pages[i].phys \in Phys /\ pages[i].type \in {"erased", "data"}
      /\ queue # <<>>
    BY Starting DEF InitOK
<1>2. loop'.at = "event" /\ loop'.ret = "success" /\ busy' = NoBusy
    BY <1>1 DEF Ends, Event
<1>3. Cur' = Cur /\ Writing' = 0 /\ ~Going'
    BY <1>1, <1>2 DEF Cur, Writing, Head1, Going
<1>4. Done' = flash'
    BY <1>2, DoneIsFlash1
<1>5. Control'
  <2>1. QueueOK' /\ GcType' /\ timeouts' \in Nat /\ latest' \in Nat
    BY <1>1 DEF QueueOK, GcType
  <2>2. LoopOK'
    BY <1>1, <1>2 DEF LoopOK
  <2>3. StatusOK'
    BY <1>2 DEF StatusOK
  <2> QED
    BY <2>1, <2>2, <2>3 DEF Control
<1>6. BusyOK'
    BY <1>2 DEF BusyOK
<1>7. FlashOK(flash)' /\ FlashOK(Done)'
  <2>1. FlashOK(flash)'
    BY <1>1 DEF FlashOK
  <2> QED
    BY <2>1, <1>4 DEF FlashOK
<1>8. PagesOK'
    BY <1>1 DEF PagesOK
<1>9. GcWaits'
    BY <1>1 DEF GcWaits, IsStarting
<1>10. SpaceOK'
  <2>1. ASSUME NEW i \in Index
        PROVE  Claims(i)' = 0
    <3>1. Claimed(i)' = {}
      BY <1>1, <1>2 DEF Claimed
    <3>2. reserved' # i
      BY <1>1 DEF IsStarting, Index
    <3> QED
      BY <3>1, <3>2, FS_EmptySet DEF Claims
  <2>2. \A i \in Index : pages[i].reserved = 0 /\ pages[i].offset \in Nat
                         /\ pages[i].offset <= PageSlots + 1
    BY <1>1, PagesTyped DEF IsStarting
  <2> QED
    BY <2>1, <2>2, <1>1 DEF SpaceOK, IsStarting
<1>11. Opens'
    BY <1>1 DEF Opens, IsStarting, NotOpen, Index
<1>12. Known(flash)'
  <2>1. \A i \in Index : Kept(flash, i)' /\ Whole(flash, i)'
    BY <1>1, <1>3 DEF InitOK, Kept, Filled, Whole, St
  <2>2. GcSwap(flash)'
    BY <1>1 DEF GcSwap, IsStarting, EmptyFrom, SwapSt, SwapTag
  <2>3. OpenOK(flash)'
    BY <1>1 DEF OpenOK, IsStarting
  <2> QED
    BY <2>1, <2>2, <2>3 DEF Known
<1>13. Known(Done)'
    BY <1>4, <1>12, KnownAfter
<1> QED
    BY <1>3, <1>5, <1>6, <1>7, <1>8, <1>9, <1>10, <1>11, <1>12, <1>13 DEF IInv, IsReady

\* ... or fails.
LEMMA InitFailedInv ==
    ASSUME IInv, Process({"init"}), loop.ret # "success", status' = "failed", Ends("timeout"),
           UNCHANGED <<flash, pages, swap, gc, latest, queue, reserved, opened, timeouts>>
    PROVE  IInv'
<1>1. /\ PagesOK /\ FlashOK(flash) /\ QueueOK /\ Len(queue) = 1 /\ busy = NoBusy /\ GcType /\ LoopOK
      /\ timeouts \in Nat /\ latest \in Nat /\ queue # <<>>
    BY Starting
<1>2. loop'.at = "event" /\ loop'.ret = "timeout" /\ busy' = NoBusy
    BY <1>1 DEF Ends, Event
<1>4. Done' = flash'
    BY <1>2, DoneIsFlash1
<1>5. Control'
  <2>1. QueueOK' /\ GcType' /\ timeouts' \in Nat /\ latest' \in Nat
    BY <1>1 DEF QueueOK, GcType
  <2>2. LoopOK'
    BY <1>1, <1>2 DEF LoopOK
  <2>3. StatusOK'
    BY <1>1, <1>2 DEF StatusOK
  <2> QED
    BY <2>1, <2>2, <2>3 DEF Control
<1>6. BusyOK'
    BY <1>2 DEF BusyOK
<1>7. FlashOK(flash)' /\ FlashOK(Done)'
  <2>1. FlashOK(flash)'
    BY <1>1 DEF FlashOK
  <2> QED
    BY <2>1, <1>4 DEF FlashOK
<1>8. PagesOK'
    BY <1>1 DEF PagesOK
<1> QED
    BY <1>5, <1>6, <1>7, <1>8 DEF IInv

\* init_execute
LEMMA InitExecuteInv ==
    ASSUME IInv, InitExecute, Sound'
    PROVE  IInv'
<1>1. Process({"init"}) /\ UNCHANGED <<flash, gc, latest, reserved, opened, timeouts>>
    BY DEF InitExecute, users, counts
<1>2. CASE loop.ret # "success" /\ status' = "failed" /\ Ends("timeout")
           /\ UNCHANGED <<queue, pages, swap, damage>>
    BY <1>1, <1>2, InitFailedInv
<1>3. CASE loop.ret = "success" /\ Cur.step = "tagSwap" /\ Step("tagData")
           /\ Executes(Tag(swap.phys, "swap")) /\ UNCHANGED <<status, pages, swap, damage>>
    BY <1>1, <1>3, InitTagSwapInv
<1>4. CASE /\ loop.ret = "success" /\ Cur.step = "tagData"
           /\ IF \E i \in Index : pages[i].type = "erased"
              THEN LET i == Min({j \in Index : pages[j].type = "erased"})
                   IN /\ pages' = [pages EXCEPT ![i].type = "data"]
                      /\ Executes(Tag(pages[i].phys, "data"))
                      /\ UNCHANGED status
              ELSE /\ status' = "ready"
                   /\ Ends("success")
                   /\ UNCHANGED pages
           /\ UNCHANGED <<queue, swap, damage>>
  <2>1. CASE \E i \in Index : pages[i].type = "erased"
    <3> DEFINE S == {j \in Index : pages[j].type = "erased"}
    <3>1. Min(S) \in S
      <4>1. S \subseteq Nat /\ S # {}
        BY <2>1 DEF Index
      <4> HIDE DEF S
      <4> QED
        BY <4>1, MinIs
    <3> DEFINE i == Min(S)
    <3>2. i \in Index /\ pages[i].type = "erased"
      <4> HIDE DEF i
      <4>1. i \in S
        BY <3>1 DEF i
      <4> QED
        BY <4>1
    <3>3. pages' = [pages EXCEPT ![i].type = "data"] /\ Executes(Tag(pages[i].phys, "data"))
          /\ UNCHANGED status
      BY <2>1, <1>4
    <3> HIDE DEF i
    <3> QED
      BY <3>2, <3>3, <1>1, <1>4, InitTagDataInv
  <2>2. CASE ~\E i \in Index : pages[i].type = "erased"
    BY <2>2, <1>1, <1>4, InitReadyInv
  <2> QED
    BY <2>1, <2>2
<1>5. CASE loop.ret = "success" /\ Cur.step = "eraseSwap" /\ Step("tagSwap")
           /\ swap' = [swap EXCEPT !.offset = 1] /\ Executes(Erase(swap.phys))
           /\ UNCHANGED <<status, pages, damage>>
    BY <1>1, <1>5, InitEraseSwapInv
<1>6. CASE /\ loop.ret = "success" /\ Cur.step = "promote" /\ Step("tagSwap")
           /\ Executes(Tag(swap.phys, "data"))
           /\ swap' = [phys |-> pages[gc.cur].phys, offset |-> 1]
           /\ pages' = [pages EXCEPT ![gc.cur].phys = swap.phys,
                                     ![gc.cur].offset = swap.offset,
                                     ![gc.cur].type = "data"]
           /\ Met("promotion", pages[gc.cur].type # "erased")
           /\ UNCHANGED status
  <2>1. pages[gc.cur].type = "erased"
    BY <1>6 DEF Met, Sound
  <2> QED
    BY <2>1, <1>1, <1>6, InitPromoteInv
<1> QED
    BY <1>1, <1>2, <1>3, <1>4, <1>5, <1>6 DEF InitExecute

-------------------------------------------------------------------------------
(* gc_execute                                                                *)

\* what is known when a collection goes on
LEMMA Collecting ==
    ASSUME IInv, Process({"gc"})
    PROVE  /\ status = "ready" /\ IsReady /\ PagesOK /\ QueueOK /\ LoopOK /\ StatusOK /\ GcType
           /\ SpaceOK /\ Opens /\ timeouts \in Nat /\ latest \in Nat
           /\ queue # <<>> /\ Cur.op = "gc" /\ Cur.page = 0 /\ loop.at = "run"
           /\ busy = NoBusy /\ Done = flash /\ Writing = 0
           /\ flash \in FlashType /\ FlashOK(flash) /\ Known(flash) /\ GcSwap(flash) /\ OpenOK(flash)
           /\ gc.cur \in Index /\ gc.src \in Nat
           /\ (loop.ret = "success" /\ ~gc.resume) => GcResult(flash)
           /\ swap.phys \in Phys /\ swap.offset \in Nat /\ swap.offset >= 1
           /\ \A i \in Index : /\ pages[i].phys \in Phys /\ pages[i].phys # swap.phys
                               /\ pages[i].offset \in Nat /\ pages[i].offset >= 1
                               /\ pages[i].offset <= PageSlots + 1 /\ PageSlots \in Nat
                               /\ pages[i].reserved \in Nat
                               /\ Kept(flash, i) /\ Whole(flash, i)
<1>1. loop.at = "run" /\ Cur.op = "gc"
    BY DEF Process
<1>2. LoopOK /\ QueueOK /\ StatusOK /\ GcType /\ timeouts \in Nat /\ latest \in Nat
    BY DEF IInv, Control
<1>3. queue # <<>> /\ busy = NoBusy
    BY <1>1, <1>2 DEF LoopOK
<1>4. status = "ready"
    BY <1>1, <1>2, <1>3 DEF StatusOK, Head1
<1>5. IsReady /\ PagesOK /\ SpaceOK /\ Opens
    BY <1>4, IInvReady
<1>6. Cur.page = 0
  <2>1. OpOK(Cur)
    BY <1>2, <1>3, HeadIs
  <2> QED
    BY <2>1, <1>1 DEF OpOK
<1>7. Done = flash
    BY <1>3, DoneIsFlash
<1>8. Writing = 0
    BY <1>1 DEF Writing, Head1
<1>9. flash \in FlashType /\ FlashOK(flash)
    BY DEF IInv, FlashOK, Consistent
<1>10. Known(flash) /\ GcSwap(flash) /\ OpenOK(flash)
    BY <1>5 DEF IsReady, Known
<1>11. gc.cur \in Index /\ gc.src \in Nat
    BY <1>2 DEF GcType, Slots
<1>12. (loop.ret = "success" /\ ~gc.resume) => GcResult(flash)
    BY <1>1, <1>3, <1>5, <1>7 DEF IsReady, Going, Head1
<1>13. swap.phys \in Phys /\ swap.offset \in Nat /\ swap.offset >= 1
       /\ \A i \in Index : pages[i].phys # swap.phys
    BY <1>5, <1>11, PagesTyped DEF PagesOK
<1>14. \A i \in Index : /\ pages[i].phys \in Phys
                        /\ pages[i].offset \in Nat /\ pages[i].offset >= 1
                        /\ pages[i].offset <= PageSlots + 1 /\ PageSlots \in Nat
                        /\ pages[i].reserved \in Nat
    BY <1>5, PagesTyped
<1>15. \A i \in Index : Kept(flash, i) /\ Whole(flash, i)
    BY <1>10 DEF Known
<1> QED
    BY <1>1, <1>2, <1>3, <1>4, <1>5, <1>6, <1>7, <1>8, <1>9, <1>10, <1>11, <1>12, <1>13, <1>14, <1>15

\* ... and what a step of it that starts a flash operation has to leave
LEMMA CollectInv ==
    ASSUME IInv, Process({"gc"}), loop.ret = "success", NEW b, Executes(b), b # NoBusy,
           UNCHANGED <<flash, status, latest, queue, reserved, timeouts>>,
           damage \subseteq damage', GcType', ~gc'.resume, BusyOK', PagesOK', Opens',
           \A i \in Index : /\ pages'[i].reserved = pages[i].reserved
                            /\ pages'[i].offset + pages'[i].reserved <= PageSlots + 1,
           FlashOK(Done)', Known(flash)', Known(Done)', GcResult(Done)'
    PROVE  IInv'
<1>1. /\ status = "ready" /\ IsReady /\ QueueOK /\ StatusOK /\ LoopOK /\ SpaceOK
      /\ timeouts \in Nat /\ latest \in Nat /\ queue # <<>> /\ Cur.op = "gc" /\ loop.at = "run"
      /\ FlashOK(flash)
    BY Collecting
<1>2. busy' = b /\ loop'.at = "idle" /\ loop'.ret = "success"
    BY DEF Executes, Idle
<1>3. Cur' = Cur /\ Writing' = 0 /\ Head1({"gc"})' /\ Going'
    BY <1>1, <1>2 DEF Cur, Writing, Head1, Going
<1>4. Control'
  <2>1. QueueOK' /\ timeouts' \in Nat /\ latest' \in Nat
    BY <1>1 DEF QueueOK
  <2>2. LoopOK'
    BY <1>1, <1>2 DEF LoopOK
  <2>3. StatusOK'
    BY <1>1, <1>3 DEF StatusOK, Head1
  <2> QED
    BY <2>1, <2>2, <2>3 DEF Control
<1>5. FlashOK(flash)'
    BY <1>1 DEF FlashOK
<1>6. GcWaits'
    BY <1>2, <1>3 DEF GcWaits, Head1
<1>7. SpaceOK'
  <2>1. \A i \in Index : Claims(i)' = Claims(i)
    BY <1>1, <1>2, ClaimsStay
  <2>2. damage' = {} => damage = {}
    OBVIOUS
  <2> QED
    BY <2>1, <2>2, <1>1 DEF SpaceOK
<1>8. WriteResult(Done)'
    BY <1>3 DEF WriteResult
<1>9. IsReady'
    BY <1>3, <1>6, <1>7, <1>8 DEF IsReady
<1> QED
    BY <1>1, <1>4, <1>5, <1>9 DEF IInv

\* a collection forgets where the open records are
Reopened == opened' = opened \/ opened' = [opened EXCEPT !.moved = (opened # NotOpen)]

\* the record that is open is not on a page that is closed
LEMMA OpensStay ==
    ASSUME Opens, Reopened,
           \A i \in Index : /\ pages'[i].open = pages[i].open
                            /\ i = opened.page => pages'[i].phys = pages[i].phys
    PROVE  /\ Opens'
           /\ opened' # NotOpen <=> opened # NotOpen
           /\ opened'.id = opened.id /\ opened'.phys = opened.phys
           /\ opened'.slot = opened.slot /\ opened'.page = opened.page
<1>1. /\ opened' \in [id : Nat, phys : Phys \cup {0}, slot : Slots \cup {0},
                      page : Index \cup {0}, moved : BOOLEAN]
      /\ opened'.id = opened.id /\ opened'.phys = opened.phys
      /\ opened'.slot = opened.slot /\ opened'.page = opened.page
    BY DEF Opens, Reopened
<1>2. opened' # NotOpen <=> opened # NotOpen
  <2>1. CASE opened = NotOpen
    <3>1. [NotOpen EXCEPT !.moved = FALSE] = NotOpen
      <4>1. NotOpen \in [id : {0}, phys : {0}, slot : {0}, page : {0}, moved : {FALSE}]
        BY DEF NotOpen
      <4> QED
        BY <4>1
    <3>2. (opened # NotOpen) = FALSE
      BY <2>1
    <3> DEFINE v == (opened # NotOpen)
    <3>4. v = FALSE
      BY <3>2
    <3> HIDE DEF v
    <3>5. [opened EXCEPT !.moved = v] = [NotOpen EXCEPT !.moved = FALSE]
      BY ONLY <2>1, <3>4
    <3>3. [opened EXCEPT !.moved = (opened # NotOpen)] = [NotOpen EXCEPT !.moved = FALSE]
      BY <3>5 DEF v
    <3> QED
      BY <2>1, <3>1, <3>3 DEF Reopened
  <2>2. CASE opened # NotOpen
    <3>1. opened.page # 0
      BY <2>2 DEF Opens
    <3>2. opened' # NotOpen
      BY <3>1, <1>1 DEF NotOpen
    <3> QED
      BY <2>2, <3>2
  <2> QED
    BY <2>1, <2>2
<1> QED
    BY <1>1, <1>2 DEF Opens

\* no page that has an open record is erased
LEMMA OpenIsNotErased ==
    ASSUME Opens, OpenOK(flash), NEW i \in Index, flash[pages[i].phys] = ErasedPage
    PROVE  pages[i].open = 0 /\ opened.page # i
<1> SUFFICES ASSUME opened.page = i
             PROVE  FALSE
    BY DEF Opens
<1>1. opened # NotOpen
    BY DEF NotOpen, Index
<1>2. opened.slot \in Slots /\ pages[i].phys = opened.phys
    BY <1>1 DEF Opens
<1>3. flash[opened.phys].rec[opened.slot].st = "erased"
    BY <1>2, ErasedType
<1> QED
    BY <1>1, <1>3 DEF OpenOK

\* a step that works on the swap page
LEMMA SwapStepInv ==
    ASSUME IInv, Process({"gc"}), loop.ret = "success", NEW b, Executes(b), b # NoBusy,
           UNCHANGED <<flash, status, pages, latest, queue, reserved, timeouts>>,
           damage \subseteq damage', GcType', ~gc'.resume, BusyOK', Reopened,
           swap'.phys = swap.phys, swap'.offset \in Offsets, swap' \in [phys : Phys, offset : Offsets],
           \A i \in Index : flash[pages[i].phys].tag = "data" /\ Filled(flash, i),
           \A p \in Phys : p # swap.phys => Done'[p] = flash[p],
           FlashOK(Done)', GcSwap(flash)', GcSwap(Done)', GcResult(Done)'
    PROVE  IInv'
<1>1. /\ IsReady /\ PagesOK /\ Opens /\ Writing = 0 /\ queue # <<>> /\ Cur.op = "gc"
      /\ OpenOK(flash) /\ SpaceOK
      /\ \A i \in Index : /\ pages[i].phys \in Phys /\ pages[i].phys # swap.phys
                          /\ Whole(flash, i)
    BY Collecting
<1>2. PagesOK'
    BY <1>1 DEF PagesOK
<1>3. /\ Opens' /\ (opened' # NotOpen <=> opened # NotOpen)
      /\ opened'.id = opened.id /\ opened'.phys = opened.phys /\ opened'.slot = opened.slot
    BY <1>1, OpensStay
<1>4. Writing' = 0
    BY <1>1 DEF Writing, Head1, Cur
<1>5. \A i \in Index : Kept(flash, i)' /\ Whole(flash, i)'
  <2> SUFFICES ASSUME NEW i \in Index
               PROVE  Kept(flash, i)' /\ Whole(flash, i)'
    OBVIOUS
  <2>1. flash[pages[i].phys].tag = "data" /\ Filled(flash, i) /\ Whole(flash, i)
    BY <1>1
  <2>2. flash' = flash /\ pages' = pages /\ timeouts' = timeouts
    OBVIOUS
  <2> QED
    BY ONLY <2>1, <2>2, <1>1, <1>4 DEF Kept, Whole, Filled, St
<1>6. \A i \in Index : Done'[pages[i].phys] = flash[pages[i].phys]
    BY <1>1
<1>7. \A i \in Index : Kept(Done, i)' /\ Whole(Done, i)'
  <2> SUFFICES ASSUME NEW i \in Index
               PROVE  Kept(Done, i)' /\ Whole(Done, i)'
    OBVIOUS
  <2>1. flash[pages[i].phys].tag = "data" /\ Filled(flash, i) /\ Whole(flash, i)
    BY <1>1
  <2>2. pages' = pages /\ timeouts' = timeouts /\ Done'[pages[i].phys] = flash[pages[i].phys]
    BY <1>6
  <2> QED
    BY ONLY <2>1, <2>2, <1>1, <1>4 DEF Kept, Whole, Filled, St
<1>8. OpenOK(flash)'
  <2>1. flash' = flash /\ OpenOK(flash)
    BY <1>1
  <2> QED
    BY ONLY <2>1, <1>3 DEF OpenOK
<1>9. OpenOK(Done)'
  <2>1. opened # NotOpen => \E i \in Index : opened.phys = pages[i].phys
    BY <1>1 DEF Opens
  <2>2. opened # NotOpen => Done'[opened.phys] = flash[opened.phys]
    BY <2>1, <1>6
  <2>3. OpenOK(flash)
    BY <1>1
  <2> QED
    BY ONLY <2>2, <2>3, <1>3 DEF OpenOK
<1>10. Known(flash)' /\ Known(Done)'
    BY <1>5, <1>7, <1>8, <1>9 DEF Known
<1> QED
    BY <1>1, <1>2, <1>3, <1>10, CollectInv DEF SpaceOK

\* a collection, between two of its steps
Cursor == [state : {"begin", "nextPage", "copy", "erase", "discard", "promote", "tagSwap"},
           cur : Index, src : Slots \cup {0}, resume : {FALSE}, todo : SUBSET Index]

\* a record is copied to the swap page
LEMMA CopyInv ==
    ASSUME IInv, Process({"gc"}), loop.ret = "success",
           NEW g \in Cursor, NEW w \in [phys : Phys, offset : Offsets], NEW s \in Slots,
           CopyRecord(g, w, s), Reopened, damage \subseteq damage',
           UNCHANGED <<flash, status, pages, latest, queue, reserved, timeouts>>,
           w.phys = swap.phys, w.offset <= s, s < pages[g.cur].offset,
           St(flash, g.cur, s) = "whole", pages[g.cur].canGc,
           SwapTag(flash) = "swap", FullBelow(flash, w.offset), EmptyFrom(flash, w.offset + 1),
           \/ SwapSt(flash, w.offset) = "erased"
           \/ flash[swap.phys].rec[w.offset] = flash[pages[g.cur].phys].rec[s],
           \A i \in Index : flash[pages[i].phys].tag = "data" /\ Filled(flash, i)
    PROVE  IInv'
<1>1. PICK p \in Phys : p = swap.phys
    BY Collecting
<1>2. PICK c \in Index : c = g.cur
    BY DEF Cursor
<1>3. PICK o \in Slots : o = w.offset
  <2>1. w.offset \in 1 .. PageSlots + 1 /\ s \in 1 .. PageSlots /\ PageSlots \in Nat
    BY FdsAssumption DEF Slots, Offsets
  <2>2. w.offset \in 1 .. PageSlots
    BY <2>1
  <2> QED
    BY <2>2 DEF Slots
<1>4. PICK r \in Slot : r = flash[pages[c].phys].rec[s]
  <2>1. flash \in FlashType /\ pages[c].phys \in Phys
    BY Collecting
  <2> QED
    BY <2>1 DEF FlashType
<1>5. /\ flash \in FlashType /\ FlashOK(flash) /\ pages[c].phys # p
      /\ \A i \in Index : pages[i].phys \in Phys /\ pages[i].phys # p
    BY <1>1, Collecting
<1>6. /\ gc' = [g EXCEPT !.state = "copy", !.src = s] /\ swap' = w
      /\ Executes(WriteSlot(p, o, r))
    BY <1>1, <1>2, <1>3, <1>4 DEF CopyRecord
<1>7. gc'.state = "copy" /\ gc'.src = s /\ gc'.cur = c /\ ~gc'.resume /\ GcType'
    BY <1>2, <1>6 DEF Cursor, GcType
<1>8. swap'.phys = p /\ swap'.offset = o /\ o \in Nat /\ s \in Nat /\ \A u \in Slots : u \in Nat
    BY <1>1, <1>3, <1>6 DEF Slots
<1>9. /\ r.st = "whole" /\ flash[p].tag = "swap"
      /\ \A u \in Slots : u < o => flash[p].rec[u].st # "erased"
      /\ \A u \in Slots : u >= o + 1 => flash[p].rec[u].st = "erased"
      /\ flash[p].rec[o].st = "erased" \/ flash[p].rec[o] = r
    BY <1>1, <1>2, <1>3, <1>4 DEF St, SwapTag, FullBelow, EmptyFrom, SwapSt
<1>10. busy' = WriteSlot(p, o, r) /\ Done' = Applied(flash, WriteSlot(p, o, r))
    BY <1>6 DEF Executes, Done
<1>11. /\ Done' \in FlashType
       /\ Done'[p].tag = flash[p].tag
       /\ Done'[p].rec[o] = r
       /\ \A t \in Slots : t # o => Done'[p].rec[t] = flash[p].rec[t]
       /\ \A q \in Phys : q # p => Done'[q] = flash[q]
  <2>1. flash \in FlashType
    BY <1>5
  <2>2. Done' = Applied(flash, WriteSlot(p, o, r))
    BY <1>10
  <2> QED
    BY <2>1, <2>2, SlotEffect
<1>12. FlashOK(Done)'
  <2>1. Consistent(flash) /\ (timeouts = 0 => SwapIsWhole(flash)) /\ timeouts' = timeouts
    BY <1>5 DEF FlashOK
  <2>2. r.st # "erased" /\ flash[p].tag # "erased"
    BY <1>9
  <2>3. Consistent(Done') /\ (SwapIsWhole(flash) => SwapIsWhole(Done'))
    BY <1>9, <1>10, <2>1, <2>2, ConsistentSlot
  <2> QED
    BY <2>1, <2>3 DEF FlashOK
<1>13. BusyOK'
  <2> DEFINE v == WriteSlot(p, o, r)
  <2>1. v.kind = "slot" /\ v.phys = p /\ v.slot = o /\ v.val = r
    BY DEF WriteSlot
  <2>2. v = WriteSlot(v.phys, v.slot, v.val)
    BY <2>1
  <2>3. busy' = v /\ flash' = flash
    BY <1>10
  <2> HIDE DEF v
  <2>4. busy'.kind = "slot" /\ busy' = WriteSlot(busy'.phys, busy'.slot, busy'.val)
        /\ busy'.phys = p /\ busy'.slot = o /\ busy'.val = r
    BY <2>1, <2>2, <2>3
  <2> QED
    BY <2>3, <2>4, <1>9 DEF BusyOK
<1>14. WriteSlot(p, o, r) # NoBusy
  <2>1. WriteSlot(p, o, r).kind = "slot" /\ NoBusy.kind = "none"
    BY DEF WriteSlot, NoBusy
  <2> QED
    BY <2>1
<1>15. /\ gc'.src # 0 /\ swap'.offset <= gc'.src /\ gc'.src < pages'[c].offset
       /\ pages'[c].canGc
    BY <1>2, <1>3, <1>7, <1>8 DEF Slots
<1>16. GcSwap(flash)'
  <2>1. St(flash, gc.cur, gc.src)' = "whole"
    BY <1>4, <1>7, <1>9 DEF St
  <2>2. FullBelow(flash, swap.offset)' /\ EmptyFrom(flash, swap.offset + 1)'
    BY <1>8, <1>9 DEF FullBelow, EmptyFrom, SwapSt
  <2>3. SwapTag(flash)' = "swap"
    BY <1>8, <1>9 DEF SwapTag
  <2>4. SwapSt(flash, swap.offset)' = "erased" \/
        flash'[swap'.phys].rec[swap'.offset] = flash'[pages'[gc'.cur].phys].rec[gc'.src]
    BY <1>4, <1>7, <1>8, <1>9 DEF SwapSt
  <2> QED
    BY ONLY <2>1, <2>2, <2>3, <2>4, <1>7, <1>15 DEF GcSwap
<1>17. GcSwap(Done)'
  <2>0. Done'[pages[c].phys] = flash[pages[c].phys] /\ pages' = pages
    BY <1>5, <1>11
  <2>1. St(Done, gc.cur, gc.src)' = "whole"
    BY <2>0, <1>4, <1>7, <1>9 DEF St
  <2>2. FullBelow(Done, swap.offset)' /\ EmptyFrom(Done, swap.offset + 1)'
    <3>1. \A u \in Slots : /\ u < o => Done'[p].rec[u].st # "erased"
                           /\ u >= o + 1 => Done'[p].rec[u].st = "erased"
      BY <1>8, <1>9, <1>11
    <3> QED
      BY <1>8, <3>1 DEF FullBelow, EmptyFrom, SwapSt
  <2>3. SwapTag(Done)' = "swap"
    BY <1>8, <1>9, <1>11 DEF SwapTag
  <2>4. Done'[swap'.phys].rec[swap'.offset] = Done'[pages'[gc'.cur].phys].rec[gc'.src]
    BY <2>0, <1>4, <1>7, <1>8, <1>11
  <2> QED
    BY ONLY <2>1, <2>2, <2>3, <2>4, <1>7, <1>15 DEF GcSwap
<1>18. GcResult(Done)'
    BY ONLY <1>7, <1>8, <1>9, <1>11 DEF GcResult, SwapSt
<1>19. swap' \in [phys : Phys, offset : Offsets] /\ swap'.phys = swap.phys /\ swap'.offset \in Offsets
    BY <1>6
<1>20. \A q \in Phys : q # swap.phys => Done'[q] = flash[q]
    BY <1>1, <1>11
<1> QED
    BY <1>6, <1>7, <1>12, <1>13, <1>14, <1>16, <1>17, <1>18, <1>19, <1>20, SwapStepInv

\* the swap page is tagged, erased first or not
LEMMA TagSwapInv ==
    ASSUME IInv, Process({"gc"}), loop.ret = "success",
           gc'.state = "tagSwap", gc'.src = 0, ~gc'.resume, GcType', pages[gc'.cur].canGc,
           Executes(Tag(swap.phys, "swap")), damage \subseteq damage', opened' = opened,
           UNCHANGED <<flash, status, pages, swap, latest, queue, reserved, timeouts>>,
           swap.offset = 1, EmptyFrom(flash, 1), SwapTag(flash) # "data",
           \A i \in Index : flash[pages[i].phys].tag = "data" /\ Filled(flash, i)
    PROVE  IInv'
<1>1. PICK p \in Phys : p = swap.phys
    BY Collecting
<1>2. /\ flash \in FlashType /\ FlashOK(flash) /\ PagesOK
      /\ \A i \in Index : pages[i].phys \in Phys /\ pages[i].phys # p
    BY <1>1, Collecting
<1>3. /\ \A s \in Slots : flash[p].rec[s].st = "erased"
      /\ flash[p].tag # "data" /\ flash[p].tag \in {"erased", "swap"}
  <2>1. \A s \in Slots : s >= 1
    BY DEF Slots
  <2>2. flash[p].tag # "data"
    BY <1>1 DEF SwapTag
  <2> QED
    BY <2>1, <2>2, <1>1, <1>2 DEF EmptyFrom, SwapSt, FlashType
<1>4. \A q \in Phys \ {p} : flash[q].tag # "swap"
    BY <1>1, <1>2 DEF PagesOK
<1>5. busy' = Tag(p, "swap") /\ Done' = Applied(flash, Tag(p, "swap"))
    BY <1>1 DEF Executes, Done
<1>6. /\ Done' \in FlashType
      /\ Done'[p].rec = flash[p].rec
      /\ Done'[p].tag = "swap"
      /\ \A q \in Phys : q # p => Done'[q] = flash[q]
    BY <1>2, <1>3, <1>5, TagEffect DEF TagOver
<1>7. FlashOK(Done)'
  <2>1. Consistent(flash) /\ (timeouts = 0 => SwapIsWhole(flash)) /\ timeouts' = timeouts
    BY <1>2 DEF FlashOK
  <2>2. Consistent(Done') /\ (SwapIsWhole(flash) => SwapIsWhole(Done'))
    BY <1>3, <1>4, <1>5, <2>1, ConsistentTag
  <2> QED
    BY <2>1, <2>2 DEF FlashOK
<1>8. BusyOK' /\ Tag(p, "swap") # NoBusy
  <2>1. Tag(p, "swap").kind = "swap" /\ NoBusy.kind = "none"
    BY DEF Tag, NoBusy
  <2> QED
    BY <2>1, <1>5 DEF BusyOK
<1>9. GcSwap(flash)'
    BY <1>1, <1>3 DEF GcSwap, SwapTag, EmptyFrom, SwapSt
<1>10. GcSwap(Done)'
    BY <1>1, <1>3, <1>6 DEF GcSwap, SwapTag, EmptyFrom, SwapSt
<1>11. GcResult(Done)'
    BY <1>1, <1>6 DEF GcResult, SwapTag
<1>12. /\ Reopened /\ swap' \in [phys : Phys, offset : Offsets] /\ swap'.phys = swap.phys
       /\ swap'.offset \in Offsets
       /\ \A q \in Phys : q # swap.phys => Done'[q] = flash[q]
    BY <1>1, <1>2, <1>6 DEF Reopened, PagesOK
<1> QED
    BY <1>1, <1>7, <1>8, <1>9, <1>10, <1>11, <1>12, SwapStepInv

\* the page whose records are in the swap page is erased
LEMMA ErasePageInv ==
    ASSUME IInv, Process({"gc"}), loop.ret = "success",
           NEW g \in Cursor, NEW w \in [phys : Phys, offset : Offsets],
           gc' = [g EXCEPT !.state = "erase"], swap' = w, Executes(Erase(pages[g.cur].phys)),
           Reopened, damage \subseteq damage',
           UNCHANGED <<flash, status, pages, latest, queue, reserved, timeouts>>,
           w.phys = swap.phys, w.offset <= g.src + 1, g.src < pages[g.cur].offset,
           pages[g.cur].canGc, pages[g.cur].open = 0,
           SwapTag(flash) = "swap", FullBelow(flash, w.offset), EmptyFrom(flash, w.offset),
           \A i \in Index : \/ flash[pages[i].phys].tag = "data" /\ Filled(flash, i)
                            \/ i = g.cur /\ flash[pages[i].phys] = ErasedPage
    PROVE  IInv'
<1>1. PICK p \in Phys : p = swap.phys
    BY Collecting
<1>2. PICK c \in Index : c = g.cur
    BY DEF Cursor
<1>3. PICK e \in Phys : e = pages[c].phys
    BY Collecting
<1>4. /\ flash \in FlashType /\ FlashOK(flash) /\ PagesOK /\ Opens /\ e # p /\ SpaceOK /\ OpenOK(flash)
      /\ Cur.op = "gc" /\ queue # <<>>
      /\ \A i \in Index : pages[i].phys \in Phys /\ pages[i].phys # p /\ Whole(flash, i)
      /\ \A i \in Index : i # c => pages[i].phys # e
    BY <1>1, <1>3, Collecting DEF PagesOK
<1>5. /\ gc'.state = "erase" /\ gc'.cur = c /\ gc'.src = g.src /\ ~gc'.resume /\ GcType'
    BY <1>2 DEF Cursor, GcType
<1>6. swap'.phys = p /\ swap'.offset = w.offset
    BY <1>1
<1>7. busy' = Erase(e) /\ Done' = Applied(flash, Erase(e)) /\ Executes(Erase(e))
    BY <1>2, <1>3 DEF Executes, Done
<1>8. /\ Done' \in FlashType
      /\ Done'[e] = ErasedPage
      /\ \A u \in Phys : u # e => Done'[u] = flash[u]
  <2>1. flash \in FlashType
    BY <1>4
  <2>2. Done' = Applied(flash, Erase(e))
    BY <1>7
  <2> QED
    BY <2>1, <2>2, EraseEffect, Z3
<1>9. FlashOK(Done)'
  <2>1. Consistent(flash) /\ (timeouts = 0 => SwapIsWhole(flash)) /\ timeouts' = timeouts
    BY <1>4 DEF FlashOK
  <2>2. Consistent(Done') /\ (SwapIsWhole(flash) => SwapIsWhole(Done'))
    BY <1>7, <2>1, ConsistentErase
  <2> QED
    BY <2>1, <2>2 DEF FlashOK
<1>10. BusyOK' /\ Erase(e) # NoBusy
  <2>1. Erase(e).kind = "erase" /\ NoBusy.kind = "none"
    BY DEF Erase, NoBusy
  <2> QED
    BY <2>1, <1>7 DEF BusyOK
<1>11. Erasing' /\ Writing' = 0
  <2>1. Cur'.op = "gc" /\ queue' # <<>>
    BY <1>4 DEF Cur
  <2>2. busy' = Erase(pages'[gc'.cur].phys)
    BY <1>3, <1>5, <1>7
  <2> QED
    BY <2>1, <2>2 DEF Erasing, Writing, Head1
<1>12. PagesOK'
  <2>1. swap' \in [phys : Phys, offset : Offsets]
    OBVIOUS
  <2> QED
    BY <2>1, <1>1, <1>4, <1>6 DEF PagesOK
<1>13. /\ Opens' /\ (opened' # NotOpen <=> opened # NotOpen)
       /\ opened'.id = opened.id /\ opened'.phys = opened.phys /\ opened'.slot = opened.slot
    BY <1>4, OpensStay
<1>14. pages' = pages /\ flash' = flash /\ timeouts' = timeouts
    OBVIOUS
<1>15. \A i \in Index : Kept(flash, i)' /\ Whole(flash, i)'
  <2> SUFFICES ASSUME NEW i \in Index
               PROVE  Kept(flash, i)' /\ Whole(flash, i)'
    OBVIOUS
  <2>1. Whole(flash, i)'
    BY ONLY <1>4, <1>14 DEF Whole, St
  <2>2. CASE flash[pages[i].phys].tag = "data" /\ Filled(flash, i)
    <3>1. i # Writing'
      BY <1>11 DEF Index
    <3>2. Filled(flash, i)'
      <4>1. i # Writing
        BY Collecting DEF Index
      <4> QED
        BY ONLY <2>2, <3>1, <4>1, <1>14 DEF Filled, St
    <3> QED
      BY ONLY <2>1, <2>2, <3>2, <1>14 DEF Kept
  <2>3. CASE i = g.cur /\ flash[pages[i].phys] = ErasedPage
    BY ONLY <2>1, <2>3, <1>2, <1>5, <1>11, <1>14 DEF Kept
  <2> QED
    BY <2>2, <2>3
<1>16. \A i \in Index : Kept(Done, i)' /\ Whole(Done, i)'
  <2> SUFFICES ASSUME NEW i \in Index
               PROVE  Kept(Done, i)' /\ Whole(Done, i)'
    OBVIOUS
  <2>1. CASE i = c
    <3>1. pages'[i].canGc /\ pages'[i].phys = e
      BY <2>1, <1>2, <1>3
    <3> QED
      BY ONLY <2>1, <3>1, <1>5, <1>8, <1>11 DEF Kept, Whole
  <2>2. CASE i # c
    <3>1. Done'[pages'[i].phys] = flash'[pages'[i].phys]
      BY <2>2, <1>4, <1>8
    <3>2. Kept(flash, i)' /\ Whole(flash, i)'
      BY <1>15
    <3> QED
      BY ONLY <2>2, <3>1, <3>2, <1>5 DEF Kept, Whole, Filled, St
  <2> QED
    BY <2>1, <2>2
<1>17. OpenOK(flash)' /\ OpenOK(Done)'
  <2>1. opened # NotOpen => opened.page \in Index /\ opened.page # c
                            /\ opened.phys = pages[opened.page].phys
    BY <1>2, <1>4 DEF Opens
  <2>2. opened # NotOpen => Done'[opened.phys] = flash[opened.phys]
    BY <2>1, <1>4, <1>8
  <2> QED
    BY ONLY <2>2, <1>4, <1>13, <1>14 DEF OpenOK
<1>18. GcSwap(flash)' /\ GcSwap(Done)'
  <2>1. /\ swap'.offset <= gc'.src + 1 /\ gc'.src < pages'[gc'.cur].offset /\ pages'[gc'.cur].canGc
    BY <1>2, <1>5
  <2>2. SwapTag(flash)' = "swap" /\ FullBelow(flash, swap.offset)' /\ EmptyFrom(flash, swap.offset)'
    BY <1>1, <1>6 DEF SwapTag, FullBelow, EmptyFrom, SwapSt
  <2>3. Done'[p] = flash'[p]
    BY <1>4, <1>8
  <2>4. SwapTag(Done)' = "swap" /\ FullBelow(Done, swap.offset)' /\ EmptyFrom(Done, swap.offset)'
    BY ONLY <2>2, <2>3, <1>6 DEF SwapTag, FullBelow, EmptyFrom, SwapSt
  <2> QED
    BY ONLY <2>1, <2>2, <2>4, <1>5 DEF GcSwap
<1>19. GcResult(Done)'
    BY ONLY <1>2, <1>3, <1>5, <1>8, <1>14 DEF GcResult
<1>20. Known(flash)' /\ Known(Done)'
    BY <1>15, <1>16, <1>17, <1>18 DEF Known
<1>21. \A i \in Index : /\ pages'[i].reserved = pages[i].reserved
                        /\ pages'[i].offset + pages'[i].reserved <= PageSlots + 1
    BY <1>4 DEF SpaceOK
<1> QED
    BY <1>5, <1>7, <1>9, <1>10, <1>12, <1>13, <1>19, <1>20, <1>21, CollectInv

\* ... or left as it is, when a record of it is open; the copies are discarded
LEMMA DiscardInv ==
    ASSUME IInv, Process({"gc"}), loop.ret = "success",
           NEW g \in Cursor, NEW w \in [phys : Phys, offset : Offsets],
           gc' = [g EXCEPT !.state = "discard"], swap' = [w EXCEPT !.offset = 1],
           Executes(Erase(w.phys)), Reopened, damage \subseteq damage',
           UNCHANGED <<flash, status, pages, latest, queue, reserved, timeouts>>,
           w.phys = swap.phys, pages[g.cur].canGc, SwapTag(flash) = "swap",
           \A i \in Index : flash[pages[i].phys].tag = "data" /\ Filled(flash, i)
    PROVE  IInv'
<1>1. PICK p \in Phys : p = swap.phys
    BY Collecting
<1>2. PICK c \in Index : c = g.cur
    BY DEF Cursor
<1>3. flash \in FlashType /\ FlashOK(flash)
    BY Collecting
<1>4. /\ gc'.state = "discard" /\ gc'.cur = c /\ ~gc'.resume /\ GcType'
    BY <1>2 DEF Cursor, GcType
<1>5. swap' \in [phys : Phys, offset : Offsets] /\ swap'.phys = p /\ swap'.offset = 1
      /\ swap'.offset \in Offsets
    BY <1>1, FdsAssumption DEF Offsets
<1>6. busy' = Erase(p) /\ Done' = Applied(flash, Erase(p)) /\ Executes(Erase(p))
    BY <1>1 DEF Executes, Done
<1>7. /\ Done'[p] = ErasedPage
      /\ \A u \in Phys : u # p => Done'[u] = flash[u]
    BY <1>3, <1>6, EraseEffect
<1>8. FlashOK(Done)'
  <2>1. Consistent(flash) /\ (timeouts = 0 => SwapIsWhole(flash)) /\ timeouts' = timeouts
    BY <1>3 DEF FlashOK
  <2>2. Consistent(Done') /\ (SwapIsWhole(flash) => SwapIsWhole(Done'))
    BY <1>6, <2>1, ConsistentErase
  <2> QED
    BY <2>1, <2>2 DEF FlashOK
<1>9. BusyOK' /\ Erase(p) # NoBusy
  <2>1. Erase(p).kind = "erase" /\ NoBusy.kind = "none"
    BY DEF Erase, NoBusy
  <2> QED
    BY <2>1, <1>6 DEF BusyOK
<1>10. pages'[gc'.cur].canGc /\ flash'[p].tag = "swap"
    BY <1>1, <1>2, <1>4 DEF SwapTag
<1>11. GcSwap(flash)' /\ GcSwap(Done)' /\ GcResult(Done)'
    BY ONLY <1>4, <1>5, <1>7, <1>10, ErasedType DEF GcSwap, GcResult, SwapTag
<1> QED
    BY <1>1, <1>4, <1>5, <1>6, <1>7, <1>8, <1>9, <1>11, SwapStepInv

\* gc_page_erase: the page if no record of it is open, else the copies
LEMMA PageEraseInv ==
    ASSUME IInv, Process({"gc"}), loop.ret = "success",
           NEW g \in Cursor, NEW w \in [phys : Phys, offset : Offsets], PageErase(g, w),
           Reopened, damage \subseteq damage',
           UNCHANGED <<flash, status, pages, latest, queue, reserved, timeouts>>,
           w.phys = swap.phys, w.offset <= g.src + 1, g.src < pages[g.cur].offset,
           pages[g.cur].canGc,
           SwapTag(flash) = "swap", FullBelow(flash, w.offset), EmptyFrom(flash, w.offset),
           \A i \in Index : \/ flash[pages[i].phys].tag = "data" /\ Filled(flash, i)
                            \/ i = g.cur /\ flash[pages[i].phys] = ErasedPage
    PROVE  IInv'
<1>1. CASE pages[g.cur].open = 0
    BY <1>1, ErasePageInv DEF PageErase
<1>2. CASE pages[g.cur].open # 0
  <2>1. g.cur \in Index /\ Opens /\ OpenOK(flash)
    BY Collecting DEF Cursor
  <2>2. flash[pages[g.cur].phys] # ErasedPage
    BY <2>1, <1>2, OpenIsNotErased
  <2>3. \A i \in Index : flash[pages[i].phys].tag = "data" /\ Filled(flash, i)
    BY <2>2
  <2> QED
    BY <2>3, <1>2, DiscardInv DEF PageErase
<1> QED
    BY <1>1, <1>2

\* a record that is written is before the offset
LEMMA CollectedBefore ==
    ASSUME IInv, Process({"gc"}), NEW i \in Index, Filled(flash, i), NEW s \in Slots,
           St(flash, i, s) # "erased"
    PROVE  s < pages[i].offset
<1>1. pages[i].offset \in Nat /\ s \in Nat /\ Writing = 0 /\ i # 0
    BY Collecting DEF Slots, Index
<1> QED
    BY <1>1 DEF Filled

\* the collection of a page goes on with its next record, or with the erasure
LEMMA NextRecordInv ==
    ASSUME IInv, Process({"gc"}), loop.ret = "success",
           NEW g \in Cursor, NEW w \in [phys : Phys, offset : Offsets], NextRecord(g, w),
           Reopened, damage \subseteq damage',
           UNCHANGED <<flash, status, pages, latest, queue, reserved, timeouts>>,
           w.phys = swap.phys, w.offset <= g.src + 1, g.src < pages[g.cur].offset,
           pages[g.cur].canGc,
           SwapTag(flash) = "swap", FullBelow(flash, w.offset), EmptyFrom(flash, w.offset),
           \A i \in Index : flash[pages[i].phys].tag = "data" /\ Filled(flash, i)
    PROVE  IInv'
<1>1. CASE ToCopy(g) # {}
  <2>1. ToCopy(g) \subseteq Nat
    BY DEF ToCopy, ValidSlots, Slots
  <2>2. Min(ToCopy(g)) \in ToCopy(g)
    BY <1>1, <2>1, MinIs
  <2>3. PICK s \in Slots : s = Min(ToCopy(g)) /\ s > g.src /\ Valid(flash, pages[g.cur].phys, s)
    BY <2>2 DEF ToCopy, ValidSlots
  <2>4. PICK o \in Nat : o = w.offset /\ o >= 1
    BY FdsAssumption DEF Offsets
  <2>5. s \in Nat /\ g.src \in Nat /\ g.cur \in Index
    BY DEF Slots, Cursor
  <2>6. St(flash, g.cur, s) = "whole"
    BY <2>3 DEF Valid, St
  <2>7. s < pages[g.cur].offset
    BY <2>5, <2>6, CollectedBefore
  <2>8. o <= s
    BY <2>3, <2>4, <2>5
  <2>9. /\ EmptyFrom(flash, w.offset + 1)
        /\ w.offset \in Slots => SwapSt(flash, w.offset) = "erased"
    <3>1. \A u \in Slots : u \in Nat
      BY DEF Slots
    <3> QED
      BY <3>1, <2>4 DEF EmptyFrom
  <2>10. w.offset \in Slots
    <3>1. o >= 1 /\ o <= s /\ s <= PageSlots /\ PageSlots \in Nat
      BY <2>4, <2>8, FdsAssumption DEF Slots
    <3> QED
      BY <3>1, <2>4, <2>5 DEF Slots
  <2>11. CopyRecord(g, w, s)
    BY <1>1, <2>3 DEF NextRecord
  <2> QED
    BY <2>4, <2>6, <2>7, <2>8, <2>9, <2>10, <2>11, CopyInv
<1>2. CASE ToCopy(g) = {}
  <2>1. PageErase(g, w)
    BY <1>2 DEF NextRecord
  <2> QED
    BY <2>1, PageEraseInv
<1> QED
    BY <1>1, <1>2

\* no page is left that has to be collected
LEMMA CollectedInv ==
    ASSUME IInv, Process({"gc"}), loop.ret = "success", gc' = NoGc, Ends("success"),
           opened' = opened \/ opened' = [opened EXCEPT !.moved = (opened # NotOpen)],
           damage \subseteq damage',
           UNCHANGED <<flash, status, pages, swap, latest, queue, reserved, timeouts>>,
           swap.offset = 1, EmptyFrom(flash, 1), SwapTag(flash) = "swap",
           \A i \in Index : flash[pages[i].phys].tag = "data" /\ Filled(flash, i)
    PROVE  IInv'
<1>1. /\ status = "ready" /\ IsReady /\ PagesOK /\ QueueOK /\ LoopOK /\ StatusOK /\ SpaceOK
      /\ Opens /\ timeouts \in Nat /\ latest \in Nat /\ queue # <<>> /\ Cur.op = "gc" /\ Cur.page = 0
      /\ loop.at = "run" /\ busy = NoBusy /\ FlashOK(flash) /\ OpenOK(flash)
      /\ Writing = 0
      /\ \A i \in Index : Whole(flash, i)
    BY Collecting
<1>2. loop'.at = "event" /\ loop'.ret = "success" /\ busy' = NoBusy
    BY <1>1 DEF Ends, Event
<1>3. /\ gc'.state = "begin" /\ gc'.cur = 1 /\ gc'.src = 0 /\ ~gc'.resume
      /\ GcType'
    BY FdsAssumption DEF NoGc, GcType, Index
<1>4. Done' = flash' /\ Cur' = Cur /\ Writing' = 0 /\ ~Going'
    BY <1>1, <1>2, DoneIsFlash1 DEF Cur, Writing, Head1, Going
<1>5. Control'
  <2>1. QueueOK' /\ timeouts' \in Nat /\ latest' \in Nat
    BY <1>1 DEF QueueOK
  <2>2. LoopOK'
    BY <1>1, <1>2 DEF LoopOK
  <2>3. StatusOK'
    BY <1>1, <1>2 DEF StatusOK
  <2> QED
    BY <2>1, <2>2, <2>3, <1>3 DEF Control
<1>6. BusyOK'
    BY <1>2 DEF BusyOK
<1>7. FlashOK(flash)' /\ FlashOK(Done)'
  <2>1. FlashOK(flash)'
    BY <1>1 DEF FlashOK
  <2> QED
    BY <2>1, <1>4 DEF FlashOK
<1>8. PagesOK'
    BY <1>1 DEF PagesOK
<1>9. GcWaits'
    BY <1>3 DEF GcWaits
<1>10. SpaceOK'
  <2>1. \A i \in Index : Claims(i)' = Claims(i) - (IF Cur.page = i THEN 1 ELSE 0)
    BY <1>1, <1>2, ClaimsEnd
  <2>2. \A i \in Index : i # 0 /\ Claims(i) \in Nat /\ pages[i].reserved \in Nat
    BY <1>1, ClaimsType, PagesTyped DEF Index
  <2>3. damage' = {} => damage = {}
    OBVIOUS
  <2> QED
    BY <2>1, <2>2, <2>3, <1>1 DEF SpaceOK
<1>11. /\ Opens' /\ (opened' # NotOpen <=> opened # NotOpen)
       /\ opened'.id = opened.id /\ opened'.phys = opened.phys /\ opened'.slot = opened.slot
    BY <1>1, OpensStay DEF Reopened
<1>12. Known(flash)'
  <2>1. \A i \in Index : Kept(flash, i)' /\ Whole(flash, i)'
    <3> SUFFICES ASSUME NEW i \in Index
                 PROVE  Kept(flash, i)' /\ Whole(flash, i)'
      OBVIOUS
    <3>1. flash[pages[i].phys].tag = "data" /\ Filled(flash, i) /\ Whole(flash, i)
      BY <1>1
    <3>2. flash' = flash /\ pages' = pages /\ timeouts' = timeouts
      OBVIOUS
    <3> QED
      BY ONLY <3>1, <3>2, <1>1, <1>4 DEF Kept, Whole, Filled, St
  <2>2. GcSwap(flash)'
    BY <1>3 DEF GcSwap, EmptyFrom, SwapSt, SwapTag
  <2>3. OpenOK(flash)'
    <3>1. flash' = flash /\ OpenOK(flash)
      BY <1>1
    <3> QED
      BY ONLY <3>1, <1>11 DEF OpenOK
  <2> QED
    BY <2>1, <2>2, <2>3 DEF Known
<1>13. Known(Done)'
    BY <1>4, <1>12, KnownAfter
<1> QED
    BY <1>1, <1>4, <1>5, <1>6, <1>7, <1>8, <1>9, <1>10, <1>11, <1>12, <1>13 DEF IInv, IsReady

\* the next page
LEMMA NextPageInv ==
    ASSUME IInv, Process({"gc"}), loop.ret = "success", NEW g \in Cursor, NextPage(g), g.src = 0,
           Reopened, damage \subseteq damage',
           UNCHANGED <<flash, status, pages, latest, queue, reserved, timeouts>>,
           swap.offset = 1, EmptyFrom(flash, 1), SwapTag(flash) = "swap",
           \A i \in Index : flash[pages[i].phys].tag = "data" /\ Filled(flash, i)
    PROVE  IInv'
<1>1. CASE Collectable(g) = {}
    BY <1>1, CollectedInv DEF NextPage, Reopened
<1>2. CASE Collectable(g) # {}
  <2>1. Collectable(g) \subseteq Nat
    BY DEF Collectable, Cursor, Index
  <2>2. Min(Collectable(g)) \in Collectable(g)
    BY <1>2, <2>1, MinIs
  <2>3. PICK i \in Index : i = Min(Collectable(g)) /\ pages[i].canGc
    BY <2>2 DEF Collectable, Cursor
  <2> DEFINE h == [g EXCEPT !.cur = i, !.todo = {j \in @ : j > i}]
  <2>4. NextRecord(h, swap)
    BY <1>2, <2>3 DEF NextPage
  <2>5. h \in Cursor /\ h.cur = i /\ h.src = 0
    <3> DEFINE t == {j \in g.todo : j > i}
    <3>1. t \in SUBSET Index
      BY DEF Cursor
    <3>2. h = [g EXCEPT !.cur = i, !.todo = t]
      OBVIOUS
    <3> HIDE DEF h, t
    <3> QED
      BY <3>1, <3>2 DEF Cursor
  <2>6. swap \in [phys : Phys, offset : Offsets] /\ pages[i].offset \in Nat /\ pages[i].offset >= 1
    BY Collecting DEF PagesOK
  <2>7. FullBelow(flash, 1)
    BY DEF FullBelow, Slots
  <2> HIDE DEF h
  <2> QED
    BY <2>3, <2>4, <2>5, <2>6, <2>7, NextRecordInv
<1> QED
    BY <1>1, <1>2

\* the swap page takes the place of the page that was erased
LEMMA PromoteInv ==
    ASSUME IInv, Process({"gc"}), loop.ret = "success", gc.state = "erase", ~gc.resume,
           gc' = [gc EXCEPT !.state = "promote"], SwapPages, Executes(Tag(swap.phys, "data")),
           opened' = opened, damage \subseteq damage',
           UNCHANGED <<flash, status, latest, queue, reserved, timeouts>>
    PROVE  IInv'
<1>1. PICK p \in Phys : p = swap.phys
    BY Collecting
<1>2. PICK c \in Index : c = gc.cur
    BY Collecting
<1>3. PICK e \in Phys : e = pages[c].phys
    BY Collecting
<1>4. PICK o \in Nat : o = swap.offset
    BY Collecting
<1>5. /\ flash \in FlashType /\ FlashOK(flash) /\ PagesOK /\ Opens /\ e # p /\ SpaceOK /\ OpenOK(flash)
      /\ Cur.op = "gc" /\ queue # <<>> /\ Writing = 0
      /\ \A i \in Index : i # c => pages[i].phys # e
      /\ gc.src \in Nat
      /\ \A i \in Index : /\ pages[i].phys \in Phys /\ pages[i].phys # p
                          /\ Kept(flash, i) /\ Whole(flash, i)
                          /\ pages[i].offset \in Nat /\ pages[i].reserved \in Nat
      /\ GcType
    BY <1>1, <1>3, Collecting DEF PagesOK
<1>6. /\ flash[e] = ErasedPage
    BY <1>2, <1>3, Collecting DEF GcResult
<1>7. /\ flash[p].tag = "swap" /\ pages[c].canGc
      /\ o <= gc.src + 1 /\ gc.src < pages[c].offset
      /\ \A s \in Slots : s < o => flash[p].rec[s].st # "erased"
      /\ \A s \in Slots : s >= o => flash[p].rec[s].st = "erased"
    BY <1>1, <1>2, <1>4, Collecting DEF GcSwap, SwapTag, FullBelow, EmptyFrom, SwapSt
<1>8. /\ gc'.state = "promote" /\ gc'.cur = c /\ ~gc'.resume /\ GcType'
    BY <1>2, <1>5 DEF GcType
<1>9. swap' = [phys |-> e, offset |-> 1] /\ swap'.phys = e /\ swap'.offset = 1
    BY <1>2, <1>3 DEF SwapPages
<1>10. \A j \in Index : /\ pages'[j].phys = IF j = c THEN p ELSE pages[j].phys
                        /\ pages'[j].offset = IF j = c THEN o ELSE pages[j].offset
                        /\ pages'[j].canGc = pages[j].canGc
                        /\ pages'[j].reserved = pages[j].reserved
                        /\ pages'[j].open = pages[j].open
                        /\ pages'[j].type = pages[j].type
    BY <1>1, <1>2, <1>4, <1>5 DEF PagesOK, SwapPages
<1>11. busy' = Tag(p, "data") /\ Done' = Applied(flash, Tag(p, "data")) /\ Executes(Tag(p, "data"))
    BY <1>1 DEF Executes, Done
<1>12. /\ Done' \in FlashType
       /\ Done'[p].rec = flash[p].rec
       /\ Done'[p].tag = "data"
       /\ \A u \in Phys : u # p => Done'[u] = flash[u]
  <2>1. flash \in FlashType
    BY <1>5
  <2>2. Done' = Applied(flash, Tag(p, "data"))
    BY <1>11
  <2> QED
    BY <1>7, <2>1, <2>2, TagEffect DEF TagOver
<1>13. FlashOK(Done)'
  <2>1. Consistent(flash) /\ (timeouts = 0 => SwapIsWhole(flash)) /\ timeouts' = timeouts
    BY <1>5 DEF FlashOK
  <2>2. \E u \in Phys \ {p} : flash[u].tag # "data"
    BY <1>5, <1>6, ErasedType
  <2>3. Consistent(Done') /\ (SwapIsWhole(flash) => SwapIsWhole(Done'))
    BY <1>11, <2>1, <2>2, ConsistentTag
  <2> QED
    BY <2>1, <2>3 DEF FlashOK
<1>14. BusyOK' /\ Tag(p, "data") # NoBusy
  <2>1. Tag(p, "data").kind = "data" /\ NoBusy.kind = "none"
    BY DEF Tag, NoBusy
  <2> QED
    BY <2>1, <1>11 DEF BusyOK
<1>15. PagesOK'
  <2>1. o \in Offsets
    BY <1>4, <1>5 DEF PagesOK
  <2>2. pages' \in [Index -> [type : {"erased", "data"}, phys : Phys, offset : Offsets,
                              reserved : 0 .. PageSlots, canGc : BOOLEAN, open : 0 .. 1]]
    <3>1. /\ pages \in [Index -> [type : {"erased", "data"}, phys : Phys, offset : Offsets,
                              reserved : 0 .. PageSlots, canGc : BOOLEAN, open : 0 .. 1]]
          /\ pages' = [pages EXCEPT ![c].phys = p, ![c].offset = o]
      BY <1>1, <1>2, <1>4, <1>5 DEF PagesOK, SwapPages
    <3>2. pages' = [pages EXCEPT ![c] = [pages[c] EXCEPT !.phys = p, !.offset = o]]
      BY <3>1
    <3> DEFINE r == [pages[c] EXCEPT !.phys = p, !.offset = o]
    <3>3. r \in [type : {"erased", "data"}, phys : Phys, offset : Offsets,
                 reserved : 0 .. PageSlots, canGc : BOOLEAN, open : 0 .. 1]
      BY <3>1, <2>1
    <3> HIDE DEF r
    <3> QED
      BY <3>1, <3>2, <3>3 DEF r
  <2>3. swap' \in [phys : Phys, offset : Offsets] /\ swap'.phys = e
    BY <1>9, FdsAssumption DEF Offsets
  <2>4. \A j, k \in Index : pages'[j].phys = pages'[k].phys => j = k
    BY <1>5, <1>10 DEF PagesOK
  <2>5. \A j \in Index : pages'[j].phys # e
    BY <1>5, <1>10
  <2>6. \A u \in Phys : u = e \/ \E j \in Index : u = pages'[j].phys
    <3>1. \A u \in Phys : u = p \/ \E j \in Index : u = pages[j].phys
      BY <1>1, <1>5 DEF PagesOK
    <3>2. pages'[c].phys = p
      BY <1>10
    <3>3. \A j \in Index : pages[j].phys = e \/ pages'[j].phys = pages[j].phys
      BY <1>3, <1>10
    <3> QED
      BY ONLY <3>1, <3>2, <3>3, c \in Index
  <2>7. status' = "ready" => \A j \in Index : pages'[j].type = "data"
    BY <1>5, <1>10 DEF PagesOK
  <2> QED
    BY ONLY <2>2, <2>3, <2>4, <2>5, <2>6, <2>7 DEF PagesOK
<1>16. opened.page # c
    BY <1>3, <1>5, <1>6, OpenIsNotErased
<1>17. /\ Opens' /\ (opened' # NotOpen <=> opened # NotOpen)
       /\ opened'.id = opened.id /\ opened'.phys = opened.phys /\ opened'.slot = opened.slot
    BY <1>5, <1>10, <1>16, OpensStay DEF Reopened
<1>18. OpenOK(flash)' /\ OpenOK(Done)'
  <2>1. opened # NotOpen => opened.page \in Index /\ opened.phys = pages[opened.page].phys
    BY <1>5 DEF Opens
  <2>2. opened # NotOpen => Done'[opened.phys] = flash[opened.phys]
    BY <2>1, <1>5, <1>12
  <2>3. flash' = flash
    OBVIOUS
  <2> QED
    BY ONLY <2>2, <2>3, <1>5, <1>17 DEF OpenOK
<1>19. Writing' = 0
    BY <1>5 DEF Writing, Head1, Cur
<1>20. \A i \in Index : /\ Kept(flash, i)' /\ Whole(flash, i)'
                        /\ Kept(Done, i)' /\ Whole(Done, i)'
  <2> SUFFICES ASSUME NEW i \in Index
               PROVE  /\ Kept(flash, i)' /\ Whole(flash, i)'
                      /\ Kept(Done, i)' /\ Whole(Done, i)'
    OBVIOUS
  <2>1. flash' = flash /\ timeouts' = timeouts /\ i # 0
    BY DEF Index
  <2>2. CASE i = c
    <3>1. /\ pages'[i].phys = p /\ pages'[i].offset = o /\ pages'[i].canGc
      BY <2>2, <1>7, <1>10
    <3>2. Whole(flash, i)' /\ Whole(Done, i)'
      BY ONLY <3>1 DEF Whole
    <3>3. Filled(flash, i)' /\ Filled(Done, i)'
      BY ONLY <2>1, <3>1, <1>7, <1>12, <1>19 DEF Filled, St
    <3> QED
      BY ONLY <2>1, <2>2, <3>1, <3>2, <3>3, <1>7, <1>8, <1>12 DEF Kept
  <2>3. CASE i # c
    <3>1. /\ pages'[i].phys = pages[i].phys /\ pages'[i].offset = pages[i].offset
          /\ pages'[i].canGc = pages[i].canGc
      BY <2>3, <1>10
    <3>2. Done'[pages[i].phys] = flash[pages[i].phys]
      BY <1>5, <1>12
    <3>3. /\ flash[pages[i].phys].tag = "data" /\ Filled(flash, i) /\ Whole(flash, i)
      BY <2>3, <1>2, <1>5 DEF Kept
    <3>4. Filled(flash, i)' /\ Filled(Done, i)'
      BY ONLY <2>1, <3>1, <3>2, <3>3, <1>5, <1>19 DEF Filled, St
    <3>5. Whole(flash, i)' /\ Whole(Done, i)'
      BY ONLY <2>1, <3>1, <3>2, <3>3 DEF Whole, St
    <3> QED
      BY ONLY <2>1, <3>1, <3>2, <3>3, <3>4, <3>5 DEF Kept
  <2> QED
    BY <2>2, <2>3
<1>21. GcSwap(flash)' /\ GcSwap(Done)'
  <2>1. pages'[gc'.cur].canGc
    BY <1>7, <1>8, <1>10
  <2>2. Done'[e] = ErasedPage /\ flash' = flash
    BY <1>5, <1>6, <1>12
  <2> QED
    BY ONLY <2>1, <2>2, <1>6, <1>8, <1>9, ErasedType DEF GcSwap, SwapTag
<1>22. GcResult(Done)'
  <2>1. pages'[gc'.cur].phys = p
    BY <1>8, <1>10
  <2> QED
    BY ONLY <2>1, <1>8, <1>12 DEF GcResult
<1>23. Known(flash)' /\ Known(Done)'
    BY <1>18, <1>20, <1>21 DEF Known
<1>24. \A i \in Index : /\ pages'[i].reserved = pages[i].reserved
                        /\ pages'[i].offset + pages'[i].reserved <= PageSlots + 1
  <2>1. PageSlots \in Nat
    BY FdsAssumption
  <2>2. \A i \in Index : pages[i].offset + pages[i].reserved <= PageSlots + 1
    BY <1>5 DEF SpaceOK
  <2>3. o <= pages[c].offset
    BY <1>5, <1>7
  <2> QED
    BY <2>1, <2>2, <2>3, <1>5, <1>10
<1> QED
    BY <1>8, <1>11, <1>13, <1>14, <1>15, <1>17, <1>22, <1>23, <1>24, CollectInv

\* ... is tagged once more, after a time-out
LEMMA PromoteAgainInv ==
    ASSUME IInv, Process({"gc"}), loop.ret = "success", gc.state = "promote",
           gc' = [gc EXCEPT !.resume = FALSE], Executes(Tag(pages[gc.cur].phys, "data")),
           opened' = opened, damage \subseteq damage',
           UNCHANGED <<flash, status, pages, swap, latest, queue, reserved, timeouts>>
    PROVE  IInv'
<1>1. PICK p \in Phys : p = swap.phys
    BY Collecting
<1>2. PICK c \in Index : c = gc.cur
    BY Collecting
<1>3. PICK e \in Phys : e = pages[c].phys
    BY Collecting
<1>5. /\ flash \in FlashType /\ FlashOK(flash) /\ PagesOK /\ Opens /\ e # p /\ SpaceOK /\ OpenOK(flash)
      /\ Cur.op = "gc" /\ queue # <<>> /\ Writing = 0
      /\ \A i \in Index : i # c => pages[i].phys # e
      /\ \A i \in Index : /\ pages[i].phys \in Phys /\ pages[i].phys # p
                          /\ Kept(flash, i) /\ Whole(flash, i)
      /\ GcType
    BY <1>1, <1>3, Collecting DEF PagesOK
<1>6. /\ swap.offset = 1 /\ flash[p] = ErasedPage /\ pages[c].canGc
    BY <1>1, <1>2, Collecting DEF GcSwap
<1>8. /\ gc'.state = "promote" /\ gc'.cur = c /\ ~gc'.resume /\ GcType'
    BY <1>2, <1>5 DEF GcType
<1>11. busy' = Tag(e, "data") /\ Done' = Applied(flash, Tag(e, "data")) /\ Executes(Tag(e, "data"))
    BY <1>2, <1>3 DEF Executes, Done
<1>12. /\ Done' \in FlashType
       /\ Done'[e].rec = flash[e].rec
       /\ Done'[e].tag = "data"
       /\ \A u \in Phys : u # e => Done'[u] = flash[u]
  <2>1. flash \in FlashType
    BY <1>5
  <2>2. Done' = Applied(flash, Tag(e, "data"))
    BY <1>11
  <2> QED
    BY <2>1, <2>2, TagEffect DEF TagOver
<1>13. FlashOK(Done)'
  <2>1. Consistent(flash) /\ (timeouts = 0 => SwapIsWhole(flash)) /\ timeouts' = timeouts
    BY <1>5 DEF FlashOK
  <2>2. \E u \in Phys \ {e} : flash[u].tag # "data"
    BY <1>5, <1>6, ErasedType
  <2>3. Consistent(Done') /\ (SwapIsWhole(flash) => SwapIsWhole(Done'))
    BY <1>11, <2>1, <2>2, ConsistentTag
  <2> QED
    BY <2>1, <2>3 DEF FlashOK
<1>14. BusyOK' /\ Tag(e, "data") # NoBusy
  <2>1. Tag(e, "data").kind = "data" /\ NoBusy.kind = "none"
    BY DEF Tag, NoBusy
  <2> QED
    BY <2>1, <1>11 DEF BusyOK
<1>15. PagesOK'
    BY <1>5 DEF PagesOK
<1>16. pages' = pages /\ flash' = flash /\ swap' = swap /\ timeouts' = timeouts /\ opened' = opened
    OBVIOUS
<1>17. Opens'
    BY <1>5 DEF Opens
<1>18. OpenOK(flash)' /\ OpenOK(Done)'
  <2>1. opened # NotOpen => opened.page \in Index /\ opened.phys = pages[opened.page].phys
    BY <1>5 DEF Opens
  <2>2. opened # NotOpen => Done'[opened.phys].rec = flash[opened.phys].rec
    BY <2>1, <1>5, <1>12
  <2> QED
    BY ONLY <2>2, <1>5, <1>16 DEF OpenOK
<1>19. Writing' = 0
    BY <1>5 DEF Writing, Head1, Cur
<1>20. \A i \in Index : /\ Kept(flash, i)' /\ Whole(flash, i)'
                        /\ Kept(Done, i)' /\ Whole(Done, i)'
  <2> SUFFICES ASSUME NEW i \in Index
               PROVE  /\ Kept(flash, i)' /\ Whole(flash, i)'
                      /\ Kept(Done, i)' /\ Whole(Done, i)'
    OBVIOUS
  <2>1. /\ Filled(flash, i) /\ Whole(flash, i)
        /\ flash[pages[i].phys].tag = "data" \/ (i = c /\ flash[pages[i].phys].tag = "swap")
    BY <1>2, <1>5 DEF Kept
  <2>2. /\ Done'[pages[i].phys].rec = flash[pages[i].phys].rec
        /\ Done'[pages[i].phys].tag = flash[pages[i].phys].tag \/
             Done'[pages[i].phys].tag = "data"
    BY <1>5, <1>12
  <2>3. Filled(flash, i)' /\ Filled(Done, i)'
    BY ONLY <2>1, <2>2, <1>5, <1>16, <1>19 DEF Filled, St
  <2>4. Whole(flash, i)' /\ Whole(Done, i)'
    BY ONLY <2>1, <2>2, <1>16 DEF Whole, St
  <2> QED
    BY ONLY <2>1, <2>2, <2>3, <2>4, <1>8, <1>16 DEF Kept
<1>21. GcSwap(flash)' /\ GcSwap(Done)'
  <2>1. pages'[gc'.cur].canGc
    BY <1>6, <1>8
  <2>2. Done'[p] = ErasedPage
    BY <1>5, <1>6, <1>12
  <2> QED
    BY ONLY <2>1, <2>2, <1>1, <1>6, <1>8, <1>16, ErasedType DEF GcSwap, SwapTag
<1>22. GcResult(Done)'
    BY ONLY <1>3, <1>8, <1>12, <1>16 DEF GcResult
<1>23. Known(flash)' /\ Known(Done)'
    BY <1>18, <1>20, <1>21 DEF Known
<1>24. \A i \in Index : /\ pages'[i].reserved = pages[i].reserved
                        /\ pages'[i].offset + pages'[i].reserved <= PageSlots + 1
    BY <1>5 DEF SpaceOK
<1> QED
    BY <1>8, <1>11, <1>13, <1>14, <1>15, <1>17, <1>22, <1>23, <1>24, CollectInv

\* gc_state_advance
LEMMA GcAdvanceInv ==
    ASSUME IInv, Process({"gc"}), loop.ret = "success", ~gc.resume, GcAdvance, damage' = damage,
           UNCHANGED <<flash, status, latest, queue, reserved, timeouts>>
    PROVE  IInv'
<1>1. /\ PagesOK /\ GcType /\ GcSwap(flash) /\ GcResult(flash) /\ gc.cur \in Index /\ gc.src \in Nat
      /\ \A i \in Index : Kept(flash, i) /\ pages[i].type = "data"
      /\ swap \in [phys : Phys, offset : Offsets] /\ swap.offset \in Nat /\ swap.phys \in Phys
      /\ flash \in FlashType
    BY Collecting DEF PagesOK
<1>2. gc.state \notin {"erase", "promote"} =>
        \A i \in Index : flash[pages[i].phys].tag = "data" /\ Filled(flash, i)
    BY <1>1 DEF Kept
<1>3. CASE /\ gc.state = "begin" /\ NextPage(GcInit) /\ UNCHANGED pages
           /\ opened' = [opened EXCEPT !.moved = (opened # NotOpen)]
  <2>1. GcInit \in Cursor /\ GcInit.src = 0
    <3> DEFINE t == {i \in Index : pages[i].type = "data"}
    <3>1. t \in SUBSET Index /\ 1 \in Index
      BY FdsAssumption DEF Index
    <3>2. GcInit = [gc EXCEPT !.state = "nextPage", !.cur = 1, !.resume = FALSE, !.todo = t]
      BY DEF GcInit
    <3> HIDE DEF t
    <3>3. gc.src = 0
      BY <1>1, <1>3 DEF GcSwap
    <3> QED
      BY <3>1, <3>2, <3>3, <1>1 DEF Cursor, GcType
  <2>2. swap.offset = 1 /\ EmptyFrom(flash, 1) /\ SwapTag(flash) = "swap"
    BY <1>1, <1>3 DEF GcSwap
  <2>3. Reopened
    BY <1>3 DEF Reopened
  <2>4. NextPage(GcInit) /\ UNCHANGED pages
    BY <1>3
  <2> QED
    BY <2>1, <2>2, <2>3, <2>4, <1>2, <1>3, NextPageInv
<1>4. CASE gc.state = "copy" /\ NextRecord(gc, [swap EXCEPT !.offset = @ + 1])
           /\ UNCHANGED <<pages, opened>>
  <2> DEFINE w == [swap EXCEPT !.offset = @ + 1]
  <2>1. gc \in Cursor
    BY <1>1 DEF Cursor, GcType
  <2>2. /\ SwapTag(flash) = "swap" /\ swap.offset <= gc.src /\ gc.src < pages[gc.cur].offset
        /\ FullBelow(flash, swap.offset) /\ EmptyFrom(flash, swap.offset + 1)
        /\ pages[gc.cur].canGc /\ SwapSt(flash, swap.offset) # "erased"
    BY <1>1, <1>4 DEF GcSwap, GcResult
  <2>3. swap.offset + 1 \in Offsets
    <3>1. /\ pages[gc.cur].offset \in Nat /\ pages[gc.cur].offset <= PageSlots + 1
          /\ PageSlots \in Nat
      BY Collecting
    <3> QED
      BY <3>1, <2>2, <1>1 DEF Offsets
  <2>4. w \in [phys : Phys, offset : Offsets] /\ w.phys = swap.phys /\ w.offset = swap.offset + 1
    BY <2>3, <1>1
  <2>5. w.offset <= gc.src + 1
    BY <2>2, <2>4, <1>1
  <2>6. FullBelow(flash, w.offset) /\ EmptyFrom(flash, w.offset)
    <3>1. \A s \in Slots : s \in Nat
      BY DEF Slots
    <3>2. \A s \in Slots : s < swap.offset + 1 => s < swap.offset \/ s = swap.offset
      BY <3>1, <1>1
    <3> QED
      BY <3>2, <2>2, <2>4 DEF FullBelow, EmptyFrom
  <2>7. NextRecord(gc, w) /\ UNCHANGED pages /\ Reopened
    BY <1>4 DEF Reopened
  <2>8. \A i \in Index : flash[pages[i].phys].tag = "data" /\ Filled(flash, i)
    BY <1>2, <1>4
  <2> HIDE DEF w
  <2> QED
    BY <2>1, <2>2, <2>4, <2>5, <2>6, <2>7, <2>8, NextRecordInv
<1>5. CASE gc.state = "erase" /\ gc' = [gc EXCEPT !.state = "promote"] /\ SwapPages
           /\ Executes(Tag(swap.phys, "data")) /\ UNCHANGED opened
    BY <1>5, PromoteInv
<1>6. CASE gc.state \in {"discard", "promote"} /\ gc' = [gc EXCEPT !.state = "tagSwap", !.src = 0]
           /\ Executes(Tag(swap.phys, "swap")) /\ UNCHANGED <<pages, swap, opened>>
  <2>1. /\ gc'.state = "tagSwap" /\ gc'.src = 0 /\ ~gc'.resume /\ GcType' /\ gc'.cur = gc.cur
    BY <1>1, <1>6 DEF GcType
  <2>2. pages[gc'.cur].canGc /\ swap.offset = 1 /\ flash[swap.phys] = ErasedPage
    BY <2>1, <1>1, <1>6 DEF GcSwap, GcResult
  <2>3. EmptyFrom(flash, 1) /\ SwapTag(flash) # "data"
    BY <2>2, ErasedType DEF EmptyFrom, SwapSt, SwapTag
  <2>4. \A i \in Index : flash[pages[i].phys].tag = "data" /\ Filled(flash, i)
    <3>1. gc.state = "promote" => flash[pages[gc.cur].phys].tag = "data"
      BY <1>1 DEF GcResult
    <3> QED
      BY <3>1, <1>1, <1>6 DEF Kept
  <2> QED
    BY <2>1, <2>2, <2>3, <2>4, <1>6, TagSwapInv
<1>7. CASE gc.state = "tagSwap" /\ NextPage(gc) /\ UNCHANGED <<pages, opened>>
  <2>1. gc \in Cursor
    BY <1>1 DEF Cursor, GcType
  <2>2. swap.offset = 1 /\ EmptyFrom(flash, 1) /\ SwapTag(flash) = "swap" /\ gc.src = 0
    BY <1>1, <1>7 DEF GcSwap, GcResult
  <2>3. Reopened
    BY <1>7 DEF Reopened
  <2> QED
    BY <2>1, <2>2, <2>3, <1>2, <1>7, NextPageInv
<1> QED
    BY <1>3, <1>4, <1>5, <1>6, <1>7 DEF GcAdvance

\* the last step again
LEMMA GcResumeInv ==
    ASSUME IInv, Process({"gc"}), loop.ret = "success", GcResume, Sound',
           UNCHANGED <<flash, status, latest, queue, reserved, timeouts>>
    PROVE  IInv'
<1> DEFINE g == [gc EXCEPT !.resume = FALSE]
<1>1. /\ PagesOK /\ GcType /\ GcSwap(flash) /\ gc.cur \in Index /\ gc.src \in Nat
      /\ \A i \in Index : Kept(flash, i)
      /\ swap \in [phys : Phys, offset : Offsets] /\ swap.offset \in Nat /\ swap.phys \in Phys
      /\ flash \in FlashType
    BY Collecting DEF PagesOK
<1>2. /\ g \in Cursor /\ g.cur = gc.cur /\ g.src = gc.src /\ ~g.resume /\ g.state = gc.state
    BY <1>1 DEF Cursor, GcType
<1>3. gc.state \notin {"erase", "promote"} =>
        \A i \in Index : flash[pages[i].phys].tag = "data" /\ Filled(flash, i)
    BY <1>1 DEF Kept
<1>4. damage \subseteq damage' /\ gc.state # "discard" /\ pages' = pages /\ opened' = opened /\ Reopened
    BY DEF GcResume, Met, Sound, Reopened
<1> HIDE DEF g
<1>5. CASE gc.state = "copy" /\ CopyRecord(g, swap, gc.src)
  <2>1. /\ SwapTag(flash) = "swap" /\ gc.src # 0 /\ swap.offset <= gc.src
        /\ gc.src < pages[gc.cur].offset /\ St(flash, gc.cur, gc.src) = "whole"
        /\ FullBelow(flash, swap.offset) /\ EmptyFrom(flash, swap.offset + 1)
        /\ SwapSt(flash, swap.offset) = "erased" \/
             flash[swap.phys].rec[swap.offset] = flash[pages[gc.cur].phys].rec[gc.src]
        /\ pages[gc.cur].canGc
    BY <1>1, <1>5 DEF GcSwap
  <2>2. gc.src \in Slots
    BY <2>1, <1>1 DEF GcType
  <2> QED
    BY <2>1, <2>2, <1>1, <1>2, <1>3, <1>4, <1>5, CopyInv
<1>6. CASE gc.state = "erase" /\ PageErase(g, swap)
  <2>1. /\ SwapTag(flash) = "swap" /\ swap.offset <= gc.src + 1
        /\ gc.src < pages[gc.cur].offset
        /\ FullBelow(flash, swap.offset) /\ EmptyFrom(flash, swap.offset)
        /\ pages[gc.cur].canGc
    BY <1>1, <1>6 DEF GcSwap
  <2>2. \A i \in Index : \/ flash[pages[i].phys].tag = "data" /\ Filled(flash, i)
                         \/ i = g.cur /\ flash[pages[i].phys] = ErasedPage
    BY <1>1, <1>2, <1>6 DEF Kept
  <2> QED
    BY <2>1, <2>2, <1>1, <1>2, <1>4, <1>6, PageEraseInv
<1>7. CASE gc.state = "promote" /\ gc' = g /\ Executes(Tag(pages[gc.cur].phys, "data"))
           /\ UNCHANGED swap
    BY <1>4, <1>7, PromoteAgainInv DEF g
<1>8. CASE gc.state = "tagSwap" /\ gc' = g /\ Executes(Tag(swap.phys, "swap")) /\ UNCHANGED swap
  <2>1. /\ gc'.state = "tagSwap" /\ ~gc'.resume /\ GcType' /\ gc'.cur = gc.cur
    BY <1>1, <1>2, <1>8 DEF GcType, g
  <2>2. /\ pages[gc.cur].canGc /\ swap.offset = 1 /\ EmptyFrom(flash, 1) /\ gc.src = 0
        /\ SwapTag(flash) # "data"
    BY <1>1, <1>8 DEF GcSwap
  <2> QED
    BY <2>1, <2>2, <1>2, <1>3, <1>4, <1>8, TagSwapInv
<1> QED
    BY <1>4, <1>5, <1>6, <1>7, <1>8 DEF GcResume, g

\* gc_execute
LEMMA GcExecuteInv ==
    ASSUME IInv, GcExecute, Sound'
    PROVE  IInv'
<1>1. Process({"gc"}) /\ UNCHANGED <<flash, status, latest, queue, reserved, timeouts>>
    BY DEF GcExecute, counts
<1>2. CASE loop.ret = "success" /\ ~gc.resume /\ GcAdvance /\ UNCHANGED damage
    BY <1>1, <1>2, GcAdvanceInv
<1>3. CASE loop.ret = "success" /\ gc.resume /\ GcResume
    BY <1>1, <1>3, GcResumeInv
<1>4. CASE loop.ret # "success" /\ Ends("timeout") /\ UNCHANGED <<pages, swap, gc, opened, damage>>
  <2>1. status = "ready" /\ loop.at = "run" /\ Writing = 0 /\ Cur.page = 0
    BY <1>1, Collecting
  <2> QED
    BY <2>1, <1>1, <1>4, EndInv
<1> QED
    BY <1>1, <1>2, <1>3, <1>4 DEF GcExecute

-------------------------------------------------------------------------------
(* Every step, and what follows                                              *)

\* A flaw that was met is not forgotten.
LEMMA SoundStays ==
    ASSUME [Next]_vars, Sound'
    PROVE  Sound
<1>1. damage \subseteq damage'
  <2>1. CASE UNCHANGED vars
    BY <2>1 DEF vars, ghosts
  <2>2. CASE FdsInit
    BY <2>2 DEF FdsInit, ghosts
  <2>3. CASE InitExecute
    BY <2>3 DEF InitExecute, Met
  <2>4. CASE WriteExecute
    BY <2>4 DEF WriteExecute, WriteTo, FlagDirty, Met
  <2>5. CASE DeleteExecute
    BY <2>5 DEF DeleteExecute, FlagDirty, Met
  <2>6. CASE DeleteFileExecute
    BY <2>6 DEF DeleteFileExecute, FlagDirty, Met
  <2>7. CASE GcExecute
    BY <2>7 DEF GcExecute, GcResume, Met
  <2>8. CASE Free \/ FlashDone
    BY <2>8 DEF Free, FlashDone, ghosts
  <2>9. CASE FlashTimeout
    BY <2>9 DEF FlashTimeout, Met
  <2>10. CASE Reset
    BY <2>10 DEF Reset
  <2>11. CASE Calls
    BY <2>11 DEF Calls, Write, WriteReserved, DeleteFile, Delete, Open, Update, Gc, Reserve,
       ReserveCancel, Close, ghosts, Met
  <2> QED
    BY <2>1, <2>2, <2>3, <2>4, <2>5, <2>6, <2>7, <2>8, <2>9, <2>10, <2>11 DEF Next, QueueProcess
<1> QED
    BY <1>1 DEF Sound

\* When nothing changes the invariant stays.
LEMMA StutterInv ==
    ASSUME IInv, UNCHANGED vars
    PROVE  IInv'
<1>1. UNCHANGED <<flash, status, pages, swap, gc, latest, queue, loop, busy, desc, tok, reserved,
                  opened, damage, timeouts>>
    BY DEF vars, ram, static, users, ghosts, counts
<1>2. (Control /\ BusyOK)'
    BY <1>1 DEF IInv, Control, QueueOK, LoopOK, StatusOK, GcType, BusyOK, Head1, Cur
<1>3. Done' = Done
    BY <1>1 DEF Done
<1>4. FlashOK(flash)' /\ FlashOK(Done)'
    BY <1>1, <1>3 DEF IInv, FlashOK
<1>5. (status # "off" => PagesOK)'
    BY <1>1 DEF IInv, PagesOK
<1>6. (status = "off" => IsOff)'
    BY <1>1 DEF IInv, IsOff
<1>7. (status = "starting" => IsStarting)'
    BY <1>1, <1>3 DEF IInv, IsStarting, Going, InitOK, Filled, Whole, St, Cur, Writing, Head1,
       SwapTag, SwapSt, FullBelow, EmptyFrom
<1>8. (status = "ready" => IsReady)'
  <2> SUFFICES ASSUME status = "ready"
               PROVE  IsReady'
    BY <1>1
  <2>1. IsReady
    BY DEF IInv
  <2>2. GcWaits' /\ SpaceOK' /\ Opens'
    BY <2>1, <1>1 DEF IsReady, GcWaits, SpaceOK, Opens, Claims, Claimed, Head1, Cur, Going
  <2>3. UNCHANGED <<Going, Writing, Erasing>>
    BY <1>1 DEF Going, Writing, Erasing, Head1, Cur
  <2>4. Known(flash)' /\ Known(Done)'
    <3>1. \A i \in Index : UNCHANGED <<Kept(flash, i), Whole(flash, i), Kept(Done, i), Whole(Done, i)>>
      BY <1>1, <1>3, <2>3 DEF Kept, Whole, Filled, St
    <3>2. UNCHANGED <<GcSwap(flash), GcSwap(Done), OpenOK(flash), OpenOK(Done)>>
      BY <1>1, <1>3, <2>3 DEF GcSwap, OpenOK, St, SwapSt, SwapTag, FullBelow, EmptyFrom
    <3> QED
      BY <2>1, <3>1, <3>2 DEF IsReady, Known
  <2>5. UNCHANGED <<WriteResult(Done), GcResult(Done), Head1({"gc"}), timeouts, gc>>
    BY <1>1, <1>3, <2>3 DEF WriteResult, GcResult, St, SwapSt, SwapTag, Head1, Cur
  <2> QED
    BY <2>1, <2>2, <2>3, <2>4, <2>5 DEF IsReady
<1> QED
    BY <1>2, <1>4, <1>5, <1>6, <1>7, <1>8 DEF IInv

\* Every step of the storage, the flash, a caller or the power.
LEMMA NextInv ==
    ASSUME IInv, [Next]_vars, Sound'
    PROVE  IInv'
    BY FdsInitInv, InitExecuteInv, WriteExecuteInv, DeleteExecuteInv, DeleteFileExecuteInv,
       GcExecuteInv, FreeInv, FlashDoneInv, FlashTimeoutInv, ResetInv, CallsInv, StutterInv
    DEF Next, QueueProcess

\* no record is open unless the storage is ready
LEMMA ClosedStep ==
    ASSUME IInv, Closed, [Next]_vars
    PROVE  Closed'
<1> SUFFICES ASSUME status' # "ready"
             PROVE  opened' = NotOpen
    BY DEF Closed
<1>1. CASE FdsInit
    BY <1>1 DEF FdsInit, Closed, users
<1>2. CASE InitExecute
  <2>1. status # "ready"
    <3>1. loop.at = "run" /\ Cur.op = "init"
      BY <1>2 DEF InitExecute, Process
    <3>2. Head1({"init"}) \/ queue = <<>>
      BY <3>1 DEF Head1
    <3> QED
      BY <3>1, <3>2 DEF IInv, Control, StatusOK, LoopOK
  <2> QED
    BY <1>2, <2>1 DEF InitExecute, Closed, users
<1>3. CASE WriteExecute \/ DeleteExecute \/ DeleteFileExecute
    BY <1>3 DEF WriteExecute, DeleteExecute, DeleteFileExecute, users, Closed
<1>4. CASE GcExecute
    BY <1>4, Collecting DEF GcExecute
<1>5. CASE Free \/ FlashDone \/ FlashTimeout
    BY <1>5 DEF Free, FlashDone, FlashTimeout, users, Closed
<1>6. CASE Reset
    BY <1>6 DEF Reset
<1>7. CASE Calls
    BY <1>7 DEF Calls, Write, WriteReserved, DeleteFile, Delete, Open, Update, Gc, Reserve,
       ReserveCancel, Close, MayCall
<1>8. CASE UNCHANGED vars
    BY <1>8 DEF vars, users, Closed
<1> QED
    BY <1>1, <1>2, <1>3, <1>4, <1>5, <1>6, <1>7, <1>8 DEF Next, QueueProcess

\* The invariant holds of the storage.
LEMMA Invariance == Spec => []Inductive
<1>1. Init => Inductive
    BY InitInv DEF Inductive, Closed, Init
<1>2. ASSUME Inductive, [Next]_vars
      PROVE  Inductive'
    BY <1>2, SoundStays, NextInv, ClosedStep DEF Inductive
<1> QED
    BY <1>1, <1>2, PTL DEF Spec

\* For all numbers of pages, places, queued operations, calls, time-outs and resets, as
\* long as no flaw but the leak of words is met: the state of fds.c has its type, the
\* bounds of the queue, of offsets and of reserved words included.
THEOREM TypeCorrect == Spec => [](Sound => TypeOK)
<1>1. Inductive => (Sound => TypeOK)
  <2> SUFFICES ASSUME IInv, Sound
               PROVE  TypeOK
    BY DEF Inductive
  <2>1. \A p \in Phys : flash[p].tag \in {"erased", "swap", "data"} /\ flash[p].rec \in [Slots -> Slot]
    <3>1. flash \in FlashType
      BY DEF IInv, FlashOK, Consistent
    <3> QED
      BY <3>1 DEF FlashType
  <2>2. /\ pages \in [Index -> [type : {"none", "erased", "data"}, phys : Phys \cup {0},
                            offset : Offsets, reserved : 0 .. PageSlots,
                            canGc : BOOLEAN, open : 0 .. 1]]
        /\ swap \in [phys : Phys \cup {0}, offset : Offsets]
    <3>1. CASE status = "off"
      <4>1. pages = [i \in Index |-> NoPage] /\ swap = [phys |-> 0, offset |-> 1]
        BY <3>1 DEF IInv, IsOff
      <4>2. 1 \in Offsets /\ 0 \in 0 .. PageSlots
        BY FdsAssumption DEF Offsets
      <4> QED
        BY <4>1, <4>2 DEF NoPage
    <3>2. CASE status # "off"
      <4>1. PagesOK
        BY <3>2 DEF IInv
      <4> QED
        BY <4>1 DEF PagesOK
    <3> QED
      BY <3>1, <3>2
  <2> QED
    BY <2>1, <2>2 DEF IInv, Control, QueueOK, LoopOK, StatusOK, GcType, Sound, TypeOK
<1> QED
    BY <1>1, Invariance, PTL

\* For all parameters: the words that fds_reserve, fds_record_write and fds_record_update
\* take from a page are given back or used, and fit, whatever collections move meanwhile,
\* as long as no flaw is met.
THEOREM SpaceIsAccounted == Spec => []SpaceAccounted
<1>1. Inductive => SpaceAccounted
  <2> SUFFICES ASSUME IInv, status = "ready", damage = {}
               PROVE  SpaceAccounted
    BY DEF Inductive, Sound, SpaceAccounted
  <2>1. SpaceOK
    BY DEF IInv, IsReady
  <2> QED
    BY <2>1 DEF SpaceOK, Claims, Claimed, SpaceAccounted
<1> QED
    BY <1>1, Invariance, PTL

\* For all parameters: a record is written only where the flash is erased.
THEOREM NothingOverwritten == Spec => []WritesOnErased
<1>1. Inductive => WritesOnErased
  <2> SUFFICES ASSUME IInv, busy.kind = "slot", busy.val.st = "begun"
               PROVE  flash[busy.phys].rec[busy.slot].st = "erased"
    BY DEF Inductive, WritesOnErased
  <2>1. NoBusy.kind = "none"
    BY DEF NoBusy
  <2>2. \A p \in Phys : /\ Tag(p, "swap").kind = "swap" /\ Tag(p, "data").kind = "data"
                        /\ Erase(p).kind = "erase"
    BY DEF NoBusy, Tag, Erase
  <2>3. busy.val.st = "begun" => flash[busy.phys].rec[busy.slot].st = "erased"
    BY <2>1, <2>2 DEF IInv, BusyOK
  <2> QED
    BY <2>3
<1> QED
    BY <1>1, Invariance, PTL

\* For all parameters: without time-outs a place that holds no valid record is on a page
\* that the next fds_gc collects.
THEOREM NoGarbageIsLost == Spec => []GarbageIsKnown
<1>1. Inductive => GarbageIsKnown
  <2> SUFFICES ASSUME IInv, status = "ready", timeouts = 0,
                      NEW i \in Index, NEW s \in 1 .. pages[i].offset - 1,
                      ~Valid(flash, pages[i].phys, s), ~pages[i].canGc
               PROVE  FALSE
    BY DEF Inductive, GarbageIsKnown
  <2>1. Known(flash) /\ PagesOK
    BY DEF IInv, IsReady
  <2>2. pages[i].phys \in Phys /\ pages[i].offset \in Offsets /\ Phys \subseteq Nat \ {0}
    BY <2>1, FdsAssumption DEF PagesOK, Phys
  <2>3. s \in Slots /\ s < pages[i].offset /\ 1 .. s \subseteq Slots
        /\ \A t \in 1 .. s : t < pages[i].offset
    BY <2>2, FdsAssumption DEF Slots, Offsets
  <2>4. Filled(flash, i) /\ Whole(flash, i)
    BY <2>1 DEF Known, Kept, GcSwap
  <2>5. St(flash, i, s) = "whole" /\ \A t \in 1 .. s : St(flash, i, t) # "erased"
    BY <2>3, <2>4 DEF Filled, Whole
  <2> QED
    BY <2>2, <2>5 DEF Valid, Reachable, St
<1> QED
    BY <1>1, Invariance, PTL

\* For all parameters: a record that fds_record_open gave out is neither moved nor erased
\* before fds_record_close.
THEOREM OpenRecordsStay == Spec => []OpenStays
<1>1. Inductive => OpenStays
  <2> SUFFICES ASSUME IInv, Closed, opened # NotOpen
               PROVE  /\ flash[opened.phys].rec[opened.slot].id = opened.id
                      /\ pages[opened.page].phys = opened.phys
    BY DEF Inductive, OpenStays
  <2>1. IsReady
    BY DEF IInv, Closed
  <2> QED
    BY <2>1 DEF IsReady, Known, OpenOK, Opens
<1> QED
    BY <1>1, Invariance, PTL
===============================================================================
