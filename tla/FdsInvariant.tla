----------------------------- MODULE FdsInvariant -----------------------------
(***************************************************************************)
(* What fds.c relies on from one step to the next: the inductive invariant *)
(* of Fds.  What is written in flash is described twice, as it is and as   *)
(* it will be when the operation under way is over (Done), for the device  *)
(* may be switched off before or after, and the next step takes the second *)
(* for granted.                                                            *)
(***************************************************************************)
EXTENDS Fds

\* the state of place s of page i
St(fl, i, s) == fl[pages[i].phys].rec[s].st

\* the flash, once the operation under way is over
Done == Applied(flash, busy)

\* the operation of queue_process is one of these
Head1(ops) == queue # <<>> /\ Cur.op \in ops

\* queue_process waits for the flash, or is about to be called with a success
Going == busy # NoBusy \/ (loop.at = "run" /\ loop.ret = "success")

\* The page of a write or an update that has begun: what it writes there lies at the
\* offset, which moves when it ends.
Writing ==
    IF Head1({"write", "update"}) /\ Cur.step \in {"final", "flag", "done"} /\ loop.at # "event"
    THEN Cur.page ELSE 0

\* the operations, the steps they go through ...
Kinds == {"init", "write", "update", "delete", "deleteFile", "gc"}
Steps == {"promote", "eraseSwap", "tagSwap", "tagData", "begin", "find", "final", "flag", "done", "gc"}

\* ... and what is queued of them
Operation == [op : Kinds, step : Steps, page : Index \cup {0}, id : Nat,
              file : Files \cup {NoFile}, old : Nat]

\* the steps of each operation, and the page that its words were taken from
OpOK(o) ==
    /\ o.op = "init" => o.step \in {"promote", "eraseSwap", "tagSwap", "tagData"}
    /\ o.op = "write" => o.step \in {"begin", "final", "done"}
    /\ o.op = "update" => o.step \in {"find", "final", "flag", "done"}
    /\ o.op = "delete" => o.step \in {"flag", "done"}
    /\ o.page # 0 <=> o.op \in {"write", "update"}

\* an operation behind the first one is as the call has queued it
Unstarted(o) ==
    /\ o.op # "init"
    /\ o.op = "write" => o.step = "begin"
    /\ o.op = "update" => o.step = "find"
    /\ o.op = "delete" => o.step = "flag"

\* the queue
QueueOK ==
    /\ queue \in Seq(Operation) /\ Len(queue) <= QueueSize
    /\ \A k \in 1 .. Len(queue) : OpOK(queue[k]) /\ (k > 1 => Unstarted(queue[k]))

\* queue_process waits exactly when the flash is busy or nothing is queued
LoopOK ==
    /\ loop.at \in {"idle", "run", "event"}
    /\ loop.ret \in {"success", "timeout", "notFound", "internal"}
    /\ busy # NoBusy => queue # <<>>
    /\ loop.at = "idle" <=> (queue = <<>> \/ busy # NoBusy)

\* while fds_init is under way its operation is the only one
StatusOK ==
    /\ status \in {"off", "starting", "ready", "failed"}
    /\ status = "off" => queue = <<>>
    /\ status = "starting" => Head1({"init"}) /\ Len(queue) = 1 /\ loop.at # "event"
    /\ status = "failed" => queue = <<>> \/ (Len(queue) = 1 /\ loop.at = "event")
    /\ status = "ready" => (Head1({"init"}) => loop.at = "event")

\* What is written to flash: a record begins on an erased place, and one that is
\* whole is deleted or written again, never replaced.
BusyOK ==
    \/ busy = NoBusy
    \/ \E p \in Phys : busy \in {Tag(p, "swap"), Tag(p, "data"), Erase(p)}
    \/ /\ busy.kind = "slot"
       /\ busy = WriteSlot(busy.phys, busy.slot, busy.val)
       /\ busy.phys \in Phys /\ busy.slot \in Slots /\ busy.val \in Slot
       /\ busy.val.st # "erased"
       /\ LET old == flash[busy.phys].rec[busy.slot] IN
          /\ busy.val.st = "begun" => old.st = "erased"
          /\ old.st = "whole" => busy.val.st \in {"whole", "dirty"} /\ busy.val.id = old.id

\* the pages and the swap page are the flash pages, each once
PagesOK ==
    /\ pages \in [Index -> [type : {"erased", "data"}, phys : Phys,
                            offset : Offsets, reserved : 0 .. PageSlots,
                            canGc : BOOLEAN, open : 0 .. 1]]
    /\ swap \in [phys : Phys, offset : Offsets]
    /\ \A i, j \in Index : pages[i].phys = pages[j].phys => i = j
    /\ \A i \in Index : pages[i].phys # swap.phys
    /\ \A p \in Phys : p = swap.phys \/ \E i \in Index : p = pages[i].phys
    /\ status = "ready" => \A i \in Index : pages[i].type = "data"

\* The places of page i are used exactly below its offset, but for the record that
\* is being written.
Filled(fl, i) ==
    \A s \in Slots :
       /\ s < pages[i].offset => St(fl, i, s) # "erased"
       /\ (s >= pages[i].offset /\ ~(i = Writing /\ s = pages[i].offset)) => St(fl, i, s) = "erased"

\* the page that is collected is being erased, or has just been
Erasing == Head1({"gc"}) /\ (busy = Erase(pages[gc.cur].phys) \/ (loop.at = "run" /\ loop.ret = "success"))

\* Page i is tagged as data and filled up to its offset, but for the time in which
\* the collection erases it and tags its successor.
Kept(fl, i) ==
    \/ i = gc.cur /\ gc.state = "erase" /\ Erasing /\ fl[pages[i].phys] = ErasedPage
    \/ /\ \/ fl[pages[i].phys].tag = "data"
          \/ i = gc.cur /\ gc.state = "promote" /\ fl[pages[i].phys].tag = "swap"
       /\ Filled(fl, i)

\* what is not a whole record is on a page that a collection looks at
Whole(fl, i) ==
    timeouts = 0 => \A s \in Slots : s < pages[i].offset => pages[i].canGc \/ St(fl, i, s) = "whole"

\* the swap page
SwapSt(fl, s) == fl[swap.phys].rec[s].st
SwapTag(fl) == fl[swap.phys].tag
EmptyFrom(fl, n) == \A s \in Slots : s >= n => SwapSt(fl, s) = "erased"
FullBelow(fl, n) == \A s \in Slots : s < n => SwapSt(fl, s) # "erased"

\* the collection
GcType ==
    /\ gc \in [state : {"begin", "copy", "erase", "discard", "promote", "tagSwap"},
               cur : Index, src : Slots \cup {0}, resume : BOOLEAN, todo : SUBSET Index]

\* What is on the swap page at each step of the collection: copies below its offset
\* and nothing behind, of records that lie below gc.src on the page collected.
GcSwap(fl) ==
    /\ SwapTag(fl) # "data"
    /\ gc.state = "begin" =>
         swap.offset = 1 /\ EmptyFrom(fl, 1) /\ gc.src = 0 /\ SwapTag(fl) = "swap"
    /\ gc.state = "tagSwap" =>
         swap.offset = 1 /\ EmptyFrom(fl, 1) /\ gc.src = 0
    /\ gc.state = "promote" => swap.offset = 1 /\ fl[swap.phys] = ErasedPage
    /\ gc.state = "discard" => swap.offset = 1
    /\ gc.state = "copy" =>
         /\ SwapTag(fl) = "swap"
         /\ gc.src # 0 /\ swap.offset <= gc.src /\ gc.src < pages[gc.cur].offset
         /\ St(fl, gc.cur, gc.src) = "whole"
         /\ FullBelow(fl, swap.offset) /\ EmptyFrom(fl, swap.offset + 1)
         /\ \/ SwapSt(fl, swap.offset) = "erased"
            \/ fl[swap.phys].rec[swap.offset] = fl[pages[gc.cur].phys].rec[gc.src]
    /\ gc.state = "erase" =>
         /\ SwapTag(fl) = "swap"
         /\ swap.offset <= gc.src + 1 /\ gc.src < pages[gc.cur].offset
         /\ FullBelow(fl, swap.offset) /\ EmptyFrom(fl, swap.offset)
    /\ gc.state # "begin" => pages[gc.cur].canGc

\* what the collection finds done when it is called with a success
GcResult(fl) ==
    /\ gc.state = "copy" => SwapSt(fl, swap.offset) # "erased"
    /\ gc.state = "erase" => fl[pages[gc.cur].phys] = ErasedPage
    /\ gc.state = "discard" => fl[swap.phys] = ErasedPage
    /\ gc.state = "promote" => fl[pages[gc.cur].phys].tag = "data"
    /\ gc.state = "tagSwap" => SwapTag(fl) = "swap"

\* A collection that was given up waits for the next call of fds_gc, which sets
\* resume, and is not the first of the queue unless it goes on.
GcWaits ==
    gc.state # "begin" =>
      /\ ~gc.resume /\ (\E k \in 1 .. Len(queue) : queue[k].op = "gc") =>
           (Cur.op = "gc" /\ loop.at # "event") \/ (loop.at # "idle" /\ loop.ret # "success")
      /\ timeouts = 0 => Head1({"gc"}) /\ Going

\* what a write or an update finds done when it is called with a success
WriteResult(fl) ==
    Writing # 0 =>
      /\ Cur.step = "final" => St(fl, Writing, pages[Writing].offset) = "begun"
      /\ Cur.step \in {"flag", "done"} => St(fl, Writing, pages[Writing].offset) = "whole"
      /\ (Cur.op = "update" /\ Cur.step \in {"final", "flag"}) =>
           /\ desc \in [page : Index, slot : Slots]
           /\ desc.slot < pages[desc.page].offset
           /\ St(fl, desc.page, desc.slot) = "whole"

\* the pages and the swap page at each step of fds_init
InitOK(fl) ==
    /\ \A i \in Index : Filled(fl, i) /\ fl[pages[i].phys].tag = pages[i].type /\ Whole(fl, i)
    /\ \A i \in Index : pages[i].type = "erased" => pages[i].offset = 1
    /\ Cur.step \in {"promote", "eraseSwap"} => /\ SwapTag(fl) = "swap"
                            /\ FullBelow(fl, swap.offset) /\ EmptyFrom(fl, swap.offset)
    /\ Cur.step = "tagSwap" => swap.offset = 1 /\ fl[swap.phys] = ErasedPage
    /\ Cur.step = "tagData" => swap.offset = 1 /\ EmptyFrom(fl, 1) /\ SwapTag(fl) = "swap"

\* the operations that have words on page i, and whoever has reserved one
Claimed(i) == {k \in 1 .. Len(queue) : queue[k].page = i /\ ~(k = 1 /\ loop.at = "event")}
Claims(i) == Cardinality(Claimed(i)) + (IF reserved = i THEN 1 ELSE 0)

\* claims and reserved words are as many, and there is a place for each
SpaceOK ==
    /\ reserved \in Index \cup {0}
    /\ \A i \in Index :
         /\ Claims(i) <= pages[i].reserved
         /\ damage = {} => Claims(i) = pages[i].reserved
         /\ pages[i].offset + pages[i].reserved <= PageSlots + 1

\* the record that is open is where it was
OpenOK(fl) ==
    opened # NotOpen =>
       /\ fl[opened.phys].rec[opened.slot].id = opened.id
       /\ fl[opened.phys].rec[opened.slot].st \in {"whole", "dirty"}

\* a page is open exactly if its record is
Opens ==
    /\ opened \in [id : Nat, phys : Phys \cup {0}, slot : Slots \cup {0}, page : Index \cup {0}, moved : BOOLEAN]
    /\ opened # NotOpen => opened.page # 0 /\ opened.slot # 0 /\ pages[opened.page].phys = opened.phys
    /\ \A i \in Index : pages[i].open = (IF opened.page = i THEN 1 ELSE 0)
    /\ opened.page = 0 => opened = NotOpen

\* the flash as a whole
FlashOK(fl) == Consistent(fl) /\ (timeouts = 0 => SwapIsWhole(fl))

\* ... and with what the storage knows of it
Known(fl) ==
    /\ \A i \in Index : Kept(fl, i) /\ Whole(fl, i)
    /\ GcSwap(fl)
    /\ OpenOK(fl)

\* the parts that no page is about
Control == QueueOK /\ LoopOK /\ StatusOK /\ GcType /\ timeouts \in Nat /\ latest \in Nat

\* before fds_init
IsOff ==
    /\ busy = NoBusy /\ opened = NotOpen /\ reserved = 0
    /\ pages = [i \in Index |-> NoPage] /\ swap = [phys |-> 0, offset |-> 1]

\* while fds_init is under way
IsStarting ==
    /\ gc.state = "begin" /\ gc.src = 0 /\ ~gc.resume
    /\ Going => InitOK(Done)
    /\ opened = NotOpen /\ reserved = 0
    /\ \A i \in Index : pages[i].reserved = 0 /\ pages[i].open = 0

\* while the storage is used
IsReady ==
    /\ GcWaits /\ SpaceOK /\ Opens
    /\ Known(flash) /\ Known(Done)
    /\ Going => WriteResult(Done)
    /\ (Writing # 0 /\ timeouts = 0) => Going
    /\ (Going /\ Head1({"gc"}) /\ ~gc.resume) => GcResult(Done)

\* The invariant: the flash is what the storage may leave behind, now and once the
\* operation under way is over, and what the storage knows of it is true.
IInv ==
    /\ Control /\ BusyOK
    /\ FlashOK(flash) /\ FlashOK(Done)
    /\ status # "off" => PagesOK
    /\ status = "off" => IsOff
    /\ status = "starting" => IsStarting
    /\ status = "ready" => IsReady

\* Only a record that was opened is open, in whatever state the storage is.
Closed == status # "ready" => opened = NotOpen

\* The inductive invariant: as long as none of the code's flaws has been met, but
\* for the one that leaves words reserved.
Inductive == Sound => IInv /\ Closed

-------------------------------------------------------------------------------
\* The ids of records.  No record has an id beyond the last one given, ...
Bound(fl) ==
    \A p \in Phys : \A s \in Slots : fl[p].rec[s].st = "whole" => fl[p].rec[s].id <= latest

\* ... those given to queued operations are different, ...
QueueIds ==
    /\ \A k \in 1 .. Len(queue) :
          IF queue[k].op \in {"write", "update"} THEN queue[k].id \in 1 .. latest ELSE queue[k].id = 0
    /\ \A j, k \in 1 .. Len(queue) : queue[j].id # 0 /\ queue[j].id = queue[k].id => j = k

\* ... and not used yet, but for the one of an operation that has got to its record.
Unused(k) == k = 1 => loop.at # "event" /\ queue[k].step \in {"begin", "find", "final"}
Fresh(fl) ==
    \A k \in 1 .. Len(queue) : queue[k].id # 0 /\ Unused(k) =>
        \A p \in Phys : \A s \in Slots : fl[p].rec[s].st = "whole" => fl[p].rec[s].id # queue[k].id

\* the swap page has copies of records that the collection has passed
CopyOf(fl, s, n) ==
    \E t \in Slots : t < n /\ fl[swap.phys].rec[s] = fl[pages[gc.cur].phys].rec[t]
Copies(fl) ==
    /\ gc.state = "copy" => \A s \in Slots : s < swap.offset => CopyOf(fl, s, gc.src)
    /\ gc.state = "erase" => \/ fl[pages[gc.cur].phys] = ErasedPage
                             \/ \A s \in Slots : s < swap.offset => CopyOf(fl, s, gc.src + 1)

Ids(fl) ==
    /\ IdsOnce(fl) /\ Fresh(fl)
    /\ status # "off" => Bound(fl)
    /\ status = "ready" => Copies(fl)

\* no two records have the same id, nor a record and an operation
IdsInv == QueueIds /\ Ids(flash) /\ Ids(Done)
IdsInductive == Sound => IdsInv

-------------------------------------------------------------------------------
\* The records.  Those of the page that is collected are on the swap page, too, as far
\* as the collection has come: all of them before the page is erased.
HasCopy(fl, t) ==
    \E s \in Slots : s < swap.offset /\ fl[swap.phys].rec[s] = fl[pages[gc.cur].phys].rec[t]
AllCopied(fl) ==
    LET whole == {t \in Slots : St(fl, gc.cur, t) = "whole"} IN
    /\ gc.state = "copy" => \A t \in whole : t < gc.src => HasCopy(fl, t)
    /\ gc.state = "erase" => \/ fl[pages[gc.cur].phys] = ErasedPage
                             \/ \A t \in whole : HasCopy(fl, t)

\* what an operation does to the records in the one step that changes them
Changed(o, old, new) ==
    \/ o.op \in {"write", "update"} /\ new = old \cup {[id |-> o.id, file |-> o.file]}
    \/ /\ \/ o.op = "update" /\ [id |-> o.id, file |-> o.file] \in old
          \/ o.op = "delete"
       /\ new = {r \in old : r.id # o.old}
    \/ o.op = "deleteFile" /\ \E r \in old : r.file = o.file /\ new = old \ {r}

\* the operation under way changes nothing else, or nothing
OneChange ==
    \/ Live(Done) = Live(flash)
    \/ queue # <<>> /\ Changed(Cur, Live(flash), Live(Done))

\* a write or an update has written its record, an update has found the old one ...
HasWritten(fl) ==
    /\ (Writing # 0 /\ Cur.step \in {"flag", "done"}) =>
         fl[pages[Writing].phys].rec[pages[Writing].offset] =
            [st |-> "whole", id |-> Cur.id, file |-> Cur.file]
    /\ (Writing # 0 /\ Cur.op = "update" /\ Cur.step \in {"final", "flag"}) =>
         fl[pages[desc.page].phys].rec[desc.slot].id = Cur.old

\* ... which it, or a deletion, has deleted when it is done
HasDeleted(fl) ==
    (Head1({"update", "delete"}) /\ Cur.step = "done") => \A r \in Live(fl) : r.id # Cur.old

\* up to the token, a deletion of a file has found all its records
Passed(fl) ==
    \A d \in [page : Index, slot : Slots] :
       (~Before(tok, d) /\ St(fl, d.page, d.slot) = "whole") =>
          fl[pages[d.page].phys].rec[d.slot].file # Cur.file
TokOK ==
    tok # NoDesc =>
       /\ status = "ready" /\ Head1({"deleteFile"}) /\ loop.at # "event"
       /\ tok \in [page : Index, slot : Slots]
       /\ Going => Passed(Done)

\* fds_init erases the swap page only when no page is erased
ErasesCopies ==
    (status = "starting" /\ Going /\ Cur.step = "eraseSwap") =>
        \A p \in Phys : Done[p].tag # "erased"

\* The records that can be found are those of the flash, and operations change them
\* as they should.
RecordsInv ==
    /\ OneChange /\ TokOK /\ ErasesCopies
    /\ status = "ready" =>
         /\ AllCopied(flash) /\ AllCopied(Done)
         /\ Going => HasWritten(Done) /\ HasDeleted(Done)
    /\ status # "ready" => kept = Live(flash) /\ Live(Done) = Live(flash)
RecordsInductive == Sound => RecordsInv

===============================================================================
