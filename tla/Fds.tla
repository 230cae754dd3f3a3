--------------------------------- MODULE Fds ---------------------------------
(***************************************************************************)
(* components/libraries/fds/fds.c: records in flash pages that can only be *)
(* written once between two erasures, a queue of operations of which the   *)
(* first is under way, and a garbage collection that copies the records of *)
(* a page to the swap page and makes the two change places.                *)
(*                                                                         *)
(* Each operation is a chain of flash operations: queue_process starts one *)
(* and returns, and is called again with its result.  The callers of the   *)
(* module run meanwhile, or in the event with which an operation ends.     *)
(* Flash operations time out, and the device is switched off at any time.  *)
(***************************************************************************)
EXTENDS Integers, Sequences, FiniteSets, FiniteSetsExt

CONSTANTS
    PhyPages,     \* the flash pages, FDS_VIRTUAL_PAGES of them (3)
    PageSlots,    \* the records that fit on a page; all have one length
    Files,        \* the file ids
    QueueSize,    \* FDS_OP_QUEUE_SIZE
    FirstFlash,   \* what the flash may hold when the model starts
    MaxCalls,     \* bound: the calls that change something
    MaxTimeouts,  \* bound: the flash operations that time out
    MaxResets     \* bound: how often the device is switched off

ASSUME FdsAssumption ==
    /\ PhyPages \in Nat /\ PhyPages > 1
    /\ PageSlots \in Nat \ {0}
    /\ QueueSize \in Nat \ {0}

VARIABLES
    flash,     \* of each physical page: its tag and its records
    status,    \* m_flags, and "off" before fds_init
    pages,     \* m_pages
    swap,      \* m_swap_page
    gc,        \* m_gc
    latest,    \* m_latest_rec_id
    queue,     \* m_queue, the current operation (m_p_cur_op) first
    loop,      \* where queue_process is
    busy,      \* the flash operation under way
    desc,      \* the descriptor an update keeps between its steps
    tok,       \* the token a file deletion keeps
    reserved,  \* a caller's reservation: its page, or 0
    opened,    \* the record a caller has open
    kept,      \* ghost: the records that were there when it was switched off
    damage,    \* ghost: the flaws of the code that this run has met
    calls, timeouts, resets

ram    == <<pages, swap, gc, latest>>
static == <<desc, tok>>
users  == <<reserved, opened>>
ghosts == <<kept, damage>>
counts == <<calls, timeouts, resets>>
vars   == <<flash, status, ram, queue, loop, busy, static, users, ghosts, counts>>

Phys    == 1 .. PhyPages
Index   == 1 .. PhyPages - 1     \* of m_pages: FDS_DATA_PAGES entries
Slots   == 1 .. PageSlots
Offsets == 1 .. PageSlots + 1
NoFile  == "none"
NoDesc  == [page |-> 0, slot |-> 0]
NotOpen == [id |-> 0, phys |-> 0, slot |-> 0, page |-> 0, moved |-> FALSE]

-----------------------------------------------------------------------------
(* The flash: words only lose bits until the page is erased.               *)

\* A record that is "begun" has its header and its data, but no file id yet,
\* for which header_check takes it as dirty.
ErasedSlot == [st |-> "erased", id |-> 0, file |-> NoFile]
ErasedPage == [tag |-> "erased", rec |-> [s \in Slots |-> ErasedSlot]]

NoBusy == [kind |-> "none", phys |-> 0, slot |-> 0, val |-> ErasedSlot]
Tag(p, t)         == [NoBusy EXCEPT !.kind = t, !.phys = p]
Erase(p)          == [NoBusy EXCEPT !.kind = "erase", !.phys = p]
WriteSlot(p, s, r) == [kind |-> "slot", phys |-> p, slot |-> s, val |-> r]

\* FDS_PAGE_TAG_DATA is FDS_PAGE_TAG_SWAP with a bit less
TagOver(old, new) == IF "data" \in {old, new} THEN "data" ELSE new

Applied(fl, b) ==
    CASE b.kind = "none"  -> fl
      [] b.kind = "erase" -> [fl EXCEPT ![b.phys] = ErasedPage]
      [] b.kind = "slot"  -> [fl EXCEPT ![b.phys].rec[b.slot] = b.val]
      [] OTHER            -> [fl EXCEPT ![b.phys].tag = TagOver(@, b.kind)]

\* header_has_next: nothing behind an erased word is seen
Reachable(fl, p, s) ==
    p # 0 /\ \A t \in 1 .. s : fl[p].rec[t].st # "erased"

Valid(fl, p, s) == Reachable(fl, p, s) /\ fl[p].rec[s].st = "whole"

ValidSlots(fl, p) == {s \in Slots : Valid(fl, p, s)}

\* mutant of Scan: up to the first record that is not valid
ScanValid(p) == Min({s \in Slots : ~Valid(flash, p, s)} \cup {PageSlots + 1})

\* page_scan: the offset it computes, and what it finds
Scan(p) == Min({s \in Slots : flash[p].rec[s].st = "erased"} \cup {PageSlots + 1})

Garbage(p) == \E s \in Slots : Reachable(flash, p, s) /\ ~Valid(flash, p, s)

Slot == [st : {"erased", "begun", "whole", "dirty"}, id : Nat, file : Files \cup {NoFile}]

FlashType == [Phys -> [tag : {"erased", "swap", "data"}, rec : [Slots -> Slot]]]

\* What the storage leaves in flash, whenever it is switched off: the places of
\* a page are used in their order, an erased page is empty, one page at most is
\* tagged as swap, and one page is not of data.
InOrder(page) ==
    \A s \in Slots :
       page.rec[s].st = "erased" =>
          /\ page.rec[s] = ErasedSlot
          /\ \A t \in Slots : t > s => page.rec[t].st = "erased"

Consistent(fl) ==
    /\ fl \in FlashType
    /\ \A p \in Phys : InOrder(fl[p]) /\ (fl[p].tag = "erased" => fl[p] = ErasedPage)
    /\ \A p, q \in Phys : fl[p].tag = "swap" /\ fl[q].tag = "swap" => p = q
    /\ \E p \in Phys : fl[p].tag # "data"

\* A record is once in flash, but for its copy on the swap page while the page it
\* lies on is collected, before that is erased.
MayBeTwice(fl, p, q) ==
    /\ fl[p].tag = "data" /\ fl[q].tag = "swap"
    /\ \A x \in Phys : fl[x].tag # "erased"

IdsOnce(fl) ==
    \A p, q \in Phys : \A s, t \in Slots :
       (/\ fl[p].rec[s].st = "whole" /\ fl[q].rec[t].st = "whole"
        /\ fl[p].rec[s].id = fl[q].rec[t].id)
       => \/ p = q /\ s = t
          \/ /\ fl[p].rec[s] = fl[q].rec[t]
             /\ MayBeTwice(fl, p, q) \/ MayBeTwice(fl, q, p)

\* the swap page has copies of records only
SwapIsWhole(fl) ==
    \A p \in Phys : \A s \in Slots :
       fl[p].tag = "swap" => fl[p].rec[s].st \in {"erased", "whole"}

RecordsOn(fl, p) ==
    {[id |-> fl[p].rec[s].id, file |-> fl[p].rec[s].file] : s \in ValidSlots(fl, p)}

\* The records of a flash that is not in use.  Those of the swap page are copies, unless
\* a page is erased: then fds_init promotes it.
Counts(fl, p) ==
    \/ fl[p].tag = "data"
    \/ fl[p].tag = "swap" /\ \E q \in Phys : fl[q].tag = "erased"

Live(fl) == UNION {RecordsOn(fl, p) : p \in {q \in Phys : Counts(fl, q)}}

-----------------------------------------------------------------------------
(* The records that can be found                                           *)

\* While the page that is collected is being erased its records are in the
\* swap; fds_record_find does not see them there, until the pages are swapped.
Holds(i) == IF gc.state = "erase" /\ i = gc.cur THEN swap.phys ELSE pages[i].phys

Stored(fl) ==
    UNION {RecordsOn(fl, Holds(i)) : i \in {j \in Index : pages[j].type = "data"}}

Records == IF status = "ready" THEN Stored(flash) ELSE kept

\* record_find_by_desc, of a descriptor that is not (or no longer) resolved
Found(id) ==
    {d \in [page : Index, slot : Slots] :
        /\ Valid(flash, pages[d.page].phys, d.slot)
        /\ flash[pages[d.page].phys].rec[d.slot].id = id}

Before(d, e) == d.page < e.page \/ (d.page = e.page /\ d.slot < e.slot)
First(ds)    == CHOOSE d \in ds : \A e \in ds \ {d} : Before(d, e)
At(d)        == flash[pages[d.page].phys].rec[d.slot]

\* record_find in a file, resumed at tok
FoundInFile(f) ==
    {d \in [page : Index, slot : Slots] :
        /\ pages[d.page].type = "data"
        /\ Valid(flash, pages[d.page].phys, d.slot)
        /\ At(d).file = f
        /\ Before(tok, d)}

-----------------------------------------------------------------------------
(* Operations                                                              *)

Op(op, step) ==
    [op |-> op, step |-> step, page |-> 0, id |-> 0, file |-> NoFile, old |-> 0]

Cur    == Head(queue)
Step(s) == queue' = <<[Cur EXCEPT !.step = s]>> \o Tail(queue)

Idle       == [at |-> "idle", ret |-> "success", own |-> FALSE]
Again(ret, own) == [at |-> "run", ret |-> ret, own |-> own]
Event(ret) == [at |-> "event", ret |-> ret, own |-> loop.own]

\* queue_process calls the operation's handler with the previous result ...
Process(kinds) == loop.at = "run" /\ Cur.op \in kinds

\* ... which starts a flash operation (FDS_OP_EXECUTING)
Executes(b) == busy' = b /\ loop' = Idle

\* ... or ends the operation: its event is sent
Ends(ret) == loop' = Event(ret) /\ UNCHANGED busy

Met(flaw, when) == damage' = damage \cup (IF when THEN {flaw} ELSE {})

-----------------------------------------------------------------------------
(* fds_init                                                                *)

\* pages_init: an erased page is the swap page as long as there is none
IsData(p)   == flash[p].tag = "data"
IsSwap(p)   == flash[p].tag = "swap"
IsErased(p) == flash[p] = ErasedPage
Second(p)   == IsErased(p) /\ \E q \in 1 .. p - 1 : ~IsData(q)
FirstErased == {p \in Phys : IsErased(p) /\ ~Second(p)}

\* the pages it enters in m_pages: an erased page that was to be the swap page
\* is entered when the swap page is met
Entered ==
    {p \in Phys : IsData(p) \/ Second(p)}
        \cup {p \in FirstErased : \E q \in Phys : IsSwap(q) /\ p < q}

SwapPage == IF \E p \in Phys : IsSwap(p) THEN CHOOSE p \in Phys : IsSwap(p)
            ELSE Max(FirstErased \cup {0})

\* in the order in which it enters them
Turn(p) == IF p \in FirstErased THEN SwapPage ELSE p
Rank(p) == Cardinality({q \in Entered : Turn(q) <= Turn(p)})
Layout  == [i \in 1 .. Cardinality(Entered) |-> CHOOSE p \in Entered : Rank(p) = i]

\* m_gc.cur_page: 0 (here 1) if no page is a Second one
CurAtBoot == Max({i \in DOMAIN Layout : Second(Layout[i])} \cup {1})

NoPage == [type |-> "none", phys |-> 0, offset |-> 1,
           reserved |-> 0, canGc |-> FALSE, open |-> 0]

PageAt(i) ==
    IF i \notin DOMAIN Layout THEN NoPage
    ELSE [NoPage EXCEPT
            !.phys   = Layout[i],
            !.type   = IF IsErased(Layout[i]) THEN "erased" ELSE "data",
            !.offset = Scan(Layout[i]),
            !.canGc  = IsData(Layout[i]) /\ Garbage(Layout[i])]

\* mutant of LastId: the swap page is not scanned for ids
LastIdOfData ==
    Max({0} \cup {r.id : r \in UNION {RecordsOn(flash, p) : p \in {q \in Phys : IsData(q)}}})

\* what page_scan leaves in m_latest_rec_id
LastId == Max({0} \cup {r.id : r \in UNION {RecordsOn(flash, p) : p \in Phys}})

NoGc == [state |-> "begin", cur |-> 1, src |-> 0, resume |-> FALSE, todo |-> {}]

\* mutant of InitStep: a swap page that is not empty is discarded
InitStepDiscard ==
    LET data   == \E p \in Phys : IsData(p)
        erased == \E p \in Phys : IsErased(p)
        full   == \E p \in Phys : IsSwap(p) /\ Scan(p) # 1
        clean  == \E p \in Phys : IsSwap(p) /\ Scan(p) = 1
    IN IF full THEN "eraseSwap"
       ELSE IF erased THEN (IF clean THEN "tagData" ELSE "tagSwap")
       ELSE IF clean /\ data THEN "installed" ELSE "failed"

\* fds_init_opts_t
InitStep ==
    LET data   == \E p \in Phys : IsData(p)
        erased == \E p \in Phys : IsErased(p)
        full   == \E p \in Phys : IsSwap(p) /\ Scan(p) # 1
        clean  == \E p \in Phys : IsSwap(p) /\ Scan(p) = 1
    IN IF erased
       THEN IF full THEN "promote" ELSE IF clean THEN "tagData" ELSE "tagSwap"
       ELSE IF full THEN "eraseSwap"
       ELSE IF clean /\ data THEN "installed" ELSE "failed"

FdsInit ==
    /\ status = "off"
    /\ swap' = [phys |-> SwapPage, offset |-> IF SwapPage = 0 THEN 1 ELSE Scan(SwapPage)]
    /\ pages' = [i \in Index |-> PageAt(i)]
    /\ gc' = [NoGc EXCEPT !.cur = CurAtBoot]
    /\ latest' = LastId
    /\ \/ /\ InitStep = "failed"
          /\ status' = "failed"
          /\ UNCHANGED <<queue, loop>>
       \/ /\ InitStep = "installed"
          /\ status' = "ready"
          /\ UNCHANGED <<queue, loop>>
       \/ /\ InitStep \notin {"failed", "installed"}
          /\ status' = "starting"
          /\ queue' = <<Op("init", InitStep)>>
          /\ loop' = Again("success", FALSE)
    /\ UNCHANGED <<flash, busy, static, users, ghosts, counts>>

\* init_execute
InitExecute ==
    /\ Process({"init"})
    /\ LET cur == gc.cur IN
       \/ /\ loop.ret # "success"
          /\ status' = "failed"
          /\ Ends("timeout")
          /\ UNCHANGED <<queue, pages, swap, damage>>
       \/ /\ loop.ret = "success" /\ Cur.step = "tagSwap"
          /\ Step("tagData")
          /\ Executes(Tag(swap.phys, "swap"))
          /\ UNCHANGED <<status, pages, swap, damage>>
       \/ /\ loop.ret = "success" /\ Cur.step = "tagData"
          /\ IF \E i \in Index : pages[i].type = "erased"
             THEN LET i == Min({j \in Index : pages[j].type = "erased"})
                  IN /\ pages' = [pages EXCEPT ![i].type = "data"]
                     /\ Executes(Tag(pages[i].phys, "data"))
                     /\ UNCHANGED status
             ELSE /\ status' = "ready"
                  /\ Ends("success")
                  /\ UNCHANGED pages
          /\ UNCHANGED <<queue, swap, damage>>
       \/ /\ loop.ret = "success" /\ Cur.step = "eraseSwap"
          /\ Step("tagSwap")
          /\ swap' = [swap EXCEPT !.offset = 1]
          /\ Executes(Erase(swap.phys))
          /\ UNCHANGED <<status, pages, damage>>
       \/ /\ loop.ret = "success" /\ Cur.step = "promote"
          /\ Step("tagSwap")
          /\ Executes(Tag(swap.phys, "data"))
          /\ swap' = [phys |-> pages[cur].phys, offset |-> 1]
          /\ pages' = [pages EXCEPT ![cur].phys = swap.phys,
                                    ![cur].offset = swap.offset,
                                    ![cur].type = "data"]
          /\ Met("promotion", pages[cur].type # "erased")
          /\ UNCHANGED status
    /\ UNCHANGED <<flash, gc, latest, static, users, kept, counts>>

-----------------------------------------------------------------------------
(* Writing and deleting                                                    *)

\* mutant of OffsetsUpdate: the words stay reserved
OffsetsUpdateOnly(pgs, i) == [pgs EXCEPT ![i].offset = @ + 1]

\* page_offsets_update, and what it leaves on the page when the operation
\* had not written its header
OffsetsUpdate(pgs, i) ==
    [pgs EXCEPT ![i].offset = @ + 1, ![i].reserved = @ - 1]

Unwritten(i) == flash[pages[i].phys].rec[pages[i].offset].st = "erased"

\* A collection that was given up after a time-out goes on with its last step
\* the next time: what it has copied already is not looked at again.
Stale(d) ==
    /\ d.page = gc.cur
    /\ \/ gc.state = "erase"
       \/ gc.state = "copy" /\ d.slot <= gc.src

\* mutant of FlagDirty: the page is not marked for the collection
FlagDirtyOnly(d) ==
    /\ Executes(WriteSlot(pages[d.page].phys, d.slot, [At(d) EXCEPT !.st = "dirty"]))
    /\ UNCHANGED pages
    /\ Met("stale", Stale(d))

\* record_header_flag_dirty
FlagDirty(d) ==
    /\ Executes(WriteSlot(pages[d.page].phys, d.slot, [At(d) EXCEPT !.st = "dirty"]))
    /\ pages' = [pages EXCEPT ![d.page].canGc = TRUE]
    /\ Met("stale", Stale(d))

WriteTo(i, r) ==
    /\ Executes(WriteSlot(pages[i].phys, pages[i].offset, r))
    /\ Met("stale", Stale([page |-> i, slot |-> pages[i].offset]))

Begun == [ErasedSlot EXCEPT !.st = "begun"]

\* write_execute
WriteExecute ==
    LET i == Cur.page IN
    /\ Process({"write", "update"})
    /\ \/ /\ loop.ret # "success"
          /\ pages' = OffsetsUpdate(pages, i)
          /\ Met("gap", Unwritten(i))
          /\ Ends("timeout")
          /\ UNCHANGED <<queue, desc>>
       \/ /\ loop.ret = "success" /\ Cur.step = "find" /\ Found(Cur.old) = {}
          /\ Ends("notFound")
          /\ Met("leak", TRUE)
          /\ UNCHANGED <<queue, pages, desc>>
       \/ /\ loop.ret = "success"
          /\ \/ Cur.step = "find" /\ Found(Cur.old) # {} /\ desc' = First(Found(Cur.old))
             \/ Cur.step = "begin" /\ UNCHANGED desc
          /\ Step("final")
          /\ WriteTo(i, Begun)
          /\ UNCHANGED pages
       \/ /\ loop.ret = "success" /\ Cur.step = "final"
          /\ Step(IF Cur.op = "update" THEN "flag" ELSE "done")
          /\ WriteTo(i, [st |-> "whole", id |-> Cur.id, file |-> Cur.file])
          /\ UNCHANGED <<pages, desc>>
       \/ /\ loop.ret = "success" /\ Cur.step = "flag"
          /\ Step("done")
          /\ FlagDirty(desc)
          /\ UNCHANGED desc
       \/ /\ loop.ret = "success" /\ Cur.step = "done"
          /\ pages' = OffsetsUpdate(pages, i)
          /\ Ends("success")
          /\ UNCHANGED <<queue, desc, damage>>
    /\ UNCHANGED <<flash, status, swap, gc, latest, tok, users, kept, counts>>

\* delete_execute, of a record
DeleteExecute ==
    /\ Process({"delete"})
    /\ \/ /\ loop.ret # "success"
          /\ Ends("timeout")
          /\ UNCHANGED <<queue, pages, damage>>
       \/ /\ loop.ret = "success" /\ Cur.step = "flag" /\ Found(Cur.old) # {}
          /\ Step("done")
          /\ FlagDirty(First(Found(Cur.old)))
       \/ /\ loop.ret = "success" /\ Cur.step = "flag" /\ Found(Cur.old) = {}
          /\ Ends("notFound")
          /\ UNCHANGED <<queue, pages, damage>>
       \/ /\ loop.ret = "success" /\ Cur.step = "done"
          /\ Ends("success")
          /\ UNCHANGED <<queue, pages, damage>>
    /\ UNCHANGED <<flash, status, swap, gc, latest, static, users, kept, counts>>

\* ... and of a file: record after record, from where the token is
DeleteFileExecute ==
    LET found == FoundInFile(Cur.file) IN
    /\ Process({"deleteFile"})
    /\ \/ /\ loop.ret # "success"
          /\ Met("token", tok # NoDesc)
          /\ Ends("timeout")
          /\ UNCHANGED <<pages, tok>>
       \/ /\ loop.ret = "success" /\ found # {}
          /\ tok' = First(found)
          /\ FlagDirty(First(found))
       \/ /\ loop.ret = "success" /\ found = {}
          /\ tok' = NoDesc
          /\ Ends("success")
          /\ UNCHANGED <<pages, damage>>
    /\ UNCHANGED <<flash, status, swap, gc, latest, queue, desc, users, kept, counts>>

-----------------------------------------------------------------------------
(* Garbage collection                                                      *)

\* gc_init
GcInit == [gc EXCEPT !.state = "nextPage", !.cur = 1, !.resume = FALSE,
                     !.todo = {i \in Index : pages[i].type = "data"}]

\* gc_swap_pages
SwapPages ==
    /\ pages' = [pages EXCEPT ![gc.cur].phys = swap.phys, ![gc.cur].offset = swap.offset]
    /\ swap' = [phys |-> pages[gc.cur].phys, offset |-> 1]

\* gc_page_next
Collectable(g) == {i \in g.todo : pages[i].open = 0 /\ pages[i].canGc}

\* the next record to copy, from the page that is collected
ToCopy(g) == {s \in ValidSlots(flash, pages[g.cur].phys) : s > g.src}

\* gc_record_copy; w is the swap page as gc_state_advance leaves it
CopyRecord(g, w, s) ==
    /\ gc' = [g EXCEPT !.state = "copy", !.src = s]
    /\ swap' = w
    /\ Executes(WriteSlot(w.phys, w.offset, flash[pages[g.cur].phys].rec[s]))

\* mutant of PageErase: the open records were looked at in gc_page_next
PageEraseBlindly(g, w) ==
    /\ gc' = [g EXCEPT !.state = "erase"]
    /\ swap' = w
    /\ Executes(Erase(pages[g.cur].phys))

\* gc_page_erase
PageErase(g, w) ==
    IF pages[g.cur].open = 0
    THEN /\ gc' = [g EXCEPT !.state = "erase"]
         /\ swap' = w
         /\ Executes(Erase(pages[g.cur].phys))
    ELSE /\ gc' = [g EXCEPT !.state = "discard"]
         /\ swap' = [w EXCEPT !.offset = 1]
         /\ Executes(Erase(w.phys))

\* gc_record_find_next
NextRecord(g, w) ==
    IF ToCopy(g) # {} THEN CopyRecord(g, w, Min(ToCopy(g))) ELSE PageErase(g, w)

\* gc_next_page
NextPage(g) ==
    IF Collectable(g) = {}
    THEN /\ gc' = NoGc
         /\ Ends("success")
         /\ UNCHANGED swap
    ELSE LET i == Min(Collectable(g))
         IN NextRecord([g EXCEPT !.cur = i, !.todo = {j \in @ : j > i}], swap)

\* gc_state_advance, and the step it leads to
GcAdvance ==
    \/ /\ gc.state = "begin"
       /\ opened' = [opened EXCEPT !.moved = (opened # NotOpen)]
       /\ NextPage(GcInit)
       /\ UNCHANGED pages
    \/ /\ gc.state = "copy"
       /\ NextRecord(gc, [swap EXCEPT !.offset = @ + 1])
       /\ UNCHANGED <<pages, opened>>
    \/ /\ gc.state = "erase"
       /\ gc' = [gc EXCEPT !.state = "promote"]
       /\ SwapPages
       /\ Executes(Tag(swap.phys, "data"))
       /\ UNCHANGED opened
    \/ /\ gc.state \in {"discard", "promote"}
       /\ gc' = [gc EXCEPT !.state = "tagSwap", !.src = 0]
       /\ Executes(Tag(swap.phys, "swap"))
       /\ UNCHANGED <<pages, swap, opened>>
    \/ /\ gc.state = "tagSwap"
       /\ NextPage(gc)
       /\ UNCHANGED <<pages, opened>>

\* mutant of GcResume: the flag is not cleared
GcResumeAlways ==
    /\ \/ gc.state = "copy" /\ CopyRecord(gc, swap, gc.src)
       \/ gc.state = "erase" /\ PageErase(gc, swap)
       \/ /\ gc.state \in {"promote", "tagSwap"}
          /\ gc' = gc
          /\ Executes(IF gc.state = "promote" THEN Tag(pages[gc.cur].phys, "data")
                      ELSE Tag(swap.phys, "swap"))
          /\ UNCHANGED swap
       \/ gc.state = "discard" /\ Ends("internal") /\ UNCHANGED <<gc, swap>>
    /\ Met("discard", gc.state = "discard")
    /\ UNCHANGED <<pages, opened>>

\* the last step again: fds_gc was called while a collection was not over
GcResume ==
    LET g == [gc EXCEPT !.resume = FALSE] IN
    /\ \/ gc.state = "copy" /\ CopyRecord(g, swap, gc.src)
       \/ gc.state = "erase" /\ PageErase(g, swap)
       \/ /\ gc.state = "promote"
          /\ gc' = g
          /\ Executes(Tag(pages[gc.cur].phys, "data"))
          /\ UNCHANGED swap
       \/ /\ gc.state = "tagSwap"
          /\ gc' = g
          /\ Executes(Tag(swap.phys, "swap"))
          /\ UNCHANGED swap
       \/ /\ gc.state = "discard"    \* gc_execute does not know this one
          /\ gc' = g
          /\ Ends("internal")
          /\ UNCHANGED swap
    /\ Met("discard", gc.state = "discard")
    /\ UNCHANGED <<pages, opened>>

\* gc_execute
GcExecute ==
    /\ Process({"gc"})
    /\ \/ loop.ret = "success" /\ ~gc.resume /\ GcAdvance /\ UNCHANGED damage
       \/ loop.ret = "success" /\ gc.resume /\ GcResume
       \/ /\ loop.ret # "success"
          /\ Ends("timeout")
          /\ UNCHANGED <<pages, swap, gc, opened, damage>>
    /\ UNCHANGED <<flash, status, latest, queue, static, reserved, kept, counts>>

-----------------------------------------------------------------------------
(* The end of an operation                                                 *)

\* mutant of Free: queue_has_next counts the operation that has just ended
FreeOneMore ==
    /\ loop.at = "event"
    /\ queue' = Tail(queue)
    /\ loop' = Again(loop.ret, FALSE)
    /\ UNCHANGED <<flash, status, ram, busy, static, users, ghosts, counts>>

\* queue_process after event_send: the next operation gets the result of this
Free ==
    /\ loop.at = "event"
    /\ queue' = Tail(queue)
    /\ loop' = IF Tail(queue) = <<>> THEN Idle ELSE Again(loop.ret, FALSE)
    /\ UNCHANGED <<flash, status, ram, busy, static, users, ghosts, counts>>

QueueProcess ==
    InitExecute \/ WriteExecute \/ DeleteExecute \/ DeleteFileExecute
        \/ GcExecute \/ Free

\* fs_event_handler
FlashDone ==
    /\ busy # NoBusy
    /\ flash' = Applied(flash, busy)
    /\ busy' = NoBusy
    /\ loop' = Again("success", FALSE)
    /\ UNCHANGED <<status, ram, queue, static, users, ghosts, counts>>

FlashTimeout ==
    /\ busy # NoBusy
    /\ timeouts < MaxTimeouts
    /\ timeouts' = timeouts + 1
    /\ busy' = NoBusy
    /\ loop' = Again("timeout", TRUE)
    /\ Met("hidden", gc.state = "erase" /\ IsErased(pages[gc.cur].phys))
    /\ UNCHANGED <<flash, status, ram, queue, static, users, kept, calls, resets>>

\* The device is switched off.  What it was writing is written or not.
\* Records that would be written over others, behind a gap, are not followed.
Reset ==
    /\ resets < MaxResets
    /\ "gap" \notin damage
    /\ status # "off"
    /\ flash' \in {flash, Applied(flash, busy)}
    /\ kept' = IF status = "ready" THEN Stored(flash') ELSE kept
    /\ resets' = resets + 1
    /\ status' = "off"
    /\ pages' = [i \in Index |-> NoPage]
    /\ swap' = [phys |-> 0, offset |-> 1]
    /\ gc' = NoGc
    /\ latest' = 0
    /\ queue' = <<>>
    /\ loop' = Idle
    /\ busy' = NoBusy
    /\ desc' = NoDesc /\ tok' = NoDesc
    /\ reserved' = 0 /\ opened' = NotOpen
    /\ UNCHANGED <<damage, calls, timeouts>>

-----------------------------------------------------------------------------
(* The calls.  With a full queue none of them returns: queue_buf_get writes *)
(* to a null pointer; the callers are taken to stay below it.              *)

MayCall == status = "ready" /\ loop.at # "run"

Count == calls < MaxCalls /\ calls' = calls + 1

Call(op) ==
    /\ Count
    /\ Len(queue) < QueueSize
    /\ queue' = Append(queue, op)
    /\ loop' = IF queue = <<>> THEN Again("success", FALSE) ELSE loop

\* page_has_space, write_space_reserve
HasSpace(i) == pages[i].type = "data" /\ pages[i].offset + pages[i].reserved <= PageSlots

Space == {i \in Index : HasSpace(i)}

Take(i) == pages' = [pages EXCEPT ![i].reserved = @ + 1]

WriteOp(op, step, i, f) ==
    [Op(op, step) EXCEPT !.page = i, !.file = f, !.id = latest + 1]

Write(f) ==
    /\ MayCall
    /\ Space # {}
    /\ Take(Min(Space))
    /\ Call(WriteOp("write", "begin", Min(Space), f))
    /\ latest' = latest + 1
    /\ UNCHANGED <<flash, status, swap, gc, busy, static, users, ghosts, timeouts, resets>>

WriteReserved(f) ==
    /\ MayCall
    /\ reserved # 0
    /\ Call(WriteOp("write", "begin", reserved, f))
    /\ latest' = latest + 1
    /\ reserved' = 0
    /\ UNCHANGED <<flash, status, pages, swap, gc, busy, static, opened, ghosts,
                   timeouts, resets>>

Update(id, f) ==
    /\ MayCall
    /\ Space # {}
    /\ Take(Min(Space))
    /\ Call([WriteOp("update", "find", Min(Space), f) EXCEPT !.old = id])
    /\ latest' = latest + 1
    /\ UNCHANGED <<flash, status, swap, gc, busy, static, users, ghosts, timeouts, resets>>

Delete(id) ==
    /\ MayCall
    /\ Call([Op("delete", "flag") EXCEPT !.old = id])
    /\ UNCHANGED <<flash, status, ram, busy, static, users, ghosts, timeouts, resets>>

DeleteFile(f) ==
    /\ MayCall
    /\ Call([Op("deleteFile", "flag") EXCEPT !.file = f])
    /\ UNCHANGED <<flash, status, ram, busy, static, users, ghosts, timeouts, resets>>

Gc ==
    /\ MayCall
    /\ Call(Op("gc", "gc"))
    /\ gc' = [gc EXCEPT !.resume = @ \/ gc.state # "begin"]
    /\ UNCHANGED <<flash, status, pages, swap, latest, busy, static, users, ghosts,
                   timeouts, resets>>

Reserve ==
    /\ MayCall
    /\ reserved = 0
    /\ Space # {}
    /\ Take(Min(Space))
    /\ reserved' = Min(Space)
    /\ Count
    /\ UNCHANGED <<flash, status, swap, gc, latest, queue, loop, busy, static, opened,
                   ghosts, timeouts, resets>>

ReserveCancel ==
    /\ MayCall
    /\ reserved # 0
    /\ pages[reserved].reserved > 0
    /\ pages' = [pages EXCEPT ![reserved].reserved = @ - 1]
    /\ reserved' = 0
    /\ UNCHANGED <<flash, status, swap, gc, latest, queue, loop, busy, static, opened,
                   ghosts, counts>>

\* fds_record_open, of a record that was just looked up
Open(id) ==
    /\ MayCall
    /\ opened = NotOpen
    /\ Found(id) # {}
    /\ LET d == First(Found(id))
           p == pages[d.page].phys
       IN /\ opened' = [id |-> id, phys |-> p, slot |-> d.slot, page |-> d.page,
                        moved |-> FALSE]
          /\ pages' = [pages EXCEPT ![d.page].open = @ + 1]
          /\ Met("opened", busy = Erase(p))
    /\ Count
    /\ UNCHANGED <<flash, status, swap, gc, latest, queue, loop, busy, static, reserved,
                   kept, timeouts, resets>>

\* fds_record_close: the descriptor is good as long as no collection has run,
\* afterwards the record is looked up, and must not have been deleted
Close ==
    /\ MayCall
    /\ opened # NotOpen
    /\ opened.moved => Found(opened.id) # {}
    /\ LET i == IF opened.moved THEN First(Found(opened.id)).page ELSE opened.page
       IN /\ pages[i].open > 0
          /\ pages' = [pages EXCEPT ![i].open = @ - 1]
    /\ opened' = NotOpen
    /\ UNCHANGED <<flash, status, swap, gc, latest, queue, loop, busy, static, reserved,
                   ghosts, counts>>

Calls ==
    \/ \E f \in Files : Write(f) \/ WriteReserved(f) \/ DeleteFile(f)
    \/ \E id \in 1 .. latest :
         Delete(id) \/ Open(id) \/ \E f \in Files : Update(id, f)
    \/ Gc \/ Reserve \/ ReserveCancel \/ Close

-----------------------------------------------------------------------------
\* The flash is blank, or was left by the storage: what a reset leaves is again
\* Consistent, with an id for each record.  (Only a promotion that timed out leaves a
\* swap page with more than copies on it.)
ASSUME FirstFlashAssumption ==
    \A fl \in FirstFlash : Consistent(fl) /\ SwapIsWhole(fl) /\ IdsOnce(fl)

Init ==
    /\ flash \in FirstFlash
    /\ status = "off"
    /\ pages = [i \in Index |-> NoPage]
    /\ swap = [phys |-> 0, offset |-> 1]
    /\ gc = NoGc
    /\ latest = 0
    /\ queue = <<>>
    /\ loop = Idle
    /\ busy = NoBusy
    /\ desc = NoDesc /\ tok = NoDesc
    /\ reserved = 0 /\ opened = NotOpen
    /\ kept = Live(flash)
    /\ damage = {}
    /\ calls = 0 /\ timeouts = 0 /\ resets = 0

Next == FdsInit \/ QueueProcess \/ FlashDone \/ FlashTimeout \/ Reset \/ Calls

Spec == Init /\ [][Next]_vars

\* queue_process runs to its end, and the flash answers
Fairness ==
    /\ WF_vars(FdsInit)
    /\ WF_vars(QueueProcess)
    /\ WF_vars(FlashDone \/ FlashTimeout)

FairSpec == Spec /\ Fairness

-----------------------------------------------------------------------------
TypeOK ==
    /\ \A p \in Phys : /\ flash[p].tag \in {"erased", "swap", "data"}
                       /\ flash[p].rec \in [Slots -> Slot]
    /\ status \in {"off", "starting", "ready", "failed"}
    /\ pages \in [Index -> [type : {"none", "erased", "data"}, phys : Phys \cup {0},
                            offset : Offsets, reserved : 0 .. PageSlots,
                            canGc : BOOLEAN, open : 0 .. 1]]
    /\ swap \in [phys : Phys \cup {0}, offset : Offsets]
    /\ gc.state \in {"begin", "copy", "erase", "discard", "promote", "tagSwap"}
    /\ gc.cur \in Index /\ gc.src \in Slots \cup {0} /\ gc.todo \subseteq Index
    /\ Len(queue) <= QueueSize
    /\ loop.at \in {"idle", "run", "event"}
    /\ loop.ret \in {"success", "timeout", "notFound", "internal"}
    /\ loop.at = "idle" <=> (queue = <<>> \/ busy # NoBusy)
    /\ damage \subseteq {"promotion", "gap", "leak", "stale", "hidden", "token", "discard", "opened"}

\* The flaws after which records are not what the operations made of them.
Sound == damage \subseteq {"leak"}

\* A record has an id that no other record has and no queued operation will
\* give: record_id_new goes on, after a reset, from the records that were
\* found, those in the swap included.
IdsUnique ==
    status = "ready" =>
        /\ \A r, s \in Records : r.id = s.id => r = s
        /\ \A i \in Index : \A s, t \in ValidSlots(flash, pages[i].phys) :
             flash[pages[i].phys].rec[s].id = flash[pages[i].phys].rec[t].id => s = t
        /\ \A k \in 2 .. Len(queue) :
             queue[k].id # 0 => \A r \in Records : r.id # queue[k].id

\* The words that are reserved on a page are those of the writes in the queue
\* and of the callers' reservations, and they fit behind what is written,
\* although collections move the records and the offset meanwhile.
SpaceAccounted ==
    (status = "ready" /\ damage = {}) =>
        \A i \in Index :
            /\ pages[i].reserved =
                 Cardinality({k \in 1 .. Len(queue) :
                     queue[k].page = i /\ ~(k = 1 /\ loop.at = "event")})
                 + (IF reserved = i THEN 1 ELSE 0)
            /\ pages[i].offset + pages[i].reserved <= PageSlots + 1

\* What is erased behind the offset is erased: no write falls on words that
\* are written already.
WritesOnErased ==
    (Sound /\ busy.kind = "slot" /\ busy.val.st = "begun") =>
        flash[busy.phys].rec[busy.slot].st = "erased"

\* A deleted record, or one that a reset left half-written, is on a page that
\* a collection will look at.  (A collection that is given up after a time-out,
\* and a write that times out, may leave garbage that the next start finds.)
GarbageIsKnown ==
    (status = "ready" /\ Sound /\ timeouts = 0) =>
        \A i \in Index : \A s \in 1 .. pages[i].offset - 1 :
            (pages[i].type = "data" /\ ~Valid(flash, pages[i].phys, s)) => pages[i].canGc

\* What fds_record_open gave a caller stays where it is, whole or deleted,
\* until it is closed: no collection moves or erases it.
OpenStays ==
    (opened # NotOpen /\ Sound) =>
        /\ flash[opened.phys].rec[opened.slot].id = opened.id
        /\ pages[opened.page].phys = opened.phys

Pending == [k \in DOMAIN queue |-> [queue[k] EXCEPT !.step = ""]]

\* fds.c is a RecordStore as long as it meets none of its flaws.
Store == INSTANCE RecordStore WITH
    records <- Records,
    pending <- Pending,
    outcome <- IF loop.at # "event" THEN "none"
               ELSE IF loop.ret = "success" THEN "success" ELSE "error",
    up <- status = "ready"

KeepsRecords ==
    Store!Init /\ [][Store!Next \/ ~Sound']_(Store!vars)

\* Every operation comes to an end.
OperationsEnd == []<>(queue = <<>>)
=============================================================================
