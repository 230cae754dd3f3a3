---------------------------- MODULE PeerDatabase ----------------------------
(***************************************************************************)
(* How bonds and client configurations reach the flash: peer ids and the   *)
(* deletion of their files (peer_data_storage.c), the write buffers and    *)
(* their retries (peer_database.c), the pairing that waits for a buffer    *)
(* or for room (security_manager.c) and the store of a client's            *)
(* configuration (gatt_cache_manager.c), over the flash data storage's     *)
(* queue.                                                                  *)
(*                                                                         *)
(* A handler is one step.  queue_process runs without a break from one     *)
(* flash operation to the next; here each turn of its loop is a step of    *)
(* its own, and no handler comes between.  A record takes one place in     *)
(* flash and a buffer record has one block.                                *)
(***************************************************************************)
EXTENDS Integers, FiniteSetsExt, SequencesExt

CONSTANTS
    Peers,           \* the peer ids, 0 .. PM_PEER_ID_N_AVAILABLE_IDS - 1
    PmFlashBuffers,  \* PM_FLASH_BUFFERS
    Places,          \* records the data pages hold
    QueueSize,       \* FDS_OP_QUEUE_SIZE
    FirstFlash,      \* what the flash may hold at the first start
    MaxRequests,     \* links, pairings, configurations, deletions asked for
    MaxTimeouts,     \* flash operations that time out
    MaxResets        \* times the device is switched off and on

\* A pairing and a configuration need a buffer each (sdk_config.h sets two).
ASSUME PeerDatabaseAssumption ==
    /\ Peers \subseteq 0..255
    /\ {PmFlashBuffers, Places, QueueSize} \subseteq Nat \ {0}
    /\ PmFlashBuffers >= 2
    /\ {MaxRequests, MaxTimeouts, MaxResets} \subseteq Nat

\* The flash is blank or holds what has been stored.
ASSUME FirstFlashAssumption ==
    \A flash \in FirstFlash :
        /\ IsFiniteSet(flash)
        /\ \A r \in flash : \E id \in Peers, data \in {"bonding", "local"}, n \in 1..Places :
                             r = [peer |-> id, data |-> data, token |-> n]

VARIABLE db  \* the state of the four files and of the flash, one record

PeerIdInvalid     == 65535  \* PM_PEER_ID_INVALID
StoreTokenInvalid == 0      \* PM_STORE_TOKEN_INVALID

Buffers == 1..PmFlashBuffers

\* a bond that is in flash
Bond(id) == [peer |-> id, data |-> "bonding", token |-> 1]

Unused ==
    [peer     |-> PeerIdInvalid,
     data     |-> "none",
     prepared |-> FALSE,              \* prepare_token
     token    |-> StoreTokenInvalid,  \* the write that is in the queue
     busy     |-> FALSE,              \* store_busy
     full     |-> FALSE]              \* store_flash_full

\* pm_init: the ids in use are those of the bonds found
PdbBoot(flash, garbage, budget) ==
    [flash     |-> flash,     \* the records that can be found
     garbage   |-> garbage,   \* places to be collected
     reserved  |-> 0,         \* places set aside: words_reserved
     queue     |-> <<>>,      \* the operations of fds
     running   |-> FALSE,     \* the flash works on the first of them
     carried   |-> TRUE,      \* result, which queue_process hands on: success
     used      |-> {r.peer : r \in {x \in flash : x.data = "bonding"}},
     deleted   |-> {},        \* ids whose file is to be deleted
     ongoing   |-> FALSE,     \* m_peer_delete_ongoing
     buf       |-> [b \in Buffers |-> Unused],
     pending   |-> FALSE,     \* m_n_pending_writes # 0; it never goes down
     link      |-> "none",    \* "gone": closed, its record is still kept
     peer      |-> PeerIdInvalid,  \* the peer id of the link
     proc      |-> "none",    \* pairing, or its reply waits: "busy", "full"
     update    |-> FALSE,     \* m_flag_local_db_update_pending
     lock      |-> FALSE,     \* m_db_update_in_progress_mutex
     fault     |-> FALSE,     \* a check has failed: the chip resets
     failed    |-> FALSE,     \* an operation has failed since the start
     left      |-> budget]    \* requests, time-outs and resets to come

\* the body of a loop of the code, for 1, then for 2, up to n
Loop(Body(_, _), s, n) ==
    LET after[k \in 0..n] == IF k = 0 THEN s ELSE Body(after[k - 1], k)
    IN  after[n]

Fault(s) == [s EXCEPT !.fault = TRUE]

\* words_reserved after a reservation is given back; -1 is a counter that has
\* wrapped
Less(n) == Max({n - 1, -1})

-----------------------------------------------------------------------------
(* The flash data storage as its callers see it.                           *)

\* a counter that has wrapped leaves no place
HasRoom(s) ==
    /\ s.reserved >= 0
    /\ Cardinality(s.flash) + s.garbage + s.reserved < Places

\* the records of a kind
Kind(s, id, data) == {r \in s.flash : r.peer = id /\ r.data = data}

\* the first record of the kind; 0 if there is none
Find(s, id, data) ==
    IF Kind(s, id, data) = {} THEN 0
    ELSE Min({r.token : r \in Kind(s, id, data)})

HasFile(s, id) == \E r \in s.flash : r.peer = id

\* record_id_new; a number is taken again when no operation and no record of
\* the kind bears it
RecordIdNew(s, id, data) ==
    Min((1..(Places + QueueSize + 1))
            \ ({op.token : op \in Range(s.queue)}
                \cup {r.token : r \in Kind(s, id, data)}))

Operation(op, id, data, token, old) ==
    [op |-> op, peer |-> id, data |-> data, token |-> token, old |-> old]

\* mutant of Put: the length of the queue is not looked at
PutAlways(s, op) == [s EXCEPT !.queue = Append(@, op)]

\* queue_buf_get clears a place it has not got when the queue is full
Put(s, op) ==
    IF Len(s.queue) = QueueSize THEN Fault(s)
    ELSE [s EXCEPT !.queue = Append(@, op)]

\* fds_gc, which main.c asks for at PM_EVT_STORAGE_FULL
FdsGc(s) == Put(s, Operation("gc", PeerIdInvalid, "none", 0, 0))

-----------------------------------------------------------------------------
(* Peer ids and the deletion of files (peer_data_storage.c).               *)

\* the token of the search is not reset from one id to the next: a file is
\* found for the lowest id or for none, and all the ids without are freed
PeerDataDelete(s) ==
    CASE s.deleted = {} -> s
      [] s.deleted # {} /\ ~HasFile(s, Min(s.deleted)) ->
            [s EXCEPT !.used = @ \ s.deleted, !.deleted = {}]
      [] s.deleted # {} /\ HasFile(s, Min(s.deleted)) ->
            IF s.ongoing THEN s
            ELSE Put([s EXCEPT !.ongoing = TRUE],
                     Operation("deleteFile", Min(s.deleted), "none", 0, 0))

\* pds_peer_data_store, called by write_buf_store
WriteBufStore(s, b) ==
    LET r      == s.buf[b]
        old    == Find(s, r.peer, r.data)
        cancel == r.prepared /\ old # 0   \* an update reserves for itself
        s1     == [s EXCEPT !.reserved = IF cancel THEN Less(@) ELSE @]
        takes  == ~r.prepared \/ old # 0
        id     == RecordIdNew(s, r.peer, r.data)
        kind   == IF old = 0 THEN "write" ELSE "update"
    IN  IF takes /\ ~HasRoom(s1)
        THEN [s1 EXCEPT !.buf[b] = [@ EXCEPT !.busy = FALSE, !.full = TRUE],
                        !.pending = TRUE]
        ELSE Put([s1 EXCEPT !.reserved = IF takes THEN @ + 1 ELSE @,
                            !.buf[b] = [@ EXCEPT !.token = id, !.busy = FALSE,
                                                 !.full = FALSE]],
                 Operation(kind, r.peer, r.data, id, old))

-----------------------------------------------------------------------------
(* The write buffers (peer_database.c).                                    *)

Stored(r) == r.busy \/ r.full \/ r.token # StoreTokenInvalid

\* write_buffer_record_find: buffers handed over for storing are passed by
Open(s, id, data) ==
    {b \in Buffers : /\ s.buf[b].peer = id
                     /\ s.buf[b].data = data
                     /\ ~Stored(s.buf[b])}

FreeBuffers(s) == Open(s, PeerIdInvalid, "none")

\* mutant of BufOf: a buffer that is being stored is used again
BufOfStored(s, id, data) ==
    LET mine == {b \in Buffers : s.buf[b].peer = id /\ s.buf[b].data = data}
    IN  IF mine # {} THEN Min(mine)
        ELSE IF FreeBuffers(s) # {} THEN Min(FreeBuffers(s)) ELSE 0

\* pdb_write_buf_get: the buffer of the data, or a new one; 0 is NRF_ERROR_BUSY
BufOf(s, id, data) ==
    LET mine == Open(s, id, data)
    IN  IF mine # {} THEN Min(mine)
        ELSE IF FreeBuffers(s) # {} THEN Min(FreeBuffers(s)) ELSE 0

BufTake(s, b, id, data) ==
    [s EXCEPT !.buf[b] = [@ EXCEPT !.peer = id, !.data = data]]

\* pdb_write_buf_store_prepare
Prepare(s, b) ==
    IF s.buf[b].prepared THEN s
    ELSE [s EXCEPT !.buf[b] = [@ EXCEPT !.prepared = TRUE], !.reserved = @ + 1]

\* mutant of BufRelease: the place that was set aside is not given back
BufReleaseOnly(b, s) == [s EXCEPT !.buf[b] = Unused]

\* pdb_write_buf_release, which cancels the reservation
BufRelease(b, s) ==
    [s EXCEPT !.buf[b] = Unused,
              !.reserved = IF s.buf[b].prepared THEN Less(@) ELSE @]

\* pdb_peer_free releases what is not being stored
BufsRelease(s, id) ==
    LET Release(t, b) ==
            IF t.buf[b].peer = id /\ ~Stored(t.buf[b]) THEN BufRelease(b, t) ELSE t
    IN  Loop(Release, s, PmFlashBuffers)

\* im_peer_free: pdb_peer_free, and the link's peer is no longer known
PeerFree(s, id) ==
    IF id = PeerIdInvalid THEN s
    ELSE [PeerDataDelete([BufsRelease(s, id) EXCEPT !.deleted = @ \cup {id}])
             EXCEPT !.peer = IF @ = id THEN PeerIdInvalid ELSE @]

\* PM_EVT_STORAGE_FULL is sent for a buffer that found no room
StoreInEvent(s, b) ==
    LET done == WriteBufStore(s, b)
    IN  IF done.buf[b].full THEN FdsGc(done) ELSE done

\* mutant of Reattempt: what found no room is not tried again
ReattemptBusy(s, retryFull) ==
    LET Retry(t, b) == IF t.buf[b].busy THEN StoreInEvent(t, b) ELSE t
    IN  Loop(Retry, s, PmFlashBuffers)

\* reattempt_previous_operations: it ends with the first buffer without room
Reattempt(s, retryFull) ==
    LET Waits(r) == r.busy \/ (r.full /\ retryFull)
        Retry(acc, b) ==
            LET done == StoreInEvent(acc.s, b)
            IN  IF acc.stop \/ ~Waits(acc.s.buf[b]) THEN acc
                ELSE [s |-> done, stop |-> done.buf[b].full]
    IN  IF ~s.pending THEN s
        ELSE Loop(Retry, [s |-> s, stop |-> FALSE], PmFlashBuffers).s

-----------------------------------------------------------------------------
(* A pairing that gets its buffer, or waits (security_manager.c,           *)
(* security_dispatcher.c).                                                 *)

\* smd_params_reply_perform.  The reply to a closed link fails and so does a
\* pairing for which no id is left: pm_evt_handler checks these errors.
ParamsReply(s) ==
    LET id    == Min(Peers \ s.used)
        alloc == [s EXCEPT !.used = @ \cup {id}]
        b     == BufOf(alloc, id, "bonding")
        got   == BufTake(alloc, b, id, "bonding")
    IN  CASE Peers \subseteq s.used -> Fault(s)
          [] ~(Peers \subseteq s.used) /\ b = 0 ->
                [PeerFree(alloc, id) EXCEPT !.proc = "busy"]
          [] ~(Peers \subseteq s.used) /\ b # 0 ->
                IF ~HasRoom(got) /\ ~got.buf[b].prepared
                THEN FdsGc([PeerFree(got, id) EXCEPT !.proc = "full"])
                ELSE IF s.link = "gone" THEN Fault(s)
                ELSE [Prepare(got, b) EXCEPT !.proc = "pairing", !.peer = id]

\* sm_pdb_evt_handler
SmPdbEvent(s, kind) ==
    LET first == IF kind = "gc" /\ s.proc = "full" THEN ParamsReply(s) ELSE s
    IN  IF first.proc = "busy" THEN ParamsReply(first) ELSE first

-----------------------------------------------------------------------------
(* The configuration of a client (gatt_cache_manager.c,                    *)
(* gatts_cache_manager.c).                                                 *)

\* gscm_local_db_cache_update.  A closed link has no attributes to store, and
\* its buffer is given back.  A peer without id is an error that is checked.
LocalDbCacheUpdate(s) ==
    LET b   == BufOf(s, s.peer, "local")
        got == BufTake(s, b, s.peer, "local")
        out == StoreInEvent(got, b)
        end == [out EXCEPT !.update = FALSE]
    IN  CASE s.peer = PeerIdInvalid -> [s EXCEPT !.update = FALSE]
          [] s.peer # PeerIdInvalid /\ s.peer \notin s.used -> Fault(s)
          [] s.peer \in s.used /\ b = 0 -> s
          [] s.peer \in s.used /\ b # 0 ->
                IF s.link = "gone"
                THEN [s EXCEPT !.buf[b] = Unused, !.update = FALSE]
                ELSE [end EXCEPT !.lock = ~end.buf[b].full]

\* update_pending_flags_check
UpdatePendingCheck(s) ==
    IF s.link # "none" /\ s.update /\ ~s.lock THEN LocalDbCacheUpdate(s)
    ELSE s

\* mutant of GcmPdbEvent: the lock is released, the flag is looked at later
GcmPdbEventLater(s, kind, id, data) ==
    CASE kind = "stored" /\ data = "bonding" /\ id = s.peer ->
            [s EXCEPT !.update = TRUE]
      [] kind = "stored" /\ data = "local" -> [s EXCEPT !.lock = FALSE]
      [] OTHER -> s

\* gcm_pdb_evt_handler
GcmPdbEvent(s, kind, id, data) ==
    UpdatePendingCheck(
        CASE kind = "stored" /\ data = "bonding" /\ id = s.peer ->
                [s EXCEPT !.update = TRUE]
          [] kind = "stored" /\ data = "local" -> [s EXCEPT !.lock = FALSE]
          [] OTHER -> s)

-----------------------------------------------------------------------------
(* The end of an operation (fds_evt_handler, pdb_pds_evt_handler).         *)

\* the end of a write, of the deletion of a file and of a collection, as an
\* event of the peer manager
Event(op, success) ==
    CASE op.op = "gc"         -> "gc"
      [] op.op = "deleteFile" -> "deleted"
      [] OTHER -> IF success THEN "stored" ELSE "failed"

\* the buffer that waits for the write
BuffersOf(s, op) == {b \in Buffers : s.buf[b].token = op.token}

\* a buffer that is written is free; one that is not is to be stored again
WriteEnds(s, op, success) ==
    LET b == Min(BuffersOf(s, op))
    IN  CASE BuffersOf(s, op) = {} -> s
          [] BuffersOf(s, op) # {} /\ success -> [s EXCEPT !.buf[b] = Unused]
          [] BuffersOf(s, op) # {} /\ ~success ->
                [s EXCEPT !.buf[b] = [@ EXCEPT !.token = StoreTokenInvalid,
                                               !.busy = TRUE],
                          !.pending = TRUE]

\* peer_id_free
Freed(s, id) == [s EXCEPT !.used = @ \ {id}, !.deleted = @ \ {id}]

\* mutant of DeletionEnds: the next file is asked for too early
DeletionEndsEarly(s, op, success) ==
    [PeerDataDelete(IF success THEN Freed(s, op.peer) ELSE s)
        EXCEPT !.ongoing = FALSE]

DeletionEnds(s, op, success) ==
    PeerDataDelete([(IF success THEN Freed(s, op.peer) ELSE s)
                       EXCEPT !.ongoing = FALSE])

\* pdb_evt_send
PdbEvtSend(s, kind, op) ==
    GcmPdbEvent(SmPdbEvent(s, kind), kind, op.peer, op.data)

\* the failure of a buffer's write is kept from the others
PdbPdsEvent(s, op, success) ==
    LET sends == \/ success
                 \/ BuffersOf(s, op) = {}
                 \/ op.op \in {"gc", "deleteFile"}
        done  == CASE op.op \in {"write", "update"} -> WriteEnds(s, op, success)
                   [] op.op = "deleteFile" -> DeletionEnds(s, op, success)
                   [] op.op = "gc" -> s
    IN  Reattempt(IF sends THEN PdbEvtSend(done, Event(op, success), op)
                  ELSE done,
                  op.op = "gc")

\* the operation leaves the queue when the handlers of its end are through
Leave(s, success) ==
    [s EXCEPT !.queue = Tail(@),
              !.carried = success \/ Len(s.queue) = 1]

Ends(s, success) ==
    Leave(PdbPdsEvent([s EXCEPT !.running = FALSE,
                                !.failed = @ \/ ~success],
                      Head(s.queue), success),
          success)

\* what a turn of the loop or the flash comes to: the operation goes on or is
\* at its end
GoesOn(s)   == [db |-> s, result |-> "none"]
Succeeds(s) == [db |-> s, result |-> "success"]
Fails(s)    == [db |-> s, result |-> "error"]

Outcome(out) ==
    IF out.result = "none" THEN out.db
    ELSE Ends(out.db, out.result = "success")

-----------------------------------------------------------------------------
(* The loop of queue_process, and the flash.                               *)

\* page_offsets_update, with a record or without.  The offset may pass
\* the end of the page: Places stands for that.
OffsetsUpdate(s, lost) ==
    [s EXCEPT !.reserved = Less(@),
              !.garbage = Min({@ + (IF lost THEN 1 ELSE 0), Places})]

Running(s) == [s EXCEPT !.running = TRUE]

OldRecord(s, op) == {r \in Kind(s, op.peer, op.data) : r.token = op.old}

\* an operation behind one that has failed fails without being tried
Process(s, op) ==
    LET writes == op.op \in {"write", "update"}
        lost   == IF writes THEN OffsetsUpdate(s, TRUE) ELSE s
    IN  CASE ~s.carried -> Fails(lost)
          [] s.carried /\ op.op = "update" ->
                IF OldRecord(s, op) # {} THEN GoesOn(Running(s))
                ELSE Fails(lost)
          [] s.carried /\ op.op = "deleteFile" ->
                IF HasFile(s, op.peer) THEN GoesOn(Running(s))
                ELSE Succeeds(s)
          [] s.carried /\ op.op \in {"write", "gc"} -> GoesOn(Running(s))

\* the new record is whole
Written(s, op) ==
    [OffsetsUpdate(s, FALSE) EXCEPT
        !.flash = @ \cup {[peer |-> op.peer, data |-> op.data,
                           token |-> op.token]}]

\* the records are flagged dirty
Dirty(s, records) ==
    [s EXCEPT !.flash = @ \ records,
              !.garbage = Min({@ + Cardinality(records), Places})]

FlashDoneStep(s, op) ==
    CASE op.op = "write"  -> Succeeds(Written(s, op))
      [] op.op = "update" -> Succeeds(Dirty(Written(s, op), OldRecord(s, op)))
      [] op.op = "gc"     -> Succeeds([s EXCEPT !.garbage = 0])
      [] op.op = "deleteFile" ->
            LET r == CHOOSE x \in s.flash : x.peer = op.peer
            IN  GoesOn([Dirty(s, {r}) EXCEPT !.running = FALSE])

\* nothing was written, or the new record was and the old one is kept
TimeoutSteps(s, op) ==
    LET lost == Fails(OffsetsUpdate(s, TRUE))
    IN  CASE op.op = "write"  -> {lost}
          [] op.op = "update" -> {lost, Fails(Written(s, op))}
          [] OTHER -> {Fails(s)}

-----------------------------------------------------------------------------
(* The steps.                                                              *)

vars == <<db>>

Budget == [requests : 0..MaxRequests, timeouts : 0..MaxTimeouts,
           resets : 0..MaxResets]

\* the handlers' turn: queue_process waits for the flash or has nothing to do
Free == ~db.fault /\ (db.running \/ db.queue = <<>>)

\* the centrals and the user
Request(s) ==
    /\ Free
    /\ db.left.requests > 0
    /\ db' = [s EXCEPT !.left.requests = @ - 1]

\* a central that is known by its bond, or one that is not
Connected ==
    /\ db.link # "up"
    /\ \E id \in {r.peer : r \in {x \in db.flash : x.data = "bonding"}}
                 \cup {PeerIdInvalid} :
        Request([db EXCEPT !.link = "up", !.peer = id,
                           !.proc = "none", !.update = FALSE])

\* pairing_failure, with the link or without it
PairingFailed(s) ==
    IF s.proc = "pairing" THEN [PeerFree(s, s.peer) EXCEPT !.proc = "none"]
    ELSE s

\* the flags of a closed link stay until the next one is opened
Disconnected ==
    /\ Free
    /\ db.link = "up"
    /\ db' = [PairingFailed(db) EXCEPT !.link = "gone"]

\* an unknown central asks for pairing
SecParamsRequest ==
    /\ db.link = "up"
    /\ db.proc = "none"
    /\ db.peer = PeerIdInvalid
    /\ Request(ParamsReply(db))

\* the pairing fails, or its peer has a bond already, which is kept
AuthFailed ==
    /\ Free
    /\ db.proc = "pairing"
    /\ db' = PairingFailed(db)

\* auth_status_success_process: without the id the buffer is not found
AuthBonded ==
    LET b    == BufOf(db, db.peer, "bonding")
        done == WriteBufStore(db, b)
    IN  /\ Free
        /\ db.proc = "pairing"
        /\ db' = IF db.peer \notin db.used THEN Fault(db)
                 ELSE IF done.buf[b].full THEN Fault(done)
                 ELSE [done EXCEPT !.proc = "none"]

\* the central configures what it wants to be notified of
CccdWritten ==
    /\ db.link = "up"
    /\ Request(UpdatePendingCheck([db EXCEPT !.update = TRUE]))

\* KEY_2: pm_peers_delete
DeleteBonds ==
    LET Delete(t, n) == IF n - 1 \in db.used \ db.deleted THEN PeerFree(t, n - 1) ELSE t
    IN  /\ db.used \ db.deleted # {}
        /\ Request(Loop(Delete, db, Max(Peers) + 1))

Processing == ~db.fault /\ ~db.running /\ db.queue # <<>>
FlashBusy  == ~db.fault /\ db.running

QueueProcess ==
    /\ Processing
    /\ db' = Outcome(Process(db, Head(db.queue)))

FlashDone ==
    /\ FlashBusy
    /\ db' = Outcome(FlashDoneStep(db, Head(db.queue)))

FlashTimeout ==
    /\ FlashBusy
    /\ db.left.timeouts > 0
    /\ \E out \in TimeoutSteps([db EXCEPT !.left.timeouts = @ - 1],
                               Head(db.queue)) :
        db' = Outcome(out)

\* what was being written may just be whole; the place is used all the same
AfterReset(s) ==
    LET op == Head(s.queue)
    IN  IF s.running /\ op.op \in {"write", "update"}
        THEN {OffsetsUpdate(s, TRUE), Written(s, op)}
        ELSE {s}

\* the device is switched off and on, or a check has failed
Reset ==
    /\ db.left.resets > 0
    /\ \E s \in AfterReset(db) :
        db' = PdbBoot(s.flash, s.garbage, [s.left EXCEPT !.resets = @ - 1])

Init ==
    \E flash \in FirstFlash :
        db = PdbBoot(flash, 0, [requests |-> MaxRequests,
                                timeouts |-> MaxTimeouts,
                                resets   |-> MaxResets])

Next ==
    \/ Connected \/ Disconnected
    \/ SecParamsRequest \/ AuthFailed \/ AuthBonded
    \/ CccdWritten \/ DeleteBonds
    \/ QueueProcess \/ FlashDone \/ FlashTimeout
    \/ Reset

Spec == Init /\ [][Next]_vars

\* The loop runs on, and each flash operation comes to an end: WF_vars of the
\* two, with ENABLED spelt out, which TLC takes very long to find.
FairSpec ==
    /\ Spec
    /\ []<>~Processing \/ []<><<QueueProcess>>_vars
    /\ []<>~FlashBusy \/ []<><<FlashDone \/ FlashTimeout>>_vars

-----------------------------------------------------------------------------
(* Properties.                                                             *)

Ops(kinds) == {k \in DOMAIN db.queue : db.queue[k].op \in kinds}

Writes == Ops({"write", "update"})

TypeOK ==
    /\ \A r \in db.flash : r.peer \in Peers /\ r.data \in {"bonding", "local"}
    /\ db.garbage \in 0..Places
    /\ db.reserved \in -1..Places
    /\ db.deleted \subseteq Peers /\ db.used \subseteq Peers
    /\ Len(db.queue) <= QueueSize
    /\ db.running => db.queue # <<>> /\ db.carried
    /\ db.left \in Budget
    /\ db.buf \in [Buffers -> [peer     : Peers \cup {PeerIdInvalid},
                               data     : {"bonding", "local", "none"},
                               prepared : BOOLEAN,
                               token    : Nat,
                               busy     : BOOLEAN,
                               full     : BOOLEAN]]
    /\ db.peer \in Peers \cup {PeerIdInvalid}
    /\ db.link \in {"none", "up", "gone"}
    /\ db.proc \in {"none", "pairing", "busy", "full"}
    /\ \A b \in {db.running, db.carried, db.ongoing, db.pending, db.update,
                 db.lock, db.fault, db.failed} : b \in BOOLEAN

\* A buffer that is being stored belongs to exactly one write of the queue, of
\* the same data, and each write to a buffer: no write is done from a buffer
\* that has been given to other data, and none is forgotten or done twice
\* (peer_database.c, write_buffer_record_find and pdb_pds_evt_handler).
QueuedOnce ==
    ~db.fault =>
        /\ \A b \in Buffers : db.buf[b].token # StoreTokenInvalid =>
            /\ ~db.buf[b].busy /\ ~db.buf[b].full
            /\ Cardinality({k \in Writes :
                               db.queue[k].token = db.buf[b].token}) = 1
        /\ \A k \in Writes : \E b \in Buffers :
            /\ db.buf[b].token = db.queue[k].token
            /\ db.buf[b].peer = db.queue[k].peer
            /\ db.buf[b].data = db.queue[k].data

\* As long as an id is to be deleted, one deletion of a file is in the queue,
\* and never two: the chain of deletions, each asked for at the end of the one
\* before, does not stop (peer_data_storage.c, m_peer_delete_ongoing).
DeletionGoesOn ==
    ~db.fault =>
        /\ db.deleted # {} => db.ongoing
        /\ Cardinality(Ops({"deleteFile"})) = IF db.ongoing THEN 1 ELSE 0

\* The places set aside are those of the writes in the queue and of the
\* pairings that have prepared their bond, until an operation fails: a bond
\* finds the place it was promised, and none is kept after a pairing that came
\* to nothing (pdb_write_buf_store_prepare, pdb_write_buf_release).
SpaceHeld ==
    ~db.fault /\ ~db.failed =>
        db.reserved = Cardinality(Writes)
            + Cardinality({b \in Buffers :
                              db.buf[b].prepared /\ ~Stored(db.buf[b])})

\* Whoever waits will be woken: the lock of the store of configurations is held
\* by a write that will release it; a pairing, a store or a buffer that was
\* busy has an operation in the queue whose end looks at it again, and what
\* found no room has a garbage collection (sm_pdb_evt_handler,
\* gcm_pdb_evt_handler, reattempt_previous_operations, main.c:1956).
WaitersAreWoken ==
    ~db.fault =>
        /\ db.lock => \E b \in Buffers :
                          db.buf[b].data = "local" /\ Stored(db.buf[b])
        /\ \/ db.proc = "busy"
           \/ db.update /\ db.link # "none"
           \/ \E b \in Buffers : db.buf[b].busy
           => db.queue # <<>>
        /\ db.proc = "full" \/ (\E b \in Buffers : db.buf[b].full)
           => Ops({"gc"}) # {}

\* a collection makes room for every write, and no operation has failed
Healthy ==
    /\ ~db.failed
    /\ ~db.fault
    /\ Cardinality(db.flash) + db.reserved < Places

\* What is handed over for storing is stored, if collections make room and no
\* operation fails: no retry is forgotten and none is made for ever
\* (pdb_pds_evt_handler, fds queue_process).
StoresEnd ==
    \A b \in Buffers : Healthy /\ Stored(db.buf[b]) ~>
                            ~Healthy \/ ~Stored(db.buf[b])
=============================================================================
