------------------------- MODULE SecurityDispatcher -------------------------
(***************************************************************************)
(* What the peer manager does with each event of the stack and of the      *)
(* flash (security_dispatcher.c, security_manager.c, id_manager.c,         *)
(* peer_data_storage.c), down to the call of the application's             *)
(* pm_evt_handler.  The mouse asks for bonding and refuses to bond again   *)
(* with a peer it knows.                                                   *)
(***************************************************************************)
EXTENDS AppAdvertising

\* record_purge_disconnected of ble_conn_state.c, which hears of a connection
\* first: the flags of the last one are cleared
RecordPurgeDisconnected(s) == [s EXCEPT !.newPeer = FALSE]

\* im_ble_evt_handler: the peer is looked up by the address of the central
ImConnected(s, dev) ==
    LET id == FindBond(s, dev)
        new == [RecordPurgeDisconnected(s) EXCEPT !.connPeer = id]
    IN  IF id = PeerIdInvalid THEN new ELSE BondedPeerConnected(new)

-----------------------------------------------------------------------------
(* The end of a procedure without success.                                 *)

\* conn_sec_failure; the application's handler disconnects
ConnSecFailure(s) == AppDisconnect([s EXCEPT !.secProc = "none"])

\* mutant of LinkSecureFailure: the id allocated for the procedure is kept
LinkSecureFailureKeeps(s) ==
    IF s.secProc = "none" THEN s ELSE ConnSecFailure(s)

\* pairing_failure frees the id that was allocated for the procedure
LinkSecureFailure(s) ==
    IF s.secProc = "none" THEN s
    ELSE IF s.secProc = "pairing" /\ s.newPeer
    THEN ConnSecFailure(PeerFree(s, s.connPeer))
    ELSE ConnSecFailure(s)

\* mutant of SmdDisconnected: the procedure outlives the connection
SmdDisconnectedOpen(s) == [s EXCEPT !.connPeer = PeerIdInvalid]

\* disconnect_process; no one asks for the peer of a closed connection again
SmdDisconnected(s) == [LinkSecureFailure(s) EXCEPT !.connPeer = PeerIdInvalid]

-----------------------------------------------------------------------------
(* Pairing.                                                                *)

Unallocated(s) == Ids \ s.used

\* mutant of SecProcStart: the flag of the last procedure is kept
SecProcStartKeeps(s, procedure) == [s EXCEPT !.secProc = procedure]

SecProcStart(s, procedure) ==
    [s EXCEPT !.secProc = procedure, !.newPeer = FALSE]

\* events_send_from_err_code of security_manager.c: a request that the stack no
\* longer knows of is passed over
ReplyFailed(s) == IF s.ret = "INVALID_STATE" THEN s ELSE ErrorUnexpected(s)

\* smd_params_reply: an unknown peer gets an id, a known one is refused
SecParamsRequestProcess(s) ==
    LET started == SecProcStart(s, "pairing")
        new     == Min(Unallocated(s))
        reply   == SdSecReply([started EXCEPT !.used = @ \cup {new}],
                              "params", "pairing")
        refuse  == SdSecReply(started, "params", "rejected")
    IN  IF s.connPeer # PeerIdInvalid THEN ReplyFailed(refuse)
        ELSE IF Unallocated(s) = {} THEN ReplyFailed(Return(started, "INTERNAL"))
        ELSE IF reply.ret = "SUCCESS"
        THEN [reply EXCEPT !.newPeer = TRUE, !.connPeer = new]
        ELSE ReplyFailed(PeerFree(reply, new))

\* auth_status_success_process, bonded: an id that is not in use has no buffer
\* for the keys, and a device that is bonded under another id keeps that bond
AuthBonded(s, dev) ==
    LET other == FindBond(s, dev)
        ended == [s EXCEPT !.secProc = "none"]
        known == [ended EXCEPT !.connPeer = other]
    IN  IF s.connPeer \notin s.used
        THEN ErrorUnexpected(Return(ended, "INVALID_PARAM"))
        ELSE ConnSecSucceeded(
                 IF other = PeerIdInvalid
                 THEN FdsPut(ended, "bond", s.connPeer, dev)
                 ELSE IF s.newPeer THEN PeerFree(known, s.connPeer)
                 ELSE known)

\* not bonded: the id that was allocated for the procedure is freed
AuthPaired(s) ==
    LET ended == [s EXCEPT !.secProc = "none"]
    IN  ConnSecSucceeded(
            IF s.newPeer THEN PeerFree(ended, s.connPeer) ELSE ended)

-----------------------------------------------------------------------------
(* Encryption with the keys of a bond.                                     *)

\* the peer may not have been known until its keys were asked for
SecInfoRequestProcess(s, dev) ==
    LET byKey   == FindBond(s, dev)
        peer    == IF byKey = PeerIdInvalid THEN s.connPeer ELSE byKey
        started == SecProcStart([s EXCEPT !.connPeer = peer], "encryption")
        reply   == SdSecReply(started, "info",
                       IF HasBond(s, peer) THEN "encrypting" ELSE "none")
    IN  IF reply.ret # "SUCCESS" THEN ErrorUnexpected(reply)
        ELSE IF HasBond(s, peer) THEN reply
        ELSE ConnSecFailure(reply)

ConnSecUpdateProcess(s, isEncrypted) ==
    IF s.secProc = "pairing" THEN s
    ELSE IF isEncrypted THEN ConnSecSucceeded([s EXCEPT !.secProc = "none"])
    ELSE ConnSecFailure(s)

-----------------------------------------------------------------------------
(* The flash queue has done its first operation: the flash holds the       *)
(* result, the peer manager hears of it, then the advertising module.      *)

\* the operations that are left name the same records, 0 stands for none
Renumbered(op, pos) ==
    CASE op.op # "unorder" -> op
      [] op.op = "unorder" /\ op.id < pos -> op
      [] op.op = "unorder" /\ op.id = pos -> [op EXCEPT !.id = 0]
      [] op.op = "unorder" /\ op.id > pos -> [op EXCEPT !.id = @ - 1]

OrderDeleted(s, pos) ==
    [s EXCEPT !.orderRecs = RemoveAt(@, pos),
              !.fdsq = [k \in DOMAIN @ |-> Renumbered(@[k], pos)]]

\* The record to delete is gone.  queue_process hands the error on to the
\* operations behind, which fail without being tried: a write leaves its words
\* erased, and the peer manager's are queued again by their handlers, for ever,
\* until an interrupt finds the scheduler full.
OrderNotFound(s) ==
    LET behind == {op.op : op \in Range(Tail(s.fdsq))}
    IN  IF behind \cap {"bond", "delete"} # {}
        THEN [s EXCEPT !.fault = "queue_process"]
        ELSE [s EXCEPT !.fdsq = <<Head(@)>>, !.gap = @ \/ "order" \in behind]

\* a record behind a gap is written and not found
Visible(s, written) == IF s.gap THEN s ELSE written

\* what the end of an operation does
Completed(s, op) ==
    CASE op.op = "bond" ->
            PeerDataUpdateSucceeded(
                Visible(s, [s EXCEPT !.bond[op.id] = op.dev]), op.id)
      [] op.op = "delete" ->
            PeerDeleted([s EXCEPT !.bond[op.id] = NoDev], op.id)
      [] op.op = "order" ->
            Visible(s, [s EXCEPT !.orderRecs = Append(@, s.deviceOrder)])
      [] op.op = "unorder" /\ op.id = 0 -> OrderNotFound(s)
      [] OTHER -> OrderDeleted(s, op.id)

\* the operation leaves the queue when the handlers of its end are through
FdsDone(s) ==
    LET done == Completed([s EXCEPT !.fdsq[1].op = "done"], Head(s.fdsq))
    IN  [done EXCEPT !.fdsq = Tail(@)]

FlashOperationDone(s) == OnSysEvt(FdsDone(s))
=============================================================================
