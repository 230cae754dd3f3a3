---------------------------- MODULE PeerManager ----------------------------
(***************************************************************************)
(* The peer manager of the SDK (components/ble/peer_manager) below its     *)
(* events: the peer ids of peer_id.c, the bonding records of               *)
(* peer_data_storage.c with the queue of the flash data storage, and the   *)
(* whitelist and identity lists of id_manager.c.                           *)
(*                                                                         *)
(* A peer's file holds its bonding record only, and an operation of the    *)
(* flash queue is done in one step.                                        *)
(***************************************************************************)
EXTENDS SoftDevice, FiniteSetsExt, SequencesExt

CONSTANTS
    Ids,           \* the peer ids, 0 .. PM_PEER_ID_N_AVAILABLE_IDS - 1
    FdsQueueSize   \* operations the flash queue takes from the application

ASSUME PeerManagerAssumption ==
    /\ Ids \subseteq 0..254
    /\ 0 \in Ids
    /\ FdsQueueSize \in Nat \ {0}

PeerIdInvalid == 65535  \* PM_PEER_ID_INVALID

\* after pm_init, which finds the ids in use by their bonding records
PmBoot(bond) ==
    [bond       |-> bond,      \* the bonding record in flash, by peer id
     used       |-> {i \in Ids : bond[i] # NoDev},
     deleted    |-> {},        \* ids whose file is to be deleted
     fdsq       |-> <<>>,      \* flash operations not done yet
     gap        |-> FALSE,     \* erased words hide what is written behind
     overrun    |-> FALSE,     \* the queue had no place for an operation
     wlisted    |-> <<>>,      \* m_wlisted_peers
     connPeer   |-> PeerIdInvalid,  \* the peer id of the connection
     secProc    |-> "none",    \* the procedure of the security dispatcher
     newPeer    |-> FALSE]     \* it has allocated the peer id

-----------------------------------------------------------------------------
\* pm_next_peer_id_get walks through these
Listed(s) == s.used \ s.deleted

PeerList(s) == SetToSortSeq(Listed(s), LAMBDA i, j : i < j)

\* the lowest id whose bonding record is the device's, deleted ids included
FindBond(s, dev) ==
    LET match == {i \in Ids : s.bond[i] = dev}
    IN  IF match = {} THEN PeerIdInvalid ELSE Min(match)

HasBond(s, id) == id \in Ids /\ s.bond[id] # NoDev

\* peers_id_keys_get: the devices, if every peer has its record
KeysFound(s, peers) == \A k \in DOMAIN peers : HasBond(s, peers[k])

DevicesOf(s, peers) == {s.bond[peers[k]] : k \in DOMAIN peers}

PmWhitelistSet(s, peers) ==
    LET cached == [s EXCEPT !.wlisted = peers]
    IN  IF KeysFound(s, peers)
        THEN SdWhitelistSet(cached, DevicesOf(s, peers))
        ELSE Return(cached, "NOT_FOUND")

PmDeviceIdentitiesListSet(s, peers) ==
    IF ~KeysFound(s, peers) THEN Return(s, "NOT_FOUND")
    ELSE LET devs == DevicesOf(s, peers)
         IN  SdIdentitiesSet(s, devs, Cardinality(devs) < Len(peers))

PmWhitelistGet(s) ==
    Return(s, IF KeysFound(s, s.wlisted) THEN "SUCCESS" ELSE "NOT_FOUND")

-----------------------------------------------------------------------------
(* The flash queue.                                                        *)

FlashIsBusy(s) == s.fdsq # <<>>

\* the peer manager tries again until the queue has taken its operations
FdsPut(s, op, id, dev) ==
    [s EXCEPT !.fdsq = Append(@, [op |-> op, id |-> id, dev |-> dev])]

HasFile(s, id) == HasBond(s, id)

\* peer_data_delete: the search for the next id's file goes on where the
\* search for the last one has ended, so that it finds a file for the lowest
\* id or for none, and all the ids without one are freed
PeerDataDelete(s) ==
    CASE s.deleted = {} -> s
      [] s.deleted # {} /\ ~HasFile(s, Min(s.deleted)) ->
            [s EXCEPT !.used = @ \ s.deleted, !.deleted = {}]
      [] s.deleted # {} /\ HasFile(s, Min(s.deleted)) ->
            IF \E k \in DOMAIN s.fdsq : s.fdsq[k].op = "delete" THEN s
            ELSE FdsPut(s, "delete", Min(s.deleted), NoDev)

\* im_peer_free; an id out of range is refused, which nobody looks at
PeerFree(s, id) ==
    IF id \notin Ids THEN s
    ELSE [PeerDataDelete([s EXCEPT !.deleted = @ \cup {id}])
             EXCEPT !.connPeer = IF @ = id THEN PeerIdInvalid ELSE @]

\* the walk of pm_peers_delete through the ids comes to this one
FreeNext(s, id) == IF id \in Listed(s) THEN PeerFree(s, id) ELSE s

PmPeersDelete(s) ==
    LET last == Max(Ids) + 1
        freed[n \in 0 .. last] ==
            IF n = 0 THEN s ELSE FreeNext(freed[n - 1], n - 1)
        all  == freed[last]
    IN  [s EXCEPT !.used     = all.used,
                  !.deleted  = all.deleted,
                  !.fdsq     = all.fdsq,
                  !.connPeer = all.connPeer,
                  !.ret      = "SUCCESS"]


\* the end of a delete operation
PeerDeleted(s, id) ==
    PeerDataDelete([s EXCEPT !.used = @ \ {id}, !.deleted = @ \ {id}])
=============================================================================
