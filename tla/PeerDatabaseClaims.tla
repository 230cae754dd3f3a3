------------------------- MODULE PeerDatabaseClaims -------------------------
(***************************************************************************)
(* What a header says of the peer ids and the program does not keep.       *)
(***************************************************************************)
EXTENDS PeerDatabase

\* peer_data_storage.h:202, pds_peer_id_free is a "Function for freeing a peer ID
\* and deleting all data associated with it in flash": no record in flash is of
\* an id that is free to be given to another peer.  A record that is still in
\* the queue is not found when the id is freed.
FreeIdHasNoData ==
    ~db.fault => \A r \in db.flash : r.peer \in db.used
=============================================================================
