--------------------------- MODULE MCPeerDatabase ---------------------------
(***************************************************************************)
(* A new device, and one with two bonds.                                   *)
(***************************************************************************)
EXTENDS PeerDatabaseClaims, PeerDatabaseInvariant

Flashes == {{}, {Bond(0), Bond(1)}}
=============================================================================
