--------------------------- MODULE MCPeerManager ----------------------------
(* Three peers for model checking PeerManager.                             *)
EXTENDS PeerManager

CONSTANTS p1, p2, p3
=============================================================================
