-------------------------- MODULE MCPeerConnection --------------------------
(* The connection of PeerConnection with the constants of a cfg.           *)
EXTENDS PeerConnection
=============================================================================
