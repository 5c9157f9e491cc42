----------------------------- MODULE MCPeerTable -----------------------------
(* A small instance of PeerTable for TLC. *)
EXTENDS PeerTable
=============================================================================
