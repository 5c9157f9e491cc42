----------------------------- MODULE MCNodeLife -----------------------------
(* Small instances of NodeLife for TLC. *)
EXTENDS NodeLife
=============================================================================
