--------------------------- MODULE MCTeamDecisions ---------------------------
(* Small instances of TeamDecisions for TLC. *)
EXTENDS TeamDecisions, TLC

MCThree == (1 :> "white" @@ 2 :> "white" @@ 3 :> "black")
=============================================================================
