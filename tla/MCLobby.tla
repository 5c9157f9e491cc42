------------------------------- MODULE MCLobby -------------------------------
(* Small instances of Lobby for TLC. *)
EXTENDS Lobby, TLC

\* Player 1, the lowest key, is alone on its side.
MCThree == (1 :> "black" @@ 2 :> "white" @@ 3 :> "white")
=============================================================================
