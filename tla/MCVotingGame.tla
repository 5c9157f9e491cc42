---------------------------- MODULE MCVotingGame ----------------------------
(* Small instances of VotingGame for TLC. *)
EXTENDS VotingGame, TLC

\* Players 1 and 3 play white, 2 plays black; 1 is the lowest key.
MCTeam == (1 :> "white" @@ 2 :> "black" @@ 3 :> "white")
\* The position after the opening move leaves black a single legal move.
MCLegal(history) == IF history = <<>> THEN Move ELSE {1}
MCTwoTeam == (1 :> "white" @@ 2 :> "black")
MCGameEnds(history) == Len(history) >= 2
=============================================================================
