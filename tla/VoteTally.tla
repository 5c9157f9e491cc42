----------------------------- MODULE VoteTally ------------------------------
(***************************************************************************)
(* The counting rule shared by the master and by every node that recounts  *)
(* its tally (game/voting-state.ts, game/verify-tally.ts).                 *)
(*                                                                         *)
(* A vote list holds at most one signed vote per player, so it is a        *)
(* function from players to a move or NoVote.  Moves are natural numbers:  *)
(* the rule only compares them, to break a two-way tie.                    *)
(***************************************************************************)
EXTENDS Naturals, FiniteSets

CONSTANTS Node,     \* the players of the game, by public key
          Team,     \* Team[n]: the side n plays on
          Move,     \* the moves votes may name
          NoVote    \* the absence of a vote

Votes == [Node -> Move \cup {NoVote}]

NoVotes == [v \in Node |-> NoVote]

Voters(votes) == {v \in Node : votes[v] # NoVote}

Count(votes, m) == Cardinality({v \in Node : votes[v] = m})

\* The moves with the most votes.
Top(votes) ==
    LET voted == {votes[v] : v \in Voters(votes)}
    IN  {m \in voted : \A k \in voted : Count(votes, k) <= Count(votes, m)}

\* One move leads with more than half of the votes.
Majority(votes) ==
    /\ Cardinality(Top(votes)) = 1
    /\ \E m \in Top(votes) : Count(votes, m) * 2 > Cardinality(Voters(votes))

\* Exactly two moves share the lead.
TwoWayTie(votes) == Cardinality(Top(votes)) = 2

Outcome(votes) ==
    IF Voters(votes) = {} THEN "no_votes"
    ELSE IF Majority(votes) \/ TwoWayTie(votes) THEN "winner"
    ELSE "no_majority"

\* The leading move that sorts first; meaningful when the outcome is "winner".
Winner(votes) ==
    CHOOSE m \in Top(votes) : \A k \in Top(votes) : m <= k

\* What tallyMoves returns and a tally_result claims.
TallyMoves(votes) ==
    [outcome |-> Outcome(votes),
     move    |-> IF Outcome(votes) = "winner" THEN Winner(votes) ELSE NoVote]

\* Mutant: the voter's side is not checked.
CheckVoteOfAnySide(v, m, side, legal) == m \in legal

\* A forwarded vote that passes: its voter is on the side to move and the move
\* is legal.  Turn and round are those of the list it is forwarded in.
CheckVote(v, m, side, legal) == Team[v] = side /\ m \in legal

\* The recount of a claim made for this turn and round: the position is ours,
\* every vote passes, and the outcome and the move are those of the votes.
VerifyTally(claim, history, side, legal) ==
    /\ claim.before = history
    /\ \A v \in Voters(claim.votes) : CheckVote(v, claim.votes[v], side, legal)
    /\ TallyMoves(claim.votes).outcome = claim.outcome
    /\ claim.outcome = "winner" => TallyMoves(claim.votes).move = claim.move

=============================================================================
