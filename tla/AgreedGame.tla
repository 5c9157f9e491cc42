----------------------------- MODULE AgreedGame -----------------------------
(***************************************************************************)
(* What a game with several players per side promises them: there is one   *)
(* game, move after legal move, and what every player has seen of it is a  *)
(* beginning of that one game.                                             *)
(***************************************************************************)
EXTENDS Naturals, Sequences

CONSTANTS Node, Move, Legal(_), GameEnds(_)

VARIABLES decided,   \* the moves of the game so far
          view       \* view[n]: the moves player n has seen played

vars == <<decided, view>>

Init ==
    /\ decided = <<>>
    /\ view = [n \in Node |-> <<>>]

\* A player that is up to date learns of the next move as it is decided.
Decide(n, move) ==
    /\ view[n] = decided
    /\ ~GameEnds(decided)
    /\ move \in Legal(decided)
    /\ decided' = Append(decided, move)
    /\ view' = [view EXCEPT ![n] = decided']

\* A player learns of moves it had not seen.
Learn(n, k) ==
    /\ Len(view[n]) < k
    /\ view' = [view EXCEPT ![n] = SubSeq(decided, 1, k)]
    /\ UNCHANGED decided

Next ==
    \/ \E n \in Node, move \in Move : Decide(n, move)
    \/ \E n \in Node : \E k \in 1..Len(decided) : Learn(n, k)

Spec == Init /\ [][Next]_vars

=============================================================================
