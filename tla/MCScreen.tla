------------------------------ MODULE MCScreen ------------------------------
(* Small instances of Screen for TLC. *)
EXTENDS Screen, TLC

MCDefault  == [vote |-> 1, resign |-> "usual"]
MCSettings == {MCDefault, [vote |-> 2, resign |-> "other"]}

\* The other players differ in nothing but what they do.
MCSymmetry == Permutations(Peer)
=============================================================================
