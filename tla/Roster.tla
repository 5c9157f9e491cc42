------------------------------- MODULE Roster -------------------------------
(***************************************************************************)
(* Who is in the game, which of the connected players is master, and       *)
(* whether enough of them are connected to count votes (core/roster.ts).   *)
(* Public keys are natural numbers: all the code does with them is compare *)
(* and sort them.  `players` is the roster's key set, empty outside a game.*)
(***************************************************************************)
EXTENDS Naturals, FiniteSets

\* The connected players that are in the game; outside a game, all of them.
Playing(players, connected) ==
    IF players = {} THEN connected ELSE connected \cap players

\* Mutant: every connected player takes itself for the master.
AnyoneIsMaster(k, players, connected) == k \in Playing(players, connected)

\* k is the lowest key among the connected players in the game.
IsMaster(k, players, connected) ==
    /\ k \in Playing(players, connected)
    /\ \A j \in Playing(players, connected) : k <= j

\* Mutant: the connected players are compared with themselves.
QuorumOfConnected(players, connected) ==
    Playing(players, connected) # {}

\* More than half the players are connected; vacuous outside a game.
HasQuorum(players, connected) ==
    \/ players = {}
    \/ Cardinality(Playing(players, connected)) * 2 > Cardinality(players)

=============================================================================
