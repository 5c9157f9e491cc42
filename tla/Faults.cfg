SPECIFICATION FairSpec
CONSTANTS
    Node = {1, 2}
    Team <- MCTwoTeam
    Move = {1, 2}
    NoVote = NoVote
    Legal <- MCLegal
    GameEnds <- MCGameEnds
    MaxRevotes = 1
    MayDrop = {{1, 2}}
    MaxDrops = 2
    MayRestart = {1, 2}
    StartSkew = TRUE
    MoveTimeouts = TRUE
CHECK_DEADLOCK FALSE
INVARIANTS
    OneVotePerRound
    HoldsItsVotes
    OneCounter
    RevotesAreBounded
PROPERTIES
    GameMovesForward
    GamesEnd
