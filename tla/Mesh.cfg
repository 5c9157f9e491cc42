SPECIFICATION Spec
CONSTANTS
    Node = {1, 2, 3}
    Team <- MCTeam
    Move = {1, 2}
    NoVote = NoVote
    Legal <- MCLegal
    GameEnds <- MCGameEnds
    MaxRevotes = 1
    MayDrop = {}
    MaxDrops = 0
    MayRestart = {}
    StartSkew = FALSE
    MoveTimeouts = FALSE
CHECK_DEADLOCK FALSE
INVARIANT
    VotesForThisPosition
    SameGameWhenQuiet
PROPERTY
    PlaysOneGame
