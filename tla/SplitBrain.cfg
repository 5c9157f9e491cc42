SPECIFICATION Spec
CONSTANTS
    Node = {1, 2, 3}
    Team <- MCTeam
    Move = {1, 2}
    NoVote = NoVote
    Legal <- MCLegal
    GameEnds <- MCGameEnds
    MaxRevotes = 0
    MayDrop = {{1, 2}}
    MaxDrops = 1
    MayRestart = {}
    StartSkew = FALSE
    MoveTimeouts = FALSE
CHECK_DEADLOCK FALSE
INVARIANT
    Agreement
