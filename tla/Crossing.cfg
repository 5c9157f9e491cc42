SPECIFICATION Spec
CONSTANTS
    Node = {1, 2, 3}
    Settings <- MCSettings
    Default <- MCDefault
    Proposers = {1, 2}
    MayReady = {1, 2, 3}
    MaxVersion = 1
    MayRestart = {}
CHECK_DEADLOCK FALSE
INVARIANTS
    ReadyPlayersAgree
