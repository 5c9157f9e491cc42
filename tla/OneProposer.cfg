SPECIFICATION FairSpec
CONSTANTS
    Node = {1, 2, 3}
    Settings <- MCTwoSettings
    Default <- MCDefault
    Proposers = {1}
    MayReady = {1, 2, 3}
    MaxVersion = 1
    MayRestart = {2}
CHECK_DEADLOCK FALSE
INVARIANTS
    ReadyPlayersAgree
PROPERTIES
    VersionsOnlyRise
    EveryoneMayReady
