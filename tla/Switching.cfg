SPECIFICATION FairSpec
CONSTANTS
    Networks = {"local", "global"}
    MaxLives = 2
    MaxCalls = 2
    Slot = {1, 2}
    MaxBreaks = 1
    LowerKey = TRUE
CHECK_DEADLOCK FALSE
INVARIANTS
    OneTransportRuns
    InTouchUnlessLeftOnLan
PROPERTIES
    FindsThePeer
    LeaverIsForgotten
