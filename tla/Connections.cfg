SPECIFICATION FairSpec
CONSTANTS
    Slot = {1, 2, 3}
    None = None
    Attempts = 2
    MaxFailures = 2
CHECK_DEADLOCK FALSE
INVARIANTS
    CountMatchesTable
    TalkersKnow
PROPERTIES
    TalkGoesOn
    TalkAgain
