SPECIFICATION Spec
CONSTANTS
    Node = {1, 2, 3}
    Team <- MCThree
    Percent = 67
    MayOffer = {1, 3}
    MayDrop = {{1, 2}}
    MaxDrops = 1
    MaxExpiries = 1
CHECK_DEADLOCK FALSE
INVARIANTS
    DrawNeedsBothSides
    ResigningNeedsTheTeam
    EnoughYesResigns
    TeamVotesMeet
    ResignationEndsEverywhere
