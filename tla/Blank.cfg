SPECIFICATION Spec
CONSTANTS
    Peer = {p, q}
    p = p
    q = q
    Settings <- MCSettings
    Default <- MCDefault
    MaxVersion = 1
    MaxTurn = 1
    MaxRevotes = 1
    MaxEvents = 2
    MaxClicks = 2
CHECK_DEADLOCK FALSE
SYMMETRY MCSymmetry
INVARIANT ProposesNumbers
