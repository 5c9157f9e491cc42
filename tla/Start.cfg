SPECIFICATION FairSpec
CONSTANTS
    Node = {1, 2, 3}
    FirstTeam <- MCThree
    Fickle = {2}
    Mishaps = {"unready", "timeout", "link", "reset"}
    MaxMishaps = 1
CHECK_DEADLOCK FALSE
INVARIANTS
    SidesKnown
    NoPhantomReady
    TimersMatchPhase
    OneGameOneClock
PROPERTIES
    BegunGamesAreFixed
    EveryoneStarts
