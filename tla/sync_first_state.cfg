SPECIFICATION Spec
CONSTANTS
    LowTemp = 80
    LowTempHysteresis = 40
    Hysteresis = 5
    SettleWindow = 3
    PollInterval = 1
    PollWindow = 2
    EvaluationPeriod = 2
    LockoutWindow = 2
    TimeoutWindow = 3
    GraceWindow = 2
    HaModes <- OffOrHeat
    RemoteModes <- OffOrCool
    HaSetpoints <- AskedInHA
    RemoteSetpoints <- AskedOnRemote
    Rooms <- FrostToHot
    Conditions <- ReconnectingWithProtection
    MaxEvents = 2
INVARIANTS
    DesireIsAWish
CHECK_DEADLOCK FALSE
