SPECIFICATION Spec
CONSTANTS
    LowTemp = 80
    LowTempHysteresis = 40
    Hysteresis = 5
    SettleWindow = 3
    PollInterval = 1
    PollWindow = 2
    EvaluationPeriod = 2
    LockoutWindow = 2
    TimeoutWindow = 3
    GraceWindow = 2
    HaModes <- OffOrCool
    RemoteModes <- OffOrHeat
    HaSetpoints <- AskedInHA
    RemoteSetpoints <- AskedOnRemote
    Rooms <- FrostToHot
    Conditions <- Installations
    MaxEvents = 2
INVARIANTS
    DesireIsKept
    EvaluationSettles
PROPERTIES
    RemoteIsHeeded
    FanStopIsKept
    EventuallySettled
CHECK_DEADLOCK FALSE
