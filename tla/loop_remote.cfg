SPECIFICATION Spec
CONSTANTS
    UpdateInterval = 1
    StarvationMargin = 2
    StallMargin = 3
    WriteGap = 0
    CycleTimeoutMargin = 1
    DeferDelay = 2
    ResponseFactor = 10
    DebounceDelay = 0
    FnAckDelay = 1
    WriteRetryDelay = 4
    ConnectCheckDelay = 10
    NumRequests = 2
    MaxOwed = 2
    ClockMod = 64
    Horizon = 18
    LateAnswers = FALSE
    Clients <- RemoteOnly
    StartTimes <- AtBoot
INVARIANTS
    RemoteTemperatureNotStalled
    GuardSilentWithoutWrites
