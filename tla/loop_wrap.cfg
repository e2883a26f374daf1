SPECIFICATION Spec
CONSTANTS
    UpdateInterval = 1
    StarvationMargin = 2
    StallMargin = 3
    WriteGap = 0
    CycleTimeoutMargin = 1
    DeferDelay = 2
    ResponseFactor = 5
    DebounceDelay = 0
    FnAckDelay = 1
    WriteRetryDelay = 2
    ConnectCheckDelay = 3
    NumRequests = 2
    MaxOwed = 2
    ClockMod = 32
    Horizon = 4
    LateAnswers = TRUE
    Clients <- SettingsRunStatesAndFunctions
    StartTimes <- BeforeTheWrap
INVARIANTS
    CyclesNotStarved
PROPERTIES
    ForgottenOnlyWhenTransmitted
