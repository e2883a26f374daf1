SPECIFICATION FairSpec
CONSTANTS
    LinkTimeout = 4
    PollPeriod = 2
    GraceDelay = 2
    BootstrapDelay = 4
    UartRetryDelay = 3
    ConnectCheckDelay = 3
    WriteRetryDelay = 2
    FnAckDelay = 1
INVARIANTS
    EveryWaitHasItsTimer
    UptimeCountsTheConnection
PROPERTIES
    FallbackIsFinal
    SlotLostOnlyToFunctionsPart2
    PoweredUnitIsConnected
    SilentLinkIsLeft
