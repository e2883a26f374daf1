SPECIFICATION FairSpec
CONSTANTS
    None = None
    Internal = Internal
    Samples <- SameByteAndClamped
    MinSendInterval = 2
    MinKeepAlive = 4
    KeepAlive = 3
    Timeouts <- NeverOrSix
    SendBound = 2
    Margin = 4
INVARIANTS
    ChangeNotForgotten
    FedInTime
PROPERTIES
    FeedIsImplemented
    UnitFollows
    WatchdogReverts
