SPECIFICATION FairSpec
CONSTANTS
    None = None
    FanModes <- FanHigh
    SwingModes <- AllSwingModes
    SelectVanes <- OneVane
    SelectWideVanes <- AirflowControlOnly
    SelectAirflows <- Direct
    WideVaneOptions <- CenterSwingAndAirflow
    RemoteFans <- AutoAndStrange
    RemoteVanes <- AutoAndSwing
    RemoteWideVanes <- SwingOnly
    Installations <- Installed
    MaxEvents = 3
INVARIANTS
    CallsAreKept
    ShownIsKnown
PROPERTIES
    DriverLearns
    CallsAreObeyed
    ShownIsReal
    SwingModeIsOfBothVanes
