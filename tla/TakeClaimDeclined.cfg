CONSTANTS
    None = None
    Client = {1, 2}
    SettleTicks = 2
    GraceTicks = 2
    ElectionKeepTicks = 6
    QuietTicks = 3
    SamplePeriod = 1
    CompleteBackstop = 6
    FinishDelayTicks = 1
    TickSkewTolerance = 4
    MaxDelay = 1
    MaxSkew = 1
    MaxGap = 2
    Units = 1
    Leftover = 0
    MaxClaims = 1
    LastClaim = 2
    MaxTick = 14
    CanCrash = {}
    CanRefuse = {}
    CanDecline = {1}
CHECK_DEADLOCK FALSE
SPECIFICATION Spec
PROPERTY NoPrematureComplete
