CONSTANTS
    None = None
    Client = {1, 2}
    SettleTicks = 2
    GraceTicks = 2
    ElectionKeepTicks = 5
    QuietTicks = 3
    SamplePeriod = 1
    CompleteBackstop = 5
    FinishDelayTicks = 1
    TickSkewTolerance = 4
    MaxDelay = 1
    MaxSkew = 1
    MaxGap = 2
    Units = 3
    Leftover = 1
    MaxClaims = 1
    LastClaim = 2
    MaxTick = 12
    CanCrash = {1}
    CanRefuse = {2}
    CanDecline = {}
CHECK_DEADLOCK FALSE
SPECIFICATION FairSpec
INVARIANT TypeOK
INVARIANT RejectFollowsComplete
PROPERTY NoPrematureComplete
PROPERTY ElectionsEnd
