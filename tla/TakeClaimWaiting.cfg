CONSTANTS
    None = None
    Client = {1, 2}
    SettleTicks = 3
    GraceTicks = 2
    ElectionKeepTicks = 4
    QuietTicks = 3
    SamplePeriod = 1
    CompleteBackstop = 4
    FinishDelayTicks = 1
    TickSkewTolerance = 6
    MaxDelay = 1
    MaxSkew = 1
    MaxGap = 2
    Units = 0
    Leftover = 0
    MaxClaims = 1
    LastClaim = 2
    MaxTick = 8
    CanCrash = {}
    CanRefuse = {1}
    CanDecline = {}
CHECK_DEADLOCK FALSE
SPECIFICATION Spec
INVARIANT NoMutualWaiting
