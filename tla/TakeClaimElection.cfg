CONSTANTS
    None = None
    Client = {1, 2, 3}
    SettleTicks = 3
    GraceTicks = 2
    ElectionKeepTicks = 5
    QuietTicks = 3
    SamplePeriod = 1
    CompleteBackstop = 5
    FinishDelayTicks = 1
    TickSkewTolerance = 6
    MaxDelay = 1
    MaxSkew = 1
    MaxGap = 2
    Units = 0
    Leftover = 0
    MaxClaims = 1
    LastClaim = 2
    MaxTick = 9
    CanCrash = {1}
    CanRefuse = {}
    CanDecline = {}
CHECK_DEADLOCK FALSE
SPECIFICATION Spec
INVARIANT OneTaker
INVARIANT SameWinner
