SPECIFICATION MCSpec
CONSTANTS
  MaxSlot = 2
  BuildingTypes = {ta}
  Me = me
  Allies = {a1}
  Window = 2
  Allowance = 1
  MaxTick = 4
  MaxGame = 1
  MaxBuilt = 3
  MaxHeld = 2
  Clients = {c1, c2}
  Fragile = {c1}
  FreezeThreshold = 2
  LeakInterval = 2
  Maps = {m1, m2}
  RequestAt = 2
  ReplyUntil = 5
  VerifyUntil = 7
  MaxMatch = 2
  Preempted = TRUE
  Fields = {f1, f2}
  Values = {zero, v1}
  Zero = zero
  HeartbeatFrames = 2
  MaxSequence = 4
  Period = 2
  SendOffset = 1
  ViewHistory = 2
  StreakAlarm = 2
  UnitBlocks = {u1, u2}
  MaxAuditGame = 1
  MaxAuditTick <- MCAuditTicks
  MemSize = 2
  Lengths = {1, 2}
  MaxMoves = 6
  Shapes <- MCShapes
  MaxUnits = 2
  MaxPackets = 4
  Bytes = {b1, b2}
  GroupSize = 4
  LengthValues = 6
  Literal = 2
  Reach = 9
  MaxBytes = 12
  SplitSlots = {0, 1, 2, 3}
  Sender = 1
  MinGive = 2
  Divisor = 2
  MaxReceivers = 3
  Holdings <- MCHoldings
  Thresholds <- MCThresholds
INVARIANT ServicesTypeOK
INVARIANT FreeAllowance
INVARIANT NoFalseFailure
INVARIANT SilentOnlyIfLate
INVARIANT ReadsAreWhole
INVARIANT DesyncIsReal
INVARIANT ReadsWithinPage
INVARIANT LosesAtMostOne
INVARIANT RebuildsPacket
INVARIANT EventsAfterResync
INVARIANT RoundTrip
INVARIANT FairSplit
PROPERTY HeldSharesArrive
PROPERTY NoForeignGive
PROPERTY NoCarryOver
PROPERTY FreezeNeedsSilence
PROPERTY FrozenStandsStill
PROPERTY Thaw
CHECK_DEADLOCK FALSE
