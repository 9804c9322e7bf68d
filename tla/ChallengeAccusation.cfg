SPECIFICATION ChallengeSpec
CONSTANTS
  Maps = {m1, m2}
  RequestAt = 2
  ReplyUntil = 5
  VerifyUntil = 7
  MaxMatch = 2
  Preempted = FALSE
INVARIANT HonestPasses
CHECK_DEADLOCK FALSE
