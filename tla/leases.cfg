SPECIFICATION FairSpec
CONSTANTS
  Runners = {s1, s2}
  Cadence = 2
  ScheduleDelay = 1
  CatchUpWindow = 6
  MaxPlansPerTick = 2
  StaleTimeout = 1
  MaxAttempts = 2
  RetryBackoff <- OneTickBackoff
  MaxClock = 4
  MaxFaults = 1
INVARIANT TypeOK
INVARIANT ExclusiveAttempt
PROPERTY PlanSpec
PROPERTY StaleRowsClosed
PROPERTY LatestRetried
