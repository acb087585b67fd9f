SPECIFICATION MCSpec
CONSTANTS
  c1 = c1
  c2 = c2
  Claims <- MCClaims
  k1 = k1
  k2 = k2
  Calls <- MCCalls
  Schedules <- MCSchedules
  MaxTime = 4
  MaxFails = 1
  MaxChanges = 2
  Gap = 2
  LongBlock = 2
  ShortBlock = 1
  None = None
CHECK_DEADLOCK FALSE
INVARIANTS TypeOK InsertsFit AnsweredOnce
PROPERTIES DeletedIsFinal DueIsAnswered
