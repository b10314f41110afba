SPECIFICATION PartsSpec
CONSTANTS
  r1 = r1
  r2 = r2
  Requesters = {r1, r2}
  MaxChecking = 3
  ConnectionPlans <- MCConnectionPlans
  Dcs = {1, 2}
  DefaultDc = 1
  OptionDc = 1
  MaxRuns = 2
  MaxErrors = 2
  MaxSyncs = 1
INVARIANTS
  AttemptsCounted
  UsedIsCurrent
  AnswerIsExpected
  OkIsStored
PROPERTIES
  EverySessionConnects
  SubmissionsAnswered
CHECK_DEADLOCK FALSE
