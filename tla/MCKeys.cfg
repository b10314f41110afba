SPECIFICATION PartsSpec
CONSTANTS
  Conditions <- AllConditions
  MaxKeys = 10
  MaxQueries = 10
  Keys = {k1, k2}
  Sessions = {s1, s2}
  Width = 4
  SyncWait = 1
  SyncWaitMax = 2
  ResyncDelay = 3
  MaxResyncCount = 2
  MaxChanges = 4
  MaxErrors = 1
INVARIANTS
  QueriesUnderBoundKey
  IdleMeansSynced
  NotPostponed
PROPERTIES
  MainKeyGivenUpForCause
  ComesToSend
  ServerForgets
CHECK_DEADLOCK FALSE
