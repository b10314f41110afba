\* Two queries, one of which needs authorization, in four conditions.
CONSTANTS
  Queries = {q1, q2}
  AuthQueries = {q1}
  MaxCount = 2
  MaxGeneration = 2
  MaxSession = 3
  Conditions <- AllConditions
SPECIFICATION FairSpec
INVARIANTS NoLostWakeup NoQueryLost QueryCountExact
PROPERTIES EveryQueryEnds
CHECK_DEADLOCK FALSE
