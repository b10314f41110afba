\* One query, up to two faults, enough message identifiers to finish.
CONSTANTS
  q1 = q1  q2 = q2  b1 = b1  b2 = b2
  Queries = {q1}
  BindQueries = {}
  Scenarios <- LiveScenarios
  MaxMessageId = 8
SPECIFICATION FairSpec
PROPERTIES EveryQueryReturned
CHECK_DEADLOCK FALSE
