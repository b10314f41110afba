\* Two queries and up to two faults, in five scenarios.
CONSTANTS
  q1 = q1  q2 = q2  b1 = b1  b2 = b2
  Queries = {q1, q2}
  BindQueries = {b1, b2}
  Scenarios <- SafetyScenarios
  MaxMessageId = 5
SYMMETRY Symmetry
SPECIFICATION Spec
INVARIANTS NoQueryLost ContainersCounted AtMostOnce
CHECK_DEADLOCK FALSE
