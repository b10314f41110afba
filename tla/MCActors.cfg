SPECIFICATION PartsSpec
CONSTANTS
  s1 = s1
  s2 = s2
  a1 = a1
  a2 = a2
  Schedulers = {s1, s2}
  Outside = outside
  Actors = {a1, a2}
  Plans <- MCPlans
  Writers = {w1, w2}
  MaxPuts = 3
INVARIANTS
  RunsAtHome
  OrderKept
  NoSleepThroughEvents
PROPERTIES
  EventsRun
  QueueIsFifo
CHECK_DEADLOCK FALSE
