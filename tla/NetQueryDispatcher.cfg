\* Two queries of every kind to two data centers, delayed again and again; the
\* main data center changes once.
CONSTANTS
  Queries = {q1, q2}
  Dcs = {d1, d2}
  FirstMain = d1
  TotalLimit = 1
  MaxTimeout = 2
  FloodWait = 1
  MaxMoves = 1
SPECIFICATION FairSpec
INVARIANTS SessionsMadeRight NoQueryLost
PROPERTIES EveryQueryEnds
CHECK_DEADLOCK FALSE
