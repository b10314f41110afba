\* Two data centers, one of them the main one at first, with the fairness of
\* threads, sessions and servers.
CONSTANTS
  Dcs = {d1, d2}
  NoDc = NoDc
  FirstMain = d1
  DcConditions <- AllConditions
SPECIFICATION DcAuthFairSpec
INVARIANTS OneQueryAwaited ExportsForCause
PROPERTIES AllAuthorized
CHECK_DEADLOCK FALSE
