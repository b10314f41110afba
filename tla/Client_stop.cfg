\* stop() at any time.
CONSTANTS
  Dcs = {1}
  DefaultDc = 1
  OptionDc = 1
  MaxRuns = 1
  MaxErrors = 0
  MaxSyncs = 0
SPECIFICATION FairSpec
PROPERTIES StopEndsRun
CHECK_DEADLOCK FALSE
