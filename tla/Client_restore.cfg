\* The option names another data center than the default one.
CONSTANTS
  Dcs = {1, 2}
  DefaultDc = 1
  OptionDc = 2
  MaxRuns = 2
  MaxErrors = 0
  MaxSyncs = 0
SPECIFICATION Spec
PROPERTIES RestoredSkipsLogin
CHECK_DEADLOCK FALSE
