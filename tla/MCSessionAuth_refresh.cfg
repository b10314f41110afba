\* A temporary key comes close to its expiry and is replaced.
CONSTANTS
  Conditions <- AgingOnly
  MaxKeys = 5
  MaxQueries = 4
SPECIFICATION AuthSpec
INVARIANTS QueriesAlwaysUnderBoundKey
CHECK_DEADLOCK FALSE
