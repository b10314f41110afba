SPECIFICATION PartsSpec
CONSTANTS
  a1 = a1
  a2 = a2
  MaxSize = 2
  MessageIds <- MCMessageIds
  Messages = {"m1"}
  PacketIds = {1, 2, 3, 4, 5, 6}
  MaxQueryCount = 1
  MaxUnacked = 2
  WirePlans <- MCWirePlans
  Addresses = {a1, a2}
  DefaultLists <- MCDefaultLists
  OptionLists <- MCOptionLists
  MaxChecks = 3
  MaxReloads = 1
  MaxOutages = 1
  MaxLazy = 2
  LimitLists <- MCLimitLists
INVARIANTS
  NeverAcceptedTwice
  OnlyOldRefused
  QueuedIsTimed
  LiveServerKept
  AsksKept
  FloodExact
PROPERTIES
  ConnectionEnds
  WorkingAddressFound
  ConfigRefreshed
CHECK_DEADLOCK FALSE
