SPECIFICATION FairSpec
CHECK_DEADLOCK FALSE
CONSTANTS
  Key = {"a", "p", "l", "m"}
  Lobby = {"l", "m"}
  Poison = {"p", "l"}
  Isolate = {"i1", "i2"}
  Job = {"j1", "j2", "j3"}
  Home <- Homes
  Drain = {"d1", "d2"}
  MAX_ROWS = 2
  LOBBY_MAX_ROWS = 1
  MAX_ATTEMPTS = 3
  RETRY_MEMORY_MAX = 1
  DEFER_MEMORY_MAX = 1
  OUTBOX_PARK_MAX = 1
  Budgets <- Scenarios
INVARIANTS TypeOK Custody WithinCeiling
PROPERTIES Implements Delivered
