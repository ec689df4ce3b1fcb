SPECIFICATION Spec
CHECK_DEADLOCK FALSE
CONSTANTS
  Copy = {"a", "b", "c", "d"}
  Letter = {"k", "j"}
  LetterOf <- LetterOfCopy
  TxidOf <- OwnTxids
  Keyed = {"b", "d"}
  Carries <- Weights
  Erring = {}
  Slot = {1, 2}
  Door = {d1}
  Consumer = {p1}
  Parker = {q1}
  Lever = {l1}
  MAX_RETRIES = 0
  DLQ_MAX_RETRIES = 1
  NOT_NOW_DEFER_DELIVERIES = 2
  MAX_REDRIVES = 1
  PARKED_ROWS_CEILING = 1
  NOT_NOW_MAX = 1
  NOT_NOW_PER_TXID = 1
  DayFull = {FALSE}
  LostAnswers <- Calls
  LateAnswers = {"note", "resolve", "claim", "revert"}
  QUEUE_RETENTION = 1
  Scenarios <- Sharing
INVARIANTS TypeOK Custody HeldWithinCeiling DroppedIsUnnamed
