SPECIFICATION Spec
CHECK_DEADLOCK FALSE
CONSTANTS
  Pass = {"tick", "block"}
  Row = {1, 2}
  Height = {1, 2}
  Block = {1, 2, 3}
  PAGES_PER_PASS = 2
  UNRESOLVED_KEPT = 1
  INVALIDATED_DEPTH = 1
  Instances <- Walks
INVARIANTS TypeOK WindowJudged CursorAccounted ReleasedRecorded CountedOnce
