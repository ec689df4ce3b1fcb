SPECIFICATION FairSpec
CHECK_DEADLOCK FALSE
CONSTANTS
  Game = {"g1", "g2"}
  Pair = {"pot", "hop"}
  Names <- TwoPairs
  Consumer = {"c1", "c2"}
  FAULT_HOLD_AFTER = 1
  Instances <- Scenarios
INVARIANTS TypeOK ReadCurrent
PROPERTIES Implements Judged
