SPECIFICATION FairSpec
CONSTANTS
  Request = {"r1", "r2"}
  Consumer = {"c1", "c2"}
  CHUNKS = 2
  JOB_ATTEMPTS = 2
  JOB_RESUME_AFTER = 1
  JOB_KEEP = 2
  WALL = 2
  MAX_MESSAGES = 2
  Instances <- Scenarios
INVARIANTS TypeOK Custody
PROPERTIES LegsForward Settles Swept
