SPECIFICATION FairSpec
CONSTANTS
  JOB_STORE_CAPACITY = 2
  JOB_QUEUE_CAPACITY = 2
  MAX_JOB_ID = 3
  MAX_WORKERS = 2
  MAX_WORKER_ID = 3
  Fds = {1, 2}
  Tasks = {"t"}
  Results = {"r"}
  MAX_RETRIES = 1
  MAX_CLOCK = 0
  MAX_TIME = 0
  MAX_SEQUENCE = 6
INVARIANTS
  StoreInv
  ExposedIsDurable
  ReplayAgrees
PROPERTIES
  NoWriteAfterFailure
  StartupSettles
