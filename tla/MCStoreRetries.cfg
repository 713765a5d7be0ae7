SPECIFICATION Spec
CONSTANTS
  JOB_STORE_CAPACITY = 2
  JOB_QUEUE_CAPACITY = 2
  MAX_JOB_ID = 1
  MAX_WORKERS = 1
  MAX_WORKER_ID = 4
  Fds = {1}
  Tasks = {"t"}
  Results = {"r"}
  MAX_RETRIES = 1
  MAX_CLOCK = 0
  MAX_TIME = 0
  MAX_SEQUENCE = 9
INVARIANTS
  AttemptsCounted
  IdentitiesNotReused
