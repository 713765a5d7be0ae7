SPECIFICATION InspectedSpec
CONSTANTS
  JOB_STORE_CAPACITY = 1
  JOB_QUEUE_CAPACITY = 1
  MAX_JOB_ID = 1
  MAX_WORKERS = 2
  MAX_WORKER_ID = 3
  Fds = {1, 2}
  Tasks = {"t"}
  Results = {"r"}
  MAX_RETRIES = 1
  MAX_CLOCK = 1
  MAX_TIME = 2
  MAX_SEQUENCE = 6
  HEARTBEAT_TIMEOUT = 1
INVARIANTS
  QueriesAnswered
  StatsCountTheLog
  ClockFailsForCause
CHECK_DEADLOCK FALSE
