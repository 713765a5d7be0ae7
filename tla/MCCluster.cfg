SPECIFICATION ClusterSpec
CONSTANTS
  t1 = t1
  t2 = t2
  JOB_STORE_CAPACITY = 2
  JOB_QUEUE_CAPACITY = 2
  MAX_JOB_ID = 2
  MAX_WORKERS = 1
  MAX_WORKER_ID = 2
  Conns = {w1, c1, c2}
  Processes = {w1, c1, c2}
  Workers = {w1}
  Clients = {c1, c2}
  PeerTypes = {}
  Tasks = {t1, t2}
  Results = {t1, t2}
  ClientTypes = {"JOB_SUBMIT", "JOB_STATUS_REQUEST"}
  Invalid = {t2}
  Signalled = {w1}
  Scenarios <- Alone
  MAX_RETRIES = 1
  MAX_CLIENTS = 2
  HEARTBEAT_TIMEOUT = 2
  HEARTBEAT_INTERVAL = 1
  IO_TIMEOUT = 1
  SyncTimes = {0, 1}
  BUFFER = 2
  MAX_RESTARTS = 1
INVARIANTS
  NeverRefused
  SubmittedOnce
CHECK_DEADLOCK FALSE
