SPECIFICATION FairClusterSpec
CONSTANTS
  t1 = t1
  t2 = t2
  JOB_STORE_CAPACITY = 1
  JOB_QUEUE_CAPACITY = 1
  MAX_JOB_ID = 1
  MAX_WORKERS = 1
  MAX_WORKER_ID = 2
  Conns = {w1, p1, p2}
  Processes = {w1}
  Workers = {w1}
  Clients = {}
  PeerTypes = {"WORKER_REGISTER", "HEARTBEAT"}
  Tasks = {t1}
  Results = {t1, t2}
  ClientTypes = {}
  Invalid = {}
  Signalled = {w1}
  Scenarios <- Lasting
  MAX_RETRIES = 1
  MAX_CLIENTS = 2
  HEARTBEAT_TIMEOUT = 2
  HEARTBEAT_INTERVAL = 1
  IO_TIMEOUT = 1
  SyncTimes = {0}
  BUFFER = 1
  MAX_RESTARTS = 0
PROPERTIES
  AttemptsSettle
  BacklogIsDone
  ExpiredWorkersDie
  LostPeersAreClosed
CHECK_DEADLOCK FALSE
