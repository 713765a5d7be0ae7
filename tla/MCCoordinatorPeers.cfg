SPECIFICATION ScriptedSpec
CONSTANTS
  JOB_STORE_CAPACITY = 1
  JOB_QUEUE_CAPACITY = 1
  MAX_JOB_ID = 1
  MAX_WORKERS = 1
  MAX_WORKER_ID = 2
  Conns = {c1, c2}
  Processes = {}
  PeerTypes = {"WORKER_REGISTER", "HEARTBEAT", "JOB_SUBMIT", "JOB_COMPLETED",
               "PING", "JOB_STATUS_REQUEST", "JOBS_REQUEST", "STATS_REQUEST", "UNKNOWN"}
  Scripts = {
    {"WORKER_REGISTER", "HEARTBEAT", "JOB_SUBMIT", "JOB_COMPLETED"},
    {"PING", "JOB_SUBMIT", "JOB_STATUS_REQUEST", "JOBS_REQUEST", "STATS_REQUEST", "UNKNOWN"}}
  Tasks = {t}
  Results = {r}
  MAX_RETRIES = 0
  MAX_CLIENTS = 2
  HEARTBEAT_TIMEOUT = 2
  IO_TIMEOUT = 1
  SyncTimes = {0, 1}
  BUFFER = 1
  MAX_RESTARTS = 1
SYMMETRY Symmetry
INVARIANT AcknowledgedIsKept
PROPERTY LeasesRespected
CHECK_DEADLOCK FALSE
