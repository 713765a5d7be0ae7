SPECIFICATION ScriptedSpec
CONSTANTS
  JOB_STORE_CAPACITY = 1
  JOB_QUEUE_CAPACITY = 1
  MAX_JOB_ID = 1
  MAX_WORKERS = 1
  MAX_WORKER_ID = 1
  Conns = {c1, c2, c3}
  Processes = {}
  PeerTypes = {"WORKER_REGISTER"}
  Scripts = {{"WORKER_REGISTER"}}
  Tasks = {t}
  Results = {r}
  MAX_RETRIES = 0
  MAX_CLIENTS = 2
  HEARTBEAT_TIMEOUT = 1
  IO_TIMEOUT = 1
  SyncTimes = {0, 1}
  BUFFER = 1
  MAX_RESTARTS = 0
INVARIANT InactivityMeasured
CHECK_DEADLOCK FALSE
