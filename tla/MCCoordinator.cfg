SPECIFICATION ScriptedSpec
CONSTANTS
  JOB_STORE_CAPACITY = 1
  JOB_QUEUE_CAPACITY = 1
  MAX_JOB_ID = 1
  MAX_WORKERS = 1
  MAX_WORKER_ID = 2
  Conns = {c1, c2}
  Processes = {}
  PeerTypes = {"WORKER_REGISTER", "JOB_SUBMIT", "JOB_STARTED", "JOB_FAILED"}
  Scripts = {{"WORKER_REGISTER", "JOB_SUBMIT", "JOB_STARTED", "JOB_FAILED"}}
  Tasks = {t}
  Results = {r}
  MAX_RETRIES = 1
  MAX_CLIENTS = 2
  HEARTBEAT_TIMEOUT = 1
  IO_TIMEOUT = 1
  SyncTimes = {0}
  BUFFER = 1
  MAX_RESTARTS = 0
SYMMETRY Symmetry
INVARIANTS ConnectionsAgree AssignmentsInFlight
PROPERTIES
  RepliesKept
  ReportsAreCurrent
CHECK_DEADLOCK FALSE
