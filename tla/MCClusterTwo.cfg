SPECIFICATION IterationSpec
CONSTANTS
  t1 = t1
  t2 = t2
  JOB_STORE_CAPACITY = 1
  JOB_QUEUE_CAPACITY = 1
  MAX_JOB_ID = 1
  MAX_WORKERS = 1
  MAX_WORKER_ID = 2
  Conns = {w1, w2, c1, c2}
  Processes = {w1, w2, c1, c2}
  Workers = {w1, w2}
  Clients = {c1, c2}
  PeerTypes = {}
  Tasks = {t1}
  Results = {t1, t2}
  ClientTypes = {"JOB_STATUS_REQUEST"}
  Invalid = {}
  Signalled = {}
  Scenarios <- Together
  MAX_RETRIES = 1
  MAX_CLIENTS = 1
  HEARTBEAT_TIMEOUT = 1
  HEARTBEAT_INTERVAL = 1
  IO_TIMEOUT = 1
  SyncTimes = {0}
  BUFFER = 1
  MAX_RESTARTS = 1
SYMMETRY Symmetry
INVARIANTS
  OutcomesAreReal
  AnswersAgree
PROPERTY AttemptsRunOnce
CHECK_DEADLOCK FALSE
