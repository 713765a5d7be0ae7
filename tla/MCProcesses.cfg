SPECIFICATION MCSpec
CONSTANTS
  Workers = {w}
  Clients = {c1}
  Invalid = {t2}
  Signalled = {w}
  HEARTBEAT_INTERVAL = 2
  IO_TIMEOUT = 2
  BUFFER = 1
  Tasks = {t1, t2, t3}
  MAX_JOB_ID = 2
INVARIANTS
  OutcomeReported
  HeartbeatsBounded
  RunsBounded
PROPERTY StopsWhenAsked
CHECK_DEADLOCK FALSE
