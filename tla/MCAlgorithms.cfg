SPECIFICATION AlgorithmsSpec
CONSTANTS
  JOB_QUEUE_CAPACITY = 3
  JobIds = {1, 2, 3, 4}
  Parsers <- MCParsers
  WIDTH = 4096
  LENGTH = 4
  WORD = 32
  LATENCY_MAX = 15
  COMPLETED_MAX = 5
  MAX_ID = 9
  UINT64 = 256
  SLEEP_MAX = 5
  PRIME_COUNT_MAX = 50
  FIBONACCI_MAX = 13
  NAP = 2
  CLOCK_MAX = 8
  MAX_PAYLOAD = 40
  MAX_ARGUMENT = 2
  MAX_RESULT = 1
  JOBS_MAX = 2
  WORKERS_MAX = 2
  BUFFER = 23
  Streams <- MCStreams
INVARIANTS
  ParsersExact
  MeanExact
  SearchExact
  ResultIsRight
  CancelNoticed
  StreamAccounted
  RefusalsDeserved
  NoWaitAfterFrame
PROPERTY ImplementsFifo
CHECK_DEADLOCK FALSE
