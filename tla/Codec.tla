------------------------------- MODULE Codec --------------------------------
(***************************************************************************)
(* The wire format (src/src/common/protocol.c).  A frame is a sequence of  *)
(* cells, one for each field of the header, of the fixed part of the       *)
(* payload and of every list entry, and one for each byte of an argument   *)
(* or a result.  STATS_RESPONSE, a payload of 24 fixed fields, is left to  *)
(* module Inspection.                                                      *)
(***************************************************************************)
EXTENDS Integers, Sequences

LOCAL INSTANCE SequencesExt

CONSTANTS
  MAX_PAYLOAD,          \* FAULTLINE_MAX_PAYLOAD_SIZE
  MAX_ARGUMENT, MAX_RESULT, JOBS_MAX, WORKERS_MAX

ASSUME CodecConstants ==
  /\ MAX_ARGUMENT \in Nat /\ MAX_RESULT \in Nat /\ JOBS_MAX \in Nat /\ WORKERS_MAX \in Nat
  /\ MAX_PAYLOAD \in Nat

MAGIC == 7
VERSION == 1
HEADER == 4

\* A message type is a position in this list.
Types ==
  << "PING", "PONG", "WORKER_REGISTER", "WORKER_REGISTER_ACK", "HEARTBEAT", "JOB_SUBMIT",
     "JOB_SUBMIT_ACK", "JOB_ASSIGN", "JOB_STARTED", "JOB_COMPLETED", "JOB_FAILED",
     "JOB_STATUS_REQUEST", "JOB_STATUS_RESPONSE", "JOB_STATUS_NOT_FOUND", "JOBS_REQUEST",
     "JOBS_RESPONSE", "WORKERS_REQUEST", "WORKERS_RESPONSE", "STATS_REQUEST" >>

Identity == <<"job_id", "worker_id", "attempt">>

\* The fixed part of the payload, in wire order.
Fields ==
  [ PING |-> <<>>, PONG |-> <<>>, WORKER_REGISTER |-> <<>>, JOBS_REQUEST |-> <<>>,
    WORKERS_REQUEST |-> <<>>, STATS_REQUEST |-> <<>>,
    WORKER_REGISTER_ACK |-> <<"worker_id">>, HEARTBEAT |-> <<"worker_id">>,
    JOB_SUBMIT |-> <<"task", "max_retries", "size">>,
    JOB_SUBMIT_ACK |-> <<"job_id">>, JOB_STATUS_REQUEST |-> <<"job_id">>,
    JOB_STATUS_NOT_FOUND |-> <<"job_id">>,
    JOB_ASSIGN |-> Identity \o <<"task", "size">>,
    JOB_STARTED |-> Identity, JOB_COMPLETED |-> Identity \o <<"size">>,
    JOB_FAILED |-> Identity \o <<"failure">>,
    JOB_STATUS_RESPONSE |-> <<"job_id", "state", "worker_id", "attempt", "retry_count",
                              "max_retries", "failure", "size">>,
    JOBS_RESPONSE |-> <<"size">>, WORKERS_RESPONSE |-> <<"size", "heartbeat_timeout">> ]

\* What follows the fixed part: bytes, or entries with these fields.
Entry ==
  [ JOBS_RESPONSE |-> <<"job_id", "task", "state", "worker_id", "attempt", "retry_count",
                        "max_retries", "failure", "size">>,
    WORKERS_RESPONSE |-> <<"worker_id", "state", "heartbeat_age", "job_id", "attempt">> ]

Lists == DOMAIN Entry

Stride(type) == IF type \in Lists THEN Len(Entry[type]) ELSE 1

Most(type) ==
  CASE type \in {"JOB_SUBMIT", "JOB_ASSIGN"}                -> MAX_ARGUMENT
    [] type \in {"JOB_COMPLETED", "JOB_STATUS_RESPONSE"}    -> MAX_RESULT
    [] type = "JOBS_RESPONSE"                               -> JOBS_MAX
    [] type = "WORKERS_RESPONSE"                            -> WORKERS_MAX
    [] OTHER                                                -> 0

\* message_payload_bounds
Minimum(type) == Len(Fields[type])

Maximum(type) == Minimum(type) + Most(type) * Stride(type)

-----------------------------------------------------------------------------
(* Messages: fields by name, and the bytes or entries that follow.         *)

Named(names, cells) ==
  [f \in Range(names) |-> cells[CHOOSE i \in DOMAIN names : names[i] = f]]

Cells(names, values) == [i \in DOMAIN names |-> values[names[i]]]

ValidTask(task) == task \in 1..4

\* validate_job_status; states are 1..5, failures 0..2.
ValidStatus(st) ==
  LET queued      == st.state = 1
      has_failure == st.state = 5 \/ (queued /\ st.attempt # 0)
  IN /\ st.job_id # 0 /\ st.state \in 1..5
     /\ st.retry_count <= st.max_retries
     /\ st.state = 5 => st.retry_count = st.max_retries
     /\ queued <=> st.worker_id = 0
     /\ st.attempt = st.retry_count + (IF queued THEN 0 ELSE 1)
     /\ st.failure \in IF has_failure THEN {1, 2} ELSE {0}
     /\ st.state # 4 => st.size = 0

Increasing(entries, id) ==
  \A i \in DOMAIN entries : i > 1 => entries[i][id] > entries[i - 1][id]

ValidEntry(type, e) ==
  IF type = "JOBS_RESPONSE"
  THEN ValidStatus(e) /\ ValidTask(e.task) /\ e.size <= MAX_RESULT
  ELSE /\ e.worker_id # 0 /\ e.state \in {1, 2}
       /\ e.job_id = 0 <=> e.attempt = 0
       /\ e.state = 2 => e.job_id = 0

\* validate_message without its last check, the size.
Valid(m) ==
  LET f == m.fields
      Has(field) == field \in DOMAIN f
  IN /\ m.type = "JOB_STATUS_RESPONSE" => ValidStatus(f)
     /\ m.type # "JOB_STATUS_RESPONSE" =>
          /\ Has("job_id") => f.job_id # 0
          /\ Has("worker_id") => f.worker_id # 0
          /\ Has("attempt") => f.attempt # 0
          /\ Has("task") => ValidTask(f.task)
          /\ Has("failure") => f.failure = 1
          /\ Has("heartbeat_timeout") => f.heartbeat_timeout # 0
     /\ m.type \in Lists =>
          /\ \A i \in DOMAIN m.data : ValidEntry(m.type, m.data[i])
          /\ Increasing(m.data, Entry[m.type][1])

Size(m) == IF "size" \in DOMAIN m.fields THEN m.fields.size ELSE 0

\* faultline_message_encode; <<>> when it refuses.
Encode(m) ==
  LET tail == IF m.type \in Lists
              THEN FlattenSeq([i \in DOMAIN m.data |-> Cells(Entry[m.type], m.data[i])])
              ELSE m.data
      type == CHOOSE t \in DOMAIN Types : Types[t] = m.type
  IN IF Valid(m) /\ Size(m) <= Most(m.type)
     THEN << MAGIC, VERSION, type, Minimum(m.type) + Size(m) * Stride(m.type) >>
          \o Cells(Fields[m.type], m.fields) \o tail
     ELSE <<>>

-----------------------------------------------------------------------------
(* Decoding a buffer that may hold only the beginning of a frame.          *)

\* validate_header
ValidHeader(w) ==
  w[1] = MAGIC /\ w[2] = VERSION /\ w[3] \in DOMAIN Types /\ w[4] <= MAX_PAYLOAD

TypeOf(w) == Types[w[3]]

\* The fixed part is read first, the entries of a list only when all are there.
Decoded(w) ==
  LET type   == TypeOf(w)
      fields == Named(Fields[type], SubSeq(w, HEADER + 1, HEADER + Minimum(type)))
      there  == IF Len(w) < HEADER + w[4] THEN Len(w) ELSE HEADER + w[4]
      tail   == SubSeq(w, HEADER + Minimum(type) + 1, there)
      stride == Stride(type)
  IN [ type |-> type, fields |-> fields,
       data |-> IF type \in Lists
                THEN [i \in 1..fields.size |->
                       Named(Entry[type], SubSeq(tail, (i - 1) * stride + 1, i * stride))]
                ELSE tail ]

\* What the fixed part of a list says about the rest.
ValidCount(w) ==
  LET f == Named(Fields[TypeOf(w)], SubSeq(w, HEADER + 1, HEADER + Minimum(TypeOf(w))))
  IN /\ f.size <= Most(TypeOf(w))
     /\ w[4] = Minimum(TypeOf(w)) + f.size * Stride(TypeOf(w))
     /\ TypeOf(w) = "WORKERS_RESPONSE" => f.heartbeat_timeout # 0

\* The length the decoded fields call for.
LengthAgrees(w, m) ==
  Size(m) <= Most(m.type) /\ w[4] = Minimum(m.type) + Size(m) * Stride(m.type)

\* Mutant of Result: the size in the payload is not held against the header.
ResultTrustsHeader(w) ==
  LET type == TypeOf(w)
  IN IF Len(w) < HEADER THEN "TOO_SMALL"
     ELSE IF ~ValidHeader(w) THEN "BAD"
     ELSE IF w[4] < Minimum(type) \/ w[4] > Maximum(type) THEN "BAD"
     ELSE IF Len(w) < HEADER + Minimum(type) THEN "TOO_SMALL"
     ELSE IF type \in Lists /\ ~ValidCount(w) THEN "BAD"
     ELSE IF type \in Lists /\ Len(w) < HEADER + w[4] THEN "TOO_SMALL"
     ELSE IF ~Valid(Decoded(w)) THEN "BAD"
     ELSE IF Len(w) < HEADER + w[4] THEN "TOO_SMALL"
     ELSE "OK"

\* faultline_message_decode, its checks in the order of the code.
Result(w) ==
  LET type == TypeOf(w)
  IN IF Len(w) < HEADER THEN "TOO_SMALL"
     ELSE IF ~ValidHeader(w) THEN "BAD"
     ELSE IF w[4] < Minimum(type) \/ w[4] > Maximum(type) THEN "BAD"
     ELSE IF Len(w) < HEADER + Minimum(type) THEN "TOO_SMALL"
     ELSE IF type \in Lists /\ ~ValidCount(w) THEN "BAD"
     ELSE IF type \in Lists /\ Len(w) < HEADER + w[4] THEN "TOO_SMALL"
     ELSE IF ~Valid(Decoded(w)) \/ ~LengthAgrees(w, Decoded(w)) THEN "BAD"
     ELSE IF Len(w) < HEADER + w[4] THEN "TOO_SMALL"
     ELSE "OK"

=============================================================================
