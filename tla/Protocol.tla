------------------------------ MODULE Protocol ------------------------------
(***************************************************************************)
(* The messages that coordinator, workers and clients exchange             *)
(* (src/include/protocol.h).  A frame is a header, which may be all of it, *)
(* and a payload; here it is one value that its receiver takes in pieces.  *)
(***************************************************************************)
EXTENDS Integers, Sequences

\* The field value holds what else a message carries: <<task, max_retries>> in
\* a submission, <<task>> in an assignment, <<result>> in a completion.
Message(type, worker_id, job_id, attempt) ==
  [type |-> type, worker_id |-> worker_id, job_id |-> job_id, attempt |-> attempt,
   value |-> <<>>]

Carrying(m, value) == [m EXCEPT !.value = value]

NoMessage == Message("NONE", 0, 0, 0)

Queries == {"JOB_STATUS_REQUEST", "JOBS_REQUEST", "WORKERS_REQUEST", "STATS_REQUEST"}

ReportTypes == {"JOB_STARTED", "JOB_COMPLETED", "JOB_FAILED"}

\* Requests whose header is followed by a payload.
HasPayload(type) ==
  type \in {"HEARTBEAT", "JOB_SUBMIT", "JOB_STATUS_REQUEST"} \cup ReportTypes
=============================================================================
