------------------------------ MODULE WalFormat ------------------------------
(***************************************************************************)
(* What one write-ahead-log record may say (src/src/coordinator/           *)
(* wal_format.c).  A record carries its sequence number and either an      *)
(* allocated worker id or the whole job after the transition it reports.   *)
(* The encoder refuses a record this module calls invalid, the decoder     *)
(* rejects a file that holds one.                                          *)
(*                                                                         *)
(* Bytes, magic numbers and checksums are abstracted: a record in the file *)
(* is either complete or an incomplete tail (see CoordinatorStore).        *)
(***************************************************************************)
EXTENDS Job

WorkerRecord(sequence, worker_id) ==
  [type |-> "WORKER_ID_ALLOCATED", sequence |-> sequence, worker_id |-> worker_id]

JobRecord(sequence, type, job) ==
  [type |-> type, sequence |-> sequence, job |-> job]

\* Mutant of RecordType: a requeue is written as a failure.
RecordTypeNoRequeue(job) ==
  CASE job.state = "RUNNING" -> "JOB_STARTED"
    [] job.state = "DONE"    -> "JOB_COMPLETED"
    [] OTHER                 -> "JOB_FAILED"

\* The record of a report follows the state the scratch copy gives the job.
RecordType(job) ==
  CASE job.state = "RUNNING" -> "JOB_STARTED"
    [] job.state = "DONE"    -> "JOB_COMPLETED"
    [] job.state = "QUEUED"  -> "JOB_REQUEUED"
    [] OTHER                 -> "JOB_FAILED"

ValidFailure(failure) == failure \in {"TASK", "WORKER_LOST"}

ValidQueued(type, job) ==
  /\ job.state = "QUEUED" /\ job.worker_id = 0 /\ job.result = NoResult
  /\ job.assigned_at = -1 /\ job.started_at = -1 /\ job.finished_at = -1
  /\ \/ /\ type = "JOB_CREATED"
        /\ job.attempt = 0 /\ job.retry_count = 0 /\ job.failure = "NONE"
        /\ job.updated_at = job.created_at
     \/ /\ type = "JOB_REQUEUED"
        /\ job.retry_count # 0 /\ job.attempt = job.retry_count
        /\ ValidFailure(job.failure)

ValidOwned(type, job) ==
  /\ job.worker_id # 0
  /\ job.attempt = job.retry_count + 1
  /\ job.assigned_at >= job.created_at
  /\ job.updated_at >= job.assigned_at
  /\ \/ /\ type = "JOB_ASSIGNED" /\ job.state = "ASSIGNED"
        /\ job.failure = "NONE" /\ job.result = NoResult
        /\ job.updated_at = job.assigned_at
        /\ job.started_at = -1 /\ job.finished_at = -1
     \/ /\ type = "JOB_STARTED" /\ job.state = "RUNNING"
        /\ job.failure = "NONE" /\ job.result = NoResult
        /\ job.started_at >= job.assigned_at
        /\ job.updated_at = job.started_at /\ job.finished_at = -1
     \/ /\ type = "JOB_COMPLETED" /\ job.state = "DONE" /\ job.failure = "NONE"
        /\ job.started_at >= job.assigned_at
        /\ job.finished_at >= job.started_at
        /\ job.updated_at = job.finished_at
     \/ /\ type = "JOB_FAILED" /\ job.state = "FAILED" /\ ValidFailure(job.failure)
        /\ job.retry_count = job.max_retries /\ job.result = NoResult
        /\ job.started_at = -1 \/ job.started_at >= job.assigned_at
        /\ job.finished_at >= job.assigned_at
        /\ job.finished_at >= job.started_at
        /\ job.updated_at = job.finished_at

ValidJob(type, job) ==
  /\ job.id # 0
  /\ job.retry_count <= job.max_retries
  /\ job.created_at >= 0
  /\ job.updated_at >= job.created_at
  /\ IF type \in {"JOB_CREATED", "JOB_REQUEUED"}
     THEN ValidQueued(type, job)
     ELSE ValidOwned(type, job)

ValidRecord(record) ==
  IF record.type = "WORKER_ID_ALLOCATED"
  THEN record.worker_id # 0
  ELSE ValidJob(record.type, record.job)
=============================================================================
