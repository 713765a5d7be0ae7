-------------------------------- MODULE Job --------------------------------
(***************************************************************************)
(* The job record of the coordinator and its transition functions          *)
(* (src/src/coordinator/job.c).                                            *)
(*                                                                         *)
(* Every C function takes a job by pointer, validates its arguments and    *)
(* either rewrites the job or returns an error and leaves it alone.  Here  *)
(* it is a pair of operators: XOK holds exactly when X returns             *)
(* FAULTLINE_JOB_OK, and X is the rewritten job.                           *)
(*                                                                         *)
(* Task type and arguments are one opaque value, result and result_size    *)
(* another, NoResult being the empty result.  Null-pointer and byte-limit  *)
(* checks do not appear: the message codec enforces the same limits before *)
(* a job is built.                                                         *)
(***************************************************************************)
EXTENDS Integers

TIME_UNSET == -1

NoResult == "empty"

JobStates == {"QUEUED", "ASSIGNED", "RUNNING", "DONE", "FAILED"}

JobFailures == {"NONE", "TASK", "WORKER_LOST"}

IsActive(job) == job.state \in {"ASSIGNED", "RUNNING"}

CanTransition(from, to) ==
  <<from, to>> \in { <<"QUEUED", "ASSIGNED">>,
                     <<"ASSIGNED", "RUNNING">>, <<"ASSIGNED", "QUEUED">>,
                     <<"ASSIGNED", "FAILED">>,
                     <<"RUNNING", "DONE">>, <<"RUNNING", "QUEUED">>,
                     <<"RUNNING", "FAILED">> }

CheckTransition(job, next, now) ==
  /\ now >= 0
  /\ CanTransition(job.state, next)
  /\ now >= job.updated_at

\* Mutant of CheckAttempt: any attempt of the job's worker will do.
CheckWorker(job, worker_id, attempt) ==
  /\ worker_id # 0
  /\ attempt # 0
  /\ worker_id = job.worker_id

CheckAttempt(job, worker_id, attempt) ==
  /\ worker_id # 0
  /\ attempt # 0
  /\ worker_id = job.worker_id
  /\ attempt = job.attempt

-----------------------------------------------------------------------------
JobInitOK(id, now) == id # 0 /\ now >= 0

JobInit(id, task, max_retries, now) ==
  [ id |-> id, task |-> task, state |-> "QUEUED",
    worker_id |-> 0, attempt |-> 0,
    retry_count |-> 0, max_retries |-> max_retries,
    created_at |-> now, updated_at |-> now,
    assigned_at |-> TIME_UNSET, started_at |-> TIME_UNSET,
    finished_at |-> TIME_UNSET,
    result |-> NoResult, failure |-> "NONE" ]

JobAssignOK(job, worker_id, now) ==
  CheckTransition(job, "ASSIGNED", now) /\ worker_id # 0

\* Mutant of JobAssign: only the first assignment counts an attempt.
JobAssignKeepsAttempt(job, worker_id, now) ==
  [ job EXCEPT !.state = "ASSIGNED",
               !.worker_id = worker_id,
               !.attempt = IF @ = 0 THEN 1 ELSE @,
               !.assigned_at = now,
               !.updated_at = now,
               !.failure = "NONE" ]

JobAssign(job, worker_id, now) ==
  [ job EXCEPT !.state = "ASSIGNED",
               !.worker_id = worker_id,
               !.attempt = @ + 1,
               !.assigned_at = now,
               !.updated_at = now,
               !.failure = "NONE" ]

JobStartOK(job, worker_id, attempt, now) ==
  CheckTransition(job, "RUNNING", now) /\ CheckAttempt(job, worker_id, attempt)

JobStart(job, now) ==
  [ job EXCEPT !.state = "RUNNING", !.started_at = now, !.updated_at = now ]

JobCompleteOK(job, worker_id, attempt, now) ==
  CheckTransition(job, "DONE", now) /\ CheckAttempt(job, worker_id, attempt)

JobComplete(job, result, now) ==
  [ job EXCEPT !.state = "DONE", !.result = result,
               !.finished_at = now, !.updated_at = now ]

\* The outcome of a failed attempt is decided by the remaining retry budget.
FailNext(job) ==
  IF job.retry_count < job.max_retries THEN "QUEUED" ELSE "FAILED"

JobFailOK(job, worker_id, attempt, failure, now) ==
  /\ failure \in {"TASK", "WORKER_LOST"}
  /\ CheckTransition(job, FailNext(job), now)
  /\ CheckAttempt(job, worker_id, attempt)

JobFail(job, failure, now) ==
  IF FailNext(job) = "QUEUED"
  THEN [ job EXCEPT !.state = "QUEUED", !.updated_at = now, !.failure = failure,
                    !.retry_count = @ + 1,
                    !.worker_id = 0,
                    !.assigned_at = TIME_UNSET,
                    !.started_at = TIME_UNSET,
                    !.finished_at = TIME_UNSET ]
  ELSE [ job EXCEPT !.state = "FAILED", !.updated_at = now, !.failure = failure,
                    !.finished_at = now ]
=============================================================================
