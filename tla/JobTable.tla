------------------------------ MODULE JobTable ------------------------------
(***************************************************************************)
(* The types of the coordinator's tables, and what makes a job table, its  *)
(* pending queue and a worker registry consistent.  Both models of the     *)
(* coordinator, the durable store and the event loop, keep them so.        *)
(***************************************************************************)
EXTENDS Scheduler, WorkerRegistry, WalFormat

CONSTANTS
  Tasks,         \* task payloads of submissions
  Results,       \* results of completed tasks
  MAX_RETRIES    \* largest retry budget a submission asks for (bound)

ASSUME TableConstants == MAX_RETRIES \in Nat

JobType ==
  [ id : 1..MAX_JOB_ID, task : Tasks, state : JobStates,
    worker_id : 0..MAX_WORKER_ID, attempt : Nat, retry_count : Nat,
    max_retries : 0..MAX_RETRIES, created_at : Nat, updated_at : Nat,
    assigned_at : Int, started_at : Int, finished_at : Int,
    result : Results \cup {NoResult}, failure : JobFailures ]

SchedulerType ==
  [ jobs : Seq(JobType), pending : Seq(1..MAX_JOB_ID), next_job_id : 0..MAX_JOB_ID ]

RegistryType ==
  [ slots : [1..MAX_WORKERS ->
               [id : 0..MAX_WORKER_ID, fd : Int, state : WorkerStates, last_heartbeat : Int]],
    next_worker_id : 0..MAX_WORKER_ID ]

-----------------------------------------------------------------------------
\* The record type whose validity rules fit a job of the table.
SnapshotType(job) ==
  IF job.state = "QUEUED" /\ job.attempt = 0 THEN "JOB_CREATED"
  ELSE IF job.state = "ASSIGNED" THEN "JOB_ASSIGNED" ELSE RecordType(job)

JobOK(job) == ValidJob(SnapshotType(job), job)

\* The table is dense: job id i is in slot i, and the allocator is next.
TableOK(s) ==
  /\ Len(s.jobs) <= JOB_STORE_CAPACITY /\ Len(s.jobs) <= MAX_JOB_ID
  /\ s.next_job_id = IF Len(s.jobs) = MAX_JOB_ID THEN 0 ELSE Len(s.jobs) + 1
  /\ \A i \in DOMAIN s.jobs : s.jobs[i].id = i /\ JobOK(s.jobs[i])

NoDuplicates(q) == \A i, k \in DOMAIN q : q[i] = q[k] => i = k

Members(q) == {q[i] : i \in DOMAIN q}

\* The queue holds every QUEUED job once and nothing else.
QueueOK(s) ==
  /\ NoDuplicates(s.pending)
  /\ Members(s.pending) = {i \in DOMAIN s.jobs : s.jobs[i].state = "QUEUED"}

OwnersOK(s) ==
  \A i, k \in DOMAIN s.jobs :
    /\ IsActive(s.jobs[i]) /\ IsActive(s.jobs[k])
    /\ s.jobs[i].worker_id = s.jobs[k].worker_id
    => i = k

SchedulerOK(s) ==
  s \in SchedulerType /\ TableOK(s) /\ QueueOK(s) /\ OwnersOK(s)

NotAfter(s, time) == \A i \in DOMAIN s.jobs : s.jobs[i].updated_at <= time

\* The largest id an allocator has issued.
Issued(next, max) == IF next = 0 THEN max ELSE next - 1

\* Worker records: at most one per id, no id beyond the allocator.
RegistryOK(r) ==
  /\ \A i \in 1..MAX_WORKERS :
       r.slots[i].state # "UNUSED" => r.slots[i].id \in 1..Issued(r.next_worker_id, MAX_WORKER_ID)
  /\ \A i, k \in 1..MAX_WORKERS :
       (r.slots[i].state # "UNUSED" /\ r.slots[k].state # "UNUSED" /\ r.slots[i].id = r.slots[k].id)
         => i = k

Owned(s, r) == \A i \in DOMAIN s.jobs : IsActive(s.jobs[i]) => Alive(r, s.jobs[i].worker_id)

-----------------------------------------------------------------------------
(* How a table may change.                                                 *)

Ended(job) == job.state \in {"DONE", "FAILED"}

\* What never changes in a job, and what only grows.
JobGrows(old, job) ==
  /\ job.task = old.task /\ job.max_retries = old.max_retries
  /\ job.attempt >= old.attempt
  /\ Ended(old) => job = old

Grows(s, t) ==
  /\ DOMAIN s.jobs \subseteq DOMAIN t.jobs
  /\ \A k \in DOMAIN s.jobs : JobGrows(s.jobs[k], t.jobs[k])

\* The outcomes of a job that take a report.
Completes(old, job) == job.state = "DONE" /\ old.state # "DONE"

Fails(old, job) ==
  job.failure = "TASK" /\ ~(old.failure = "TASK" /\ old.attempt = job.attempt)

\* A change without a report or a submission.
Unreported(s, t) ==
  /\ Grows(s, t) /\ DOMAIN t.jobs = DOMAIN s.jobs
  /\ \A k \in DOMAIN s.jobs : ~Completes(s.jobs[k], t.jobs[k]) /\ ~Fails(s.jobs[k], t.jobs[k])

\* What recover_interrupted_jobs makes of a job table, when every commit is
\* published: the active attempts are lost, in slot order.
SlotRecovered(s, k, now) ==
  IF IsActive(s.jobs[k]) THEN WorkerLost(s, s.jobs[k].worker_id, now) ELSE s

Recovered(s, now) ==
  LET after[k \in 0..Len(s.jobs)] == IF k = 0 THEN s ELSE SlotRecovered(after[k - 1], k, now)
  IN  after[Len(s.jobs)]
=============================================================================
