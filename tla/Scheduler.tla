------------------------------ MODULE Scheduler ------------------------------
(***************************************************************************)
(* The in-memory scheduler (src/src/coordinator/scheduler.c): the job      *)
(* table in slot order, the FIFO of pending job ids, and the job id        *)
(* allocator.  A scheduler is a value                                      *)
(*    [jobs |-> <<job, ...>>, pending |-> <<id, ...>>, next_job_id |-> n]  *)
(* because the durable store prepares every change on a scratch copy.      *)
(*                                                                         *)
(* The pending queue is a sequence here; module JobQueue models the ring   *)
(* buffer of job_queue.c and shows that it implements this sequence.       *)
(*                                                                         *)
(* As in module Job, XOK is the condition under which X succeeds.  Where   *)
(* callers treat different errors differently the conditions are separate. *)
(***************************************************************************)
EXTENDS Job, Sequences

CONSTANTS
  JOB_STORE_CAPACITY,   \* slots of the job table
  JOB_QUEUE_CAPACITY,   \* slots of the pending queue
  MAX_JOB_ID            \* UINT64_MAX: the id after which the allocator stops

ASSUME SchedulerConstants ==
  /\ JOB_STORE_CAPACITY \in Nat
  /\ JOB_QUEUE_CAPACITY \in Nat
  /\ JOB_STORE_CAPACITY <= JOB_QUEUE_CAPACITY     \* the _Static_assert
  /\ MAX_JOB_ID \in Nat \ {0}

SchedulerInit == [jobs |-> <<>>, pending |-> <<>>, next_job_id |-> 1]

\* The first index in S: the C code scans slots from 0 and stops at a match.
First(S) == CHOOSE i \in S : \A k \in S : i <= k

SlotsOf(s, id) == {i \in DOMAIN s.jobs : s.jobs[i].id = id}

FindSlot(s, id) == First(SlotsOf(s, id))

\* faultline_scheduler_find, as a test
Known(s, id) == id # 0 /\ SlotsOf(s, id) # {}

ActiveSlots(s, worker_id) ==
  {i \in DOMAIN s.jobs : s.jobs[i].worker_id = worker_id /\ IsActive(s.jobs[i])}

Busy(s, worker_id) == worker_id # 0 /\ ActiveSlots(s, worker_id) # {}

\* faultline_scheduler_active, for a worker that is Busy.
Active(s, worker_id) == s.jobs[First(ActiveSlots(s, worker_id))]

-----------------------------------------------------------------------------
QueuePushOK(queue, job) ==
  /\ job.id # 0
  /\ job.state = "QUEUED" /\ job.worker_id = 0
  /\ \A i \in DOMAIN queue : queue[i] # job.id
  /\ Len(queue) < JOB_QUEUE_CAPACITY

-----------------------------------------------------------------------------
\* SubmitAdmitted fails with FULL, ID_EXHAUSTED or INVALID_JOB, all of which
\* reject the submission; the queue rejecting the push is QUEUE_ERROR.
SubmitAdmitted(s, now) ==
  /\ Len(s.jobs) < JOB_STORE_CAPACITY
  /\ s.next_job_id # 0
  /\ JobInitOK(s.next_job_id, now)

SubmitOK(s, task, max_retries, now) ==
  QueuePushOK(s.pending, JobInit(s.next_job_id, task, max_retries, now))

Submit(s, task, max_retries, now) ==
  LET id == s.next_job_id
  IN  [ jobs |-> Append(s.jobs, JobInit(id, task, max_retries, now)),
        pending |-> Append(s.pending, id),
        next_job_id |-> IF id = MAX_JOB_ID THEN 0 ELSE id + 1 ]

\* Assignment to a worker that is not Busy from a queue that is not empty.
AssignOK(s, worker_id, now) ==
  /\ SlotsOf(s, Head(s.pending)) # {}
  /\ JobAssignOK(s.jobs[FindSlot(s, Head(s.pending))], worker_id, now)

Assign(s, worker_id, now) ==
  LET slot == FindSlot(s, Head(s.pending))
  IN  [ s EXCEPT !.jobs[slot] = JobAssign(s.jobs[slot], worker_id, now),
                 !.pending = Tail(@) ]

\* publish_outcome: a job that went back to QUEUED joins the tail of the queue.
PublishOK(s, candidate) ==
  candidate.state = "QUEUED" => QueuePushOK(s.pending, candidate)

\* Mutant of Publish: the retried job is not queued again.
PublishWithoutPush(s, slot, candidate) == [s EXCEPT !.jobs[slot] = candidate]

\* Mutant of Publish: the retried job overtakes the pending ones.
PublishAtHead(s, slot, candidate) ==
  [ s EXCEPT !.jobs[slot] = candidate,
             !.pending = IF candidate.state = "QUEUED"
                         THEN <<candidate.id>> \o @ ELSE @ ]

Publish(s, slot, candidate) ==
  [ s EXCEPT !.jobs[slot] = candidate,
             !.pending = IF candidate.state = "QUEUED"
                         THEN Append(@, candidate.id) ELSE @ ]

\* The job a report turns the job it names into, and when it may.
Reported(job, report, now) ==
  CASE report.type = "JOB_STARTED"   -> JobStart(job, now)
    [] report.type = "JOB_COMPLETED" -> JobComplete(job, report.result, now)
    [] report.type = "JOB_FAILED"    -> JobFail(job, "TASK", now)

ReportAccepted(s, worker_id, report, now) ==
  /\ report.worker_id = worker_id
  /\ SlotsOf(s, report.job_id) # {}
  /\ LET job == s.jobs[FindSlot(s, report.job_id)]
     IN \/ /\ report.type = "JOB_STARTED"
           /\ JobStartOK(job, worker_id, report.attempt, now)
        \/ /\ report.type = "JOB_COMPLETED"
           /\ JobCompleteOK(job, worker_id, report.attempt, now)
        \/ /\ report.type = "JOB_FAILED" /\ report.failure = "TASK"
           /\ JobFailOK(job, worker_id, report.attempt, "TASK", now)

ReportOK(s, report, now) ==
  PublishOK(s, Reported(s.jobs[FindSlot(s, report.job_id)], report, now))

Report(s, report, now) ==
  LET slot == FindSlot(s, report.job_id)
  IN  Publish(s, slot, Reported(s.jobs[slot], report, now))

\* The loss of a worker that is Busy.
WorkerLostOK(s, worker_id, now) ==
  LET job == Active(s, worker_id)
  IN  /\ JobFailOK(job, worker_id, job.attempt, "WORKER_LOST", now)
      /\ PublishOK(s, JobFail(job, "WORKER_LOST", now))

WorkerLost(s, worker_id, now) ==
  LET job == Active(s, worker_id)
  IN  Publish(s, FindSlot(s, job.id), JobFail(job, "WORKER_LOST", now))
=============================================================================
