------------------------------ MODULE WalReplay ------------------------------
(***************************************************************************)
(* Replay of one write-ahead-log record (apply_record and its helpers in   *)
(* src/src/coordinator/wal_replay.c).  The replay state is                 *)
(*   scheduler       the scheduler rebuilt so far                          *)
(*   next_worker_id  the worker id allocator rebuilt so far                *)
(*   highest_worker_id, highest_job_id                                     *)
(*   allocated       the worker ids the log allocated (the sorted ranges   *)
(*                   of struct worker_index, as the set they stand for)    *)
(*   job_time_base   time of the last job record                           *)
(*   last_sequence   number of records applied                             *)
(* AcceptsRecord is the condition under which decoding and applying the    *)
(* next record succeed; ApplyRecord is the state after it.                 *)
(***************************************************************************)
EXTENDS Scheduler, WalFormat, WorkerRegistry

ReplayInit ==
  [ scheduler |-> SchedulerInit, next_worker_id |-> 1,
    highest_worker_id |-> 0, highest_job_id |-> 0,
    allocated |-> {}, job_time_base |-> 0, last_sequence |-> 0 ]

\* The job that replaying the transition named by a record must produce.
\* It is derived from the rebuilt table, never copied from the record.
Derived(r, record) ==
  LET saved == record.job
      job   == r.scheduler.jobs[FindSlot(r.scheduler, saved.id)]
      now   == saved.updated_at
  IN  CASE record.type = "JOB_CREATED" ->
             JobInit(saved.id, saved.task, saved.max_retries, saved.created_at)
        [] record.type = "JOB_ASSIGNED"  -> JobAssign(job, saved.worker_id, now)
        [] record.type = "JOB_STARTED"   -> JobStart(job, now)
        [] record.type = "JOB_COMPLETED" -> JobComplete(job, saved.result, now)
        [] record.type \in {"JOB_REQUEUED", "JOB_FAILED"} ->
             JobFail(job, saved.failure, now)

AcceptsCreated(r, saved) ==
  /\ saved.id > r.highest_job_id
  /\ Len(r.scheduler.jobs) # JOB_STORE_CAPACITY
  /\ JobInitOK(saved.id, saved.created_at)

AcceptsAssigned(r, saved, job) ==
  /\ saved.worker_id \in r.allocated
  /\ ~Busy(r.scheduler, saved.worker_id)
  /\ r.scheduler.pending # <<>> /\ Head(r.scheduler.pending) = saved.id
  /\ JobAssignOK(job, saved.worker_id, saved.updated_at)

AcceptsTransition(r, record) ==
  LET saved == record.job
      s     == r.scheduler
      job   == s.jobs[FindSlot(s, saved.id)]
      now   == saved.updated_at
  IN  \/ record.type = "JOB_CREATED" /\ AcceptsCreated(r, saved)
      \/ /\ SlotsOf(s, saved.id) # {}
         /\ \/ record.type = "JOB_ASSIGNED" /\ AcceptsAssigned(r, saved, job)
            \/ /\ record.type = "JOB_STARTED"
               /\ JobStartOK(job, saved.worker_id, saved.attempt, now)
            \/ /\ record.type = "JOB_COMPLETED"
               /\ JobCompleteOK(job, saved.worker_id, saved.attempt, now)
            \/ /\ record.type \in {"JOB_REQUEUED", "JOB_FAILED"}
               /\ JobFailOK(job, job.worker_id, saved.attempt, saved.failure, now)

\* The derived job must equal the snapshot, and a job that is QUEUED again
\* must fit in the pending queue.
AcceptsJob(r, record) ==
  /\ record.job.updated_at >= r.job_time_base
  /\ AcceptsTransition(r, record)
  /\ Derived(r, record) = record.job
  /\ PublishOK(r.scheduler, Derived(r, record))

AcceptsRecord(r, record) ==
  /\ record.sequence = r.last_sequence + 1
  /\ ValidRecord(record)
  /\ IF record.type = "WORKER_ID_ALLOCATED"
     THEN record.worker_id > r.highest_worker_id
     ELSE AcceptsJob(r, record)

-----------------------------------------------------------------------------
ApplyWorker(r, id) ==
  [ r EXCEPT !.allocated = @ \cup {id},
             !.highest_worker_id = id,
             !.next_worker_id = IF id = MAX_WORKER_ID THEN 0 ELSE id + 1 ]

\* Mutant of Rebuilt: completions and requeues are checked, then not applied.
RebuiltWithoutOutcome(s, type, job) ==
  CASE type = "JOB_CREATED" ->
         [ jobs |-> Append(s.jobs, job), pending |-> Append(s.pending, job.id),
           next_job_id |-> IF job.id = MAX_JOB_ID THEN 0 ELSE job.id + 1 ]
    [] type = "JOB_ASSIGNED" ->
         [ s EXCEPT !.jobs[FindSlot(s, job.id)] = job, !.pending = Tail(@) ]
    [] type \in {"JOB_COMPLETED", "JOB_REQUEUED"} -> s
    [] OTHER -> Publish(s, FindSlot(s, job.id), job)

\* The scheduler once the derived job is in its slot.
Rebuilt(s, type, job) ==
  CASE type = "JOB_CREATED" ->
         [ jobs |-> Append(s.jobs, job), pending |-> Append(s.pending, job.id),
           next_job_id |-> IF job.id = MAX_JOB_ID THEN 0 ELSE job.id + 1 ]
    [] type = "JOB_ASSIGNED" ->
         [ s EXCEPT !.jobs[FindSlot(s, job.id)] = job, !.pending = Tail(@) ]
    [] OTHER -> Publish(s, FindSlot(s, job.id), job)

ApplyJob(r, record) ==
  LET job == Derived(r, record)
  IN  [ r EXCEPT !.scheduler = Rebuilt(@, record.type, job),
                 !.highest_job_id = IF record.type = "JOB_CREATED" THEN job.id ELSE @,
                 !.job_time_base = job.updated_at ]

ApplyRecord(r, record) ==
  [ (IF record.type = "WORKER_ID_ALLOCATED"
     THEN ApplyWorker(r, record.worker_id)
     ELSE ApplyJob(r, record)) EXCEPT !.last_sequence = record.sequence ]
=============================================================================
