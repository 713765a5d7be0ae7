----------------------------- MODULE StoreProofs ----------------------------
(***************************************************************************)
(* The store of the coordinator and its log.  For every operation, the     *)
(* record that commit_job writes for it is valid, and apply_record accepts *)
(* it in the state before the operation and rebuilds the state after it; the *)
(* end of a commit and every step of a crash and of a start keep the file, *)
(* its history and the published state in agreement.  So StoreInv is an    *)
(* invariant of CoordinatorStore for every number of jobs, workers, retries *)
(* and records.  The last part says what one more record adds to the log,  *)
(* for the properties of the log as a whole in HistoryProofs.              *)
(***************************************************************************)
EXTENDS StoreInvariant, SchedulerProofs

USE ZenonT(20), SMTT(30), SMTT(60)

\* Committing job id of the prepared scheduler t, as record n of the given
\* type, takes view v to a view that replay reproduces.
Commits(v, type, id, t, now, n) ==
  LET job    == t.jobs[FindSlot(t, id)]
      record == JobRecord(n, type, job)
      after  == View(t, v.next_worker_id, now)
  IN  /\ Known(t, id) /\ job.updated_at = now
      /\ record \in WalRecords /\ ValidRecord(record)
      /\ ViewOK(after) /\ Replays(v, record, n, after)

\* No active attempt of t is new or has a new owner.
OwnersKept(s, t) ==
  \A i \in DOMAIN t.jobs :
    IsActive(t.jobs[i]) =>
      /\ i \in DOMAIN s.jobs /\ IsActive(s.jobs[i])
      /\ s.jobs[i].worker_id = t.jobs[i].worker_id

\* Worker w has no active attempt.
Idle(t, w) == \A i \in DOMAIN t.jobs : ~(IsActive(t.jobs[i]) /\ t.jobs[i].worker_id = w)

\* A job record is typed by the job it carries.
LEMMA JobRecordType ==
  ASSUME NEW n \in Nat, NEW type \in RecordTypes, NEW job \in JobType
  PROVE  /\ JobRecord(n, type, job) \in WalRecords
         /\ JobRecord(n, type, job).type = type /\ JobRecord(n, type, job).sequence = n
         /\ JobRecord(n, type, job).job = job
         /\ ValidRecord(JobRecord(n, type, job)) = ValidJob(type, job)
<1>1. type # "WORKER_ID_ALLOCATED"
  BY DEF RecordTypes
<1> QED  BY <1>1 DEF JobRecord, WalRecords, ValidRecord

\* The fields of a mirror.
LEMMA MirrorFields ==
  ASSUME NEW v, NEW n \in Nat \ {0}
  PROVE  LET r == Mirror(v, n - 1)
         IN  /\ r.scheduler = v.scheduler /\ r.job_time_base = v.time
             /\ r.highest_job_id = Len(v.scheduler.jobs)
             /\ r.allocated = 1..Issued(v.next_worker_id, MAX_WORKER_ID)
             /\ r.highest_worker_id = Issued(v.next_worker_id, MAX_WORKER_ID)
             /\ n = r.last_sequence + 1
BY DEF Mirror

\* A view whose scheduler advances to time now.
LEMMA AdvancedView ==
  ASSUME NEW v, ViewOK(v), NEW t, SchedulerOK(t), NEW now \in Nat, v.time <= now,
         \A i \in DOMAIN t.jobs :
           t.jobs[i].updated_at = now
           \/ (i \in DOMAIN v.scheduler.jobs /\ t.jobs[i] = v.scheduler.jobs[i])
  PROVE  ViewOK(View(t, v.next_worker_id, now))
<1>1. v.next_worker_id \in 0..MAX_WORKER_ID /\ v.time \in Nat /\ t \in SchedulerType
  BY DEF ViewOK, ViewType, SchedulerOK
<1>2. \A i \in DOMAIN v.scheduler.jobs : v.scheduler.jobs[i].updated_at \in Nat
  BY SlotOfJob DEF ViewOK, JobType
<1>3. View(t, v.next_worker_id, now) \in ViewType
  BY <1>1 DEF View, ViewType
<1>4. NotAfter(t, now)
  BY <1>1, <1>2 DEF ViewOK, NotAfter
<1> QED  BY <1>3, <1>4 DEF View, ViewOK

\* faultline_store_submit writes a JOB_CREATED record that replay accepts.
LEMMA CreatedCommits ==
  ASSUME NEW v, ViewOK(v), NEW task \in Tasks, NEW retries \in 0..MAX_RETRIES,
         NEW now \in Nat, v.time <= now, SubmitAdmitted(v.scheduler, now),
         NEW n \in Nat \ {0}
  PROVE  LET s == v.scheduler
         IN  Commits(v, "JOB_CREATED", s.next_job_id, Submit(s, task, retries, now), now, n)
<1> DEFINE s      == v.scheduler
           id     == s.next_job_id
           t      == Submit(s, task, retries, now)
           job    == JobInit(id, task, retries, now)
           record == JobRecord(n, "JOB_CREATED", job)
           r      == Mirror(v, n - 1)
           after  == View(t, v.next_worker_id, now)
<1>1. SchedulerOK(s)
  BY DEF ViewOK
<1>2. /\ SubmitOK(s, task, retries, now) /\ SchedulerOK(t)
      /\ id = Len(s.jobs) + 1 /\ id \in DOMAIN t.jobs /\ id \in 1..MAX_JOB_ID
      /\ DOMAIN t.jobs = 1..id /\ Len(t.jobs) = id
      /\ t.jobs[id] = job
      /\ \A i \in DOMAIN s.jobs : i # id /\ t.jobs[i] = s.jobs[i]
  BY <1>1, SubmitStep, SMTT(90)
<1>3. Known(t, id) /\ FindSlot(t, id) = id
  BY <1>2, SlotOfJob
<1>4. job \in JobType /\ ValidJob("JOB_CREATED", job)
  BY <1>2, InitJob
<1>5. /\ job.id = id /\ job.task = task /\ job.max_retries = retries
      /\ job.created_at = now /\ job.updated_at = now /\ job.state = "QUEUED"
  BY DEF JobInit
<1>6. /\ record \in WalRecords /\ ValidRecord(record) /\ record.type = "JOB_CREATED"
      /\ record.sequence = n /\ record.job = job
  BY <1>4, JobRecordType, SMTT(90) DEF RecordTypes
<1>7. /\ r.scheduler = s /\ r.job_time_base = v.time /\ r.highest_job_id = Len(s.jobs)
      /\ n = r.last_sequence + 1
  BY MirrorFields
<1>8. ViewOK(after)
  <2>1. Len(s.jobs) \in Nat /\ DOMAIN s.jobs = 1..Len(s.jobs)
    BY <1>1 DEF SchedulerOK, SchedulerType
  <2>2. \A i \in DOMAIN t.jobs : t.jobs[i].updated_at = now
                                \/ (i \in DOMAIN s.jobs /\ t.jobs[i] = s.jobs[i])
    BY <1>2, <1>5, <2>1, SMTT(90)
  <2> QED  BY <1>2, <2>2, AdvancedView
<1>9. Derived(r, record) = job
  BY <1>5, <1>6 DEF Derived
<1>10. Submit(s, task, retries, now)
         = [ jobs |-> Append(s.jobs, job), pending |-> Append(s.pending, job.id),
             next_job_id |-> IF job.id = MAX_JOB_ID THEN 0 ELSE job.id + 1 ]
  BY <1>5 DEF Submit
<1> HIDE DEF r, record, job, t, id, s
<1>11. AcceptsRecord(r, record)
  <2>1. AcceptsCreated(r, job)
    <3>1. Len(s.jobs) \in Nat
      BY <1>1, SMTT(90) DEF SchedulerOK, SchedulerType
    <3>2. Len(s.jobs) < JOB_STORE_CAPACITY
      BY DEF SubmitAdmitted, s
    <3> QED  BY <1>2, <1>5, <1>7, <3>1, <3>2, SchedulerConstants, SMTT(90) DEF AcceptsCreated, JobInitOK
  <2>2. AcceptsTransition(r, record)
    BY <1>6, <2>1 DEF AcceptsTransition
  <2>3. PublishOK(s, job)
    BY <1>2 DEF SubmitOK, PublishOK, job, id
  <2>4. AcceptsJob(r, record)
    BY <1>5, <1>6, <1>7, <1>9, <2>2, <2>3 DEF AcceptsJob
  <2> QED  BY <1>6, <1>7, <2>4 DEF AcceptsRecord
<1>12. ApplyRecord(r, record) = Mirror(after, n)
  <2>1. ApplyJob(r, record)
          = [r EXCEPT !.scheduler = t, !.highest_job_id = id, !.job_time_base = now]
    BY <1>5, <1>6, <1>7, <1>9, <1>10 DEF ApplyJob, Rebuilt, t
  <2>2. ApplyRecord(r, record)
          = [r EXCEPT !.scheduler = t, !.highest_job_id = id, !.job_time_base = now,
                      !.last_sequence = n]
    BY <1>6, <2>1 DEF ApplyRecord
  <2> QED  BY <1>2, <2>2 DEF r, Mirror, View
<1> QED  BY <1>2, <1>3, <1>5, <1>6, <1>8, <1>11, <1>12 DEF Commits, Replays, record, t, r, id, s

\* faultline_store_assign writes a JOB_ASSIGNED record that replay accepts.
LEMMA AssignedCommits ==
  ASSUME NEW v, ViewOK(v), v.scheduler.pending # <<>>,
         NEW w \in 1..Issued(v.next_worker_id, MAX_WORKER_ID), w \in 1..MAX_WORKER_ID,
         ~Busy(v.scheduler, w), NEW now \in Nat, v.time <= now, NEW n \in Nat \ {0}
  PROVE  LET s == v.scheduler
         IN  /\ AssignOK(s, w, now)
             /\ Commits(v, "JOB_ASSIGNED", Head(s.pending), Assign(s, w, now), now, n)
<1> DEFINE s      == v.scheduler
           id     == Head(s.pending)
           t      == Assign(s, w, now)
           job    == JobAssign(s.jobs[id], w, now)
           record == JobRecord(n, "JOB_ASSIGNED", job)
           r      == Mirror(v, n - 1)
           after  == View(t, v.next_worker_id, now)
<1>1. SchedulerOK(s) /\ s.pending # <<>> /\ ~Busy(s, w)
  BY DEF ViewOK
<1>2. /\ AssignOK(s, w, now) /\ SchedulerOK(t) /\ DOMAIN t.jobs = DOMAIN s.jobs
      /\ id \in DOMAIN s.jobs /\ JobAssignOK(s.jobs[id], w, now)
      /\ t.jobs[id] = job
      /\ \A i \in DOMAIN s.jobs : i # id => t.jobs[i] = s.jobs[i]
  <2>1. NotAfter(s, now)
    <3>1. \A i \in DOMAIN s.jobs : s.jobs[i].updated_at \in Nat
      BY <1>1, SlotOfJob DEF JobType
    <3> QED  BY <3>1, SMTT(90) DEF ViewOK, ViewType, NotAfter
  <2> HIDE DEF s
  <2> QED  BY <1>1, <2>1, AssignStep
<1> HIDE DEF id, t
<1>3. Known(t, id) /\ FindSlot(t, id) = id /\ FindSlot(s, id) = id /\ SlotsOf(s, id) # {}
  <2> HIDE DEF s, job
  <2>1. id \in DOMAIN t.jobs
    BY <1>2
  <2>2. FindSlot(s, id) = id /\ SlotsOf(s, id) # {}
    BY <1>1, <1>2, SlotOfJob
  <2> QED  BY <1>2, <2>1, <2>2, SlotOfJob
<1>11. t = [s EXCEPT !.jobs[id] = job, !.pending = Tail(@)]
  BY <1>3 DEF Assign, t, id
<1>4. /\ job \in JobType /\ ValidJob("JOB_ASSIGNED", job) /\ job.id = id
      /\ job.state = "ASSIGNED" /\ job.worker_id = w /\ job.updated_at = now
  <2>1. s.jobs[id] \in JobType /\ JobOK(s.jobs[id]) /\ s.jobs[id].id = id
    BY <1>1, <1>2, SlotOfJob
  <2> QED  BY <1>2, <2>1, AssignJob
<1>5. /\ record \in WalRecords /\ ValidRecord(record) /\ record.type = "JOB_ASSIGNED"
      /\ record.sequence = n /\ record.job = job
  <2> HIDE DEF job
  <2> QED  BY <1>4, JobRecordType, SMTT(90) DEF RecordTypes
<1>6. /\ r.scheduler = s /\ r.job_time_base = v.time /\ n = r.last_sequence + 1
      /\ r.allocated = 1..Issued(v.next_worker_id, MAX_WORKER_ID)
  BY MirrorFields
<1>7. ViewOK(after)
  BY <1>2, <1>4, AdvancedView
<1> HIDE DEF r, record, s
<1>8. Derived(r, record) = job
  <2>1. record.job.id = id /\ record.job.worker_id = w /\ record.job.updated_at = now
    BY <1>4, <1>5
  <2> QED  BY <1>3, <1>5, <1>6, <2>1 DEF Derived
<1> HIDE DEF job
<1>9. AcceptsRecord(r, record)
  <2>1. AcceptsAssigned(r, job, s.jobs[id])
    BY <1>1, <1>2, <1>4, <1>6 DEF AcceptsAssigned, id, s
  <2>2. AcceptsTransition(r, record)
    BY <1>3, <1>4, <1>5, <1>6, <2>1 DEF AcceptsTransition
  <2>3. PublishOK(s, job)
    BY <1>4 DEF PublishOK
  <2>4. AcceptsJob(r, record)
    BY <1>4, <1>5, <1>6, <1>8, <2>2, <2>3 DEF AcceptsJob
  <2> QED  BY <1>5, <1>6, <2>4 DEF AcceptsRecord
<1>10. ApplyRecord(r, record) = Mirror(after, n)
  <2>1. ApplyJob(r, record)
          = [r EXCEPT !.scheduler = t, !.highest_job_id = @, !.job_time_base = now]
    BY <1>3, <1>4, <1>5, <1>6, <1>8, <1>11 DEF ApplyJob, Rebuilt
  <2>2. ApplyRecord(r, record)
          = [r EXCEPT !.scheduler = t, !.highest_job_id = @, !.job_time_base = now,
                      !.last_sequence = n]
    BY <1>5, <2>1 DEF ApplyRecord
  <2>3. Len(t.jobs) = Len(s.jobs)
    BY <1>1, <1>2, SMTT(90) DEF SchedulerOK, SchedulerType
  <2> QED  BY <2>2, <2>3 DEF r, Mirror, View, s
<1> QED  BY <1>2, <1>3, <1>4, <1>5, <1>7, <1>9, <1>10 DEF Commits, Replays, record, t, r, id, s

\* The outcome of an attempt, published and logged under the record type that
\* its new state calls for.
LEMMA OutcomeCommits ==
  ASSUME NEW v, ViewOK(v), NEW now \in Nat, v.time <= now, NEW n \in Nat \ {0},
         NEW id \in DOMAIN v.scheduler.jobs, IsActive(v.scheduler.jobs[id]),
         NEW job \in JobType, JobOK(job), job.id = id, job.updated_at = now,
         job.state \in {"RUNNING", "DONE", "QUEUED", "FAILED"},
         job.state = "RUNNING" => job.worker_id = v.scheduler.jobs[id].worker_id,
         job.state = "QUEUED" => job.worker_id = 0,
         ValidJob(RecordType(job), job),
         AcceptsTransition(Mirror(v, n - 1), JobRecord(n, RecordType(job), job)),
         Derived(Mirror(v, n - 1), JobRecord(n, RecordType(job), job)) = job
  PROVE  LET s == v.scheduler
             t == Publish(s, id, job)
         IN  /\ PublishOK(s, job) /\ t.jobs[FindSlot(t, id)] = job
             /\ Commits(v, RecordType(job), id, t, now, n) /\ OwnersKept(s, t)
             /\ job.state # "RUNNING" => Idle(t, s.jobs[id].worker_id)
<1> DEFINE s      == v.scheduler
           t      == Publish(s, id, job)
           record == JobRecord(n, RecordType(job), job)
           r      == Mirror(v, n - 1)
           after  == View(t, v.next_worker_id, now)
<1>1. SchedulerOK(s)
  BY DEF ViewOK
<1>2. /\ PublishOK(s, job) /\ SchedulerOK(t) /\ DOMAIN t.jobs = DOMAIN s.jobs
      /\ t.jobs[id] = job /\ \A i \in DOMAIN s.jobs : i # id => t.jobs[i] = s.jobs[i]
  BY <1>1, PublishStep, SMTT(90)
<1>3. Known(t, id) /\ FindSlot(t, id) = id /\ FindSlot(s, id) = id
  <2> HIDE DEF t
  <2> QED  BY <1>1, <1>2, SlotOfJob
<1>4. /\ RecordType(job) \in RecordTypes
      /\ RecordType(job) \notin {"WORKER_ID_ALLOCATED", "JOB_CREATED", "JOB_ASSIGNED"}
  BY DEF RecordType, RecordTypes
<1>5. /\ record \in WalRecords /\ ValidRecord(record) /\ record.type = RecordType(job)
      /\ record.sequence = n /\ record.job = job
  BY <1>4, JobRecordType, SMTT(90)
<1>6. r.scheduler = s /\ r.job_time_base = v.time /\ n = r.last_sequence + 1
  BY MirrorFields
<1>7. ViewOK(after)
  <2> HIDE DEF t
  <2> QED  BY <1>2, AdvancedView
<1> HIDE DEF r, record, s, t
<1>8. Derived(r, record) = job /\ AcceptsTransition(r, record)
  BY DEF r, record
<1>9. AcceptsRecord(r, record)
  <2>1. AcceptsJob(r, record)
    BY <1>2, <1>5, <1>6, <1>8 DEF AcceptsJob
  <2> QED  BY <1>4, <1>5, <1>6, <2>1 DEF AcceptsRecord
<1>10. ApplyRecord(r, record) = Mirror(after, n)
  <2>1. ApplyJob(r, record)
          = [r EXCEPT !.scheduler = t, !.highest_job_id = @, !.job_time_base = now]
    BY <1>3, <1>4, <1>5, <1>6, <1>8 DEF ApplyJob, Rebuilt, t
  <2>2. ApplyRecord(r, record)
          = [r EXCEPT !.scheduler = t, !.highest_job_id = @, !.job_time_base = now,
                      !.last_sequence = n]
    BY <1>4, <1>5, <2>1 DEF ApplyRecord
  <2>3. Len(t.jobs) = Len(s.jobs)
    BY <1>1, <1>2, SMTT(90) DEF SchedulerOK, SchedulerType
  <2> QED  BY <2>2, <2>3 DEF r, Mirror, View, s
<1>11. OwnersKept(s, t)
  BY <1>2 DEF OwnersKept, IsActive, s
<1>12. job.state # "RUNNING" => Idle(t, s.jobs[id].worker_id)
  BY <1>1, <1>2 DEF Idle, SchedulerOK, OwnersOK, IsActive, s
<1> QED  BY <1>2, <1>3, <1>5, <1>7, <1>9, <1>10, <1>11, <1>12
         DEF Commits, Replays, record, t, r, s

\* commit_worker_loss writes a JOB_REQUEUED or JOB_FAILED record that replay
\* accepts, and leaves the lost worker without an attempt.
LEMMA LossCommits ==
  ASSUME NEW v, ViewOK(v), NEW now \in Nat, v.time <= now, NEW n \in Nat \ {0},
         NEW i \in DOMAIN v.scheduler.jobs, IsActive(v.scheduler.jobs[i])
  PROVE  LET s   == v.scheduler
             w   == s.jobs[i].worker_id
             t   == WorkerLost(s, w, now)
             job == t.jobs[FindSlot(t, i)]
         IN  /\ Busy(s, w) /\ WorkerLostOK(s, w, now) /\ Active(s, w).id = i
             /\ job.state \in {"QUEUED", "FAILED"}
             /\ Commits(v, RecordType(job), i, t, now, n)
             /\ OwnersKept(s, t) /\ Idle(t, w)
<1> DEFINE s      == v.scheduler
           old    == s.jobs[i]
           w      == old.worker_id
           job    == JobFail(old, "WORKER_LOST", now)
           t      == Publish(s, i, job)
           record == JobRecord(n, RecordType(job), job)
           r      == Mirror(v, n - 1)
<1>1. SchedulerOK(s) /\ i \in DOMAIN s.jobs /\ IsActive(old)
  BY DEF ViewOK
<1>2. /\ old \in JobType /\ JobOK(old) /\ old.id = i /\ FindSlot(s, i) = i
      /\ SlotsOf(s, i) # {}
  <2> HIDE DEF s
  <2> QED  BY <1>1, SlotOfJob
<1>3. w # 0 /\ old.attempt # 0 /\ old.updated_at <= now
  <2>1. old.worker_id # 0 /\ old.attempt = old.retry_count + 1
    <3> HIDE DEF old
    <3> QED  BY <1>1, <1>2 DEF IsActive, JobOK, SnapshotType, RecordType, ValidJob, ValidOwned
  <2>2. old.retry_count \in Nat /\ old.updated_at \in Nat
    <3> HIDE DEF old
    <3> QED  BY <1>2 DEF JobType
  <2>3. old.updated_at <= v.time /\ v.time \in Nat
    BY DEF ViewOK, NotAfter, ViewType
  <2> QED  BY <2>1, <2>2, <2>3
<1>4. Busy(s, w) /\ Active(s, w) = old
  <2> HIDE DEF s
  <2> QED  BY <1>1, <1>3, ActiveSlot
<1>5. JobFailOK(old, w, old.attempt, "WORKER_LOST", now)
  <2> HIDE DEF old
  <2> QED  BY <1>1, <1>3
           DEF JobFailOK, CheckTransition, CanTransition, CheckAttempt, FailNext, IsActive, w
<1>6. /\ job \in JobType /\ ValidJob(RecordType(job), job) /\ JobOK(job)
      /\ job.id = i /\ job.state \in {"QUEUED", "FAILED"} /\ job.updated_at = now
      /\ job.state = "QUEUED" => job.worker_id = 0
      /\ job.failure = "WORKER_LOST" /\ job.attempt = old.attempt
  <2> HIDE DEF old
  <2> QED  BY <1>2, <1>5, FailJob, SMTT(90)
<1> HIDE DEF job
<1>7. RecordType(job) \in {"JOB_REQUEUED", "JOB_FAILED"}
  BY <1>6 DEF RecordType
<1>8. record.type = RecordType(job) /\ record.job = job
  BY <1>7, <1>6, JobRecordType, SMTT(90) DEF RecordTypes
<1>9. r.scheduler = s
  BY MirrorFields
<1> HIDE DEF r, record, old
<1>10. Derived(r, record) = job
  <2>1. r.scheduler.jobs[FindSlot(r.scheduler, job.id)] = old
    BY <1>2, <1>6, <1>9 DEF old
  <2>2. Derived(r, record) = JobFail(old, job.failure, job.updated_at)
    BY <1>7, <1>8, <2>1 DEF Derived
  <2> QED  BY <1>6, <2>2 DEF job
<1>11. AcceptsTransition(r, record)
  <2>1. r.scheduler.jobs[FindSlot(r.scheduler, job.id)] = old
    BY <1>2, <1>6, <1>9 DEF old
  <2>2. JobFailOK(old, old.worker_id, job.attempt, job.failure, job.updated_at)
    BY <1>5, <1>6
  <2>3. SlotsOf(r.scheduler, job.id) # {}
    BY <1>2, <1>6, <1>9
  <2> QED  BY <1>7, <1>8, <2>1, <2>2, <2>3 DEF AcceptsTransition
<1>12. /\ PublishOK(s, job) /\ t.jobs[FindSlot(t, i)] = job
       /\ Commits(v, RecordType(job), i, t, now, n) /\ OwnersKept(s, t)
       /\ Idle(t, w)
  BY <1>1, <1>6, <1>10, <1>11, OutcomeCommits, SMTT(90) DEF r, record, old
<1>13. WorkerLostOK(s, w, now) /\ WorkerLost(s, w, now) = t
  BY <1>2, <1>4, <1>5, <1>12 DEF WorkerLostOK, WorkerLost, job
<1> HIDE DEF t
<1> QED  BY <1>2, <1>4, <1>6, <1>12, <1>13 DEF old

\* The job that an accepted report names is the active attempt of its worker,
\* and the report turns it into a job that replaying its record yields again.
LEMMA ReportOutcome ==
  ASSUME NEW s, SchedulerOK(s), NEW report \in Reports, NEW w, NEW now \in Nat,
         ReportAccepted(s, w, report, now)
  PROVE  LET id  == report.job_id
             old == s.jobs[id]
             job == Reported(old, report, now)
         IN  /\ id \in DOMAIN s.jobs /\ FindSlot(s, id) = id /\ SlotsOf(s, id) # {}
             /\ IsActive(old) /\ old.worker_id = w /\ w # 0
             /\ job \in JobType /\ JobOK(job) /\ ValidJob(RecordType(job), job)
             /\ job.id = id /\ job.updated_at = now
             /\ job.state \in {"RUNNING", "DONE", "QUEUED", "FAILED"}
             /\ job.state = "RUNNING" => job.worker_id = old.worker_id
             /\ job.state = "QUEUED" => job.worker_id = 0
             /\ \A r, n : r.scheduler = s =>
                  /\ Derived(r, JobRecord(n, RecordType(job), job)) = job
                  /\ AcceptsTransition(r, JobRecord(n, RecordType(job), job))
<1> DEFINE id  == report.job_id
           old == s.jobs[id]
           job == Reported(old, report, now)
<1>1. id \in DOMAIN s.jobs
  BY KnownJob DEF ReportAccepted
<1>2. /\ old \in JobType /\ JobOK(old) /\ old.id = id /\ FindSlot(s, id) = id
      /\ SlotsOf(s, id) # {}
  <2> HIDE DEF id
  <2> QED  BY <1>1, SlotOfJob
<1>3. \/ /\ report.type = "JOB_STARTED" /\ job = JobStart(old, now)
         /\ JobStartOK(old, w, report.attempt, now)
      \/ /\ report.type = "JOB_COMPLETED" /\ job = JobComplete(old, report.result, now)
         /\ JobCompleteOK(old, w, report.attempt, now)
      \/ /\ report.type = "JOB_FAILED" /\ job = JobFail(old, "TASK", now)
         /\ JobFailOK(old, w, report.attempt, "TASK", now)
  BY <1>2 DEF ReportAccepted, Reported
<1>4. old.worker_id = w /\ w # 0 /\ old.attempt = report.attempt
  BY <1>3 DEF JobStartOK, JobCompleteOK, JobFailOK, CheckAttempt
<1> DEFINE mirrored(r, n) ==
             /\ Derived(r, JobRecord(n, RecordType(job), job)) = job
             /\ AcceptsTransition(r, JobRecord(n, RecordType(job), job))
           goal ==
             /\ IsActive(old) /\ job \in JobType /\ JobOK(job)
             /\ ValidJob(RecordType(job), job)
             /\ job.id = id /\ job.updated_at = now
             /\ job.state \in {"RUNNING", "DONE", "QUEUED", "FAILED"}
             /\ job.state = "RUNNING" => job.worker_id = old.worker_id
             /\ job.state = "QUEUED" => job.worker_id = 0
             /\ \A r, n : r.scheduler = s => mirrored(r, n)
<1>5. ASSUME NEW r, NEW n, r.scheduler = s, job.id = id
      PROVE  LET record == JobRecord(n, RecordType(job), job)
             IN  /\ record.type = RecordType(job) /\ record.job = job
                 /\ r.scheduler.jobs[FindSlot(r.scheduler, job.id)] = old
                 /\ SlotsOf(r.scheduler, job.id) # {}
  BY <1>2, <1>5 DEF JobRecord
<1> SUFFICES goal
  BY <1>1, <1>2, <1>4
<1> HIDE DEF old, job, id
<1>6. CASE report.type = "JOB_STARTED"
  <2>1. job = JobStart(old, now) /\ JobStartOK(old, w, report.attempt, now)
    BY <1>3, <1>6
  <2>2. /\ job \in JobType /\ ValidJob("JOB_STARTED", job) /\ JobOK(job)
        /\ job.id = id /\ job.state = "RUNNING" /\ job.worker_id = w
        /\ job.attempt = report.attempt /\ job.updated_at = now /\ IsActive(old)
    BY <1>2, <1>4, <2>1, StartJob
  <2>3. RecordType(job) = "JOB_STARTED"
    BY <2>2 DEF RecordType
  <2>4. ASSUME NEW r, NEW n, r.scheduler = s
        PROVE  mirrored(r, n)
    BY <1>5, <2>1, <2>2, <2>3, <2>4 DEF Derived, AcceptsTransition
  <2> QED  BY <1>4, <2>2, <2>3, <2>4
<1>7. CASE report.type = "JOB_COMPLETED"
  <2>1. job = JobComplete(old, report.result, now) /\ JobCompleteOK(old, w, report.attempt, now)
    BY <1>3, <1>7
  <2>2. report.result \in Results
    BY DEF Reports
  <2>3. /\ job \in JobType /\ ValidJob("JOB_COMPLETED", job) /\ JobOK(job)
        /\ job.id = id /\ job.state = "DONE" /\ job.worker_id = w
        /\ job.attempt = report.attempt /\ job.updated_at = now
        /\ job.result = report.result /\ IsActive(old)
    BY <1>2, <1>4, <2>1, <2>2, CompleteJob, SMTT(90)
  <2>4. RecordType(job) = "JOB_COMPLETED"
    BY <2>3 DEF RecordType
  <2>5. ASSUME NEW r, NEW n, r.scheduler = s
        PROVE  mirrored(r, n)
    BY <1>5, <2>1, <2>3, <2>4, <2>5 DEF Derived, AcceptsTransition
  <2> QED  BY <2>3, <2>4, <2>5
<1>8. CASE report.type = "JOB_FAILED"
  <2>1. job = JobFail(old, "TASK", now) /\ JobFailOK(old, w, report.attempt, "TASK", now)
    BY <1>3, <1>8
  <2>2. /\ job \in JobType /\ ValidJob(RecordType(job), job) /\ JobOK(job)
        /\ job.id = id /\ job.state \in {"QUEUED", "FAILED"} /\ job.updated_at = now
        /\ job.state = "QUEUED" => job.worker_id = 0
        /\ job.failure = "TASK" /\ job.attempt = report.attempt /\ IsActive(old)
    BY <1>2, <1>4, <2>1, FailJob, SMTT(90)
  <2>3. RecordType(job) \in {"JOB_REQUEUED", "JOB_FAILED"}
    BY <2>2 DEF RecordType
  <2>4. ASSUME NEW r, NEW n, r.scheduler = s
        PROVE  mirrored(r, n)
    BY <1>4, <1>5, <2>1, <2>2, <2>3, <2>4 DEF Derived, AcceptsTransition
  <2> QED  BY <2>2, <2>4
<1> QED  BY <1>3, <1>6, <1>7, <1>8

\* faultline_store_report writes a record that replay accepts.
LEMMA ReportCommits ==
  ASSUME NEW v, ViewOK(v), NEW now \in Nat, v.time <= now, NEW n \in Nat \ {0},
         NEW report \in Reports, NEW w, ReportAccepted(v.scheduler, w, report, now)
  PROVE  LET s   == v.scheduler
             t   == Report(s, report, now)
             id  == Active(s, w).id
             job == t.jobs[FindSlot(t, id)]
         IN  /\ ReportOK(s, report, now)
             /\ Commits(v, RecordType(job), id, t, now, n) /\ OwnersKept(s, t)
<1> DEFINE s   == v.scheduler
           id  == report.job_id
           old == s.jobs[id]
           job == Reported(old, report, now)
           t   == Publish(s, id, job)
           r   == Mirror(v, n - 1)
<1>1. SchedulerOK(s)
  BY DEF ViewOK
<1>2. /\ id \in DOMAIN s.jobs /\ FindSlot(s, id) = id
      /\ IsActive(old) /\ old.worker_id = w /\ w # 0
      /\ job \in JobType /\ JobOK(job) /\ ValidJob(RecordType(job), job)
      /\ job.id = id /\ job.updated_at = now
      /\ job.state \in {"RUNNING", "DONE", "QUEUED", "FAILED"}
      /\ job.state = "RUNNING" => job.worker_id = old.worker_id
      /\ job.state = "QUEUED" => job.worker_id = 0
      /\ r.scheduler = s =>
           /\ Derived(r, JobRecord(n, RecordType(job), job)) = job
           /\ AcceptsTransition(r, JobRecord(n, RecordType(job), job))
  <2>1. ReportAccepted(s, w, report, now)
    OBVIOUS
  <2> HIDE DEF r, s
  <2>2. /\ id \in DOMAIN s.jobs /\ FindSlot(s, id) = id /\ SlotsOf(s, id) # {}
        /\ IsActive(old) /\ old.worker_id = w /\ w # 0
        /\ job \in JobType /\ JobOK(job) /\ ValidJob(RecordType(job), job)
        /\ job.id = id /\ job.updated_at = now
        /\ job.state \in {"RUNNING", "DONE", "QUEUED", "FAILED"}
        /\ job.state = "RUNNING" => job.worker_id = old.worker_id
        /\ job.state = "QUEUED" => job.worker_id = 0
        /\ \A q, m : q.scheduler = s =>
             /\ Derived(q, JobRecord(m, RecordType(job), job)) = job
             /\ AcceptsTransition(q, JobRecord(m, RecordType(job), job))
    BY <1>1, <2>1, ReportOutcome
  <2> HIDE DEF id, old, job
  <2> QED  BY <2>2
<1>3. r.scheduler = s
  BY MirrorFields
<1>4. Active(s, w).id = id
  <2>1. Active(s, w) = old
    <3> HIDE DEF s, id
    <3> QED  BY <1>1, <1>2, ActiveSlot
  <2>2. old.id = id
    <3> HIDE DEF s, id
    <3> QED  BY <1>1, <1>2, SlotOfJob
  <2> QED  BY <2>1, <2>2
<1>5. ReportOK(s, report, now) = PublishOK(s, job) /\ Report(s, report, now) = t
  BY <1>2 DEF ReportOK, Report
<1> HIDE DEF job, id
<1>6. /\ PublishOK(s, job) /\ t.jobs[FindSlot(t, id)] = job
      /\ Commits(v, RecordType(job), id, t, now, n) /\ OwnersKept(s, t)
  BY <1>2, <1>3, OutcomeCommits, SMTT(90)
<1> HIDE DEF t
<1> QED  BY <1>4, <1>5, <1>6

-----------------------------------------------------------------------------
\* faultline_store_register writes a WORKER_ID_ALLOCATED record that replay
\* accepts.
LEMMA RegisteredCommits ==
  ASSUME NEW v, ViewOK(v), v.next_worker_id # 0, NEW n \in Nat \ {0}
  PROVE  LET id     == v.next_worker_id
             record == WorkerRecord(n, id)
             after  == View(v.scheduler, IF id = MAX_WORKER_ID THEN 0 ELSE id + 1, v.time)
         IN  record \in WalRecords /\ ValidRecord(record) /\ ViewOK(after)
             /\ Replays(v, record, n, after)
<1> DEFINE id     == v.next_worker_id
           next   == IF id = MAX_WORKER_ID THEN 0 ELSE id + 1
           record == WorkerRecord(n, id)
           after  == View(v.scheduler, next, v.time)
           r      == Mirror(v, n - 1)
<1>1. id \in 1..MAX_WORKER_ID /\ next \in 0..MAX_WORKER_ID
  BY RegistryConstants, SMTT(90) DEF ViewOK, ViewType
<1>2. /\ record.type = "WORKER_ID_ALLOCATED" /\ record.sequence = n /\ record.worker_id = id
      /\ record \in WalRecords
  BY <1>1 DEF WorkerRecord, WalRecords
<1>3. ValidRecord(record)
  BY <1>1, <1>2 DEF ValidRecord
<1>4. /\ after.scheduler = v.scheduler /\ after.time = v.time
      /\ after.next_worker_id = next
  BY DEF View
<1>5. ViewOK(after)
  <2>1. v.scheduler \in SchedulerType /\ v.time \in Nat
    BY DEF ViewOK, ViewType
  <2>2. after \in ViewType
    BY <1>1, <2>1 DEF View, ViewType
  <2> QED  BY <1>4, <2>2 DEF ViewOK
<1>6. Issued(id, MAX_WORKER_ID) = id - 1 /\ Issued(next, MAX_WORKER_ID) = id
  BY <1>1, RegistryConstants DEF Issued
<1>7. n = r.last_sequence + 1 /\ r.highest_worker_id = id - 1
  BY <1>6, MirrorFields
<1>8. AcceptsRecord(r, record)
  <2> HIDE DEF r, record
  <2> QED  BY <1>1, <1>2, <1>3, <1>7 DEF AcceptsRecord
<1>9. ApplyRecord(r, record) = Mirror(after, n)
  <2>1. (1..id - 1) \cup {id} = 1..id
    BY <1>1
  <2>2. ApplyRecord(r, record)
          = [r EXCEPT !.allocated = @ \cup {id}, !.highest_worker_id = id,
                      !.next_worker_id = next, !.last_sequence = n]
    <3> HIDE DEF r, record
    <3> QED  BY <1>2 DEF ApplyRecord, ApplyWorker
  <2> DEFINE rebuilt == ApplyRecord(r, record)
             ids     == 1..id
             more    == r.allocated \cup {id}
  <2>3. more = ids
    BY <1>6, <2>1 DEF Mirror
  <2>4. rebuilt = [r EXCEPT !.allocated = more, !.highest_worker_id = id,
                            !.next_worker_id = next, !.last_sequence = n]
    BY <2>2
  <2>5. Mirror(after, n)
          = [ scheduler |-> v.scheduler, next_worker_id |-> next, highest_worker_id |-> id,
              highest_job_id |-> Len(v.scheduler.jobs), allocated |-> ids,
              job_time_base |-> v.time, last_sequence |-> n ]
    BY <1>4, <1>6 DEF Mirror
  <2> HIDE DEF rebuilt, id, next, more, ids, after, record
  <2> SUFFICES rebuilt = Mirror(after, n)
    BY DEF rebuilt
  <2> QED  BY <2>3, <2>4, <2>5 DEF r, Mirror
<1> QED  BY <1>2, <1>3, <1>5, <1>8, <1>9 DEF Replays

-----------------------------------------------------------------------------
(* The operations of the live store keep StoreInv.                         *)

Live == pc \in {"recovering", "serving"}

\* What an operation of the store leaves alone.
Frame ==
  /\ pc' = pc /\ replay_result' = replay_result /\ replay' = replay /\ exposed' = exposed
  /\ time_base' = time_base /\ session_start' = session_start
  /\ last_job_time' = last_job_time
  /\ slot' \in Nat \ {0}
  /\ workers' \in RegistryType /\ RegistryOK(workers')

\* The clock reading raw of an operation agrees with the store's clock.
ReadingOK(raw) ==
  /\ raw \in Int /\ raw >= session_start /\ last_job_time <= JobTime(raw)
  /\ pc = "recovering" => raw = session_start

\* The record and the scratch state (s, w, time) of a write in progress.
Prepared(record, s, w, time) ==
  LET n     == Len(log) + 1
      after == View(s, w.next_worker_id, time)
  IN  /\ record \in WalRecords /\ ValidRecord(record)
      /\ ViewOK(after) /\ Replays(shadow[n], record, n, after)

\* The registry of a write in progress owns what its scheduler runs; during
\* startup the scheduler runs nothing in the slots scanned so far.
PreparedOwners(s, w) ==
  /\ w \in RegistryType /\ RegistryOK(w)
  /\ IF pc = "serving" THEN Owned(s, w) ELSE Scanned(s, slot')

\* The published state of a settled store is the last view of the history.
LEMMA SettledFacts ==
  ASSUME StoreInv, Settled
  PROVE  LET v == shadow[Len(log) + 1]
         IN  /\ ViewOK(v) /\ v.scheduler = sched
             /\ v.next_worker_id = workers.next_worker_id /\ v.time = last_job_time
             /\ Len(log) + 1 \in Nat \ {0}
             /\ workers \in RegistryType /\ RegistryOK(workers)
             /\ IF pc = "serving" THEN Owned(sched, workers) ELSE Scanned(sched, slot)
             /\ next_sequence # 0 => next_sequence = Len(log) + 1
<1> DEFINE v == shadow[Len(log) + 1]
<1>1. log \in Seq(WalRecords) /\ shadow \in Seq(ViewType) /\ Len(shadow) = Len(log) + 1
  BY DEF StoreInv, TypeOK, HistoryInv
<1>2. Len(log) \in Nat /\ Len(log) + 1 \in DOMAIN shadow
  BY <1>1
<1>3. ViewOK(v)
  BY <1>2 DEF StoreInv, HistoryInv
<1>4. Live
  BY DEF Settled, Live
<1>5. View(sched, workers.next_worker_id, last_job_time) = v
  BY <1>4 DEF StoreInv, LiveInv, Live
<1>6. /\ workers \in RegistryType /\ RegistryOK(workers)
      /\ IF pc = "serving" THEN Owned(sched, workers) ELSE Scanned(sched, slot)
      /\ next_sequence # 0 => next_sequence = Len(log) + 1
  BY <1>4 DEF StoreInv, LiveInv, Live, TypeOK
<1>7. v.scheduler = sched /\ v.next_worker_id = workers.next_worker_id /\ v.time = last_job_time
  BY <1>5, SMTT(90) DEF View
<1> QED  BY <1>2, <1>3, <1>6, <1>7

\* A clock reading that job_time accepts moves the job time forward; one that
\* it refuses is a failed read or an overflow.
LEMMA Ticks ==
  ASSUME StoreInv, Settled, NEW raw \in Readings, raw # -1, pc = "serving"
  PROVE  /\ ReadingOK(raw) /\ raw >= 0 /\ JobTime(raw) \in Nat /\ last_job_time <= JobTime(raw)
         /\ JobTimeOK(raw) \/ raw - session_start > MAX_TIME - time_base
<1>1. /\ session_start \in Int /\ session_start >= 0 /\ reading >= session_start
      /\ last_job_time <= JobTime(reading)
  BY DEF StoreInv, ClockInv, Settled, TypeOK
<1>2. reading \in Int /\ time_base \in Nat /\ last_job_time \in Nat
  BY DEF StoreInv, TypeOK
<1>3. raw \in Int /\ raw >= reading
  BY <1>2, StoreConstants DEF Readings
<1> QED  BY <1>1, <1>2, <1>3, StoreConstants DEF ReadingOK, JobTime, JobTimeOK

\* Latching a failure keeps the invariant, whatever the failed write left
\* behind the complete records.
LEMMA FatalStep ==
  ASSUME StoreInv, Live, Frame,
         UNCHANGED <<header, log, synced, sched, next_sequence, shadow>>, staged' = <<>>,
         torn' \in BOOLEAN, torn' => torn \/ Len(log) < MAX_SEQUENCE,
         failure' \in {"WAL", "CLOCK"},
         write_result' \in {"OK", "IO_ERROR", "SEQUENCE_EXHAUSTED"}, reading' \in Int,
         failure' = "CLOCK" =>
           reading' = -1 \/ reading' - session_start > MAX_TIME - time_base
  PROVE  StoreInv'
<1>1. TypeOK'
  <2>1. TypeOK
    BY DEF StoreInv
  <2>2. staged' \in Seq(StagedType) /\ Len(staged') <= 1
    OBVIOUS
  <2> QED  BY <2>1, <2>2 DEF TypeOK, Frame
<1>2. HistoryInv'
  <2>1. HistoryInv
    BY DEF StoreInv
  <2> QED  BY <2>1 DEF HistoryInv, Frame, Live
<1>3. Live'
  BY DEF Frame, Live
<1>4. ReplayInv'
  BY <1>3 DEF ReplayInv, Live
<1>5. LiveInv'
  BY DEF LiveInv, Frame, Settled
<1>6. ClockInv'
  <2>1. session_start >= 0
    BY DEF StoreInv, ClockInv, Live
  <2> QED  BY <2>1 DEF ClockInv, Frame
<1>7. ExposedIsDurable'
  <2>1. ExposedIsDurable
    BY DEF StoreInv
  <2> QED  BY <2>1 DEF ExposedIsDurable, Frame
<1>8. NoInternalFailure' /\ ClockFailsForCause'
  BY DEF NoInternalFailure, ClockFailsForCause, Frame
<1>9. ReplayAccepts'
  <2>1. ReplayAccepts
    BY DEF StoreInv
  <2> QED  BY <2>1 DEF ReplayAccepts, Frame
<1>10. SchedulerOK(sched')
  BY DEF StoreInv
<1> QED  BY <1>1, <1>2, <1>4, <1>5, <1>6, <1>7, <1>8, <1>9, <1>10 DEF StoreInv

\* A complete record written and not yet synced.
LEMMA WrittenStep ==
  ASSUME StoreInv, Settled, Frame, ReadingOK(reading'), next_sequence # 0,
         NEW record, NEW s, NEW w, NEW time, Prepared(record, s, w, time),
         PreparedOwners(s, w), last_job_time <= time, time <= JobTime(reading'),
         log' = Append(log, record),
         staged' = <<[sched |-> s, workers |-> w, time |-> time]>>,
         shadow' = Append(shadow, View(s, w.next_worker_id, time)),
         UNCHANGED <<header, synced, torn, sched, failure, write_result, next_sequence>>
  PROVE  StoreInv'
<1> DEFINE n     == Len(log) + 1
           after == View(s, w.next_worker_id, time)
           entry == [sched |-> s, workers |-> w, time |-> time]
<1>1. TypeOK /\ HistoryInv
  BY DEF StoreInv
<1>2. Len(log) \in Nat /\ log \in Seq(WalRecords) /\ shadow \in Seq(ViewType)
  BY <1>1, SMTT(90) DEF TypeOK
<1>3. /\ synced = Len(log) /\ next_sequence = n /\ Len(log) < MAX_SEQUENCE /\ Live
      /\ n \in Nat \ {0}
  <2>1. Live
    BY DEF Settled, Live
  <2>2. synced = Len(log) /\ next_sequence = IF Len(log) = MAX_SEQUENCE THEN 0 ELSE Len(log) + 1
    BY <2>1 DEF StoreInv, LiveInv, Live
  <2> QED  BY <1>1, <1>2, <2>1, <2>2, StoreConstants, SMTT(90) DEF HistoryInv
<1>4. record \in WalRecords /\ ViewOK(after) /\ Replays(shadow[n], record, n, after)
  BY DEF Prepared
<1>5. /\ after \in ViewType /\ s \in SchedulerType /\ time \in Nat
  <2>1. after \in ViewType
    BY <1>4 DEF ViewOK
  <2>2. after.scheduler = s /\ after.time = time
    BY DEF View
  <2> HIDE DEF after
  <2> QED  BY <2>1, <2>2 DEF ViewType
<1>6. entry \in StagedType /\ entry.sched = s /\ entry.workers = w /\ entry.time = time
  <2>1. entry \in StagedType
    BY <1>5 DEF StagedType, PreparedOwners
  <2> QED  BY <2>1
<1> HIDE DEF after, entry
<1>7. /\ log' \in Seq(WalRecords) /\ Len(log') = n
      /\ \A i \in DOMAIN log : log'[i] = log[i]
      /\ log'[n] = record /\ DOMAIN log' = 1..n /\ DOMAIN log = 1..Len(log)
  BY <1>2, <1>4
<1>8. /\ shadow' \in Seq(ViewType) /\ Len(shadow') = n + 1
      /\ \A i \in DOMAIN shadow : shadow'[i] = shadow[i]
      /\ shadow'[n + 1] = after /\ DOMAIN shadow' = 1..n + 1 /\ DOMAIN shadow = 1..n
  <2>1. Len(shadow) = n
    BY <1>1 DEF HistoryInv
  <2>2. shadow' = Append(shadow, after)
    BY DEF after
  <2> HIDE DEF n
  <2> QED  BY <1>2, <1>3, <1>5, <2>1, <2>2
<1>9. staged' \in Seq(StagedType) /\ Len(staged') = 1 /\ staged'[1] = entry /\ staged' # <<>>
  <2>1. staged' = <<entry>>
    BY DEF entry
  <2> QED  BY <1>6, <2>1
<1>10. TypeOK'
  <2>1. reading' \in Int
    BY DEF ReadingOK
  <2> QED  BY <1>1, <1>7, <1>8, <1>9, <2>1, SMTT(90) DEF TypeOK, Frame
<1>11. HistoryInv'
  <2> HIDE DEF n
  <2>1. Len(shadow') = Len(log') + 1 /\ synced' <= Len(log') /\ Len(log') <= MAX_SEQUENCE
    BY <1>2, <1>3, <1>7, <1>8, StoreConstants, SMTT(90) DEF n
  <2>2. ~torn' /\ pc' \in {"recovering", "serving"} /\ header' = "ok"
    <3>1. ~torn /\ header = "ok"
      BY <1>1, <1>3 DEF StoreInv, LiveInv, Settled, HistoryInv, Live
    <3> QED  BY <1>3, <3>1 DEF Frame, Live
  <2>3. shadow'[1] = View(SchedulerInit, 1, 0)
    BY <1>1, <1>3, <1>8, SMTT(90) DEF HistoryInv
  <2>4. ASSUME NEW i \in DOMAIN shadow'
        PROVE  ViewOK(shadow'[i])
    <3>1. CASE i \in DOMAIN shadow
      BY <1>1, <1>8, <3>1 DEF HistoryInv
    <3>2. CASE i = n + 1
      BY <1>4, <1>8, <3>2
    <3> QED  BY <1>3, <1>8, <3>1, <3>2
  <2>5. ASSUME NEW i \in DOMAIN log'
        PROVE  Replays(shadow'[i], log'[i], i, shadow'[i + 1])
    <3>1. CASE i \in DOMAIN log
      <4>1. i \in DOMAIN shadow /\ i + 1 \in DOMAIN shadow
        BY <1>2, <1>7, <1>8, <3>1 DEF n
      <4>2. shadow'[i] = shadow[i] /\ shadow'[i + 1] = shadow[i + 1] /\ log'[i] = log[i]
        BY <1>7, <1>8, <3>1, <4>1
      <4>3. Replays(shadow[i], log[i], i, shadow[i + 1])
        BY <1>1, <3>1 DEF HistoryInv
      <4> QED  BY <4>2, <4>3
    <3>2. CASE i = n
      <4>1. n \in DOMAIN shadow
        BY <1>3, <1>8
      <4>2. shadow'[n] = shadow[n]
        BY <1>8, <4>1
      <4> QED  BY <1>4, <1>7, <1>8, <3>2, <4>2
    <3>3. i \in DOMAIN log \/ i = n
      BY <1>2, <1>7 DEF n
    <3> QED  BY <3>1, <3>2, <3>3
  <2> QED  BY <2>1, <2>2, <2>3, <2>4, <2>5 DEF HistoryInv
<1>12. failure = "NONE" /\ failure' = "NONE" /\ pc' = pc /\ Live'
  BY <1>3 DEF Settled, Frame, Live
<1>13. ReplayInv'
  BY <1>12 DEF ReplayInv, Live
<1>14. LiveInv'
  <2>1. ~torn'
    BY <1>3, <1>12 DEF StoreInv, LiveInv, Live
  <2>2. View(staged'[1].sched, staged'[1].workers.next_worker_id, staged'[1].time)
          = shadow'[Len(log') + 1]
    BY <1>6, <1>7, <1>8, <1>9 DEF after
  <2>3. RegistryOK(staged'[1].workers) /\ RegistryOK(workers')
    BY <1>6, <1>9 DEF PreparedOwners, Frame
  <2>4. IF pc' = "serving" THEN Owned(staged'[1].sched, staged'[1].workers)
                           ELSE Scanned(staged'[1].sched, slot')
    BY <1>6, <1>9, <1>12 DEF PreparedOwners
  <2>5. Len(log') > 0 /\ synced' = Len(log') - 1 /\ next_sequence' = Len(log')
    BY <1>2, <1>3, <1>7
  <2> QED  BY <1>9, <1>12, <2>1, <2>2, <2>3, <2>4, <2>5 DEF LiveInv, Settled
<1>15. ClockInv'
  <2>1. session_start >= 0 /\ (pc = "recovering" => last_job_time = time_base)
    BY <1>3, <1>12 DEF StoreInv, ClockInv, Live
  <2>2. staged'[1].time = time
    BY <1>6, <1>9
  <2>3. JobTime(reading)' = JobTime(reading')
    BY DEF JobTime, Frame
  <2> QED  BY <1>12, <2>1, <2>2, <2>3 DEF ClockInv, Frame, ReadingOK
<1>16. ExposedIsDurable'
  <2>1. ExposedIsDurable /\ exposed \in Seq(WalRecords)
    BY DEF StoreInv, TypeOK
  <2>2. Len(exposed') <= synced' /\ synced' <= Len(log')
    BY <1>2, <1>3, <1>7, <2>1 DEF ExposedIsDurable, Frame
  <2>3. ASSUME NEW i \in 1..Len(exposed')
        PROVE  exposed'[i] = log'[i]
    <3>1. i \in 1..Len(exposed) /\ i \in DOMAIN log /\ exposed' = exposed
      BY <1>2, <1>3, <1>7, <2>1 DEF ExposedIsDurable, Frame
    <3>2. exposed[i] = log[i] /\ log'[i] = log[i]
      BY <1>7, <2>1, <3>1 DEF ExposedIsDurable
    <3> QED  BY <3>1, <3>2
  <2> QED  BY <2>2, <2>3 DEF ExposedIsDurable
<1>17. NoInternalFailure' /\ ReplayAccepts' /\ ClockFailsForCause'
  <2>1. NoInternalFailure /\ ReplayAccepts
    BY DEF StoreInv
  <2> QED  BY <1>12, <2>1 DEF NoInternalFailure, ReplayAccepts, ClockFailsForCause, Frame
<1>18. SchedulerOK(sched')
  BY DEF StoreInv
<1> QED  BY <1>10, <1>11, <1>13, <1>14, <1>15, <1>16, <1>17, <1>18 DEF StoreInv

\* faultline_wal_writer_append keeps the invariant, whether it refuses the
\* record, writes it or fails half-way.
LEMMA AppendStep ==
  ASSUME StoreInv, Settled, Frame, ReadingOK(reading'),
         NEW record, NEW s, NEW w, NEW time, AppendRecord(record, s, w, time),
         next_sequence # 0 => Prepared(record, s, w, time),
         PreparedOwners(s, w), last_job_time <= time, time <= JobTime(reading')
  PROVE  StoreInv'
<1>1. Live /\ staged = <<>> /\ reading' \in Int /\ torn \in BOOLEAN
  BY DEF Settled, Live, ReadingOK, StoreInv, TypeOK
<1>2. CASE next_sequence = 0
  <2>1. /\ failure' = "WAL" /\ write_result' = "SEQUENCE_EXHAUSTED"
        /\ UNCHANGED <<disk, sched, next_sequence, staged, shadow>>
    BY <1>2 DEF AppendRecord
  <2> QED  BY <1>1, <2>1, FatalStep DEF disk
<1>3. CASE next_sequence # 0
  <2>1. Prepared(record, s, w, time) /\ ValidRecord(record)
    BY <1>3 DEF Prepared
  <2>2. CASE /\ log' = Append(log, record)
             /\ staged' = <<[sched |-> s, workers |-> w, time |-> time]>>
             /\ shadow' = Append(shadow, View(s, w.next_worker_id, time))
             /\ UNCHANGED <<header, synced, torn, sched, failure, write_result, next_sequence>>
    BY <1>3, <2>1, <2>2, WrittenStep
  <2>3. CASE /\ torn' \in BOOLEAN
             /\ failure' = "WAL" /\ write_result' = "IO_ERROR"
             /\ UNCHANGED <<header, log, synced, sched, next_sequence, staged, shadow>>
    <3>1. Len(log) < MAX_SEQUENCE
      <4>1. Len(log) <= MAX_SEQUENCE /\ Len(log) # MAX_SEQUENCE /\ Len(log) \in Nat
        BY <1>1, <1>3 DEF StoreInv, LiveInv, HistoryInv, Live, TypeOK
      <4> QED  BY <4>1, StoreConstants
    <3> QED  BY <1>1, <2>3, <3>1, FatalStep
  <2> QED  BY <1>3, <2>1, <2>2, <2>3 DEF AppendRecord
<1> QED  BY <1>2, <1>3

\* commit_job keeps the invariant.
LEMMA CommitStep ==
  ASSUME StoreInv, Settled, Frame, ReadingOK(reading'),
         NEW type, NEW id, NEW t, NEW w, NEW now,
         Commits(shadow[Len(log) + 1], type, id, t, now, Len(log) + 1),
         PreparedOwners(t, w), w.next_worker_id = workers.next_worker_id,
         last_job_time <= now, now <= JobTime(reading'), CommitJob(type, id, t, w)
  PROVE  StoreInv'
<1> DEFINE v      == shadow[Len(log) + 1]
           n      == Len(log) + 1
           job    == t.jobs[FindSlot(t, id)]
           record == JobRecord(next_sequence, type, job)
<1>1. v.next_worker_id = w.next_worker_id /\ (next_sequence # 0 => next_sequence = n)
  BY SettledFacts
<1>2. Known(t, id) /\ job.updated_at = now
  BY DEF Commits
<1>3. AppendRecord(record, t, w, now)
  BY <1>2 DEF CommitJob
<1>4. next_sequence # 0 => Prepared(record, t, w, now)
  BY <1>1 DEF Commits, Prepared
<1> HIDE DEF record
<1> QED  BY <1>3, <1>4, AppendStep

\* An operation that the event loop performs on an open store.
LEMMA ServingFacts ==
  ASSUME StoreInv, Usable, ServingFrame, workers' \in RegistryType, RegistryOK(workers')
  PROVE  Settled /\ Live /\ pc = "serving" /\ Frame
<1>1. slot \in Nat \ {0}
  BY DEF StoreInv, TypeOK
<1> QED  BY <1>1 DEF Usable, Settled, Live, ServingFrame, Frame, clock

\* A clock reading refused by job_time, or a failed one, is latched.
LEMMA ClockStep ==
  ASSUME StoreInv, Settled, Frame, pc = "serving", NEW raw \in Readings, reading' = raw,
         ~JobTimeOK(raw) \/ raw < 0, Fail("CLOCK")
  PROVE  StoreInv'
<1>1. raw \in Int
  BY StoreConstants, SMTT(90) DEF Readings, StoreInv, TypeOK
<1>2. reading' = -1 \/ reading' - session_start > MAX_TIME - time_base
  <2>1. CASE raw # -1
    <3>1. raw >= 0 /\ (JobTimeOK(raw) \/ raw - session_start > MAX_TIME - time_base)
      BY <2>1, Ticks
    <3> QED  BY <1>1, <3>1
  <2> QED  BY <2>1
<1>3. /\ Live /\ staged = <<>> /\ torn \in BOOLEAN
      /\ write_result \in {"OK", "IO_ERROR", "SEQUENCE_EXHAUSTED"}
  BY DEF Settled, Live, StoreInv, TypeOK, NoInternalFailure
<1> QED  BY <1>1, <1>2, <1>3, FatalStep DEF Fail, disk

\* Owners that are kept are still owners.
LEMMA OwnersKeptOwned ==
  ASSUME NEW s, NEW t, NEW r, Owned(s, r), OwnersKept(s, t)
  PROVE  Owned(t, r)
BY DEF Owned, OwnersKept

\* faultline_store_register.
LEMMA RegisterInv ==
  ASSUME StoreInv, NEW fd \in Fds, NEW raw \in Readings, StoreRegister(fd, raw)
  PROVE  StoreInv'
<1> DEFINE v      == shadow[Len(log) + 1]
           n      == Len(log) + 1
           w      == Register(workers, fd, raw)
           record == WorkerRecord(next_sequence, workers.next_worker_id)
<1>1. UNCHANGED workers /\ Usable /\ ServingFrame /\ reading' = raw
  BY DEF StoreRegister
<1>2. /\ workers \in RegistryType /\ RegistryOK(workers) /\ Settled /\ Live
      /\ pc = "serving" /\ Frame
  <2>1. Settled
    BY <1>1 DEF Usable, Settled
  <2>2. workers \in RegistryType /\ RegistryOK(workers)
    BY <2>1, SettledFacts
  <2> QED  BY <1>1, <2>1, <2>2, ServingFacts
<1>3. CASE raw < 0
  <2>1. Fail("CLOCK")
    BY <1>3 DEF StoreRegister
  <2> QED  BY <1>1, <1>2, <1>3, <2>1, ClockStep
<1>4. CASE ~(raw < 0)
  <2>1. RegisterOK(workers, fd, raw) /\ AppendRecord(record, sched, w, last_job_time)
    BY <1>4 DEF StoreRegister
  <2>2. raw # -1 /\ ReadingOK(raw) /\ last_job_time <= JobTime(raw) /\ raw \in Nat /\ fd \in Nat
    <3>1. raw # -1
      BY <1>4
    <3>2. ReadingOK(raw) /\ last_job_time <= JobTime(raw) /\ raw >= 0
      BY <1>2, <3>1, Ticks
    <3> QED  BY <3>1, <3>2, StoreConstants DEF ReadingOK
  <2>3. /\ w \in RegistryType /\ RegistryOK(w)
        /\ w.next_worker_id = IF workers.next_worker_id = MAX_WORKER_ID
                              THEN 0 ELSE workers.next_worker_id + 1
        /\ \A id : Alive(workers, id) => Alive(w, id)
    BY <1>2, <2>1, <2>2, RegisterStep
  <2>4. /\ ViewOK(v) /\ v.scheduler = sched /\ v.next_worker_id = workers.next_worker_id
        /\ v.time = last_job_time /\ n \in Nat \ {0} /\ Owned(sched, workers)
        /\ next_sequence # 0 => next_sequence = n
    BY <1>2, SettledFacts
  <2>5. workers.next_worker_id # 0 /\ last_job_time \in Nat
    BY <2>1 DEF RegisterOK, StoreInv, TypeOK
  <2> HIDE DEF v, w
  <2>6. next_sequence # 0 => Prepared(record, sched, w, last_job_time)
    <3>1. /\ WorkerRecord(n, v.next_worker_id) \in WalRecords
          /\ ValidRecord(WorkerRecord(n, v.next_worker_id))
          /\ ViewOK(View(v.scheduler, w.next_worker_id, v.time))
          /\ Replays(v, WorkerRecord(n, v.next_worker_id), n,
                     View(v.scheduler, w.next_worker_id, v.time))
      BY <2>3, <2>4, <2>5, RegisteredCommits
    <3> QED  BY <2>4, <3>1 DEF Prepared, v
  <2>7. PreparedOwners(sched, w)
    BY <1>2, <2>3, <2>4 DEF PreparedOwners, Owned
  <2> HIDE DEF record
  <2>8. last_job_time <= last_job_time
    BY <2>5
  <2> QED  BY <1>1, <1>2, <2>1, <2>2, <2>6, <2>7, <2>8, AppendStep DEF record, w
<1> QED  BY <1>3, <1>4

\* faultline_store_submit.
LEMMA SubmitInv ==
  ASSUME StoreInv, NEW task \in Tasks, NEW retries \in 0..MAX_RETRIES, NEW raw \in Readings,
         StoreSubmit(task, retries, raw)
  PROVE  StoreInv'
<1> DEFINE v   == shadow[Len(log) + 1]
           n   == Len(log) + 1
           now == JobTime(raw)
           t   == Submit(sched, task, retries, now)
           id  == sched.next_job_id
<1>1. UNCHANGED workers /\ Usable /\ ServingFrame /\ reading' = raw
  BY DEF StoreSubmit
<1>2. /\ workers \in RegistryType /\ RegistryOK(workers) /\ Settled /\ Live
      /\ pc = "serving" /\ Frame
  <2>1. Settled
    BY <1>1 DEF Usable, Settled
  <2>2. workers \in RegistryType /\ RegistryOK(workers)
    BY <2>1, SettledFacts
  <2> QED  BY <1>1, <2>1, <2>2, ServingFacts
<1>3. CASE ~JobTimeOK(raw)
  <2>1. Fail("CLOCK")
    BY <1>3 DEF StoreSubmit
  <2> QED  BY <1>1, <1>2, <1>3, <2>1, ClockStep
<1>4. CASE JobTimeOK(raw)
  <2>1. /\ SubmitAdmitted(sched, now)
        /\ SubmitOK(sched, task, retries, now) => CommitJob("JOB_CREATED", id, t, workers)
    BY <1>4 DEF StoreSubmit
  <2>2. raw # -1 /\ ReadingOK(raw) /\ now \in Nat /\ last_job_time <= now
    <3>1. raw # -1
      BY <1>4 DEF JobTimeOK
    <3> QED  BY <1>2, <3>1, Ticks
  <2>3. /\ ViewOK(v) /\ v.scheduler = sched /\ v.time = last_job_time
        /\ n \in Nat \ {0} /\ Owned(sched, workers)
    BY <1>2, SettledFacts
  <2>4. SchedulerOK(sched)
    BY <2>3 DEF ViewOK
  <2> HIDE DEF now, v
  <2>5. SubmitOK(sched, task, retries, now) /\ OwnersKept(sched, t)
    <3> HIDE DEF n
    <3>1. /\ SubmitOK(sched, task, retries, now)
          /\ id = Len(sched.jobs) + 1 /\ id \in DOMAIN t.jobs /\ id \in 1..MAX_JOB_ID
          /\ SchedulerOK(t) /\ DOMAIN t.jobs = 1..id /\ Len(t.jobs) = id
          /\ t.jobs[id] = JobInit(id, task, retries, now)
          /\ \A i \in DOMAIN sched.jobs : i # id /\ t.jobs[i] = sched.jobs[i]
      BY <2>1, <2>2, <2>4, SubmitStep
    <3>2. Len(sched.jobs) \in Nat /\ DOMAIN sched.jobs = 1..Len(sched.jobs)
      BY <2>4 DEF SchedulerOK, SchedulerType
    <3>3. JobInit(id, task, retries, now).state = "QUEUED"
      BY DEF JobInit
    <3>4. ~IsActive(t.jobs[id])
      BY <3>1, <3>3 DEF IsActive
    <3> HIDE DEF t, id
    <3>5. \A i \in 1..id : i = id \/ i \in DOMAIN sched.jobs
      BY <3>1, <3>2
    <3> QED  BY <3>1, <3>4, <3>5 DEF OwnersKept
  <2>6. Commits(v, "JOB_CREATED", id, t, now, n)
    BY <2>1, <2>2, <2>3, CreatedCommits
  <2> HIDE DEF t, id
  <2>7. PreparedOwners(t, workers)
    BY <1>2, <2>3, <2>5, OwnersKeptOwned DEF PreparedOwners
  <2>8. now <= JobTime(reading')
    BY <1>1, <2>2 DEF now
  <2>9. CommitJob("JOB_CREATED", id, t, workers)
    BY <2>1, <2>5
  <2> QED  BY <1>1, <1>2, <2>2, <2>6, <2>7, <2>8, <2>9, CommitStep DEF v
<1> QED  BY <1>3, <1>4

\* faultline_store_assign.
LEMMA AssignInv ==
  ASSUME StoreInv, NEW w \in WorkerIds, NEW raw \in Readings, StoreAssign(w, raw)
  PROVE  StoreInv'
<1> DEFINE v   == shadow[Len(log) + 1]
           n   == Len(log) + 1
           now == JobTime(raw)
           t   == Assign(sched, w, now)
           id  == Head(sched.pending)
<1>1. UNCHANGED workers /\ Usable /\ ServingFrame /\ reading' = raw /\ Alive(workers, w)
  BY DEF StoreAssign
<1>2. /\ workers \in RegistryType /\ RegistryOK(workers) /\ Settled /\ Live
      /\ pc = "serving" /\ Frame
  <2>1. Settled
    BY <1>1 DEF Usable, Settled
  <2>2. workers \in RegistryType /\ RegistryOK(workers)
    BY <2>1, SettledFacts
  <2> QED  BY <1>1, <2>1, <2>2, ServingFacts
<1>3. CASE ~JobTimeOK(raw)
  <2>1. Fail("CLOCK")
    BY <1>3 DEF StoreAssign
  <2> QED  BY <1>1, <1>2, <1>3, <2>1, ClockStep
<1>4. CASE JobTimeOK(raw)
  <2>1. /\ ~Busy(sched, w) /\ sched.pending # <<>>
        /\ AssignOK(sched, w, now) => CommitJob("JOB_ASSIGNED", id, t, workers)
    BY <1>4 DEF StoreAssign
  <2>2. raw # -1 /\ ReadingOK(raw) /\ now \in Nat /\ last_job_time <= now
    <3>1. raw # -1
      BY <1>4 DEF JobTimeOK
    <3> QED  BY <1>2, <3>1, Ticks
  <2>3. /\ ViewOK(v) /\ v.scheduler = sched /\ v.time = last_job_time
        /\ v.next_worker_id = workers.next_worker_id
        /\ n \in Nat \ {0} /\ Owned(sched, workers)
    BY <1>2, SettledFacts
  <2>4. w \in 1..Issued(v.next_worker_id, MAX_WORKER_ID) /\ w \in 1..MAX_WORKER_ID
    BY <1>1, <1>2, <2>3, AliveIssued DEF WorkerIds
  <2> HIDE DEF now, v
  <2>5. AssignOK(sched, w, now) /\ Commits(v, "JOB_ASSIGNED", id, t, now, n)
    BY <2>1, <2>2, <2>3, <2>4, AssignedCommits
  <2>6. Owned(t, workers)
    <3>1. SchedulerOK(sched) /\ NotAfter(sched, now)
      <4>1. SchedulerOK(sched) /\ NotAfter(sched, last_job_time) /\ last_job_time \in Nat
        BY <2>3 DEF ViewOK, ViewType
      <4>2. \A i \in DOMAIN sched.jobs : sched.jobs[i].updated_at \in Nat
        BY <4>1, SlotOfJob DEF JobType
      <4> QED  BY <2>2, <4>1, <4>2 DEF NotAfter
    <3>2. /\ id \in DOMAIN sched.jobs /\ DOMAIN t.jobs = DOMAIN sched.jobs
          /\ t.jobs[id] = JobAssign(sched.jobs[id], w, now)
          /\ \A i \in DOMAIN sched.jobs : i # id => t.jobs[i] = sched.jobs[i]
      BY <2>1, <2>2, <2>4, <3>1, AssignStep
    <3>3. t.jobs[id].worker_id = w
      <4>1. sched.jobs[id] \in JobType
        BY <3>1, <3>2, SlotOfJob
      <4> HIDE DEF t, id
      <4> QED  BY <3>2, <4>1 DEF JobAssign, JobType
    <3> HIDE DEF t, id
    <3>4. \A i \in DOMAIN t.jobs : i = id \/ t.jobs[i] = sched.jobs[i]
      BY <3>2
    <3> QED  BY <1>1, <2>3, <3>2, <3>3, <3>4 DEF Owned
  <2> HIDE DEF t, id
  <2>7. PreparedOwners(t, workers)
    BY <1>2, <2>6 DEF PreparedOwners
  <2>8. now <= JobTime(reading')
    BY <1>1, <2>2 DEF now
  <2>9. CommitJob("JOB_ASSIGNED", id, t, workers)
    BY <2>1, <2>5
  <2> QED  BY <1>1, <1>2, <2>2, <2>5, <2>7, <2>8, <2>9, CommitStep DEF v
<1> QED  BY <1>3, <1>4

\* faultline_store_report.
LEMMA ReportInv ==
  ASSUME StoreInv, NEW w \in WorkerIds, NEW report \in Reports, NEW raw \in Readings,
         StoreReport(w, report, raw)
  PROVE  StoreInv'
<1> DEFINE v   == shadow[Len(log) + 1]
           n   == Len(log) + 1
           now == JobTime(raw)
           t   == Report(sched, report, now)
           id  == Active(sched, w).id
           type == RecordType(t.jobs[FindSlot(t, id)])
<1>1. UNCHANGED workers /\ Usable /\ ServingFrame /\ reading' = raw
  BY DEF StoreReport
<1>2. /\ workers \in RegistryType /\ RegistryOK(workers) /\ Settled /\ Live
      /\ pc = "serving" /\ Frame
  <2>1. Settled
    BY <1>1 DEF Usable, Settled
  <2>2. workers \in RegistryType /\ RegistryOK(workers)
    BY <2>1, SettledFacts
  <2> QED  BY <1>1, <2>1, <2>2, ServingFacts
<1>3. CASE ~JobTimeOK(raw)
  <2>1. Fail("CLOCK")
    BY <1>3 DEF StoreReport
  <2> QED  BY <1>1, <1>2, <1>3, <2>1, ClockStep
<1>4. CASE JobTimeOK(raw)
  <2>1. /\ ReportAccepted(sched, w, report, now)
        /\ ReportOK(sched, report, now) => CommitJob(type, id, t, workers)
    BY <1>4 DEF StoreReport
  <2>2. raw # -1 /\ ReadingOK(raw) /\ now \in Nat /\ last_job_time <= now
    <3>1. raw # -1
      BY <1>4 DEF JobTimeOK
    <3> QED  BY <1>2, <3>1, Ticks
  <2>3. /\ ViewOK(v) /\ v.scheduler = sched /\ v.time = last_job_time
        /\ n \in Nat \ {0} /\ Owned(sched, workers)
    BY <1>2, SettledFacts
  <2> HIDE DEF now, v
  <2>4. ReportOK(sched, report, now) /\ Commits(v, type, id, t, now, n) /\ OwnersKept(sched, t)
    BY <2>1, <2>2, <2>3, ReportCommits
  <2> HIDE DEF t, id, type
  <2>5. PreparedOwners(t, workers)
    BY <1>2, <2>3, <2>4, OwnersKeptOwned DEF PreparedOwners
  <2>6. now <= JobTime(reading')
    BY <1>1, <2>2 DEF now
  <2>7. CommitJob(type, id, t, workers)
    BY <2>1, <2>4
  <2> QED  BY <1>1, <1>2, <2>2, <2>4, <2>5, <2>6, <2>7, CommitStep DEF v
<1> QED  BY <1>3, <1>4

\* commit_worker_loss for the owner of an active attempt; w is the registry
\* that the loop goes on with.
LEMMA LossStep ==
  ASSUME StoreInv, Settled, Frame, NEW raw, ReadingOK(raw), reading' = raw, JobTimeOK(raw),
         JobTime(raw) \in Nat,
         NEW i \in DOMAIN sched.jobs, IsActive(sched.jobs[i]),
         NEW w \in RegistryType, RegistryOK(w), w.next_worker_id = workers.next_worker_id,
         pc = "serving" =>
           \A id : Alive(workers, id) /\ id # sched.jobs[i].worker_id => Alive(w, id),
         pc # "serving" => slot' = i + 1 /\ Scanned(sched, i),
         CommitWorkerLoss(sched.jobs[i].worker_id, raw, w)
  PROVE  StoreInv'
<1> DEFINE v    == shadow[Len(log) + 1]
           n    == Len(log) + 1
           now  == JobTime(raw)
           lost == sched.jobs[i].worker_id
           t    == WorkerLost(sched, lost, now)
           job  == t.jobs[FindSlot(t, i)]
<1>1. /\ ViewOK(v) /\ v.scheduler = sched /\ v.time = last_job_time
      /\ n \in Nat \ {0} /\ (pc = "serving" => Owned(sched, workers))
  BY SettledFacts
<1>2. now \in Nat /\ last_job_time <= now
  BY DEF ReadingOK
<1> HIDE DEF v, now
<1>3. /\ WorkerLostOK(sched, lost, now) /\ Active(sched, lost).id = i
      /\ job.state \in {"QUEUED", "FAILED"} /\ Commits(v, RecordType(job), i, t, now, n)
      /\ OwnersKept(sched, t) /\ Idle(t, lost)
  BY <1>1, <1>2, LossCommits
<1>4. CommitJob(IF job.state = "QUEUED" THEN "JOB_REQUEUED" ELSE "JOB_FAILED", i, t, w)
  BY <1>3 DEF CommitWorkerLoss, now
<1> HIDE DEF job
<1>5. (IF job.state = "QUEUED" THEN "JOB_REQUEUED" ELSE "JOB_FAILED") = RecordType(job)
  BY <1>3 DEF RecordType
<1>6. CommitJob(RecordType(job), i, t, w)
  BY <1>4, <1>5
<1> HIDE DEF t, lost
<1>7. PreparedOwners(t, w)
  <2>1. CASE pc = "serving"
    BY <1>1, <1>3, <2>1 DEF PreparedOwners, Owned, OwnersKept, Idle, lost
  <2>2. CASE pc # "serving"
    <3>1. ASSUME NEW k \in DOMAIN t.jobs, k < i + 1
          PROVE  ~IsActive(t.jobs[k])
      <4>1. SUFFICES ASSUME IsActive(t.jobs[k]) PROVE FALSE
        OBVIOUS
      <4>2. /\ k \in DOMAIN sched.jobs /\ IsActive(sched.jobs[k])
            /\ sched.jobs[k].worker_id = t.jobs[k].worker_id
        BY <1>3, <4>1 DEF OwnersKept
      <4>3. k \in Int /\ i \in Int
        <5>1. sched \in SchedulerType
          BY DEF StoreInv, TypeOK
        <5> QED  BY <4>2, <5>1 DEF SchedulerType
      <4>4. k = i
        BY <2>2, <3>1, <4>2, <4>3 DEF Scanned
      <4> QED  BY <1>3, <4>1, <4>2, <4>4 DEF Idle, lost
    <3> QED  BY <2>2, <3>1 DEF PreparedOwners, Scanned
  <2> QED  BY <2>1, <2>2
<1>8. now <= JobTime(reading')
  BY <1>2 DEF now
<1> QED  BY <1>2, <1>3, <1>6, <1>7, <1>8, CommitStep DEF v

\* close_client.
LEMMA CloseInv ==
  ASSUME StoreInv, NEW w \in WorkerIds, NEW fd \in Fds, NEW raw \in Readings,
         CloseClient(w, fd, raw)
  PROVE  StoreInv'
<1> DEFINE r == MarkDead(workers, w, fd)
<1>1. /\ workers' = r /\ pc = "serving" /\ staged = <<>> /\ ServingFrame
      /\ LiveConnection(workers, w, fd)
  BY DEF CloseClient
<1>2. workers \in RegistryType /\ RegistryOK(workers)
  BY <1>1 DEF StoreInv, TypeOK, LiveInv
<1>3. /\ r \in RegistryType /\ RegistryOK(r) /\ r.next_worker_id = workers.next_worker_id
      /\ \A id : Alive(workers, id) /\ id # w => Alive(r, id)
  BY <1>1, <1>2, MarkDeadStep
<1> HIDE DEF r
<1>4. Live /\ Frame
  BY <1>1, <1>3 DEF Live, Frame, ServingFrame, clock, StoreInv, TypeOK
<1>5. CASE Busy(sched, w) /\ failure = "NONE"
  <2>1. reading' = raw /\ CommitWorkerLoss(w, raw, r) /\ Settled
    BY <1>1, <1>5 DEF CloseClient, Settled, r
  <2>2. CASE ~JobTimeOK(raw)
    <3>1. Fail("CLOCK")
      BY <2>1, <2>2 DEF CommitWorkerLoss
    <3> QED  BY <1>1, <1>4, <2>1, <2>2, <3>1, ClockStep
  <2>3. CASE JobTimeOK(raw)
    <3>1. PICK i \in DOMAIN sched.jobs : IsActive(sched.jobs[i]) /\ sched.jobs[i].worker_id = w
      BY <1>5, BusySlot
    <3>2. ReadingOK(raw) /\ JobTime(raw) \in Nat
      <4>1. raw # -1
        BY <2>3 DEF JobTimeOK
      <4> QED  BY <1>1, <1>4, <2>1, <4>1, Ticks
    <3> QED  BY <1>1, <1>3, <1>4, <2>1, <2>3, <3>1, <3>2, LossStep
  <2> QED  BY <2>2, <2>3
<1>6. CASE ~(Busy(sched, w) /\ failure = "NONE")
  <2>1. UNCHANGED <<disk, sched, failure, write_result, next_sequence, staged, shadow, reading>>
    BY <1>6 DEF CloseClient
  <2>2. failure = "NONE" => Owned(sched, r)
    <3>1. SUFFICES ASSUME failure = "NONE" PROVE Owned(sched, r)
      OBVIOUS
    <3>2. Settled /\ pc = "serving"
      BY <1>1, <3>1 DEF Settled
    <3>3. Owned(sched, workers)
      BY <3>2, SettledFacts
    <3>4. w # 0
      BY RegistryConstants DEF WorkerIds
    <3> QED  BY <1>3, <1>6, <3>1, <3>3, <3>4 DEF Owned, Busy, ActiveSlots
  <2>3. TypeOK' /\ HistoryInv'
    <3>1. TypeOK /\ HistoryInv
      BY DEF StoreInv
    <3> QED  BY <1>4, <2>1, <3>1 DEF TypeOK, HistoryInv, Frame, disk
  <2>4. ReplayInv'
    BY <1>1, <1>4 DEF ReplayInv, Frame
  <2>5. LiveInv'
    <3>1. LiveInv
      BY DEF StoreInv
    <3> QED  BY <1>1, <1>3, <1>4, <2>1, <2>2, <3>1 DEF LiveInv, Settled, Frame, disk
  <2>6. ClockInv' /\ ExposedIsDurable' /\ NoInternalFailure' /\ ReplayAccepts'
        /\ ClockFailsForCause'
    <3>1. ClockInv /\ ExposedIsDurable /\ NoInternalFailure /\ ReplayAccepts
          /\ ClockFailsForCause
      BY DEF StoreInv
    <3> QED  BY <1>4, <2>1, <3>1
             DEF ClockInv, JobTime, ExposedIsDurable, NoInternalFailure, ReplayAccepts,
                 ClockFailsForCause, Frame, disk
  <2>7. SchedulerOK(sched')
    BY <2>1 DEF StoreInv
  <2> QED  BY <2>3, <2>4, <2>5, <2>6, <2>7 DEF StoreInv
<1> QED  BY <1>5, <1>6

-----------------------------------------------------------------------------
(* The end of a commit, and startup.                                       *)

\* fsync succeeds and the scratch copy is published.
LEMMA SyncInv ==
  ASSUME StoreInv, SyncRecord
  PROVE  StoreInv'
<1> DEFINE entry == staged[1]
<1>1. TypeOK /\ HistoryInv /\ ReplayInv /\ LiveInv /\ ClockInv
  BY DEF StoreInv
<1>2. Live /\ Live' /\ pc' = pc
  BY <1>1 DEF SyncRecord, ReplayInv, Live, TypeOK
<1>3. entry \in StagedType
  <2>1. staged \in Seq(StagedType) /\ staged # <<>>
    BY <1>1 DEF TypeOK, SyncRecord
  <2> QED  BY <2>1
<1>4. entry.sched \in SchedulerType /\ entry.workers \in RegistryType /\ entry.time \in Nat
  BY <1>3 DEF StagedType
<1>5. Len(log) \in Nat /\ log \in Seq(WalRecords) /\ Len(log) <= MAX_SEQUENCE
  BY <1>1, SMTT(90) DEF TypeOK, HistoryInv
<1>6. /\ failure = "NONE" /\ Len(log) > 0 /\ synced = Len(log) - 1
      /\ next_sequence = Len(log)
      /\ View(entry.sched, entry.workers.next_worker_id, entry.time) = shadow[Len(log) + 1]
      /\ RegistryOK(entry.workers) /\ ~torn
      /\ IF pc = "serving" THEN Owned(entry.sched, entry.workers) ELSE Scanned(entry.sched, slot)
  BY <1>1, <1>2 DEF LiveInv, Live, SyncRecord
<1>7. /\ sched' = entry.sched /\ workers' = entry.workers /\ last_job_time' = entry.time
      /\ staged' = <<>> /\ synced' = Len(log)
      /\ next_sequence' = IF next_sequence = MAX_SEQUENCE THEN 0 ELSE next_sequence + 1
      /\ exposed' = IF pc = "serving" THEN log ELSE exposed
      /\ UNCHANGED <<header, log, torn, failure, write_result, replay_result, time_base,
                     session_start, reading, slot, replay, shadow>>
  BY DEF SyncRecord
<1> HIDE DEF entry
<1>8. TypeOK'
  <2>1. next_sequence' \in Nat /\ synced' \in Nat
    BY <1>5, <1>6, <1>7
  <2>2. exposed' \in Seq(WalRecords)
    BY <1>1, <1>5, <1>7 DEF TypeOK
  <2>3. staged' \in Seq(StagedType) /\ Len(staged') <= 1
    BY <1>7
  <2> QED  BY <1>1, <1>2, <1>4, <1>7, <2>1, <2>2, <2>3 DEF TypeOK
<1>9. HistoryInv'
  BY <1>1, <1>2, <1>5, <1>7 DEF HistoryInv
<1>10. ReplayInv'
  BY <1>2 DEF ReplayInv, Live
<1>11. LiveInv'
  <2>1. next_sequence' = IF Len(log') = MAX_SEQUENCE THEN 0 ELSE Len(log') + 1
    BY <1>5, <1>6, <1>7
  <2> QED  BY <1>2, <1>6, <1>7, <2>1 DEF LiveInv, Settled
<1>12. ClockInv'
  <2>1. /\ session_start >= 0 /\ reading >= session_start
        /\ last_job_time <= entry.time /\ entry.time <= JobTime(reading)
        /\ pc = "recovering" => reading = session_start /\ last_job_time = time_base
    BY <1>1, <1>2, <1>6 DEF ClockInv, Live, SyncRecord, entry
  <2>2. /\ reading \in Int /\ session_start \in Int /\ time_base \in Nat
        /\ last_job_time \in Nat
    BY <1>1 DEF TypeOK
  <2>3. JobTime(reading)' = JobTime(reading)
    BY <1>7 DEF JobTime
  <2>4. pc = "recovering" => entry.time = time_base
    BY <1>4, <2>1, <2>2 DEF JobTime
  <2> QED  BY <1>2, <1>7, <2>1, <2>3, <2>4 DEF ClockInv
<1>13. ExposedIsDurable'
  <2>1. ExposedIsDurable /\ exposed \in Seq(WalRecords)
    BY <1>1 DEF StoreInv, TypeOK
  <2>2. CASE pc = "serving"
    BY <1>5, <1>7, <2>2 DEF ExposedIsDurable
  <2>3. CASE pc # "serving"
    <3>1. exposed' = exposed /\ log' = log /\ synced' = Len(log)
      BY <1>7, <2>3
    <3>2. Len(exposed) <= synced' /\ synced' <= Len(log)
      BY <1>5, <1>6, <2>1, <3>1 DEF ExposedIsDurable
    <3> QED  BY <2>1, <3>1, <3>2 DEF ExposedIsDurable
  <2> QED  BY <2>2, <2>3
<1>14. NoInternalFailure' /\ ReplayAccepts' /\ ClockFailsForCause'
  <2>1. NoInternalFailure /\ ReplayAccepts
    BY DEF StoreInv
  <2> QED  BY <1>6, <1>7, <2>1 DEF NoInternalFailure, ReplayAccepts, ClockFailsForCause
<1>15. SchedulerOK(sched')
  <2>1. Len(log) + 1 \in DOMAIN shadow
    BY <1>1, <1>5, SMTT(90) DEF HistoryInv, TypeOK
  <2>2. ViewOK(View(entry.sched, entry.workers.next_worker_id, entry.time))
    BY <1>1, <1>6, <2>1 DEF HistoryInv
  <2> QED  BY <1>7, <2>2 DEF ViewOK, View
<1> QED  BY <1>8, <1>9, <1>10, <1>11, <1>12, <1>13, <1>14, <1>15 DEF StoreInv

\* fsync fails.
LEMMA SyncFailsInv ==
  ASSUME StoreInv, SyncFails
  PROVE  StoreInv'
<1>1. Live
  BY DEF StoreInv, SyncFails, ReplayInv, Live, TypeOK
<1>2. workers \in RegistryType /\ RegistryOK(workers) /\ slot \in Nat \ {0}
      /\ torn \in BOOLEAN /\ reading \in Int
  BY <1>1 DEF StoreInv, TypeOK, LiveInv, Live
<1>3. Frame
  BY <1>2 DEF SyncFails, Frame, clock
<1> QED  BY <1>1, <1>2, <1>3, FatalStep DEF SyncFails, disk

\* recover_interrupted_jobs.
LEMMA RecoverInv ==
  ASSUME StoreInv, RecoverSlot
  PROVE  StoreInv'
<1> DEFINE todo == {i \in slot..Len(sched.jobs) : IsActive(sched.jobs[i])}
<1>1. /\ pc = "recovering" /\ failure = "NONE" /\ staged = <<>>
      /\ UNCHANGED <<workers, replay_result, clock, reading, replay>>
  BY DEF RecoverSlot
<1>2. Settled /\ Live
  BY <1>1 DEF Settled, Live
<1>3. /\ workers \in RegistryType /\ RegistryOK(workers) /\ Scanned(sched, slot)
  BY <1>1, <1>2, SettledFacts
<1>4. /\ slot \in Nat \ {0} /\ sched.jobs \in Seq(JobType) /\ Len(sched.jobs) \in Nat
      /\ DOMAIN sched.jobs = 1..Len(sched.jobs)
  <2>1. slot \in Nat \ {0} /\ sched \in SchedulerType
    BY DEF StoreInv, TypeOK
  <2> QED  BY <2>1 DEF SchedulerType
<1>5. /\ reading = session_start /\ session_start >= 0 /\ last_job_time = time_base
      /\ session_start \in Int /\ time_base \in Nat
  BY <1>1 DEF StoreInv, ClockInv, TypeOK
<1>6. CASE todo = {}
  <2>1. /\ pc' = "serving" /\ exposed' = log
        /\ UNCHANGED <<disk, sched, failure, write_result, next_sequence, staged, shadow, slot>>
    BY <1>6 DEF RecoverSlot
  <2>2. Owned(sched, workers)
    <3>1. \A i \in DOMAIN sched.jobs : i < slot \/ i \in slot..Len(sched.jobs)
      BY <1>4
    <3> QED  BY <1>3, <1>6, <3>1 DEF Owned, Scanned
  <2>3. TypeOK' /\ HistoryInv'
    <3>1. TypeOK /\ HistoryInv
      BY DEF StoreInv
    <3> QED  BY <1>1, <2>1, <3>1 DEF TypeOK, HistoryInv, disk, clock
  <2>4. ReplayInv'
    BY <2>1 DEF ReplayInv
  <2>5. LiveInv'
    <3>1. LiveInv
      BY DEF StoreInv
    <3> QED  BY <1>1, <1>2, <2>1, <2>2, <3>1 DEF LiveInv, Settled, disk, clock
  <2>6. ClockInv' /\ NoInternalFailure' /\ ReplayAccepts' /\ ClockFailsForCause'
    <3>1. ClockInv /\ NoInternalFailure /\ ReplayAccepts /\ ClockFailsForCause
      BY DEF StoreInv
    <3> QED  BY <1>1, <2>1, <3>1
             DEF ClockInv, JobTime, NoInternalFailure, ReplayAccepts, ClockFailsForCause,
                 disk, clock
  <2>7. ExposedIsDurable'
    <3>1. synced = Len(log) /\ Len(log) \in Nat
      BY <1>1, <1>2 DEF StoreInv, LiveInv, TypeOK
    <3> QED  BY <2>1, <3>1 DEF ExposedIsDurable, disk
  <2>8. SchedulerOK(sched')
    BY <2>1 DEF StoreInv
  <2> QED  BY <2>3, <2>4, <2>5, <2>6, <2>7, <2>8 DEF StoreInv
<1>7. CASE todo # {}
  <2> DEFINE i == First(todo)
  <2>1. /\ slot' = i + 1 /\ pc' = pc /\ exposed' = exposed
        /\ CommitWorkerLoss(sched.jobs[i].worker_id, session_start, workers)
    BY <1>7 DEF RecoverSlot
  <2>2. i \in todo /\ \A k \in todo : i <= k
    <3>1. todo \in SUBSET Nat
      BY <1>4, SMTT(90)
    <3> HIDE DEF todo
    <3> QED  BY <1>7, <3>1, FirstIsLeast
  <2> HIDE DEF i
  <2>3. i \in slot..Len(sched.jobs) /\ i \in DOMAIN sched.jobs /\ IsActive(sched.jobs[i])
    BY <1>4, <2>2
  <2>4. Scanned(sched, i)
    <3>1. ASSUME NEW k \in DOMAIN sched.jobs, k < i, IsActive(sched.jobs[k])
          PROVE  FALSE
      <4>1. ~(k < slot)
        BY <1>3, <3>1 DEF Scanned
      <4>2. k \in slot..Len(sched.jobs)
        BY <1>4, <3>1, <4>1
      <4>3. k \in todo
        BY <3>1, <4>2
      <4> QED  BY <1>4, <2>2, <2>3, <3>1, <4>2, <4>3
    <3> QED  BY <3>1 DEF Scanned
  <2>5. Frame
    <3>1. slot' \in Nat \ {0}
      BY <1>4, <2>1, <2>3
    <3> QED  BY <1>1, <1>3, <2>1, <3>1 DEF Frame, clock
  <2>6. ReadingOK(session_start) /\ JobTime(session_start) \in Nat /\ reading' = session_start
    BY <1>1, <1>5 DEF ReadingOK, JobTime
  <2>7. CASE JobTimeOK(session_start)
    BY <1>1, <1>2, <1>3, <2>1, <2>3, <2>4, <2>5, <2>6, <2>7, LossStep
  <2>8. CASE ~JobTimeOK(session_start)
    <3>1. Fail("CLOCK")
      BY <2>1, <2>8 DEF CommitWorkerLoss
    <3>2. reading' - session_start > MAX_TIME - time_base
      BY <1>1, <1>5, <2>8, StoreConstants DEF JobTimeOK, JobTime
    <3>3. /\ torn \in BOOLEAN /\ reading' \in Int
          /\ write_result \in {"OK", "IO_ERROR", "SEQUENCE_EXHAUSTED"}
      BY <1>1, <1>5 DEF StoreInv, TypeOK, NoInternalFailure
    <3> QED  BY <1>1, <1>2, <2>5, <3>1, <3>2, <3>3, FatalStep DEF Fail, disk
  <2> QED  BY <2>7, <2>8
<1> QED  BY <1>6, <1>7

\* The empty store.
LEMMA EmptyStore ==
  /\ SchedulerOK(SchedulerInit) /\ ViewOK(View(SchedulerInit, 1, 0))
  /\ RegistryInit \in RegistryType /\ RegistryInit.next_worker_id = 1
  /\ RegistryOK(RegistryInit)
  /\ ReplayInit = Mirror(View(SchedulerInit, 1, 0), 0)
<1>1. SchedulerInit \in SchedulerType
  BY SchedulerConstants DEF SchedulerInit, SchedulerType
<1>2. /\ SchedulerInit.jobs = <<>> /\ SchedulerInit.pending = <<>>
      /\ SchedulerInit.next_job_id = 1
  BY DEF SchedulerInit
<1>3. SchedulerOK(SchedulerInit)
  BY EmptyTable
<1>4. ViewOK(View(SchedulerInit, 1, 0))
  <2>1. 1 \in 0..MAX_WORKER_ID /\ 0 \in Nat
    BY RegistryConstants
  <2>2. View(SchedulerInit, 1, 0) \in ViewType
    BY <1>1, <2>1 DEF View, ViewType
  <2>3. NotAfter(SchedulerInit, 0)
    BY <1>2 DEF NotAfter
  <2>4. View(SchedulerInit, 1, 0).scheduler = SchedulerInit /\ View(SchedulerInit, 1, 0).time = 0
    BY DEF View
  <2> QED  BY <1>3, <2>2, <2>3, <2>4 DEF ViewOK
<1>5. RegistryInit \in RegistryType /\ RegistryInit.next_worker_id = 1
  BY RegistryConstants DEF RegistryInit, RegistryType, WorkerStates
<1>6. RegistryOK(RegistryInit)
  BY DEF RegistryOK, RegistryInit
<1>7. ReplayInit = Mirror(View(SchedulerInit, 1, 0), 0)
  <2>1. Issued(1, MAX_WORKER_ID) = 0 /\ 1..0 = {}
    BY DEF Issued
  <2>2. Len(SchedulerInit.jobs) = 0
    BY <1>2
  <2> QED  BY <2>1, <2>2 DEF ReplayInit, Mirror, View
<1> QED  BY <1>3, <1>4, <1>5, <1>6, <1>7

\* Replay of a history stays within its type.
LEMMA MirrorType ==
  ASSUME NEW v, ViewOK(v), NEW n \in Nat
  PROVE  Mirror(v, n) \in ReplayType
<1>1. /\ v.scheduler \in SchedulerType /\ v.next_worker_id \in 0..MAX_WORKER_ID
      /\ v.time \in Nat
  BY DEF ViewOK, ViewType
<1>2. Len(v.scheduler.jobs) \in 0..MAX_JOB_ID
  BY <1>1, SchedulerConstants, SMTT(90) DEF ViewOK, SchedulerOK, TableOK, SchedulerType
<1>3. Issued(v.next_worker_id, MAX_WORKER_ID) \in 0..MAX_WORKER_ID
  BY <1>1, RegistryConstants DEF Issued
<1>4. 1..Issued(v.next_worker_id, MAX_WORKER_ID) \in SUBSET (1..MAX_WORKER_ID)
  BY <1>3, RegistryConstants, SMTT(90)
<1> QED  BY <1>1, <1>2, <1>3, <1>4 DEF Mirror, ReplayType

\* StoreInv holds initially.
LEMMA InitInv ==
  ASSUME Init
  PROVE  StoreInv
<1> DEFINE v == View(SchedulerInit, 1, 0)
<1>1. /\ SchedulerOK(SchedulerInit) /\ ViewOK(v) /\ RegistryInit \in RegistryType
      /\ RegistryOK(RegistryInit) /\ ReplayInit = Mirror(v, 0)
  BY EmptyStore
<1>2. ReplayInit \in ReplayType /\ v \in ViewType /\ SchedulerInit \in SchedulerType
  BY <1>1, MirrorType DEF ViewOK, SchedulerOK
<1>3. ReplayInit.last_sequence = 0
  BY DEF ReplayInit
<1>4. /\ shadow = <<v>> /\ log = <<>> /\ replay = ReplayInit
  BY DEF Init
<1> HIDE DEF v
<1>5. TypeOK
  <2>1. shadow \in Seq(ViewType)
    BY <1>2, <1>4
  <2>2. /\ log \in Seq(WalRecords) /\ exposed \in Seq(WalRecords)
        /\ staged \in Seq(StagedType) /\ Len(staged) <= 1
    BY DEF Init
  <2>3. sched \in SchedulerType /\ workers \in RegistryType /\ replay \in ReplayType
    BY <1>1, <1>2 DEF Init
  <2>4. /\ synced \in Nat /\ next_sequence \in Nat /\ time_base \in Nat /\ session_start \in Int
        /\ last_job_time \in Nat /\ reading \in Int /\ slot \in Nat \ {0}
    BY DEF Init
  <2>5. /\ header \in {"absent", "partial", "ok"} /\ torn \in BOOLEAN
        /\ pc \in {"down", "starting", "recovering", "serving"}
        /\ failure \in {"NONE", "OPEN", "WAL", "CLOCK", "INTERNAL"}
        /\ write_result \in {"OK", "IO_ERROR", "SEQUENCE_EXHAUSTED", "INVALID_RECORD"}
        /\ replay_result \in {"OK", "IO_ERROR", "REJECTED"}
    BY DEF Init
  <2> QED  BY <2>1, <2>2, <2>3, <2>4, <2>5 DEF TypeOK
<1>6. HistoryInv
  <2>1. DOMAIN shadow = {1} /\ shadow[1] = v /\ Len(shadow) = 1
    BY <1>4
  <2> QED  BY <1>1, <1>4, <2>1, StoreConstants DEF Init, HistoryInv, v
<1>7. ReplayInv
  BY <1>1, <1>3, <1>4 DEF Init, ReplayInv
<1>8. LiveInv /\ ClockInv /\ ExposedIsDurable /\ NoInternalFailure /\ ReplayAccepts
      /\ ClockFailsForCause
  BY DEF Init, LiveInv, ClockInv, ExposedIsDurable, NoInternalFailure, ReplayAccepts,
         ClockFailsForCause
<1>9. SchedulerOK(sched)
  BY <1>1 DEF Init
<1> QED  BY <1>5, <1>6, <1>7, <1>8, <1>9 DEF StoreInv

\* faultline_wal_writer_create: the log file is made, or left unusable.
LEMMA CreateInv ==
  ASSUME StoreInv, NEW raw \in {-1} \cup 0..MAX_CLOCK, CreateWal(raw)
  PROVE  StoreInv'
<1>1. TypeOK /\ HistoryInv /\ ReplayInv /\ ReplayAccepts /\ ExposedIsDurable /\ NoInternalFailure
      /\ SchedulerOK(sched)
  BY DEF StoreInv
<1>2. /\ pc = "down" /\ reading' = raw
      /\ UNCHANGED <<log, synced, torn, sched, workers, replay_result,
                     time_base, replay, staged, shadow, exposed>>
      /\ write_result' = write_result \/ write_result' = "IO_ERROR"
  BY DEF CreateWal
<1>3. /\ sched = SchedulerInit /\ workers = RegistryInit /\ failure = "NONE" /\ time_base = 0
      /\ staged = <<>>
  BY <1>1, <1>2 DEF ReplayInv
<1>4. raw \in Int /\ (raw < 0 => raw = -1)
  BY StoreConstants
<1>5. ExposedIsDurable' /\ NoInternalFailure' /\ SchedulerOK(sched')
      /\ (header = "absent" => ReplayAccepts') /\ (header' = header => ReplayAccepts')
  <2>1. failure' # "INTERNAL"
    BY <1>3 DEF CreateWal
  <2> QED  BY <1>1, <1>2, <2>1 DEF ExposedIsDurable, NoInternalFailure, ReplayAccepts
<1>6. CASE /\ raw >= 0 /\ header = "absent" /\ header' = "ok" /\ next_sequence' = 1
           /\ session_start' = raw /\ last_job_time' = time_base
           /\ pc' = "recovering" /\ slot' = 1 /\ UNCHANGED failure
  <2>1. log = <<>> /\ ~torn /\ synced = 0 /\ Len(log) = 0
    BY <1>1, <1>6, SMTT(90) DEF HistoryInv, TypeOK
  <2>2. TypeOK'
    BY <1>1, <1>2, <1>4, <1>6, SMTT(90) DEF TypeOK
  <2>3. HistoryInv'
    BY <1>1, <1>2, <1>6 DEF HistoryInv
  <2>4. ReplayInv'
    BY <1>6 DEF ReplayInv
  <2>5. LiveInv'
    <3>1. RegistryOK(workers') /\ workers'.next_worker_id = 1
      BY <1>2, <1>3, EmptyStore
    <3>2. View(sched', workers'.next_worker_id, last_job_time') = shadow'[Len(log') + 1]
      BY <1>1, <1>2, <1>3, <1>6, <2>1, <3>1 DEF HistoryInv
    <3>3. Scanned(sched', slot')
      BY <1>2, <1>3 DEF Scanned, SchedulerInit
    <3>4. next_sequence' = IF Len(log') = MAX_SEQUENCE THEN 0 ELSE Len(log') + 1
      BY <1>2, <1>6, <2>1, StoreConstants
    <3> QED  BY <1>2, <1>3, <1>6, <2>1, <3>1, <3>2, <3>3, <3>4 DEF LiveInv, Settled
  <2>6. ClockInv' /\ ClockFailsForCause'
    BY <1>1, <1>2, <1>3, <1>4, <1>6, SMTT(90) DEF ClockInv, ClockFailsForCause, JobTime, TypeOK
  <2> QED  BY <1>5, <1>6, <2>2, <2>3, <2>4, <2>5, <2>6 DEF StoreInv
<1>7. CASE /\ failure' = IF raw < 0 THEN "CLOCK" ELSE "OPEN"
           /\ header' \in IF raw >= 0 /\ header = "absent"
                          THEN {"absent", "partial", "ok"} ELSE {header}
           /\ pc' = "starting"
           /\ UNCHANGED <<next_sequence, session_start, last_job_time, slot>>
  <2>1. header' \in {"absent", "partial", "ok"} /\ (header = "absent" \/ header' = header)
    BY <1>1, <1>7 DEF TypeOK
  <2>2. TypeOK'
    BY <1>1, <1>2, <1>4, <1>7, <2>1 DEF TypeOK
  <2>3. HistoryInv'
    BY <1>1, <1>2, <1>7, <2>1 DEF HistoryInv
  <2>4. ReplayInv'
    BY <1>1, <1>2, <1>7 DEF ReplayInv
  <2>5. LiveInv' /\ ClockInv' /\ ClockFailsForCause'
    BY <1>2, <1>4, <1>7 DEF LiveInv, ClockInv, ClockFailsForCause
  <2> QED  BY <1>5, <2>1, <2>2, <2>3, <2>4, <2>5 DEF StoreInv
<1> QED  BY <1>6, <1>7 DEF CreateWal

\* The start of a replay.
LEMMA OpenInv ==
  ASSUME StoreInv, NEW raw \in {-1} \cup 0..MAX_CLOCK, OpenWal(raw)
  PROVE  StoreInv'
<1>1. TypeOK /\ HistoryInv /\ ReplayInv /\ ExposedIsDurable /\ NoInternalFailure
  BY DEF StoreInv
<1>2. /\ pc = "down" /\ pc' = "starting" /\ reading' = raw
      /\ failure' = IF raw < 0 THEN "CLOCK" ELSE IF header = "ok" THEN "NONE" ELSE "OPEN"
      /\ replay_result' = IF raw < 0 \/ header = "ok" THEN "OK"
                          ELSE IF header = "absent" THEN "IO_ERROR" ELSE "REJECTED"
      /\ UNCHANGED <<header, log, synced, torn, sched, workers, write_result, next_sequence,
                     time_base, session_start, last_job_time, slot, replay, staged, shadow,
                     exposed>>
  BY DEF OpenWal, disk, clock
<1>3. raw \in Int /\ (raw < 0 => raw = -1)
  BY StoreConstants
<1>4. TypeOK'
  BY <1>1, <1>2, <1>3 DEF TypeOK
<1>5. HistoryInv'
  BY <1>1, <1>2 DEF HistoryInv
<1>6. ReplayInv'
  BY <1>1, <1>2, <1>3 DEF ReplayInv
<1>7. LiveInv' /\ ClockInv' /\ ClockFailsForCause'
  BY <1>2, <1>3 DEF LiveInv, ClockInv, ClockFailsForCause
<1>8. ExposedIsDurable' /\ NoInternalFailure' /\ ReplayAccepts'
  BY <1>1, <1>2 DEF ExposedIsDurable, NoInternalFailure, ReplayAccepts, TypeOK
<1>9. SchedulerOK(sched')
  BY <1>2 DEF StoreInv
<1> QED  BY <1>4, <1>5, <1>6, <1>7, <1>8, <1>9 DEF StoreInv

\* What a replay in progress has rebuilt, and that a record is left to apply
\* when the loop goes on.
LEMMA ReplayFacts ==
  ASSUME StoreInv, Replaying
  PROVE  LET n == replay.last_sequence
         IN  /\ n \in Nat /\ n <= Len(log) /\ n + 1 \in DOMAIN shadow
             /\ Len(log) \in Nat /\ Len(log) <= MAX_SEQUENCE
             /\ DOMAIN log = 1..Len(log) /\ DOMAIN shadow = 1..Len(log) + 1
             /\ replay = Mirror(shadow[n + 1], n) /\ ViewOK(shadow[n + 1])
             /\ MoreToReplay <=> n < Len(log)
<1> DEFINE n == replay.last_sequence
<1>1. TypeOK /\ HistoryInv /\ ReplayInv
  BY DEF StoreInv
<1>2. n \in Nat /\ Len(log) \in Nat /\ Len(log) <= MAX_SEQUENCE
  BY <1>1, SMTT(90) DEF TypeOK, ReplayType, HistoryInv
<1>3. n <= Len(log) /\ replay = Mirror(shadow[n + 1], n)
  BY <1>1 DEF Replaying, ReplayInv
<1>4. DOMAIN log = 1..Len(log) /\ DOMAIN shadow = 1..Len(log) + 1
  BY <1>1, SMTT(90) DEF TypeOK, HistoryInv
<1> HIDE DEF n
<1>5. n + 1 \in DOMAIN shadow
  BY <1>2, <1>3, <1>4
<1>6. ViewOK(shadow[n + 1])
  BY <1>1, <1>5 DEF HistoryInv
<1>7. MoreToReplay <=> n < Len(log)
  BY <1>1, <1>2, <1>3, StoreConstants DEF MoreToReplay, HistoryInv, n
<1> QED  BY <1>2, <1>3, <1>4, <1>5, <1>6, <1>7 DEF n

\* apply_record of the next record.
LEMMA ReplayRecordInv ==
  ASSUME StoreInv, ReplayRecord
  PROVE  StoreInv'
<1> DEFINE n == replay.last_sequence
           record == log[n + 1]
<1>1. TypeOK /\ HistoryInv /\ ReplayInv /\ ExposedIsDurable /\ NoInternalFailure
      /\ ReplayAccepts /\ ClockFailsForCause
  BY DEF StoreInv
<1>2. Replaying /\ MoreToReplay
  BY DEF ReplayRecord
<1>3. /\ n \in Nat /\ Len(log) \in Nat /\ n < Len(log) /\ Len(log) <= MAX_SEQUENCE
      /\ DOMAIN log = 1..Len(log) /\ DOMAIN shadow = 1..Len(log) + 1
      /\ replay = Mirror(shadow[n + 1], n)
  BY <1>2, ReplayFacts
<1> HIDE DEF n
<1>4. n # MAX_SEQUENCE /\ n + 1 \in DOMAIN log /\ n + 2 \in DOMAIN shadow
      /\ (n + 1) - 1 = n /\ (n + 1) + 1 = n + 2 /\ n + 1 \in Nat
  BY <1>3, StoreConstants, SMTT(90)
<1>5. Replays(shadow[n + 1], log[n + 1], n + 1, shadow[n + 2])
  BY <1>1, <1>4 DEF HistoryInv
<1>6. AcceptsRecord(replay, record) /\ ApplyRecord(replay, record) = Mirror(shadow[n + 2], n + 1)
  BY <1>3, <1>4, <1>5 DEF Replays
<1>7. /\ replay' = Mirror(shadow[n + 2], n + 1)
      /\ UNCHANGED <<failure, replay_result, header, log, synced, torn, pc, sched, workers,
                     write_result, next_sequence, time_base, session_start, last_job_time,
                     reading, slot, staged, shadow, exposed>>
  BY <1>4, <1>6 DEF ReplayRecord, disk, clock, n
<1>8. replay'.last_sequence = n + 1
  BY <1>7 DEF Mirror
<1>9. replay' \in ReplayType
  <2>1. ViewOK(shadow[n + 2])
    BY <1>1, <1>4 DEF HistoryInv
  <2> QED  BY <1>4, <1>7, <2>1, MirrorType
<1>10. TypeOK'
  BY <1>1, <1>7, <1>9 DEF TypeOK
<1>11. HistoryInv'
  BY <1>1, <1>7 DEF HistoryInv
<1>12. ReplayInv'
  <2>1. pc' = "starting" /\ failure' = "NONE" /\ staged' = <<>> /\ header' = "ok" /\ reading' >= 0
    BY <1>1, <1>2, <1>7 DEF Replaying, ReplayInv
  <2>2. replay'.last_sequence <= Len(log')
    BY <1>3, <1>7, <1>8
  <2>3. replay' = Mirror(shadow'[replay'.last_sequence + 1], replay'.last_sequence)
    BY <1>4, <1>7, <1>8
  <2> QED  BY <2>1, <2>2, <2>3 DEF ReplayInv
<1>13. LiveInv' /\ ClockInv'
  BY <1>2, <1>7 DEF LiveInv, ClockInv, Replaying
<1>14. ExposedIsDurable' /\ NoInternalFailure' /\ ReplayAccepts' /\ ClockFailsForCause'
  BY <1>1, <1>7 DEF ExposedIsDurable, NoInternalFailure, ReplayAccepts, ClockFailsForCause
<1>15. SchedulerOK(sched')
  BY <1>7 DEF StoreInv
<1> QED  BY <1>10, <1>11, <1>12, <1>13, <1>14, <1>15 DEF StoreInv

\* Tail repair and adoption of the rebuilt state.
LEMMA FinishInv ==
  ASSUME StoreInv, FinishReplay
  PROVE  StoreInv'
<1> DEFINE v == shadow[Len(log) + 1]
           r == [RegistryInit EXCEPT !.next_worker_id = replay.next_worker_id]
<1>1. TypeOK /\ HistoryInv /\ ReplayInv /\ ExposedIsDurable /\ NoInternalFailure
      /\ ReplayAccepts
  BY DEF StoreInv
<1>2. Replaying /\ ~MoreToReplay
  BY DEF FinishReplay, AtEnd
<1>3. /\ replay.last_sequence = Len(log) /\ Len(log) \in Nat /\ Len(log) <= MAX_SEQUENCE
      /\ replay = Mirror(v, Len(log)) /\ ViewOK(v)
  <2>1. replay.last_sequence = Len(log)
    BY <1>2, ReplayFacts
  <2> QED  BY <1>2, <2>1, ReplayFacts
<1>4. /\ replay.scheduler = v.scheduler /\ replay.next_worker_id = v.next_worker_id
      /\ replay.job_time_base = v.time
  <2> HIDE DEF v
  <2> QED  BY <1>3 DEF Mirror
<1>5. /\ pc = "starting" /\ failure = "NONE" /\ staged = <<>> /\ header = "ok"
      /\ reading >= 0 /\ reading \in Int
  BY <1>1, <1>2 DEF Replaying, ReplayInv, TypeOK
<1>6. /\ v.scheduler \in SchedulerType /\ v.next_worker_id \in 0..MAX_WORKER_ID
      /\ v.time \in Nat
  BY <1>3 DEF ViewOK, ViewType
<1>7. /\ torn' = FALSE /\ synced' = Len(log) /\ sched' = v.scheduler /\ workers' = r
      /\ time_base' = v.time /\ session_start' = reading /\ last_job_time' = v.time
      /\ next_sequence' = IF Len(log) = MAX_SEQUENCE THEN 0 ELSE Len(log) + 1
      /\ pc' = "recovering" /\ slot' = 1
      /\ UNCHANGED <<header, log, failure, write_result, replay_result, reading, replay,
                     staged, shadow, exposed>>
  BY <1>3, <1>4 DEF FinishReplay, AtEnd, SyncedByReplay, RestoredWorkers, RestoredTime
<1>8. r \in RegistryType /\ RegistryOK(r) /\ r.next_worker_id = v.next_worker_id
  <2>1. RegistryInit \in RegistryType
    BY EmptyStore
  <2>2. r.slots = RegistryInit.slots /\ r.next_worker_id = v.next_worker_id
    BY <1>4, <2>1 DEF RegistryType
  <2>3. r \in RegistryType
    <3>1. replay.next_worker_id \in 0..MAX_WORKER_ID
      BY <1>4, <1>6
    <3> QED  BY <2>1, <3>1 DEF RegistryType
  <2>4. \A i \in 1..MAX_WORKERS : RegistryInit.slots[i].state = "UNUSED"
    BY DEF RegistryInit
  <2> QED  BY <2>2, <2>3, <2>4 DEF RegistryOK
<1> HIDE DEF v, r
<1>9. TypeOK'
  <2>1. next_sequence' \in Nat /\ synced' \in Nat /\ slot' \in Nat \ {0}
    BY <1>3, <1>7
  <2>2. torn' \in BOOLEAN
    BY <1>7
  <2> QED  BY <1>1, <1>5, <1>6, <1>7, <1>8, <2>1, <2>2 DEF TypeOK
<1>10. HistoryInv'
  BY <1>1, <1>3, <1>5, <1>7 DEF HistoryInv
<1>11. ReplayInv'
  BY <1>7 DEF ReplayInv
<1>12. LiveInv'
  <2>1. View(sched', workers'.next_worker_id, last_job_time') = shadow'[Len(log') + 1]
    <3>1. v \in ViewType
      BY <1>3 DEF ViewOK
    <3>2. v = View(v.scheduler, v.next_worker_id, v.time)
      BY <3>1 DEF View, ViewType
    <3> QED  BY <1>7, <1>8, <3>2 DEF v
  <2>2. Scanned(sched', slot')
    <3>1. DOMAIN v.scheduler.jobs \subseteq Nat \ {0}
      BY <1>6, SMTT(90) DEF SchedulerType
    <3> QED  BY <1>7, <3>1 DEF Scanned
  <2> QED  BY <1>5, <1>7, <1>8, <2>1, <2>2 DEF LiveInv, Settled
<1>13. ClockInv' /\ ClockFailsForCause'
  BY <1>5, <1>6, <1>7 DEF ClockInv, JobTime, ClockFailsForCause
<1>14. ExposedIsDurable'
  BY <1>1, <1>3, <1>7, SMTT(90) DEF ExposedIsDurable, TypeOK
<1>15. NoInternalFailure' /\ ReplayAccepts'
  BY <1>1, <1>7 DEF NoInternalFailure, ReplayAccepts
<1>16. SchedulerOK(sched')
  BY <1>3, <1>7 DEF ViewOK
<1> QED  BY <1>9, <1>10, <1>11, <1>12, <1>13, <1>14, <1>15, <1>16 DEF StoreInv

\* A read, the truncation or a sync of startup fails.
LEMMA ReplayFailsInv ==
  ASSUME StoreInv, ReplayFails
  PROVE  StoreInv'
<1>1. TypeOK /\ HistoryInv /\ ReplayInv /\ ExposedIsDurable /\ NoInternalFailure
  BY DEF StoreInv
<1>2. /\ pc = "starting" /\ (torn' => torn) /\ torn' \in BOOLEAN
      /\ failure' = "OPEN" /\ replay_result' = "IO_ERROR"
      /\ UNCHANGED <<header, log, synced, pc, sched, workers, write_result, next_sequence,
                     time_base, session_start, last_job_time, reading, slot, replay, staged,
                     shadow, exposed>>
  BY <1>1 DEF ReplayFails, Replaying, clock, TypeOK
<1>3. TypeOK'
  BY <1>1, <1>2 DEF TypeOK
<1>4. HistoryInv'
  BY <1>1, <1>2 DEF HistoryInv
<1>5. ReplayInv'
  BY <1>1, <1>2 DEF ReplayInv
<1>6. LiveInv' /\ ClockInv' /\ ExposedIsDurable' /\ NoInternalFailure' /\ ReplayAccepts'
      /\ ClockFailsForCause'
  BY <1>1, <1>2 DEF LiveInv, ClockInv, ExposedIsDurable, NoInternalFailure, ReplayAccepts,
                    ClockFailsForCause
<1>7. SchedulerOK(sched')
  BY <1>2 DEF StoreInv
<1> QED  BY <1>3, <1>4, <1>5, <1>6, <1>7 DEF StoreInv

\* The end of a process.
LEMMA StopInv ==
  ASSUME StoreInv, Stop
  PROVE  StoreInv'
<1>1. TypeOK /\ HistoryInv /\ ExposedIsDurable
  BY DEF StoreInv
<1>2. PICK kept \in synced..Len(log) :
        /\ log' = SubSeq(log, 1, kept) /\ shadow' = SubSeq(shadow, 1, kept + 1)
        /\ torn' \in IF kept < Len(log) THEN BOOLEAN ELSE {torn}
  BY DEF Stop
<1>3. /\ pc' = "down" /\ sched' = SchedulerInit /\ workers' = RegistryInit
      /\ failure' = "NONE" /\ write_result' = "OK" /\ replay_result' = "OK"
      /\ next_sequence' = 0 /\ time_base' = 0 /\ session_start' = 0 /\ last_job_time' = 0
      /\ reading' = 0 /\ slot' = 1 /\ replay' = ReplayInit /\ staged' = <<>>
      /\ UNCHANGED <<header, synced, exposed>>
  BY DEF Stop
<1>4. /\ log \in Seq(WalRecords) /\ shadow \in Seq(ViewType) /\ Len(log) \in Nat
      /\ synced \in Nat /\ Len(shadow) = Len(log) + 1 /\ Len(log) <= MAX_SEQUENCE
  BY <1>1, SMTT(90) DEF TypeOK, HistoryInv
<1>5. kept \in Nat /\ kept <= Len(log) /\ synced <= kept
  BY <1>4
<1>6. /\ log' \in Seq(WalRecords) /\ Len(log') = kept /\ DOMAIN log' = 1..kept
      /\ \A i \in 1..kept : i \in DOMAIN log /\ log'[i] = log[i]
  BY <1>2, <1>4, <1>5
<1>7. /\ shadow' \in Seq(ViewType) /\ Len(shadow') = kept + 1
      /\ DOMAIN shadow' = 1..kept + 1
      /\ \A i \in 1..kept + 1 : i \in DOMAIN shadow /\ shadow'[i] = shadow[i]
  BY <1>2, <1>4, <1>5
<1>8. torn' \in BOOLEAN /\ (kept = Len(log) => torn' = torn)
  BY <1>1, <1>2, <1>4, <1>5, SMTT(90) DEF TypeOK
<1>9. TypeOK'
  <2>1. SchedulerInit \in SchedulerType /\ RegistryInit \in RegistryType
    BY EmptyStore DEF SchedulerOK
  <2>2. ReplayInit \in ReplayType
    BY EmptyStore, MirrorType
  <2>3. staged' \in Seq(StagedType) /\ Len(staged') <= 1
    BY <1>3
  <2> QED  BY <1>1, <1>3, <1>6, <1>7, <1>8, <2>1, <2>2, <2>3, SMTT(90) DEF TypeOK
<1>10. HistoryInv'
  <2>1. Len(shadow') = Len(log') + 1 /\ synced' <= Len(log') /\ Len(log') <= MAX_SEQUENCE
    <3>1. Len(log') = kept /\ Len(shadow') = kept + 1 /\ synced' = synced
      BY <1>3, <1>6, <1>7
    <3>2. MAX_SEQUENCE \in Nat
      BY StoreConstants
    <3> QED  BY <1>4, <1>5, <3>1, <3>2
  <2>2. torn' => Len(log') < MAX_SEQUENCE
    <3>1. CASE kept < Len(log)
      BY <1>4, <1>5, <1>6, <3>1, StoreConstants
    <3>2. CASE kept = Len(log)
      BY <1>1, <1>6, <1>8, <3>2 DEF HistoryInv
    <3> QED  BY <1>4, <1>5, <3>1, <3>2
  <2>3. header' # "ok" => log' = <<>> /\ ~torn' /\ pc' \in {"down", "starting"}
    <3>1. SUFFICES ASSUME header # "ok"
                   PROVE  log' = <<>> /\ ~torn'
      BY <1>3
    <3>2. log = <<>> /\ ~torn /\ kept = 0 /\ kept = Len(log)
      BY <1>1, <1>5, <3>1 DEF HistoryInv
    <3> QED  BY <1>6, <1>8, <3>2
  <2>4. shadow'[1] = View(SchedulerInit, 1, 0)
    BY <1>1, <1>5, <1>7, SMTT(90) DEF HistoryInv
  <2>5. \A i \in DOMAIN shadow' : ViewOK(shadow'[i])
    BY <1>1, <1>7 DEF HistoryInv
  <2>6. ASSUME NEW i \in DOMAIN log'
        PROVE  Replays(shadow'[i], log'[i], i, shadow'[i + 1])
    <3>1. i \in 1..kept /\ i \in 1..kept + 1 /\ i + 1 \in 1..kept + 1 /\ i \in DOMAIN log
      BY <1>5, <1>6
    <3>2. shadow'[i] = shadow[i] /\ shadow'[i + 1] = shadow[i + 1] /\ log'[i] = log[i]
      BY <1>6, <1>7, <3>1
    <3>3. Replays(shadow[i], log[i], i, shadow[i + 1])
      BY <1>1, <3>1 DEF HistoryInv
    <3> QED  BY <3>2, <3>3
  <2> QED  BY <2>1, <2>2, <2>3, <2>4, <2>5, <2>6 DEF HistoryInv
<1>11. ReplayInv'
  <2>1. replay' = Mirror(shadow'[1], 0) /\ replay'.last_sequence = 0
    BY <1>3, <1>10, EmptyStore DEF HistoryInv, ReplayInit
  <2>2. 0 <= Len(log')
    BY <1>5, <1>6
  <2> QED  BY <1>3, <2>1, <2>2 DEF ReplayInv
<1>12. ExposedIsDurable'
  <2>1. exposed \in Seq(WalRecords) /\ Len(exposed) \in Nat
    BY <1>1, SMTT(90) DEF TypeOK
  <2>2. Len(exposed) <= kept /\ Len(exposed) <= synced
    BY <1>1, <1>4, <1>5, <2>1 DEF ExposedIsDurable
  <2>3. \A i \in 1..Len(exposed) : i \in 1..kept
    BY <1>5, <2>1, <2>2
  <2> QED  BY <1>1, <1>3, <1>5, <1>6, <2>2, <2>3 DEF ExposedIsDurable
<1>13. LiveInv' /\ ClockInv' /\ NoInternalFailure' /\ ReplayAccepts' /\ ClockFailsForCause'
  BY <1>3 DEF LiveInv, ClockInv, NoInternalFailure, ReplayAccepts, ClockFailsForCause
<1>14. SchedulerOK(sched')
  BY <1>3, EmptyStore
<1> QED  BY <1>9, <1>10, <1>11, <1>12, <1>13, <1>14 DEF StoreInv

-----------------------------------------------------------------------------
(* The theorems.                                                           *)

\* Every step of the store keeps StoreInv.
LEMMA NextInv == StoreInv /\ [Next]_vars => StoreInv'
<1> SUFFICES ASSUME StoreInv, [Next]_vars
             PROVE  StoreInv'
  OBVIOUS
<1>1. CASE UNCHANGED vars
  BY <1>1 DEF vars, StoreInv, TypeOK, HistoryInv, ReplayInv, LiveInv, ClockInv, Settled,
              JobTime, ExposedIsDurable, NoInternalFailure, ReplayAccepts,
              ClockFailsForCause
<1>2. ASSUME NEW raw \in Readings, NEW fd \in Fds, StoreRegister(fd, raw)
      PROVE  StoreInv'
  BY <1>2, RegisterInv
<1>3. ASSUME NEW raw \in Readings, NEW task \in Tasks, NEW n \in 0..MAX_RETRIES,
             StoreSubmit(task, n, raw)
      PROVE  StoreInv'
  BY <1>3, SubmitInv
<1>4. ASSUME NEW raw \in Readings, NEW w \in WorkerIds, StoreAssign(w, raw)
      PROVE  StoreInv'
  BY <1>4, AssignInv
<1>5. ASSUME NEW raw \in Readings, NEW w \in WorkerIds, NEW report \in Reports,
             StoreReport(w, report, raw)
      PROVE  StoreInv'
  BY <1>5, ReportInv
<1>6. ASSUME NEW raw \in Readings, NEW w \in WorkerIds, NEW fd \in Fds, CloseClient(w, fd, raw)
      PROVE  StoreInv'
  BY <1>6, CloseInv
<1>7. CASE SyncRecord
  BY <1>7, SyncInv
<1>8. CASE SyncFails
  BY <1>8, SyncFailsInv
<1>9. ASSUME NEW raw \in {-1} \cup 0..MAX_CLOCK, CreateWal(raw)
      PROVE  StoreInv'
  BY <1>9, CreateInv
<1>10. ASSUME NEW raw \in {-1} \cup 0..MAX_CLOCK, OpenWal(raw)
       PROVE  StoreInv'
  BY <1>10, OpenInv
<1>11. CASE ReplayRecord
  BY <1>11, ReplayRecordInv
<1>12. CASE FinishReplay
  BY <1>12, FinishInv
<1>13. CASE ReplayFails
  BY <1>13, ReplayFailsInv
<1>14. CASE RecoverSlot
  BY <1>14, RecoverInv
<1>15. CASE Stop
  BY <1>15, StopInv
<1> QED  BY <1>1, <1>2, <1>3, <1>4, <1>5, <1>6, <1>7, <1>8, <1>9, <1>10, <1>11, <1>12,
            <1>13, <1>14, <1>15 DEF Next

\* The inductive invariant holds for every number of jobs, workers, retries,
\* clock readings and records.
THEOREM StoreCorrect == Spec => []StoreInv
<1>1. Init => StoreInv
  BY InitInv
<1> QED  BY <1>1, NextInv, PTL DEF Spec

\* Every store field, the file and the histories stay within their types.
THEOREM TypeCorrect == Spec => []TypeOK
<1>1. StoreInv => TypeOK
  BY DEF StoreInv
<1> QED  BY <1>1, StoreCorrect, PTL

\* Whatever was acknowledged, dispatched or shown to a query is in the synced
\* part of the file, over every crash, failure and restart.
THEOREM DurabilityCorrect == Spec => []ExposedIsDurable
<1>1. StoreInv => ExposedIsDurable
  BY DEF StoreInv
<1> QED  BY <1>1, StoreCorrect, PTL

\* Replay of n records holds the state that the live store prepared when it
\* wrote record n, and the live store serves from the state of its last one.
THEOREM ReplayCorrect == Spec => []ReplayAgrees
<1>1. StoreInv => ReplayAgrees
  <2> SUFFICES ASSUME StoreInv PROVE ReplayAgrees
    OBVIOUS
  <2>1. ASSUME pc = "starting"
        PROVE  SameView(replay.scheduler, replay.next_worker_id, replay.job_time_base,
                        shadow[replay.last_sequence + 1])
    <3> DEFINE n == replay.last_sequence
               v == shadow[n + 1]
    <3>1. replay = Mirror(v, n)
      BY <2>1 DEF StoreInv, ReplayInv
    <3> HIDE DEF v, n
    <3>2. /\ replay.scheduler = v.scheduler /\ replay.next_worker_id = v.next_worker_id
          /\ replay.job_time_base = v.time
      BY <3>1 DEF Mirror
    <3> QED  BY <3>2 DEF SameView, v, n
  <2>2. ASSUME Settled
        PROVE  SameView(sched, workers.next_worker_id, last_job_time, shadow[Len(log) + 1])
    BY <2>2, SettledFacts DEF SameView
  <2> QED  BY <2>1, <2>2 DEF ReplayAgrees
<1> QED  BY <1>1, StoreCorrect, PTL

\* Replay rejects no file that the store left behind, except a header cut
\* short while the log was created.
THEOREM RestartCorrect == Spec => []ReplayAccepts
<1>1. StoreInv => ReplayAccepts
  BY DEF StoreInv
<1> QED  BY <1>1, StoreCorrect, PTL

\* No check repeated on a prepared change fires.
THEOREM ChecksRedundant == Spec => []NoInternalFailure
<1>1. StoreInv => NoInternalFailure
  BY DEF StoreInv
<1> QED  BY <1>1, StoreCorrect, PTL

\* The pending queue holds every QUEUED job once and nothing else.
THEOREM QueueCorrect == Spec => []PendingIsQueued
<1>1. StoreInv => PendingIsQueued
  <2> SUFFICES ASSUME SchedulerOK(sched) PROVE PendingIsQueued
    BY DEF StoreInv
  <2>1. \A i \in DOMAIN sched.jobs : sched.jobs[i].id = i
    BY DEF SchedulerOK, TableOK
  <2>2. NoDuplicates(sched.pending)
        /\ Members(sched.pending) = {i \in DOMAIN sched.jobs : sched.jobs[i].state = "QUEUED"}
    BY DEF SchedulerOK, QueueOK
  <2>3. {i \in DOMAIN sched.jobs : sched.jobs[i].state = "QUEUED"}
          = {sched.jobs[i].id : i \in {k \in DOMAIN sched.jobs : sched.jobs[k].state = "QUEUED"}}
    BY <2>1
  <2> QED  BY <2>2, <2>3 DEF PendingIsQueued, NoDuplicates, Members
<1> QED  BY <1>1, StoreCorrect, PTL

\* A worker owns at most one active attempt, and a serving store has no active
\* attempt without a live owner.
THEOREM OwnersCorrect == Spec => []ActiveAttemptsOwned
<1>1. StoreInv => ActiveAttemptsOwned
  <2>1. ASSUME StoreInv, Usable
        PROVE  Owned(sched, workers)
    <3>1. Settled /\ pc = "serving"
      BY <2>1 DEF Usable, Settled
    <3> QED  BY <2>1, <3>1, SettledFacts
  <2>2. ASSUME StoreInv
        PROVE  OwnersOK(sched)
    BY <2>2 DEF StoreInv, SchedulerOK
  <2> QED  BY <2>1, <2>2 DEF ActiveAttemptsOwned, Owned, OwnersOK
<1> QED  BY <1>1, StoreCorrect, PTL

\* job_time latches a failure only for a failed reading or an overflow.
THEOREM ClockCorrect == Spec => []ClockFailsForCause
<1>1. StoreInv => ClockFailsForCause
  BY DEF StoreInv
<1> QED  BY <1>1, StoreCorrect, PTL

\* After a failure was latched the process writes nothing more.
THEOREM FailureIsFinal == Spec => NoWriteAfterFailure
<1>1. StoreInv /\ [Next]_vars
        => [failure # "NONE" /\ pc' # "down" => UNCHANGED <<header, log, torn>>]_vars
  <2> SUFFICES ASSUME StoreInv, Next, failure # "NONE", pc' # "down"
               PROVE  UNCHANGED <<header, log, torn>>
    OBVIOUS
  <2>1. staged = <<>> /\ pc # "down"
    BY DEF StoreInv, ReplayInv, LiveInv, TypeOK
  <2> QED  BY <2>1 DEF Next, StoreRegister, StoreSubmit, StoreAssign, StoreReport, CloseClient,
                       disk, Usable, SyncRecord, SyncFails, CreateWal, OpenWal, ReplayRecord,
                       FinishReplay, ReplayFails, Replaying, RecoverSlot, Stop
<1> QED  BY <1>1, StoreCorrect, PTL DEF Spec, NoWriteAfterFailure

-----------------------------------------------------------------------------
(* What one record changes, and what later views remember of it.           *)

\* What a view holds on to of an earlier record.
Remembered(record, v) ==
  IF record.type = "WORKER_ID_ALLOCATED"
  THEN record.worker_id <= Issued(v.next_worker_id, MAX_WORKER_ID)
  ELSE LET id == record.job.id
       IN  /\ id \in DOMAIN v.scheduler.jobs
           /\ record.type = "JOB_ASSIGNED" => record.job.attempt <= v.scheduler.jobs[id].attempt
           /\ record.type \in {"JOB_COMPLETED", "JOB_FAILED"} =>
                v.scheduler.jobs[id].state \in {"DONE", "FAILED"}

\* Every view remembers all records before it.
MemoryInv == \A n \in DOMAIN log : \A i \in 1..n : Remembered(log[i], shadow[n + 1])

\* The records of one type about job id, among the first n of file.
OfJob(file, n, id, type) == {k \in 1..n : file[k].type = type /\ file[k].job.id = id}

\* The counters of every view are numbers of records.
CountInv ==
  \A n \in 0..Len(log) : \A id \in DOMAIN shadow[n + 1].scheduler.jobs :
    LET job == shadow[n + 1].scheduler.jobs[id]
    IN  /\ job.attempt = Cardinality(OfJob(log, n, id, "JOB_ASSIGNED"))
        /\ job.retry_count = Cardinality(OfJob(log, n, id, "JOB_REQUEUED"))

\* A job record that creates its job.
Creates(v, record, after) ==
  /\ record.type = "JOB_CREATED"
  /\ record.job.id = Len(v.scheduler.jobs) + 1
  /\ record.job.attempt = 0 /\ record.job.retry_count = 0
  /\ after.scheduler.jobs = Append(v.scheduler.jobs, record.job)

\* A job record that changes its job.
Changes(v, record, after) ==
  LET id  == record.job.id
      job == v.scheduler.jobs[id]
  IN  /\ record.type \in RecordTypes \ {"JOB_CREATED"}
      /\ id \in DOMAIN v.scheduler.jobs
      /\ after.scheduler.jobs = [v.scheduler.jobs EXCEPT ![id] = record.job]
      /\ job.state \notin {"DONE", "FAILED"}
      /\ record.job.attempt = job.attempt + (IF record.type = "JOB_ASSIGNED" THEN 1 ELSE 0)
      /\ record.job.retry_count = job.retry_count + (IF record.type = "JOB_REQUEUED" THEN 1 ELSE 0)
      /\ record.type \in {"JOB_COMPLETED", "JOB_FAILED"} => record.job.state \in {"DONE", "FAILED"}

\* A worker record.
Allocates(v, record, after) ==
  /\ record.type = "WORKER_ID_ALLOCATED"
  /\ record.worker_id > Issued(v.next_worker_id, MAX_WORKER_ID)
  /\ Issued(after.next_worker_id, MAX_WORKER_ID) = record.worker_id
  /\ after.scheduler = v.scheduler

-----------------------------------------------------------------------------
\* A worker record that replay accepts issues a larger id.
LEMMA WorkerStep ==
  ASSUME NEW v, NEW after, NEW record \in WalRecords, NEW n \in Nat \ {0},
         Replays(v, record, n, after), record.type = "WORKER_ID_ALLOCATED"
  PROVE  Allocates(v, record, after)
<1> DEFINE r == Mirror(v, n - 1)
<1>1. AcceptsRecord(r, record) /\ ApplyRecord(r, record) = Mirror(after, n)
  BY DEF Replays
<1>2. record.worker_id > r.highest_worker_id
  BY <1>1 DEF AcceptsRecord
<1>3. /\ ApplyRecord(r, record).scheduler = v.scheduler
      /\ ApplyRecord(r, record).highest_worker_id = record.worker_id
  BY DEF ApplyRecord, ApplyWorker, Mirror
<1>4. /\ Mirror(after, n).scheduler = after.scheduler
      /\ Mirror(after, n).highest_worker_id = Issued(after.next_worker_id, MAX_WORKER_ID)
  BY DEF Mirror
<1>5. r.highest_worker_id = Issued(v.next_worker_id, MAX_WORKER_ID)
  BY DEF Mirror
<1> HIDE DEF r
<1> QED  BY <1>1, <1>2, <1>3, <1>4, <1>5 DEF Allocates

\* What replay of a job record does to a view.
LEMMA JobStep ==
  ASSUME NEW v, NEW after, NEW record \in WalRecords, NEW n \in Nat \ {0},
         Replays(v, record, n, after), record.type # "WORKER_ID_ALLOCATED"
  PROVE  /\ record.type \in RecordTypes /\ record.job \in JobType
         /\ ValidJob(record.type, record.job)
         /\ AcceptsTransition(Mirror(v, n - 1), record)
         /\ Derived(Mirror(v, n - 1), record) = record.job
         /\ after.scheduler = Rebuilt(v.scheduler, record.type, record.job)
         /\ after.next_worker_id = v.next_worker_id
<1> DEFINE r == Mirror(v, n - 1)
<1>1. AcceptsRecord(r, record) /\ ApplyRecord(r, record) = Mirror(after, n)
  BY DEF Replays
<1>2. record.type \in RecordTypes /\ record.job \in JobType
  BY DEF WalRecords
<1>3. AcceptsJob(r, record) /\ ValidJob(record.type, record.job)
  BY <1>1 DEF AcceptsRecord, ValidRecord
<1>4. AcceptsTransition(r, record) /\ Derived(r, record) = record.job
  BY <1>3 DEF AcceptsJob
<1>5. /\ ApplyRecord(r, record).scheduler = Rebuilt(v.scheduler, record.type, Derived(r, record))
      /\ ApplyRecord(r, record).next_worker_id = v.next_worker_id
  BY DEF ApplyRecord, ApplyJob, Mirror
<1>6. /\ Mirror(after, n).scheduler = after.scheduler
      /\ Mirror(after, n).next_worker_id = after.next_worker_id
  BY DEF Mirror
<1> HIDE DEF r
<1>7. /\ after.scheduler = Rebuilt(v.scheduler, record.type, record.job)
      /\ after.next_worker_id = v.next_worker_id
  BY <1>1, <1>4, <1>5, <1>6
<1> QED  BY <1>2, <1>3, <1>4, <1>7 DEF r

\* A JOB_CREATED record that replay accepts appends a new job.
LEMMA CreatedStep ==
  ASSUME NEW v, ViewOK(v), NEW after, ViewOK(after), NEW record \in WalRecords,
         NEW n \in Nat \ {0}, Replays(v, record, n, after), record.type = "JOB_CREATED"
  PROVE  Creates(v, record, after)
<1>1. /\ record.job \in JobType /\ ValidJob(record.type, record.job)
      /\ after.scheduler = Rebuilt(v.scheduler, record.type, record.job)
  BY JobStep
<1>2. after.scheduler.jobs = Append(v.scheduler.jobs, record.job)
  BY <1>1 DEF Rebuilt
<1>3. record.job.attempt = 0 /\ record.job.retry_count = 0
  BY <1>1 DEF ValidJob, ValidQueued
<1>4. v.scheduler.jobs \in Seq(JobType) /\ SchedulerOK(after.scheduler)
  BY DEF ViewOK, ViewType, SchedulerType
<1> DEFINE k == Len(v.scheduler.jobs) + 1
<1>5. k \in DOMAIN after.scheduler.jobs /\ after.scheduler.jobs[k] = record.job
  BY <1>1, <1>2, <1>4
<1>6. record.job.id = k
  BY <1>4, <1>5 DEF SchedulerOK, TableOK
<1> QED  BY <1>2, <1>3, <1>6 DEF Creates

\* Any other job record that replay accepts changes a job that is not
\* terminal, and counts the attempt or the retry it stands for.
LEMMA ChangedStep ==
  ASSUME NEW v, ViewOK(v), NEW after, NEW record \in WalRecords,
         NEW n \in Nat \ {0}, Replays(v, record, n, after),
         record.type \notin {"JOB_CREATED", "WORKER_ID_ALLOCATED"}
  PROVE  Changes(v, record, after)
<1> DEFINE s   == v.scheduler
           id  == record.job.id
           job == s.jobs[FindSlot(s, id)]
<1>1. /\ record.type \in RecordTypes /\ record.job \in JobType
      /\ ValidJob(record.type, record.job)
      /\ AcceptsTransition(Mirror(v, n - 1), record)
      /\ Derived(Mirror(v, n - 1), record) = record.job
      /\ after.scheduler = Rebuilt(s, record.type, record.job)
  BY JobStep
<1>2. Mirror(v, n - 1).scheduler = s /\ SchedulerOK(s)
  BY DEF Mirror, ViewOK
<1>3. SlotsOf(s, id) # {} /\ job.state \notin {"DONE", "FAILED"}
  BY <1>1, <1>2 DEF AcceptsTransition, AcceptsAssigned, JobAssignOK, JobStartOK, JobCompleteOK,
                    JobFailOK, CheckTransition, CanTransition
<1>4. id \in DOMAIN s.jobs
  BY <1>2, <1>3, KnownJob
<1>5. FindSlot(s, id) = id /\ s.jobs[id] \in JobType /\ job = s.jobs[id] /\ JobOK(job)
  BY <1>2, <1>4, SlotOfJob
<1>6. s \in SchedulerType
  BY <1>2 DEF SchedulerOK
<1>7. after.scheduler.jobs = [s.jobs EXCEPT ![id] = record.job]
  <2>1. CASE record.type = "JOB_ASSIGNED"
    BY <1>1, <1>5, <1>6, <2>1 DEF Rebuilt, SchedulerType
  <2>2. CASE record.type # "JOB_ASSIGNED"
    BY <1>1, <1>5, <1>6, <2>2 DEF Rebuilt, Publish, SchedulerType
  <2> QED  BY <2>1, <2>2
<1>8. job = s.jobs[id] /\ job.attempt \in Nat /\ job.retry_count \in Nat
  BY <1>5 DEF JobType
<1>9. /\ record.type \in RecordTypes \ {"JOB_CREATED"} /\ job.state \notin {"DONE", "FAILED"}
      /\ record.type # "WORKER_ID_ALLOCATED"
  BY <1>1, <1>3
<1>10. record.job = Derived(Mirror(v, n - 1), record) /\ Mirror(v, n - 1).scheduler = s
  BY <1>1, <1>2
<1> HIDE DEF job
<1>11. ASSUME record.job.attempt = job.attempt + (IF record.type = "JOB_ASSIGNED" THEN 1 ELSE 0),
              record.job.retry_count
                = job.retry_count + (IF record.type = "JOB_REQUEUED" THEN 1 ELSE 0),
              record.type \in {"JOB_COMPLETED", "JOB_FAILED"}
                => record.job.state \in {"DONE", "FAILED"}
       PROVE  Changes(v, record, after)
  BY <1>4, <1>7, <1>8, <1>9, <1>11, Zenon DEF Changes
<1>12. CASE record.type = "JOB_ASSIGNED"
  <2>1. record.job = JobAssign(job, record.job.worker_id, record.job.updated_at)
    BY <1>10, <1>12 DEF Derived, job
  <2>2. record.job.attempt = job.attempt + 1 /\ record.job.retry_count = job.retry_count
    BY <1>5, <2>1 DEF JobAssign, JobType
  <2> QED  BY <1>8, <1>11, <1>12, <2>2
<1>13. CASE record.type = "JOB_STARTED"
  <2>1. record.job = JobStart(job, record.job.updated_at)
    BY <1>10, <1>13 DEF Derived, job
  <2>2. record.job.attempt = job.attempt /\ record.job.retry_count = job.retry_count
    BY <1>5, <2>1 DEF JobStart, JobType
  <2> QED  BY <1>8, <1>11, <1>13, <2>2
<1>14. CASE record.type = "JOB_COMPLETED"
  <2>1. record.job = JobComplete(job, record.job.result, record.job.updated_at)
    BY <1>10, <1>14 DEF Derived, job
  <2>2. /\ record.job.attempt = job.attempt /\ record.job.retry_count = job.retry_count
        /\ record.job.state = "DONE"
    BY <1>5, <2>1 DEF JobComplete, JobType
  <2> QED  BY <1>8, <1>11, <1>14, <2>2
<1>15. CASE record.type \in {"JOB_REQUEUED", "JOB_FAILED"}
  <2>1. record.job = JobFail(job, record.job.failure, record.job.updated_at)
    BY <1>10, <1>15 DEF Derived, job
  <2>2. /\ record.job.attempt = job.attempt
        /\ record.job.state = "QUEUED" => record.job.retry_count = job.retry_count + 1
        /\ record.job.state # "QUEUED" => record.job.retry_count = job.retry_count
    BY <1>5, <2>1 DEF JobFail, JobType
  <2>3. /\ record.type = "JOB_REQUEUED" => record.job.state = "QUEUED"
        /\ record.type = "JOB_FAILED" => record.job.state = "FAILED"
    BY <1>1, <1>15 DEF ValidJob, ValidQueued, ValidOwned
  <2> QED  BY <1>8, <1>11, <1>15, <2>2, <2>3
<1> QED  BY <1>9, <1>12, <1>13, <1>14, <1>15 DEF RecordTypes

\* Every record that replay accepts is one of the three.
LEMMA RecordStep ==
  ASSUME NEW v, ViewOK(v), NEW after, ViewOK(after), NEW record \in WalRecords,
         NEW n \in Nat \ {0}, Replays(v, record, n, after)
  PROVE  /\ Allocates(v, record, after) \/ Creates(v, record, after) \/ Changes(v, record, after)
         /\ record.type # "WORKER_ID_ALLOCATED" =>
              record.job \in JobType /\ after.next_worker_id = v.next_worker_id
BY WorkerStep, CreatedStep, ChangedStep, JobStep

-----------------------------------------------------------------------------
(* One record more.                                                        *)

\* A record is remembered by the view it leads to.
LEMMA OwnMemory ==
  ASSUME NEW v, ViewOK(v), NEW after, ViewOK(after), NEW record \in WalRecords,
         NEW n \in Nat \ {0}, Replays(v, record, n, after)
  PROVE  Remembered(record, after)
<1>1. v.scheduler.jobs \in Seq(JobType) /\ after.next_worker_id \in Nat
  BY SMTT(90) DEF ViewOK, ViewType, SchedulerType
<1>2. CASE Allocates(v, record, after)
  <2>1. record.type = "WORKER_ID_ALLOCATED" /\ record.worker_id \in Nat
    BY <1>2, SMTT(90) DEF Allocates, WalRecords, RecordTypes
  <2> QED  BY <1>2, <2>1 DEF Allocates, Remembered
<1>3. CASE Creates(v, record, after)
  BY <1>1, <1>3, RecordStep DEF Creates, Remembered
<1>4. CASE Changes(v, record, after)
  <2>1. record.type # "WORKER_ID_ALLOCATED"
    BY <1>4 DEF Changes, RecordTypes
  <2>2. record.job.attempt \in Nat
    BY <2>1, RecordStep DEF JobType
  <2> QED  BY <1>1, <1>4, <2>1, <2>2, SMTT(90) DEF Changes, Remembered
<1> QED  BY <1>2, <1>3, <1>4, RecordStep

\* What a view remembers, the view after one more record remembers.
LEMMA MemoryKept ==
  ASSUME NEW v, ViewOK(v), NEW after, ViewOK(after), NEW record \in WalRecords,
         NEW n \in Nat \ {0}, Replays(v, record, n, after),
         NEW old \in WalRecords, Remembered(old, v)
  PROVE  Remembered(old, after)
<1>1. v.scheduler.jobs \in Seq(JobType) /\ v.next_worker_id \in Nat
      /\ after.next_worker_id \in Nat
  BY SMTT(90) DEF ViewOK, ViewType, SchedulerType
<1>2. CASE old.type = "WORKER_ID_ALLOCATED"
  <2>1. old.worker_id \in Nat /\ old.worker_id <= Issued(v.next_worker_id, MAX_WORKER_ID)
    BY <1>2, SMTT(90) DEF Remembered, WalRecords, RecordTypes
  <2>2. CASE Allocates(v, record, after)
    <3>1. record.worker_id \in Nat
      BY <2>2, SMTT(90) DEF Allocates, WalRecords, RecordTypes
    <3>2. Issued(v.next_worker_id, MAX_WORKER_ID) \in Int
      BY <1>1, RegistryConstants DEF Issued
    <3> QED  BY <1>2, <2>1, <2>2, <3>1, <3>2 DEF Allocates, Remembered
  <2>3. CASE Creates(v, record, after) \/ Changes(v, record, after)
    <3>1. after.next_worker_id = v.next_worker_id
      BY <2>3, RecordStep DEF Creates, Changes, RecordTypes
    <3> QED  BY <1>2, <2>1, <3>1 DEF Remembered
  <2> QED  BY <2>2, <2>3, RecordStep
<1>3. CASE old.type # "WORKER_ID_ALLOCATED"
  <2> DEFINE id == old.job.id
             a  == v.scheduler.jobs
             b  == after.scheduler.jobs
  <2>1. /\ id \in DOMAIN a /\ old.job \in JobType
        /\ old.type = "JOB_ASSIGNED" => old.job.attempt <= a[id].attempt
        /\ old.type \in {"JOB_COMPLETED", "JOB_FAILED"} => a[id].state \in {"DONE", "FAILED"}
    BY <1>3 DEF Remembered, WalRecords
  <2>2. old.job.attempt \in Nat /\ a[id].attempt \in Nat
    <3>1. a[id] \in JobType
      BY <2>1, SlotOfJob DEF ViewOK
    <3> QED  BY <2>1, <3>1 DEF JobType
  <2>3. CASE Allocates(v, record, after) \/ Creates(v, record, after)
    <3>1. id \in DOMAIN b /\ b[id] = a[id]
      BY <1>1, <2>1, <2>3, RecordStep DEF Allocates, Creates
    <3> QED  BY <1>3, <2>1, <3>1 DEF Remembered
  <2>4. CASE Changes(v, record, after)
    <3>1. CASE record.job.id # id
      <4>1. id \in DOMAIN b /\ b[id] = a[id]
        BY <1>1, <2>1, <2>4, <3>1 DEF Changes
      <4> QED  BY <1>3, <2>1, <4>1 DEF Remembered
    <3>2. CASE record.job.id = id
      <4>1. /\ id \in DOMAIN b /\ b[id].attempt >= a[id].attempt /\ b[id].attempt \in Nat
            /\ a[id].state \notin {"DONE", "FAILED"}
        BY <1>1, <2>1, <2>2, <2>4, <3>2, SMTT(90) DEF Changes
      <4> QED  BY <1>3, <2>1, <2>2, <4>1 DEF Remembered
    <3> QED  BY <3>1, <3>2
  <2> QED  BY <2>3, <2>4, RecordStep
<1> QED  BY <1>2, <1>3

\* A record that replay accepts repeats no identity the view remembers, and
\* touches no job the view remembers as terminal.
LEMMA RecordIsNew ==
  ASSUME NEW v, ViewOK(v), NEW after, ViewOK(after), NEW record \in WalRecords,
         NEW n \in Nat \ {0}, Replays(v, record, n, after),
         NEW old \in WalRecords, Remembered(old, v)
  PROVE  /\ old.type = record.type =>
              CASE old.type = "WORKER_ID_ALLOCATED" -> old.worker_id < record.worker_id
                [] old.type = "JOB_CREATED" -> old.job.id < record.job.id
                [] old.type = "JOB_ASSIGNED" /\ old.job.id = record.job.id ->
                     old.job.attempt < record.job.attempt
                [] OTHER -> TRUE
         /\ old.type \in {"JOB_COMPLETED", "JOB_FAILED"} /\ record.type # "WORKER_ID_ALLOCATED"
              => record.job.id # old.job.id
<1>1. v.scheduler.jobs \in Seq(JobType) /\ v.next_worker_id \in Nat
  BY SMTT(90) DEF ViewOK, ViewType, SchedulerType
<1>2. Issued(v.next_worker_id, MAX_WORKER_ID) \in Int
  BY <1>1, RegistryConstants DEF Issued
<1>3. CASE Allocates(v, record, after)
  <2>1. record.type = "WORKER_ID_ALLOCATED" /\ record.worker_id \in Nat
    BY <1>3, SMTT(90) DEF Allocates, WalRecords, RecordTypes
  <2>2. old.type = "WORKER_ID_ALLOCATED" =>
          /\ old.worker_id \in Nat
          /\ old.worker_id <= Issued(v.next_worker_id, MAX_WORKER_ID)
    BY SMTT(90) DEF Remembered, WalRecords, RecordTypes
  <2> QED  BY <1>2, <1>3, <2>1, <2>2 DEF Allocates
<1>4. CASE Creates(v, record, after)
  <2>1. old.type # "WORKER_ID_ALLOCATED" => old.job.id \in 1..Len(v.scheduler.jobs)
    BY <1>1 DEF Remembered
  <2>2. record.type = "JOB_CREATED" /\ record.job.id = Len(v.scheduler.jobs) + 1
        /\ Len(v.scheduler.jobs) \in Nat
    BY <1>1, <1>4 DEF Creates
  <2> QED  BY <2>1, <2>2
<1>5. CASE Changes(v, record, after)
  <2> DEFINE id == record.job.id
             a  == v.scheduler.jobs
  <2>1. /\ id \in DOMAIN a /\ a[id].state \notin {"DONE", "FAILED"}
        /\ record.type \in RecordTypes \ {"JOB_CREATED"}
        /\ record.type = "JOB_ASSIGNED" => record.job.attempt = a[id].attempt + 1
    BY <1>5 DEF Changes
  <2>2. a[id].attempt \in Nat
    <3>1. a[id] \in JobType
      BY <2>1, SlotOfJob DEF ViewOK
    <3> QED  BY <3>1 DEF JobType
  <2>3. old.type # "WORKER_ID_ALLOCATED" => old.job.attempt \in Nat
    BY DEF WalRecords, JobType
  <2>4. /\ old.type \in {"JOB_COMPLETED", "JOB_FAILED"} => old.job.id # id
        /\ old.type = "JOB_ASSIGNED" /\ old.job.id = id => old.job.attempt <= a[id].attempt
    BY <2>1 DEF Remembered
  <2>5. record.type \notin {"WORKER_ID_ALLOCATED", "JOB_CREATED"}
    BY <2>1 DEF RecordTypes
  <2> HIDE DEF id, a
  <2>6. old.type = record.type /\ old.type = "JOB_ASSIGNED" /\ old.job.id = id
          => old.job.attempt < record.job.attempt
    BY <2>1, <2>2, <2>3, <2>4
  <2> QED  BY <2>4, <2>5, <2>6 DEF id
<1> QED  BY <1>3, <1>4, <1>5, RecordStep
\* The n-th record adds one to at most one count.
LEMMA CountOne ==
  ASSUME NEW file, NEW n \in Nat \ {0}, NEW id, NEW type
  PROVE  /\ Cardinality(OfJob(file, n - 1, id, type)) \in Nat
         /\ Cardinality(OfJob(file, n, id, type)) = Cardinality(OfJob(file, n - 1, id, type))
              + (IF file[n].type = type /\ file[n].job.id = id THEN 1 ELSE 0)
<1> DEFINE S == OfJob(file, n - 1, id, type)
           T == OfJob(file, n, id, type)
<1>1. S \subseteq 1..(n - 1) /\ IsFiniteSet(1..(n - 1))
  BY FS_Interval DEF OfJob
<1>2. IsFiniteSet(S)
  BY <1>1, FS_Subset
<1>3. Cardinality(S) \in Nat
  BY <1>2, FS_CardinalityType
<1>4. n \notin S
  BY DEF OfJob
<1>5. CASE file[n].type = type /\ file[n].job.id = id
  <2>1. T = S \cup {n}
    BY <1>5, SMTT(90) DEF OfJob
  <2>2. Cardinality(S \cup {n}) = Cardinality(S) + 1
    BY <1>2, <1>4, FS_AddElement
  <2> QED  BY <1>3, <1>5, <2>1, <2>2
<1>6. CASE ~(file[n].type = type /\ file[n].job.id = id)
  <2>1. T = S
    BY <1>6, SMTT(90) DEF OfJob
  <2> QED  BY <1>3, <1>6, <2>1
<1> QED  BY <1>5, <1>6

\* The counters of the view after a record are numbers of records, when those
\* of the view before it are.
LEMMA CountKept ==
  ASSUME NEW v, ViewOK(v), NEW after, ViewOK(after), NEW n \in Nat \ {0},
         NEW file, \A i \in 1..n : file[i] \in WalRecords,
         Replays(v, file[n], n, after), \A i \in 1..(n - 1) : Remembered(file[i], v),
         NEW id \in DOMAIN after.scheduler.jobs,
         id \in DOMAIN v.scheduler.jobs =>
           /\ v.scheduler.jobs[id].attempt = Cardinality(OfJob(file, n - 1, id, "JOB_ASSIGNED"))
           /\ v.scheduler.jobs[id].retry_count
                = Cardinality(OfJob(file, n - 1, id, "JOB_REQUEUED"))
  PROVE  /\ after.scheduler.jobs[id].attempt = Cardinality(OfJob(file, n, id, "JOB_ASSIGNED"))
         /\ after.scheduler.jobs[id].retry_count
              = Cardinality(OfJob(file, n, id, "JOB_REQUEUED"))
<1> DEFINE a == v.scheduler.jobs
           b == after.scheduler.jobs
           A == Cardinality(OfJob(file, n - 1, id, "JOB_ASSIGNED"))
           R == Cardinality(OfJob(file, n - 1, id, "JOB_REQUEUED"))
<1>1. file[n] \in WalRecords /\ a \in Seq(JobType)
  BY SMTT(90) DEF ViewOK, ViewType, SchedulerType
<1>2. /\ A \in Nat /\ R \in Nat
      /\ Cardinality(OfJob(file, n, id, "JOB_ASSIGNED"))
           = A + (IF file[n].type = "JOB_ASSIGNED" /\ file[n].job.id = id THEN 1 ELSE 0)
      /\ Cardinality(OfJob(file, n, id, "JOB_REQUEUED"))
           = R + (IF file[n].type = "JOB_REQUEUED" /\ file[n].job.id = id THEN 1 ELSE 0)
  <2>1. /\ A \in Nat
        /\ Cardinality(OfJob(file, n, id, "JOB_ASSIGNED"))
             = A + (IF file[n].type = "JOB_ASSIGNED" /\ file[n].job.id = id THEN 1 ELSE 0)
    BY CountOne, SMTT(90)
  <2>2. /\ R \in Nat
        /\ Cardinality(OfJob(file, n, id, "JOB_REQUEUED"))
             = R + (IF file[n].type = "JOB_REQUEUED" /\ file[n].job.id = id THEN 1 ELSE 0)
    BY CountOne, SMTT(90)
  <2> HIDE DEF A, R
  <2> QED  BY <2>1, <2>2
<1>3. id \in DOMAIN a => a[id].attempt = A /\ a[id].retry_count = R
  OBVIOUS
<1>4. CASE Allocates(v, file[n], after)
  <2>1. b = a /\ file[n].type = "WORKER_ID_ALLOCATED"
    BY <1>4 DEF Allocates
  <2> HIDE DEF A, R, a, b
  <2> QED  BY <1>2, <1>3, <2>1 DEF b
<1>5. CASE Creates(v, file[n], after)
  <2>1. /\ file[n].type = "JOB_CREATED" /\ file[n].job.id = Len(a) + 1
        /\ file[n].job.attempt = 0 /\ file[n].job.retry_count = 0
        /\ b = Append(a, file[n].job) /\ file[n].job \in JobType
    BY <1>1, <1>5, RecordStep DEF Creates
  <2>2. CASE id \in DOMAIN a
    <3>1. b[id] = a[id]
      BY <1>1, <2>1, <2>2
    <3> HIDE DEF A, R, a
    <3> QED  BY <1>2, <1>3, <2>1, <2>2, <3>1
  <2>3. CASE id \notin DOMAIN a
    <3>1. id = Len(a) + 1 /\ b[id] = file[n].job
      BY <1>1, <2>1, <2>3
    <3>2. ASSUME NEW k \in 1..(n - 1), file[k].type \in {"JOB_ASSIGNED", "JOB_REQUEUED"}
          PROVE  file[k].job.id \in DOMAIN a
      BY <3>2 DEF Remembered
    <3>3. OfJob(file, n - 1, id, "JOB_ASSIGNED") = {} /\ OfJob(file, n - 1, id, "JOB_REQUEUED") = {}
      BY <2>3, <3>2 DEF OfJob
    <3>4. A = 0 /\ R = 0
      BY <3>3, FS_EmptySet
    <3> HIDE DEF A, R, a
    <3> QED  BY <1>2, <2>1, <3>1, <3>4
  <2> QED  BY <2>2, <2>3
<1>6. CASE Changes(v, file[n], after)
  <2>1. /\ file[n].job.id \in DOMAIN a
        /\ b = [a EXCEPT ![file[n].job.id] = file[n].job]
        /\ file[n].job.attempt = a[file[n].job.id].attempt
              + (IF file[n].type = "JOB_ASSIGNED" THEN 1 ELSE 0)
        /\ file[n].job.retry_count = a[file[n].job.id].retry_count
              + (IF file[n].type = "JOB_REQUEUED" THEN 1 ELSE 0)
    BY <1>6 DEF Changes
  <2>2. id \in DOMAIN a
    BY <2>1
  <2>3. CASE file[n].job.id = id
    <3>1. b[id] = file[n].job
      BY <2>1, <2>3
    <3> HIDE DEF A, R, a, b
    <3> QED  BY <1>2, <1>3, <2>1, <2>2, <2>3, <3>1 DEF b
  <2>4. CASE file[n].job.id # id
    <3>1. b[id] = a[id]
      BY <2>1, <2>2, <2>4
    <3> HIDE DEF A, R, a, b
    <3> QED  BY <1>2, <1>3, <2>2, <2>4, <3>1 DEF b
  <2> QED  BY <2>3, <2>4
<1> QED  BY <1>1, <1>4, <1>5, <1>6, RecordStep
=============================================================================
