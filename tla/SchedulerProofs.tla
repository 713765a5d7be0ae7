-------------------------- MODULE SchedulerProofs --------------------------
(***************************************************************************)
(* What the operations of job.c, scheduler.c and worker_registry.c do to   *)
(* consistent tables: their internal checks succeed, and their results are *)
(* consistent again.  The proofs about the durable store and about the     *)
(* event loop both rest on these lemmas.                                   *)
(***************************************************************************)
EXTENDS JobTable, TLAPS, FiniteSetTheorems

USE SMTT(30), ZenonT(30), SMTT(60)

-----------------------------------------------------------------------------
(* Jobs: each operation keeps a job well typed and turns a snapshot the    *)
(* log format calls valid into the valid snapshot of the record that       *)
(* reports the transition.                                                 *)

\* faultline_job_init yields a job whose JOB_CREATED record is valid.
LEMMA InitJob ==
  ASSUME NEW id \in 1..MAX_JOB_ID, NEW task \in Tasks, NEW n \in 0..MAX_RETRIES,
         NEW now \in Nat
  PROVE  LET job == JobInit(id, task, n, now)
         IN  job \in JobType /\ ValidJob("JOB_CREATED", job) /\ JobOK(job)
<1>1. JobInit(id, task, n, now) \in JobType
  BY RegistryConstants DEF JobInit, JobType, JobStates, JobFailures, NoResult, TIME_UNSET
<1>2. ValidJob("JOB_CREATED", JobInit(id, task, n, now))
  BY DEF JobInit, ValidJob, ValidQueued, NoResult, TIME_UNSET
<1>3. SnapshotType(JobInit(id, task, n, now)) = "JOB_CREATED"
  BY DEF SnapshotType, JobInit
<1> QED  BY <1>1, <1>2, <1>3 DEF JobOK

\* faultline_job_assign turns a QUEUED job into a valid JOB_ASSIGNED snapshot.
LEMMA AssignJob ==
  ASSUME NEW job \in JobType, JobOK(job),
         NEW w \in 1..MAX_WORKER_ID, NEW now \in Nat, JobAssignOK(job, w, now)
  PROVE  LET next == JobAssign(job, w, now)
         IN  /\ next \in JobType /\ ValidJob("JOB_ASSIGNED", next) /\ JobOK(next)
             /\ next.id = job.id /\ next.state = "ASSIGNED" /\ next.worker_id = w
             /\ next.updated_at = now
<1> DEFINE next == JobAssign(job, w, now)
<1>1. job.state = "QUEUED" /\ now >= job.updated_at
  BY DEF JobAssignOK, CheckTransition, CanTransition
<1>2. next \in JobType
  <2>1. job.attempt + 1 \in Nat /\ now \in Int
    BY DEF JobType
  <2>2. w \in 0..MAX_WORKER_ID
    OBVIOUS
  <2>3. "ASSIGNED" \in JobStates /\ "NONE" \in JobFailures
    BY DEF JobStates, JobFailures
  <2> QED  BY <2>1, <2>2, <2>3, ZenonT(30) DEF JobAssign, JobType
<1>3. /\ next.id = job.id /\ next.state = "ASSIGNED" /\ next.worker_id = w
      /\ next.updated_at = now
  BY DEF JobAssign, JobType
<1>4. ValidJob("JOB_ASSIGNED", next)
  BY <1>1, RegistryConstants
     DEF JobAssign, JobType, JobOK, SnapshotType, RecordType, ValidJob, ValidQueued,
         ValidOwned, NoResult
<1>5. SnapshotType(next) = "JOB_ASSIGNED"
  BY <1>3 DEF SnapshotType
<1> QED  BY <1>2, <1>3, <1>4, <1>5 DEF JobOK

\* faultline_job_start turns an ASSIGNED job into a valid JOB_STARTED snapshot.
LEMMA StartJob ==
  ASSUME NEW job \in JobType, JobOK(job), NEW w, NEW attempt,
         NEW now \in Nat, JobStartOK(job, w, attempt, now)
  PROVE  LET next == JobStart(job, now)
         IN  /\ next \in JobType /\ ValidJob("JOB_STARTED", next) /\ JobOK(next)
             /\ next.id = job.id /\ next.state = "RUNNING"
             /\ next.worker_id = job.worker_id /\ next.attempt = job.attempt
             /\ next.updated_at = now /\ IsActive(job)
<1> DEFINE next == JobStart(job, now)
<1>1. job.state = "ASSIGNED" /\ now >= job.updated_at
  BY DEF JobStartOK, CheckTransition, CanTransition
<1>2. next \in JobType
  <2>1. now \in Int /\ "RUNNING" \in JobStates
    BY DEF JobStates
  <2> QED  BY <2>1, ZenonT(30) DEF JobStart, JobType
<1>3. /\ next.id = job.id /\ next.state = "RUNNING"
      /\ next.worker_id = job.worker_id /\ next.attempt = job.attempt
      /\ next.updated_at = now
  BY DEF JobStart, JobType
<1>4. ValidJob("JOB_STARTED", next)
  BY <1>1 DEF JobStart, JobType, JobOK, SnapshotType, ValidJob, ValidOwned
<1>5. SnapshotType(next) = "JOB_STARTED"
  BY <1>3 DEF SnapshotType, RecordType
<1> QED  BY <1>1, <1>2, <1>3, <1>4, <1>5 DEF JobOK, IsActive

\* faultline_job_complete turns a RUNNING job into a valid JOB_COMPLETED snapshot.
LEMMA CompleteJob ==
  ASSUME NEW job \in JobType, JobOK(job), NEW w, NEW attempt, NEW result \in Results,
         NEW now \in Nat, JobCompleteOK(job, w, attempt, now)
  PROVE  LET next == JobComplete(job, result, now)
         IN  /\ next \in JobType /\ ValidJob("JOB_COMPLETED", next) /\ JobOK(next)
             /\ next.id = job.id /\ next.state = "DONE" /\ next.updated_at = now
             /\ next.worker_id = job.worker_id /\ next.attempt = job.attempt
             /\ next.result = result /\ IsActive(job)
<1> DEFINE next == JobComplete(job, result, now)
<1>1. job.state = "RUNNING" /\ now >= job.updated_at
  BY DEF JobCompleteOK, CheckTransition, CanTransition
<1>2. next \in JobType
  <2>1. now \in Int /\ "DONE" \in JobStates /\ result \in Results \cup {NoResult}
    BY DEF JobStates
  <2> QED  BY <2>1, ZenonT(30) DEF JobComplete, JobType
<1>3. /\ next.id = job.id /\ next.state = "DONE" /\ next.updated_at = now
      /\ next.worker_id = job.worker_id /\ next.attempt = job.attempt
      /\ next.result = result
  BY DEF JobComplete, JobType
<1>4. ValidJob("JOB_COMPLETED", next)
  BY <1>1 DEF JobComplete, JobType, JobOK, SnapshotType, RecordType, ValidJob, ValidOwned
<1>5. SnapshotType(next) = "JOB_COMPLETED"
  BY <1>3 DEF SnapshotType, RecordType
<1> QED  BY <1>1, <1>2, <1>3, <1>4, <1>5 DEF JobOK, IsActive

\* faultline_job_fail turns an active job into a valid JOB_REQUEUED snapshot
\* while budget remains, into a valid JOB_FAILED snapshot otherwise.
LEMMA FailJob ==
  ASSUME NEW job \in JobType, JobOK(job), NEW w, NEW attempt, NEW failed,
         NEW now \in Nat, JobFailOK(job, w, attempt, failed, now)
  PROVE  LET next == JobFail(job, failed, now)
         IN  /\ next \in JobType /\ ValidJob(RecordType(next), next) /\ JobOK(next)
             /\ next.id = job.id /\ next.state \in {"QUEUED", "FAILED"}
             /\ next.updated_at = now /\ IsActive(job)
             /\ next.state = "QUEUED" => next.worker_id = 0
             /\ next.failure = failed /\ next.attempt = job.attempt
<1> DEFINE next == JobFail(job, failed, now)
<1>1. IsActive(job) /\ now >= job.updated_at
  BY DEF JobFailOK, CheckTransition, CanTransition, FailNext, IsActive
<1>2. failed \in {"TASK", "WORKER_LOST"}
  BY DEF JobFailOK
<1>3. /\ job.attempt = job.retry_count + 1 /\ job.worker_id # 0
      /\ job.retry_count <= job.max_retries /\ job.result = NoResult
      /\ job.created_at >= 0 /\ job.assigned_at >= job.created_at /\ job.id # 0
      /\ job.updated_at >= job.assigned_at /\ job.updated_at >= job.created_at
      /\ job.started_at = -1 \/ job.started_at >= job.assigned_at
      /\ job.updated_at >= job.started_at
  BY <1>1 DEF JobOK, IsActive, JobType, SnapshotType, RecordType, ValidJob, ValidOwned,
              ValidQueued
<1>4. CASE job.retry_count < job.max_retries
  <2>1. next = [ job EXCEPT !.state = "QUEUED", !.updated_at = now, !.failure = failed,
                            !.retry_count = @ + 1, !.worker_id = 0, !.assigned_at = -1,
                            !.started_at = -1, !.finished_at = -1 ]
    BY <1>4 DEF JobFail, FailNext, TIME_UNSET
  <2>2. next \in JobType
    <3>1. job.retry_count + 1 \in Nat /\ now \in Int /\ -1 \in Int
      BY DEF JobType
    <3>2. 0 \in 0..MAX_WORKER_ID
      BY RegistryConstants
    <3>3. "QUEUED" \in JobStates /\ failed \in JobFailures
      BY <1>2 DEF JobStates, JobFailures
    <3> QED  BY <2>1, <3>1, <3>2, <3>3, ZenonT(30) DEF JobType
  <2>3. /\ next.id = job.id /\ next.state = "QUEUED" /\ next.worker_id = 0
        /\ next.updated_at = now /\ next.failure = failed
        /\ next.attempt = job.attempt /\ next.retry_count = job.retry_count + 1
    BY <2>1 DEF JobType
  <2>4. ValidJob("JOB_REQUEUED", next)
    BY <1>1, <1>2, <1>3, <1>4, <2>1 DEF JobType, ValidJob, ValidQueued, ValidFailure
  <2>5. RecordType(next) = "JOB_REQUEUED" /\ SnapshotType(next) = "JOB_REQUEUED"
    BY <1>3, <2>3 DEF RecordType, SnapshotType, JobType
  <2> QED  BY <1>1, <2>2, <2>3, <2>4, <2>5 DEF JobOK
<1>5. CASE ~(job.retry_count < job.max_retries)
  <2>1. next = [ job EXCEPT !.state = "FAILED", !.updated_at = now, !.failure = failed,
                            !.finished_at = now ]
    BY <1>5 DEF JobFail, FailNext
  <2>2. next \in JobType
    <3>1. now \in Int /\ "FAILED" \in JobStates /\ failed \in JobFailures
      BY <1>2 DEF JobStates, JobFailures
    <3> QED  BY <2>1, <3>1, ZenonT(30) DEF JobType
  <2>3. /\ next.id = job.id /\ next.state = "FAILED" /\ next.updated_at = now
        /\ next.failure = failed /\ next.attempt = job.attempt
    BY <2>1 DEF JobType
  <2>4. ValidJob("JOB_FAILED", next)
    BY <1>1, <1>2, <1>3, <1>5, <2>1 DEF JobType, ValidJob, ValidOwned, ValidFailure
  <2>5. RecordType(next) = "JOB_FAILED" /\ SnapshotType(next) = "JOB_FAILED"
    BY <2>3 DEF RecordType, SnapshotType
  <2> QED  BY <1>1, <2>2, <2>3, <2>4, <2>5 DEF JobOK
<1> QED  BY <1>4, <1>5

-----------------------------------------------------------------------------
(* Lookups.                                                                *)

\* A scan of the slots stops at the first match.
LEMMA FirstIsLeast ==
  ASSUME NEW S \in SUBSET Nat, S # {}
  PROVE  First(S) \in S /\ \A k \in S : First(S) <= k
<1> DEFINE less == OpToRel(<, Nat)
<1>1. IsWellFoundedOn(less, Nat)
  BY NatLessThanWellFounded
<1>2. \E x \in S : \A y \in S : ~(<<y, x>> \in less)
  <2> HIDE DEF less
  <2> QED  BY <1>1, WFMin, ZenonT(30)
<1>3. less = {ss \in Nat \X Nat : ss[1] < ss[2]}
  BY ZenonT(30) DEF OpToRel
<1>4. \E x \in S : \A y \in S : x <= y
  <2> HIDE DEF less
  <2>1. PICK x \in S : \A y \in S : ~(<<y, x>> \in less)
    BY <1>2
  <2>2. ASSUME NEW y \in S
        PROVE  x <= y
    <3>1. x \in Nat /\ y \in Nat
      OBVIOUS
    <3>2. y < x => <<y, x>> \in less
      BY <1>3, <3>1
    <3> QED  BY <2>1, <3>1, <3>2
  <2> QED  BY <2>2
<1> QED  BY <1>4, ZenonT(30) DEF First

\* A scan with a single possible match finds it.
LEMMA FirstOfOne ==
  ASSUME NEW x \in Int
  PROVE  First({x}) = x
BY DEF First

\* find_slot finds job id in slot id.
LEMMA SlotOfJob ==
  ASSUME NEW s, SchedulerOK(s), NEW id \in DOMAIN s.jobs
  PROVE  /\ SlotsOf(s, id) # {} /\ FindSlot(s, id) = id /\ Known(s, id)
         /\ id \in 1..Len(s.jobs) /\ s.jobs[id] \in JobType
         /\ s.jobs[id].id = id /\ JobOK(s.jobs[id])
<1>1. s.jobs \in Seq(JobType) /\ id \in 1..Len(s.jobs)
  BY DEF SchedulerOK, SchedulerType
<1>2. s.jobs[id] \in JobType /\ s.jobs[id].id = id /\ JobOK(s.jobs[id])
  BY <1>1 DEF SchedulerOK, TableOK
<1>3. SlotsOf(s, id) = {id}
  BY <1>1 DEF SchedulerOK, TableOK, SlotsOf
<1>4. FindSlot(s, id) = id
  BY <1>1, <1>3, FirstOfOne DEF FindSlot
<1> QED  BY <1>1, <1>2, <1>3, <1>4 DEF Known

\* A lookup that succeeds names a job of the table.
LEMMA KnownJob ==
  ASSUME NEW s, SchedulerOK(s), NEW id, SlotsOf(s, id) # {}
  PROVE  id \in DOMAIN s.jobs
BY DEF SlotsOf, SchedulerOK, TableOK

\* faultline_scheduler_active finds the one active attempt of a worker.
LEMMA ActiveSlot ==
  ASSUME NEW s, SchedulerOK(s), NEW i \in DOMAIN s.jobs, IsActive(s.jobs[i]),
         s.jobs[i].worker_id # 0
  PROVE  Busy(s, s.jobs[i].worker_id) /\ Active(s, s.jobs[i].worker_id) = s.jobs[i]
<1>1. i \in Int
  BY SlotOfJob
<1>2. ActiveSlots(s, s.jobs[i].worker_id) = {i}
  BY DEF ActiveSlots, SchedulerOK, OwnersOK
<1> QED  BY <1>1, <1>2, FirstOfOne DEF Busy, Active

\* A busy worker has an active slot.
LEMMA BusySlot ==
  ASSUME NEW s, NEW w, Busy(s, w)
  PROVE  \E i \in DOMAIN s.jobs : IsActive(s.jobs[i]) /\ s.jobs[i].worker_id = w /\ w # 0
BY DEF Busy, ActiveSlots

-----------------------------------------------------------------------------
(* The pending queue.                                                      *)

\* A queue without duplicates is no longer than the set it draws from.
LEMMA QueueLength ==
  ASSUME NEW S, NEW q \in Seq(S), NEW T, IsFiniteSet(T),
         Members(q) \subseteq T, NoDuplicates(q)
  PROVE  Len(q) <= Cardinality(T)
<1>1. Len(q) \in Nat /\ DOMAIN q = 1..Len(q) /\ q \in [1..Len(q) -> T]
  BY DEF Members
<1>2. IsFiniteSet(1..Len(q)) /\ Cardinality(1..Len(q)) = Len(q)
  BY <1>1, FS_Interval
<1>3. Cardinality(T) \in Nat
  BY FS_CardinalityType
<1>4. ~(Cardinality(T) < Len(q))
  BY <1>1, <1>2, FS_PigeonHole DEF NoDuplicates
<1> QED  BY <1>1, <1>3, <1>4

\* The queue has room for every job of the table that is not in it.
LEMMA QueueHasRoom ==
  ASSUME NEW s, SchedulerOK(s)
  PROVE  /\ Len(s.jobs) < JOB_STORE_CAPACITY => Len(s.pending) < JOB_QUEUE_CAPACITY
         /\ \A id \in DOMAIN s.jobs :
              s.jobs[id].state # "QUEUED" => Len(s.pending) < JOB_QUEUE_CAPACITY
<1>1. /\ s.jobs \in Seq(JobType) /\ s.pending \in Seq(1..MAX_JOB_ID)
      /\ Len(s.jobs) \in Nat /\ DOMAIN s.jobs = 1..Len(s.jobs)
      /\ Len(s.jobs) <= JOB_STORE_CAPACITY /\ Len(s.pending) \in Nat
  BY DEF SchedulerOK, SchedulerType, TableOK
<1>2. IsFiniteSet(1..Len(s.jobs)) /\ Cardinality(1..Len(s.jobs)) = Len(s.jobs)
  BY <1>1, FS_Interval
<1>3. Len(s.pending) <= Len(s.jobs)
  <2>1. Members(s.pending) \subseteq 1..Len(s.jobs) /\ NoDuplicates(s.pending)
    BY <1>1 DEF SchedulerOK, QueueOK
  <2> QED  BY <1>1, <1>2, <2>1, QueueLength
<1>4. ASSUME NEW id \in DOMAIN s.jobs, s.jobs[id].state # "QUEUED"
      PROVE  Len(s.pending) < Len(s.jobs)
  <2> DEFINE slots == 1..Len(s.jobs)
  <2>1. id \in slots /\ IsFiniteSet(slots) /\ Cardinality(slots) = Len(s.jobs)
    BY <1>1, <1>2
  <2>2. Members(s.pending) \subseteq slots \ {id} /\ NoDuplicates(s.pending)
    BY <1>1, <1>4 DEF SchedulerOK, QueueOK
  <2> HIDE DEF slots
  <2>3. IsFiniteSet(slots \ {id}) /\ Cardinality(slots \ {id}) = Len(s.jobs) - 1
    BY <2>1, FS_RemoveElement, ZenonT(30)
  <2>4. Len(s.pending) <= Cardinality(slots \ {id})
    BY <1>1, <2>2, <2>3, QueueLength
  <2> QED  BY <1>1, <2>3, <2>4
<1> QED  BY <1>1, <1>3, <1>4, SchedulerConstants

\* Taking the head of a queue leaves its other members.
LEMMA PoppedQueue ==
  ASSUME NEW S, NEW q \in Seq(S), q # <<>>, NoDuplicates(q)
  PROVE  /\ Tail(q) \in Seq(S) /\ NoDuplicates(Tail(q))
         /\ Head(q) \in Members(q) /\ Members(Tail(q)) = Members(q) \ {Head(q)}
<1>1. Len(q) \in Nat \ {0} /\ DOMAIN q = 1..Len(q) /\ Head(q) = q[1]
  OBVIOUS
<1>2. /\ Tail(q) \in Seq(S) /\ Len(Tail(q)) = Len(q) - 1
      /\ DOMAIN Tail(q) = 1..Len(Tail(q))
      /\ \A i \in 1..Len(Tail(q)) : Tail(q)[i] = q[i + 1]
  OBVIOUS
<1>3. \A i \in DOMAIN Tail(q) : i + 1 \in DOMAIN q /\ i + 1 # 1 /\ Tail(q)[i] = q[i + 1]
  BY <1>1, <1>2
<1>4. 1 \in DOMAIN q
  BY <1>1
<1>5. NoDuplicates(Tail(q))
  <2> SUFFICES ASSUME NEW i \in DOMAIN Tail(q), NEW k \in DOMAIN Tail(q),
                      Tail(q)[i] = Tail(q)[k]
               PROVE  i = k
    BY DEF NoDuplicates
  <2>1. i + 1 = k + 1
    BY <1>3 DEF NoDuplicates
  <2> QED  BY <1>1, <1>2, <2>1
<1>6. \A k \in DOMAIN q :
        q[k] # Head(q) => k - 1 \in DOMAIN Tail(q) /\ Tail(q)[k - 1] = q[k]
  BY <1>1, <1>2
<1>7. \A i \in DOMAIN Tail(q) : Tail(q)[i] # Head(q)
  BY <1>1, <1>3, <1>4 DEF NoDuplicates
<1>8. Members(Tail(q)) \subseteq Members(q) \ {Head(q)}
  BY <1>3, <1>7 DEF Members
<1>9. Members(q) \ {Head(q)} \subseteq Members(Tail(q))
  BY <1>6 DEF Members
<1>10. Head(q) \in Members(q)
  BY <1>1, <1>4 DEF Members
<1> QED  BY <1>2, <1>5, <1>8, <1>9, <1>10

\* Pushing adds one member.
LEMMA PushedQueue ==
  ASSUME NEW S, NEW q \in Seq(S), NEW x, NoDuplicates(q), x \notin Members(q)
  PROVE  /\ NoDuplicates(Append(q, x))
         /\ Members(Append(q, x)) = Members(q) \cup {x}
<1> DEFINE p == Append(q, x)
<1>1. Len(q) \in Nat /\ DOMAIN q = 1..Len(q)
  OBVIOUS
<1>2. /\ Len(p) = Len(q) + 1 /\ DOMAIN p = 1..Len(p)
      /\ \A i \in 1..Len(q) : p[i] = q[i]
      /\ p[Len(q) + 1] = x
  <2>1. q \in Seq(S \cup {x})
    OBVIOUS
  <2> QED  BY <2>1
<1> HIDE DEF p
<1>3. /\ \A i \in DOMAIN p : i = Len(q) + 1 \/ (i \in DOMAIN q /\ p[i] = q[i])
      /\ \A i \in DOMAIN q : i \in DOMAIN p /\ p[i] = q[i]
      /\ Len(q) + 1 \in DOMAIN p
  BY <1>1, <1>2
<1>4. NoDuplicates(p)
  BY <1>2, <1>3 DEF NoDuplicates, Members
<1>5. Members(p) = Members(q) \cup {x}
  BY <1>2, <1>3 DEF Members
<1> QED  BY <1>4, <1>5 DEF p

-----------------------------------------------------------------------------
(* The operations.                                                         *)

\* publish_outcome: an active job is replaced by the outcome of its attempt.
LEMMA PublishStep ==
  ASSUME NEW s, SchedulerOK(s), NEW id \in DOMAIN s.jobs, IsActive(s.jobs[id]),
         NEW job \in JobType, JobOK(job), job.id = id,
         job.state \in {"RUNNING", "DONE", "QUEUED", "FAILED"},
         job.state = "RUNNING" => job.worker_id = s.jobs[id].worker_id,
         job.state = "QUEUED" => job.worker_id = 0
  PROVE  /\ PublishOK(s, job)
         /\ LET t == Publish(s, id, job)
            IN  /\ SchedulerOK(t)
                /\ DOMAIN t.jobs = DOMAIN s.jobs /\ t.jobs[id] = job
                /\ \A i \in DOMAIN s.jobs : i # id => t.jobs[i] = s.jobs[i]
<1> DEFINE t == Publish(s, id, job)
           q == IF job.state = "QUEUED" THEN Append(s.pending, id) ELSE s.pending
<1>1. /\ s \in SchedulerType /\ s.jobs \in Seq(JobType)
      /\ s.pending \in Seq(1..MAX_JOB_ID) /\ id \in 1..Len(s.jobs)
      /\ id \in 1..MAX_JOB_ID
  <2>1. id \in 1..MAX_JOB_ID
    BY DEF JobType
  <2> QED  BY <2>1 DEF SchedulerOK, SchedulerType
<1>2. /\ s.jobs[id].state # "QUEUED" /\ id \notin Members(s.pending)
      /\ NoDuplicates(s.pending)
  BY DEF SchedulerOK, QueueOK, IsActive
<1>3. PublishOK(s, job)
  BY <1>1, <1>2, QueueHasRoom DEF PublishOK, QueuePushOK, Members
<1>4. t = [s EXCEPT !.jobs = [s.jobs EXCEPT ![id] = job], !.pending = q]
  BY DEF Publish
<1>5. /\ t.jobs = [s.jobs EXCEPT ![id] = job] /\ t.pending = q
      /\ t.next_job_id = s.next_job_id
  BY <1>1, <1>4 DEF SchedulerType
<1>6. /\ t.jobs \in Seq(JobType) /\ Len(t.jobs) = Len(s.jobs)
      /\ DOMAIN t.jobs = DOMAIN s.jobs /\ t.jobs[id] = job
      /\ \A i \in DOMAIN s.jobs : i # id => t.jobs[i] = s.jobs[i]
  BY <1>1, <1>5
<1>7. q \in Seq(1..MAX_JOB_ID)
  <2>1. Append(s.pending, id) \in Seq(1..MAX_JOB_ID)
    BY <1>1
  <2> QED  BY <1>1, <2>1, ZenonT(30)
<1>8. t \in SchedulerType
  BY <1>1, <1>4, <1>5, <1>6, <1>7, ZenonT(30) DEF SchedulerType
<1>9. TableOK(t)
  BY <1>5, <1>6 DEF SchedulerOK, TableOK
<1>10. QueueOK(t)
  <2>1. CASE job.state = "QUEUED"
    <3>1. q = Append(s.pending, id)
      BY <2>1
    <3>2. /\ NoDuplicates(Append(s.pending, id))
          /\ Members(Append(s.pending, id)) = Members(s.pending) \cup {id}
      BY <1>1, <1>2, PushedQueue
    <3>3. NoDuplicates(q) /\ Members(q) = Members(s.pending) \cup {id}
      BY <3>1, <3>2, ZenonT(30)
    <3> HIDE DEF q, t
    <3> QED  BY <1>5, <1>6, <2>1, <3>3 DEF SchedulerOK, QueueOK
  <2>2. CASE job.state # "QUEUED"
    BY <1>2, <1>5, <1>6, <2>2 DEF SchedulerOK, QueueOK
  <2> QED  BY <2>1, <2>2
<1>11. OwnersOK(t)
  BY <1>6 DEF SchedulerOK, OwnersOK, IsActive
<1> QED  BY <1>3, <1>6, <1>8, <1>9, <1>10, <1>11 DEF SchedulerOK

\* faultline_scheduler_assign: the head of the queue goes to an idle worker.
LEMMA AssignStep ==
  ASSUME NEW s, SchedulerOK(s), s.pending # <<>>, NEW w \in 1..MAX_WORKER_ID,
         ~Busy(s, w), NEW now \in Nat, NotAfter(s, now)
  PROVE  LET id == Head(s.pending)
             t  == Assign(s, w, now)
         IN  /\ AssignOK(s, w, now)
             /\ id \in DOMAIN s.jobs /\ JobAssignOK(s.jobs[id], w, now)
             /\ SchedulerOK(t) /\ DOMAIN t.jobs = DOMAIN s.jobs
             /\ t.jobs[id] = JobAssign(s.jobs[id], w, now)
             /\ \A i \in DOMAIN s.jobs : i # id => t.jobs[i] = s.jobs[i]
<1> DEFINE id == Head(s.pending)
           t  == Assign(s, w, now)
           job == JobAssign(s.jobs[id], w, now)
<1> DEFINE q == Tail(s.pending)
<1>1. /\ s \in SchedulerType /\ s.jobs \in Seq(JobType)
      /\ s.pending \in Seq(1..MAX_JOB_ID)
  BY DEF SchedulerOK, SchedulerType
<1>10. /\ q \in Seq(1..MAX_JOB_ID) /\ NoDuplicates(q)
       /\ id \in Members(s.pending) /\ Members(q) = Members(s.pending) \ {id}
  BY <1>1, PoppedQueue, ZenonT(30) DEF SchedulerOK, QueueOK
<1>2. id \in DOMAIN s.jobs /\ s.jobs[id].state = "QUEUED"
  BY <1>10 DEF SchedulerOK, QueueOK
<1>3. /\ FindSlot(s, id) = id /\ SlotsOf(s, id) # {} /\ s.jobs[id] \in JobType
      /\ s.jobs[id].id = id /\ JobOK(s.jobs[id])
  <2> HIDE DEF id, t, job, q
  <2> QED  BY <1>2, SlotOfJob
<1>4. JobAssignOK(s.jobs[id], w, now)
  BY <1>2 DEF JobAssignOK, CheckTransition, CanTransition, NotAfter
<1>5. AssignOK(s, w, now)
  BY <1>3, <1>4 DEF AssignOK
<1>6. /\ job \in JobType /\ JobOK(job) /\ job.id = id /\ job.state = "ASSIGNED"
      /\ job.worker_id = w
  <2> HIDE DEF id
  <2> QED  BY <1>3, <1>4, AssignJob
<1>7. t = [s EXCEPT !.jobs[id] = job, !.pending = Tail(@)]
  BY <1>3, ZenonT(30) DEF Assign
<1>8. /\ t.jobs = [s.jobs EXCEPT ![id] = job] /\ t.pending = q
      /\ t.next_job_id = s.next_job_id
  BY <1>1, <1>7 DEF SchedulerType
<1> HIDE DEF job, q, id, t
<1>9. /\ t.jobs \in Seq(JobType) /\ Len(t.jobs) = Len(s.jobs)
      /\ DOMAIN t.jobs = DOMAIN s.jobs /\ t.jobs[id] = job
      /\ \A i \in DOMAIN s.jobs : i # id => t.jobs[i] = s.jobs[i]
  BY <1>1, <1>2, <1>6, <1>8
<1>11. t \in SchedulerType
  BY <1>1, <1>7, <1>8, <1>9, <1>10, ZenonT(30) DEF SchedulerType
<1>12. TableOK(t)
  BY <1>6, <1>8, <1>9 DEF SchedulerOK, TableOK
<1>13. QueueOK(t)
  BY <1>6, <1>8, <1>9, <1>10 DEF SchedulerOK, QueueOK
<1>14. OwnersOK(t)
  <2>1. \A i \in DOMAIN s.jobs : ~(IsActive(s.jobs[i]) /\ s.jobs[i].worker_id = w)
    BY DEF Busy, ActiveSlots
  <2> QED  BY <1>6, <1>9, <2>1 DEF SchedulerOK, OwnersOK
<1> QED  BY <1>2, <1>4, <1>5, <1>9, <1>11, <1>12, <1>13, <1>14 DEF SchedulerOK, job, id, t

\* faultline_scheduler_submit: the new job takes the next slot and the tail.
LEMMA SubmitStep ==
  ASSUME NEW s, SchedulerOK(s), NEW task \in Tasks, NEW retries \in 0..MAX_RETRIES,
         NEW now \in Nat, SubmitAdmitted(s, now)
  PROVE  LET id == s.next_job_id
             t  == Submit(s, task, retries, now)
         IN  /\ SubmitOK(s, task, retries, now)
             /\ id = Len(s.jobs) + 1 /\ id \in DOMAIN t.jobs /\ id \in 1..MAX_JOB_ID
             /\ SchedulerOK(t) /\ DOMAIN t.jobs = 1..id /\ Len(t.jobs) = id
             /\ t.jobs[id] = JobInit(id, task, retries, now)
             /\ \A i \in DOMAIN s.jobs : i # id /\ t.jobs[i] = s.jobs[i]
<1> DEFINE id  == s.next_job_id
           t   == Submit(s, task, retries, now)
           job == JobInit(id, task, retries, now)
           q   == Append(s.pending, id)
<1>1. /\ s \in SchedulerType /\ s.jobs \in Seq(JobType)
      /\ s.pending \in Seq(1..MAX_JOB_ID)
      /\ Len(s.jobs) \in Nat /\ DOMAIN s.jobs = 1..Len(s.jobs)
  BY DEF SchedulerOK, SchedulerType
<1>2. /\ id = Len(s.jobs) + 1 /\ id \in 1..MAX_JOB_ID
      /\ Len(s.jobs) < JOB_STORE_CAPACITY /\ id \notin DOMAIN s.jobs
  BY <1>1, SchedulerConstants DEF SchedulerOK, TableOK, SubmitAdmitted
<1>3. job \in JobType /\ JobOK(job)
  BY <1>2, InitJob
<1>4. job.id = id /\ job.state = "QUEUED" /\ job.worker_id = 0
  BY DEF JobInit
<1>5. id \notin Members(s.pending) /\ NoDuplicates(s.pending)
  BY <1>2 DEF SchedulerOK, QueueOK
<1>6. SubmitOK(s, task, retries, now)
  BY <1>2, <1>4, <1>5, QueueHasRoom DEF SubmitOK, QueuePushOK, Members
<1>7. /\ t.jobs = Append(s.jobs, job) /\ t.pending = q
      /\ t.next_job_id = IF id = MAX_JOB_ID THEN 0 ELSE id + 1
      /\ t = [jobs |-> t.jobs, pending |-> t.pending, next_job_id |-> t.next_job_id]
  BY DEF Submit
<1> HIDE DEF id, t, job, q
<1>8. /\ t.jobs \in Seq(JobType) /\ Len(t.jobs) = id /\ DOMAIN t.jobs = 1..id
      /\ t.jobs[id] = job /\ id \in DOMAIN t.jobs
      /\ \A i \in DOMAIN s.jobs : i \in DOMAIN t.jobs /\ i # id /\ t.jobs[i] = s.jobs[i]
      /\ \A i \in DOMAIN t.jobs : i # id => i \in DOMAIN s.jobs
  BY <1>1, <1>2, <1>3, <1>7
<1>10. /\ q \in Seq(1..MAX_JOB_ID) /\ NoDuplicates(q)
       /\ Members(q) = Members(s.pending) \cup {id}
  BY <1>1, <1>2, <1>5, PushedQueue DEF q
<1>11. t \in SchedulerType
  <2>1. t.next_job_id \in 0..MAX_JOB_ID
    BY <1>2, <1>7, SchedulerConstants
  <2> QED  BY <1>7, <1>8, <1>10, <2>1, ZenonT(30) DEF SchedulerType
<1>12. TableOK(t)
  <2>1. \A i \in DOMAIN t.jobs : t.jobs[i].id = i /\ JobOK(t.jobs[i])
    BY <1>3, <1>4, <1>8 DEF SchedulerOK, TableOK
  <2> QED  BY <1>1, <1>2, <1>7, <1>8, <2>1, SchedulerConstants DEF TableOK
<1>13. QueueOK(t)
  BY <1>4, <1>7, <1>8, <1>10 DEF SchedulerOK, QueueOK
<1>14. OwnersOK(t)
  BY <1>4, <1>8 DEF SchedulerOK, OwnersOK, IsActive
<1> QED  BY <1>2, <1>6, <1>8, <1>11, <1>12, <1>13, <1>14 DEF SchedulerOK, id, t, job

-----------------------------------------------------------------------------
(* The worker registry.                                                    *)

\* A lookup finds the one record of an id.
LEMMA RecordSlotOf ==
  ASSUME NEW r, RegistryOK(r), NEW i \in 1..MAX_WORKERS, r.slots[i].state # "UNUSED"
  PROVE  RecordSlot(r, r.slots[i].id) = i /\ RecordSlots(r, r.slots[i].id) # {}
<1>1. RecordSlots(r, r.slots[i].id) = {i}
  BY DEF RecordSlots, RegistryOK
<1> QED  BY <1>1, RegistryConstants DEF RecordSlot

\* A worker is alive when a live record has its id.
LEMMA AliveSlot ==
  ASSUME NEW r, RegistryOK(r), NEW id
  PROVE  Alive(r, id) <=> /\ id # 0
                          /\ \E i \in 1..MAX_WORKERS :
                               r.slots[i].state = "ALIVE" /\ r.slots[i].id = id
<1>1. ASSUME Alive(r, id)
      PROVE  id # 0 /\ \E i \in 1..MAX_WORKERS : r.slots[i].state = "ALIVE" /\ r.slots[i].id = id
  <2>1. PICK i \in 1..MAX_WORKERS : r.slots[i].state # "UNUSED" /\ r.slots[i].id = id
    BY <1>1 DEF Alive, RecordSlots
  <2>2. RecordSlot(r, id) = i
    BY <2>1, RecordSlotOf
  <2> QED  BY <1>1, <2>1, <2>2 DEF Alive
<1>2. ASSUME id # 0, NEW i \in 1..MAX_WORKERS, r.slots[i].state = "ALIVE", r.slots[i].id = id
      PROVE  Alive(r, id)
  BY <1>2, RecordSlotOf DEF Alive
<1> QED  BY <1>1, <1>2

\* A live worker's id was issued.
LEMMA AliveIssued ==
  ASSUME NEW r, RegistryOK(r), NEW id, Alive(r, id)
  PROVE  id \in 1..Issued(r.next_worker_id, MAX_WORKER_ID)
BY AliveSlot DEF RegistryOK

\* Registration keeps the registry consistent and everybody alive.
LEMMA RegisterStep ==
  ASSUME NEW r \in RegistryType, RegistryOK(r), NEW fd \in Nat, NEW now \in Nat,
         RegisterOK(r, fd, now)
  PROVE  LET t == Register(r, fd, now)
         IN  /\ t \in RegistryType /\ RegistryOK(t)
             /\ t.next_worker_id = IF r.next_worker_id = MAX_WORKER_ID
                                   THEN 0 ELSE r.next_worker_id + 1
             /\ \A id : Alive(r, id) => Alive(t, id)
<1> DEFINE t    == Register(r, fd, now)
           slot_ == CHOOSE i \in FreeSlots(r) : \A k \in FreeSlots(r) : i <= k
           id_   == r.next_worker_id
           record == [id |-> id_, fd |-> fd, state |-> "ALIVE", last_heartbeat |-> now]
<1>1. slot_ \in 1..MAX_WORKERS /\ r.slots[slot_].state # "ALIVE"
  <2>1. FreeSlots(r) \in SUBSET Nat /\ FreeSlots(r) # {}
    BY RegistryConstants DEF FreeSlots, RegisterOK
  <2>2. slot_ = First(FreeSlots(r))
    BY DEF First
  <2>3. slot_ \in FreeSlots(r)
    BY <2>1, <2>2, FirstIsLeast
  <2> QED  BY <2>3 DEF FreeSlots
<1>2. id_ \in 1..MAX_WORKER_ID
  BY RegistryConstants DEF RegisterOK, RegistryType
<1>3. /\ t.slots = [r.slots EXCEPT ![slot_] = record]
      /\ t.next_worker_id = IF id_ = MAX_WORKER_ID THEN 0 ELSE id_ + 1
      /\ t = [slots |-> t.slots, next_worker_id |-> t.next_worker_id]
  BY DEF Register
<1>4. record \in [id : 0..MAX_WORKER_ID, fd : Int, state : WorkerStates, last_heartbeat : Int]
  BY <1>2 DEF WorkerStates
<1>5. r.slots \in [1..MAX_WORKERS -> [id : 0..MAX_WORKER_ID, fd : Int, state : WorkerStates,
                                      last_heartbeat : Int]]
  BY DEF RegistryType
<1> DEFINE rec == record
<1>6. rec.id = id_ /\ rec.state = "ALIVE"
  OBVIOUS
<1> HIDE DEF t, slot_, rec, id_
<1>7. /\ t.slots \in [1..MAX_WORKERS -> [id : 0..MAX_WORKER_ID, fd : Int, state : WorkerStates,
                                         last_heartbeat : Int]]
      /\ t.slots[slot_].id = id_ /\ t.slots[slot_].state = "ALIVE"
      /\ \A i \in 1..MAX_WORKERS : i # slot_ => t.slots[i] = r.slots[i]
  BY <1>1, <1>3, <1>4, <1>5, <1>6, ZenonT(30) DEF rec
<1>8. t \in RegistryType
  <2>1. t.next_worker_id \in 0..MAX_WORKER_ID
    BY <1>2, <1>3, RegistryConstants
  <2> QED  BY <1>3, <1>7, <2>1, ZenonT(30) DEF RegistryType
<1>9. /\ Issued(r.next_worker_id, MAX_WORKER_ID) = id_ - 1
      /\ Issued(t.next_worker_id, MAX_WORKER_ID) = id_
  BY <1>2, <1>3, RegistryConstants DEF Issued, id_
<1>10. \A i \in 1..MAX_WORKERS :
         r.slots[i].state # "UNUSED" => r.slots[i].id \in 1..id_ - 1 /\ r.slots[i].id # id_
  BY <1>2, <1>9 DEF RegistryOK
<1>11. RegistryOK(t)
  <2>1. \A i \in 1..MAX_WORKERS : t.slots[i].state # "UNUSED" => t.slots[i].id \in 1..id_
    <3>1. SUFFICES ASSUME NEW i \in 1..MAX_WORKERS, t.slots[i].state # "UNUSED"
                   PROVE  t.slots[i].id \in 1..id_
      OBVIOUS
    <3>2. CASE i = slot_
      <4>1. t.slots[i].id = id_
        BY <1>7, <3>2
      <4> QED  BY <1>2, <4>1
    <3>3. CASE i # slot_
      <4>1. t.slots[i] = r.slots[i]
        BY <1>7, <3>3
      <4>2. r.slots[i].id \in 1..id_ - 1
        BY <1>10, <3>1, <4>1
      <4> QED  BY <1>2, <4>1, <4>2
    <3> QED  BY <3>2, <3>3
  <2>2. \A i, k \in 1..MAX_WORKERS :
          (t.slots[i].state # "UNUSED" /\ t.slots[k].state # "UNUSED"
           /\ t.slots[i].id = t.slots[k].id) => i = k
    BY <1>1, <1>7, <1>10 DEF RegistryOK
  <2> QED  BY <1>9, <2>1, <2>2 DEF RegistryOK
<1>12. ASSUME NEW id, Alive(r, id)
       PROVE  Alive(t, id)
  <2>1. PICK i \in 1..MAX_WORKERS : r.slots[i].state = "ALIVE" /\ r.slots[i].id = id
    BY <1>12, AliveSlot
  <2>2. t.slots[i] = r.slots[i] /\ id # 0
    BY <1>1, <1>7, <1>12, <2>1 DEF Alive
  <2> QED  BY <1>11, <2>1, <2>2, AliveSlot
<1> QED  BY <1>3, <1>8, <1>11, <1>12 DEF t, id_

\* The death of a worker without an attempt leaves every owner alive.
LEMMA MarkDeadStep ==
  ASSUME NEW r \in RegistryType, RegistryOK(r), NEW w, NEW fd, LiveConnection(r, w, fd)
  PROVE  LET t == MarkDead(r, w, fd)
         IN  /\ t \in RegistryType /\ RegistryOK(t) /\ t.next_worker_id = r.next_worker_id
             /\ \A id : Alive(r, id) /\ id # w => Alive(t, id)
<1> DEFINE t == MarkDead(r, w, fd)
           i == RecordSlot(r, w)
<1>1. PICK k \in 1..MAX_WORKERS : r.slots[k].state = "ALIVE" /\ r.slots[k].id = w
  BY AliveSlot DEF LiveConnection
<1>2. i = k
  BY <1>1, RecordSlotOf
<1>3. t = [r EXCEPT !.slots[i].state = "DEAD", !.slots[i].fd = -1]
  BY DEF MarkDead
<1>4. /\ r = [slots |-> r.slots, next_worker_id |-> r.next_worker_id]
      /\ r.next_worker_id \in 0..MAX_WORKER_ID
      /\ r.slots \in [1..MAX_WORKERS -> [id : 0..MAX_WORKER_ID, fd : Int, state : WorkerStates,
                                         last_heartbeat : Int]]
  BY DEF RegistryType
<1> HIDE DEF i, t
<1>5. /\ t.next_worker_id = r.next_worker_id
      /\ t = [slots |-> t.slots, next_worker_id |-> t.next_worker_id]
      /\ t.slots = [r.slots EXCEPT ![i] = [r.slots[i] EXCEPT !.state = "DEAD", !.fd = -1]]
  BY <1>1, <1>2, <1>3, <1>4, ZenonT(30)
<1> DEFINE dead == [r.slots[i] EXCEPT !.state = "DEAD", !.fd = -1]
<1>6. r.slots[i] \in [id : 0..MAX_WORKER_ID, fd : Int, state : WorkerStates, last_heartbeat : Int]
  BY <1>2, <1>4, ZenonT(30)
<1>7. /\ dead \in [id : 0..MAX_WORKER_ID, fd : Int, state : WorkerStates, last_heartbeat : Int]
      /\ dead.id = r.slots[i].id /\ dead.state = "DEAD"
  <2>1. -1 \in Int /\ "DEAD" \in WorkerStates
    BY DEF WorkerStates
  <2>2. dead.id = r.slots[i].id /\ dead.state = "DEAD"
    BY <1>6
  <2>3. dead \in [id : 0..MAX_WORKER_ID, fd : Int, state : WorkerStates, last_heartbeat : Int]
    BY <1>6, <2>1, ZenonT(30)
  <2> QED  BY <2>2, <2>3
<1> HIDE DEF dead
<1>8. /\ t.slots \in [1..MAX_WORKERS -> [id : 0..MAX_WORKER_ID, fd : Int, state : WorkerStates,
                                         last_heartbeat : Int]]
      /\ t.slots[i] = dead /\ \A j \in 1..MAX_WORKERS : j # i => t.slots[j] = r.slots[j]
  BY <1>2, <1>4, <1>5, <1>7, ZenonT(30) DEF dead
<1>9. t \in RegistryType
  BY <1>4, <1>5, <1>8, ZenonT(30) DEF RegistryType
<1>10. \A j \in 1..MAX_WORKERS : /\ t.slots[j].id = r.slots[j].id
                                 /\ t.slots[j].state = "UNUSED" <=> r.slots[j].state = "UNUSED"
  BY <1>1, <1>2, <1>7, <1>8
<1>11. RegistryOK(t)
  BY <1>5, <1>10 DEF RegistryOK
<1>12. ASSUME NEW id, Alive(r, id), id # w
       PROVE  Alive(t, id)
  <2>1. PICK j \in 1..MAX_WORKERS : r.slots[j].state = "ALIVE" /\ r.slots[j].id = id
    BY <1>12, AliveSlot
  <2>2. t.slots[j] = r.slots[j] /\ id # 0
    BY <1>1, <1>2, <1>8, <1>12, <2>1 DEF Alive
  <2> QED  BY <1>11, <2>1, <2>2, AliveSlot
<1> QED  BY <1>5, <1>9, <1>11, <1>12 DEF t

\* The table a new coordinator starts with.
LEMMA EmptyTable == SchedulerOK(SchedulerInit)
<1>1. SchedulerInit \in SchedulerType
  BY SchedulerConstants DEF SchedulerInit, SchedulerType
<1>2. /\ SchedulerInit.jobs = <<>> /\ SchedulerInit.pending = <<>>
      /\ SchedulerInit.next_job_id = 1
  BY DEF SchedulerInit
<1>3. TableOK(SchedulerInit)
  BY <1>2, SchedulerConstants DEF TableOK
<1>4. QueueOK(SchedulerInit) /\ OwnersOK(SchedulerInit)
  BY <1>2 DEF QueueOK, OwnersOK, NoDuplicates, Members
<1> QED  BY <1>1, <1>3, <1>4 DEF SchedulerOK

\* An active attempt has an owner and a number.
LEMMA ActiveOwned ==
  ASSUME NEW s, SchedulerOK(s), NEW k \in DOMAIN s.jobs, IsActive(s.jobs[k])
  PROVE  /\ s.jobs[k].worker_id \in 1..MAX_WORKER_ID
         /\ s.jobs[k].attempt \in Nat \ {0} /\ s.jobs[k].attempt = s.jobs[k].retry_count + 1
<1> DEFINE old == s.jobs[k]
<1>1. old \in JobType /\ JobOK(old)
  BY SlotOfJob
<1>2. old.worker_id # 0 /\ old.attempt = old.retry_count + 1
  <2> HIDE DEF old
  <2>1. IsActive(old)
    BY DEF old
  <2> QED  BY <1>1, <2>1 DEF IsActive, JobOK, SnapshotType, RecordType, ValidJob, ValidOwned
<1>3. old.worker_id \in 0..MAX_WORKER_ID /\ old.retry_count \in Nat
  <2> HIDE DEF old
  <2> QED  BY <1>1 DEF JobType
<1> HIDE DEF old
<1>4. old.worker_id \in 1..MAX_WORKER_ID /\ old.attempt \in Nat \ {0}
  BY <1>2, <1>3, RegistryConstants
<1> QED  BY <1>2, <1>4 DEF old

-----------------------------------------------------------------------------
(* The registry, slot by slot.                                             *)

WorkerType ==
  [id : 0..MAX_WORKER_ID, fd : Int, state : WorkerStates, last_heartbeat : Int]

\* Slot k of registry r becomes record, and nothing else changes.
SlotReplaced(r, t, k, record) ==
  /\ t.slots[k] = record
  /\ \A j \in 1..MAX_WORKERS : j # k => t.slots[j] = r.slots[j]

\* A registry is two fields, and its slots are typed.
LEMMA RegistryShape ==
  ASSUME NEW r \in RegistryType
  PROVE  /\ r = [slots |-> r.slots, next_worker_id |-> r.next_worker_id]
         /\ r.next_worker_id \in 0..MAX_WORKER_ID
         /\ r.slots \in [1..MAX_WORKERS -> WorkerType]
BY ZenonT(30) DEF RegistryType, WorkerType

\* Replacing a slot of a consistent registry by a typed record of the same
\* worker keeps it consistent.
LEMMA ReplacedSlot ==
  ASSUME NEW r \in RegistryType, RegistryOK(r), NEW k \in 1..MAX_WORKERS,
         NEW record \in WorkerType, record.id = r.slots[k].id,
         record.state # "UNUSED", r.slots[k].state # "UNUSED"
  PROVE  LET t == [r EXCEPT !.slots[k] = record]
         IN  /\ t \in RegistryType /\ RegistryOK(t) /\ SlotReplaced(r, t, k, record)
             /\ t.next_worker_id = r.next_worker_id
<1> DEFINE t == [r EXCEPT !.slots[k] = record]
<1>1. /\ r = [slots |-> r.slots, next_worker_id |-> r.next_worker_id]
      /\ r.next_worker_id \in 0..MAX_WORKER_ID
      /\ r.slots \in [1..MAX_WORKERS -> WorkerType]
  BY RegistryShape
<1>2. t.slots = [r.slots EXCEPT ![k] = record] /\ t.next_worker_id = r.next_worker_id
  BY <1>1, ZenonT(30)
<1>3. t = [slots |-> t.slots, next_worker_id |-> t.next_worker_id]
  BY <1>1
<1> HIDE DEF t
<1>4. t.slots \in [1..MAX_WORKERS -> WorkerType] /\ SlotReplaced(r, t, k, record)
  <2> HIDE DEF WorkerType
  <2> QED  BY <1>1, <1>2, ZenonT(30), SMTT(60) DEF SlotReplaced
<1>5. t \in RegistryType
  BY <1>1, <1>2, <1>3, <1>4, ZenonT(30) DEF RegistryType, WorkerType
<1>6. \A j \in 1..MAX_WORKERS : /\ t.slots[j].id = r.slots[j].id
                                /\ t.slots[j].state = "UNUSED" <=> r.slots[j].state = "UNUSED"
  BY <1>4 DEF SlotReplaced
<1>7. RegistryOK(t)
  BY <1>2, <1>6 DEF RegistryOK
<1> QED  BY <1>2, <1>4, <1>5, <1>7 DEF t

\* A live connection is a live record with its identity and descriptor.
LEMMA LiveSlot ==
  ASSUME NEW r, RegistryOK(r), NEW id, NEW fd
  PROVE  LiveConnection(r, id, fd) <=>
           /\ id # 0
           /\ \E k \in 1..MAX_WORKERS :
                /\ r.slots[k].state = "ALIVE" /\ r.slots[k].id = id /\ r.slots[k].fd = fd
                /\ RecordSlot(r, id) = k /\ RecordSlots(r, id) # {}
<1>1. ASSUME NEW k \in 1..MAX_WORKERS, r.slots[k].state = "ALIVE", r.slots[k].id = id
      PROVE  RecordSlot(r, id) = k /\ RecordSlots(r, id) # {}
  BY <1>1, RecordSlotOf
<1>2. ASSUME LiveConnection(r, id, fd)
      PROVE  /\ id # 0
             /\ \E k \in 1..MAX_WORKERS :
                  /\ r.slots[k].state = "ALIVE" /\ r.slots[k].id = id /\ r.slots[k].fd = fd
                  /\ RecordSlot(r, id) = k /\ RecordSlots(r, id) # {}
  <2>1. id # 0 /\ \E k \in 1..MAX_WORKERS : r.slots[k].state = "ALIVE" /\ r.slots[k].id = id
    BY <1>2, AliveSlot DEF LiveConnection
  <2>2. PICK k \in 1..MAX_WORKERS : r.slots[k].state = "ALIVE" /\ r.slots[k].id = id
    BY <2>1
  <2> QED  BY <1>1, <1>2, <2>1, <2>2 DEF LiveConnection
<1>3. ASSUME NEW k \in 1..MAX_WORKERS, id # 0, r.slots[k].state = "ALIVE",
             r.slots[k].id = id, r.slots[k].fd = fd
      PROVE  LiveConnection(r, id, fd)
  BY <1>1, <1>3 DEF LiveConnection, Alive
<1> QED  BY <1>2, <1>3

\* The death of a live connection frees its slot.
LEMMA DeadSlot ==
  ASSUME NEW r \in RegistryType, RegistryOK(r), NEW k \in 1..MAX_WORKERS,
         r.slots[k].state = "ALIVE", r.slots[k].id # 0
  PROVE  LET t == MarkDead(r, r.slots[k].id, r.slots[k].fd)
         IN  /\ t \in RegistryType /\ RegistryOK(t)
             /\ SlotReplaced(r, t, k, [r.slots[k] EXCEPT !.state = "DEAD", !.fd = -1])
             /\ t.next_worker_id = r.next_worker_id
<1> DEFINE record == [r.slots[k] EXCEPT !.state = "DEAD", !.fd = -1]
<1>1. LiveConnection(r, r.slots[k].id, r.slots[k].fd) /\ RecordSlot(r, r.slots[k].id) = k
  BY LiveSlot, RecordSlotOf
<1>2. /\ r = [slots |-> r.slots, next_worker_id |-> r.next_worker_id]
      /\ r.slots \in [1..MAX_WORKERS -> WorkerType]
  BY RegistryShape
<1>3. MarkDead(r, r.slots[k].id, r.slots[k].fd) =
        [r EXCEPT !.slots[k].state = "DEAD", !.slots[k].fd = -1]
  BY <1>1 DEF MarkDead
<1>4. [r EXCEPT !.slots[k].state = "DEAD", !.slots[k].fd = -1] = [r EXCEPT !.slots[k] = record]
  <2>1. r.slots[k] \in WorkerType
    BY <1>2, ZenonT(30), SMTT(60)
  <2> QED  BY <1>2, <2>1, ZenonT(30)
<1>5. record \in WorkerType /\ record.id = r.slots[k].id /\ record.state = "DEAD"
  <2>1. r.slots[k] \in WorkerType
    BY <1>2
  <2>2. -1 \in Int /\ "DEAD" \in WorkerStates
    BY DEF WorkerStates
  <2>3. record \in WorkerType
    BY <2>1, <2>2, ZenonT(30) DEF WorkerType
  <2> QED  BY <2>1, <2>3 DEF WorkerType
<1> HIDE DEF record
<1>6. LET t == [r EXCEPT !.slots[k] = record]
      IN  /\ t \in RegistryType /\ RegistryOK(t) /\ SlotReplaced(r, t, k, record)
          /\ t.next_worker_id = r.next_worker_id
  BY <1>5, ReplacedSlot
<1> QED  BY <1>3, <1>4, <1>6 DEF record

\* A registration takes a slot that held no live worker, under a new identity.
LEMMA RegisteredSlot ==
  ASSUME NEW r \in RegistryType, RegistryOK(r), NEW fd \in Nat, NEW now \in Nat,
         RegisterOK(r, fd, now)
  PROVE  LET t  == Register(r, fd, now)
             id == r.next_worker_id
         IN  /\ t \in RegistryType /\ RegistryOK(t) /\ id \in 1..MAX_WORKER_ID
             /\ \A j \in 1..MAX_WORKERS : r.slots[j].state = "ALIVE" => r.slots[j].id # id
             /\ \E k \in 1..MAX_WORKERS :
                  /\ r.slots[k].state # "ALIVE"
                  /\ SlotReplaced(r, t, k, [id |-> id, fd |-> fd, state |-> "ALIVE",
                                            last_heartbeat |-> now])
<1> DEFINE t    == Register(r, fd, now)
           id   == r.next_worker_id
           slot == CHOOSE i \in FreeSlots(r) : \A k \in FreeSlots(r) : i <= k
<1>1. t \in RegistryType /\ RegistryOK(t)
  BY RegisterStep
<1>2. slot \in 1..MAX_WORKERS /\ r.slots[slot].state # "ALIVE"
  <2>1. FreeSlots(r) \in SUBSET Nat /\ FreeSlots(r) # {}
    BY RegistryConstants DEF FreeSlots, RegisterOK
  <2>2. slot = First(FreeSlots(r))
    BY DEF First
  <2>3. slot \in FreeSlots(r)
    BY <2>1, <2>2, FirstIsLeast
  <2> QED  BY <2>3 DEF FreeSlots
<1>3. id \in 1..MAX_WORKER_ID
  BY RegistryConstants DEF RegisterOK, RegistryType
<1>4. \A j \in 1..MAX_WORKERS : r.slots[j].state = "ALIVE" => r.slots[j].id # id
  BY <1>3, RegistryConstants DEF RegistryOK, Issued
<1>5. t.slots = [r.slots EXCEPT ![slot] =
                   [id |-> id, fd |-> fd, state |-> "ALIVE", last_heartbeat |-> now]]
  BY DEF Register
<1>6. r.slots \in [1..MAX_WORKERS -> WorkerType]
  BY RegistryShape
<1> HIDE DEF slot, id, t
<1>7. SlotReplaced(r, t, slot, [id |-> id, fd |-> fd, state |-> "ALIVE",
                                last_heartbeat |-> now])
  <2> HIDE DEF WorkerType
  <2> QED  BY <1>2, <1>5, <1>6, ZenonT(30), SMTT(60) DEF SlotReplaced
<1> QED  BY <1>1, <1>2, <1>3, <1>4, <1>7 DEF t, id

\* A heartbeat changes the time of its worker's record.
LEMMA HeartbeatSlot ==
  ASSUME NEW r \in RegistryType, RegistryOK(r), NEW id, NEW fd,
         LiveConnection(r, id, fd), NEW now \in Nat
  PROVE  LET t == Heartbeat(r, id, now)
         IN  /\ t \in RegistryType /\ RegistryOK(t)
             /\ \E k \in 1..MAX_WORKERS :
                  /\ r.slots[k].state = "ALIVE" /\ r.slots[k].id = id
                  /\ RecordSlot(r, id) = k /\ RecordSlots(r, id) # {}
                  /\ SlotReplaced(r, t, k, [r.slots[k] EXCEPT !.last_heartbeat = now])
<1>1. PICK k \in 1..MAX_WORKERS :
        /\ r.slots[k].state = "ALIVE" /\ r.slots[k].id = id
        /\ RecordSlot(r, id) = k /\ RecordSlots(r, id) # {}
  BY LiveSlot
<1> DEFINE record == [r.slots[k] EXCEPT !.last_heartbeat = now]
<1>2. /\ r = [slots |-> r.slots, next_worker_id |-> r.next_worker_id]
      /\ r.slots \in [1..MAX_WORKERS -> WorkerType]
  BY RegistryShape
<1>3. r.slots[k] \in WorkerType
  BY <1>2, ZenonT(30), SMTT(60)
<1>4. Heartbeat(r, id, now) = [r EXCEPT !.slots[k] = record]
  <2>1. Heartbeat(r, id, now) = [r EXCEPT !.slots[k].last_heartbeat = now]
    BY <1>1 DEF Heartbeat
  <2> QED  BY <1>2, <1>3, <2>1, ZenonT(30)
<1>5. record \in WorkerType /\ record.id = r.slots[k].id /\ record.state = "ALIVE"
  <2>1. now \in Int
    OBVIOUS
  <2>2. record \in WorkerType
    BY <1>3, <2>1, ZenonT(30) DEF WorkerType
  <2> QED  BY <1>1, <1>3, <2>2 DEF WorkerType
<1> HIDE DEF record
<1>6. LET t == [r EXCEPT !.slots[k] = record]
      IN  /\ t \in RegistryType /\ RegistryOK(t) /\ SlotReplaced(r, t, k, record)
  BY <1>1, <1>5, ReplacedSlot
<1> QED  BY <1>1, <1>4, <1>6 DEF record

-----------------------------------------------------------------------------
(* What an operation may do to a job, for those who were told about it.    *)

\* An assignment takes a job that has not ended to its next attempt.
LEMMA AssignGrows ==
  ASSUME NEW old \in JobType, old.state = "QUEUED", NEW w, NEW now
  PROVE  LET job == JobAssign(old, w, now)
         IN  /\ JobGrows(old, job) /\ ~Completes(old, job) /\ ~Fails(old, job)
             /\ job.attempt = old.attempt + 1 /\ job.task = old.task
             /\ job.state = "ASSIGNED" /\ job.worker_id = w
BY DEF JobAssign, JobType, JobGrows, Completes, Fails, Ended

\* The same attempt of the same job.
SameAttempt(old, job) ==
  /\ job.id = old.id /\ job.attempt = old.attempt /\ job.worker_id = old.worker_id
  /\ job.task = old.task

\* The start of an attempt.
LEMMA StartGrows ==
  ASSUME NEW old \in JobType, IsActive(old), NEW now
  PROVE  LET job == JobStart(old, now)
         IN  /\ JobGrows(old, job) /\ ~Completes(old, job) /\ ~Fails(old, job)
             /\ job.state = "RUNNING" /\ SameAttempt(old, job)
BY DEF JobStart, JobType, JobGrows, Completes, Fails, Ended, IsActive, SameAttempt

\* Its completion.
LEMMA CompleteGrows ==
  ASSUME NEW old \in JobType, IsActive(old), NEW result, NEW now
  PROVE  LET job == JobComplete(old, result, now)
         IN  /\ JobGrows(old, job) /\ ~Fails(old, job)
             /\ job.state = "DONE" /\ job.result = result /\ job.attempt = old.attempt
BY DEF JobComplete, JobType, JobGrows, Fails, Ended, IsActive

\* Its failure.
LEMMA FailureGrows ==
  ASSUME NEW old \in JobType, IsActive(old), NEW failure, NEW now
  PROVE  LET job == JobFail(old, failure, now)
         IN  /\ JobGrows(old, job) /\ ~Completes(old, job) /\ job.attempt = old.attempt
             /\ job.failure = failure /\ ~IsActive(job)
BY DEF JobFail, FailNext, JobType, JobGrows, Completes, Ended, IsActive

\* A table that does not change tells nobody anything.
LEMMA NothingReported ==
  ASSUME NEW s, SchedulerOK(s)
  PROVE  Unreported(s, s)
<1>1. \A k \in DOMAIN s.jobs : s.jobs[k].attempt \in Nat
  BY SlotOfJob DEF JobType
<1> QED  BY <1>1 DEF Unreported, Grows, JobGrows, Completes, Fails

\* Two changes in a row, neither of which ends an attempt.
LEMMA NeitherReported ==
  ASSUME NEW s, NEW t, NEW u, SchedulerOK(s), SchedulerOK(t), SchedulerOK(u),
         Unreported(s, t), Unreported(t, u)
  PROVE  Unreported(s, u)
<1>1. SUFFICES ASSUME NEW k \in DOMAIN s.jobs
               PROVE  /\ JobGrows(s.jobs[k], u.jobs[k]) /\ ~Completes(s.jobs[k], u.jobs[k])
                      /\ ~Fails(s.jobs[k], u.jobs[k])
  BY DEF Unreported, Grows
<1> DEFINE a == s.jobs[k]
           b == t.jobs[k]
           c == u.jobs[k]
<1>2. /\ JobGrows(a, b) /\ ~Completes(a, b) /\ ~Fails(a, b)
      /\ JobGrows(b, c) /\ ~Completes(b, c) /\ ~Fails(b, c)
  BY DEF Unreported, Grows
<1>3. a.attempt \in Nat /\ b.attempt \in Nat /\ c.attempt \in Nat
  <2>1. k \in DOMAIN t.jobs /\ k \in DOMAIN u.jobs
    BY DEF Unreported
  <2> QED  BY <2>1, SlotOfJob DEF JobType
<1> HIDE DEF a, b, c
<1>4. JobGrows(a, c) /\ ~Completes(a, c) /\ ~Fails(a, c)
  BY <1>2, <1>3 DEF JobGrows, Completes, Fails, Ended
<1> QED  BY <1>4 DEF a, b, c

-----------------------------------------------------------------------------
(* Outcomes of active attempts, and recovery.                              *)

\* One outcome of an active attempt that is published: the table stays
\* consistent, and no other job changes.
Outcome(s, t, id, now) ==
  /\ SchedulerOK(t) /\ NotAfter(t, now) /\ DOMAIN t.jobs = DOMAIN s.jobs
  /\ \A k \in DOMAIN s.jobs : k # id => t.jobs[k] = s.jobs[k]
  /\ t.jobs[id].state # "ASSIGNED"
  /\ IsActive(t.jobs[id]) => SameAttempt(s.jobs[id], t.jobs[id])

\* The loss of the worker of an active attempt ends that attempt, and is
\* always accepted: commit_worker_loss cannot fail before it writes.
LEMMA AttemptLost ==
  ASSUME NEW s, SchedulerOK(s), NEW now \in Nat, NotAfter(s, now), NEW id \in DOMAIN s.jobs,
         IsActive(s.jobs[id])
  PROVE  LET w == s.jobs[id].worker_id
             t == WorkerLost(s, w, now)
         IN  /\ Busy(s, w) /\ WorkerLostOK(s, w, now)
             /\ Outcome(s, t, id, now) /\ ~IsActive(t.jobs[id]) /\ Unreported(s, t)
<1> DEFINE old == s.jobs[id]
           w   == old.worker_id
           job == JobFail(old, "WORKER_LOST", now)
           t   == Publish(s, id, job)
<1>1. /\ old \in JobType /\ JobOK(old) /\ old.id = id /\ FindSlot(s, id) = id
  BY SlotOfJob
<1>2. w # 0 /\ old.attempt # 0 /\ old.updated_at <= now
  BY ActiveOwned DEF NotAfter
<1>3. Busy(s, w) /\ Active(s, w) = old
  BY <1>2, ActiveSlot
<1>4. JobFailOK(old, w, old.attempt, "WORKER_LOST", now)
  <2>1. IsActive(old)
    OBVIOUS
  <2> HIDE DEF old
  <2> QED  BY <1>2, <2>1
           DEF JobFailOK, CheckTransition, CanTransition, CheckAttempt, FailNext, IsActive, w
<1>5. /\ job \in JobType /\ JobOK(job) /\ job.id = id /\ job.state \in {"QUEUED", "FAILED"}
      /\ job.updated_at = now /\ (job.state = "QUEUED" => job.worker_id = 0)
  <2> HIDE DEF old
  <2> QED  BY <1>1, <1>4, FailJob
<1>9. JobGrows(old, job) /\ ~Completes(old, job) /\ job.failure = "WORKER_LOST"
  <2>1. IsActive(old)
    OBVIOUS
  <2> HIDE DEF old
  <2> QED  BY <1>1, <2>1, FailureGrows
<1> HIDE DEF job
<1>6. /\ PublishOK(s, job) /\ SchedulerOK(t)
      /\ DOMAIN t.jobs = DOMAIN s.jobs /\ t.jobs[id] = job
      /\ \A i \in DOMAIN s.jobs : i # id => t.jobs[i] = s.jobs[i]
  BY <1>5, PublishStep
<1>7. WorkerLostOK(s, w, now) /\ WorkerLost(s, w, now) = t
  BY <1>1, <1>3, <1>4, <1>6 DEF WorkerLostOK, WorkerLost, job
<1> HIDE DEF t
<1>8. NotAfter(t, now)
  BY <1>5, <1>6 DEF NotAfter
<1>10. Unreported(s, t)
  <2>1. Unreported(s, s)
    BY NothingReported
  <2> QED  BY <1>6, <1>9, <2>1 DEF Unreported, Grows, Fails
<1> QED  BY <1>3, <1>5, <1>6, <1>7, <1>8, <1>10 DEF Outcome, IsActive

\* A report the loop accepts ends its worker's attempt or starts it, and is
\* always published.
LEMMA AttemptReported ==
  ASSUME NEW s, SchedulerOK(s), NEW now \in Nat, NotAfter(s, now), NEW w, NEW r,
         r.job_id \in Nat, r.failure = "TASK", r.type = "JOB_COMPLETED" => r.result \in Results,
         ReportAccepted(s, w, r, now)
  PROVE  /\ r.job_id \in DOMAIN s.jobs /\ IsActive(s.jobs[r.job_id])
         /\ ReportOK(s, r, now) /\ Outcome(s, Report(s, r, now), r.job_id, now)
<1> DEFINE id  == r.job_id
           old == s.jobs[id]
           job == Reported(old, r, now)
           t   == Publish(s, id, job)
<1>1. id \in DOMAIN s.jobs
  BY KnownJob DEF ReportAccepted
<1>   old \in JobType /\ JobOK(old) /\ old.id = id /\ FindSlot(s, id) = id
  <2> HIDE DEF id
  <2> QED  BY <1>1, SlotOfJob
<1>3. \/ /\ r.type = "JOB_STARTED" /\ job = JobStart(old, now)
         /\ JobStartOK(old, w, r.attempt, now)
      \/ /\ r.type = "JOB_COMPLETED" /\ job = JobComplete(old, r.result, now)
         /\ JobCompleteOK(old, w, r.attempt, now)
      \/ /\ r.type = "JOB_FAILED" /\ job = JobFail(old, "TASK", now)
         /\ JobFailOK(old, w, r.attempt, "TASK", now)
  BY DEF ReportAccepted, Reported
<1> DEFINE good ==
      /\ IsActive(old) /\ job \in JobType /\ JobOK(job) /\ job.id = id /\ job.updated_at = now
      /\ job.state \in {"RUNNING", "DONE", "QUEUED", "FAILED"}
      /\ job.state = "RUNNING" => SameAttempt(old, job)
      /\ job.state = "QUEUED" => job.worker_id = 0
<1>5. good
  <2> HIDE DEF id, old
  <2>1. CASE r.type = "JOB_STARTED" /\ job = JobStart(old, now)
                /\ JobStartOK(old, w, r.attempt, now)
    <3>1. job.task = old.task
      BY <2>1, ZenonT(30), SMTT(60) DEF JobStart, JobType
    <3> HIDE DEF job
    <3>2. /\ job \in JobType /\ JobOK(job) /\ job.id = old.id /\ job.state = "RUNNING"
          /\ job.worker_id = old.worker_id /\ job.attempt = old.attempt
          /\ job.updated_at = now /\ IsActive(old)
      BY <2>1, StartJob
    <3> QED  BY <3>1, <3>2 DEF SameAttempt
  <2>2. CASE r.type = "JOB_COMPLETED" /\ job = JobComplete(old, r.result, now)
                /\ JobCompleteOK(old, w, r.attempt, now)
    <3> HIDE DEF job
    <3> QED  BY <2>2, CompleteJob
  <2>3. CASE r.type = "JOB_FAILED" /\ job = JobFail(old, "TASK", now)
                /\ JobFailOK(old, w, r.attempt, "TASK", now)
    <3> HIDE DEF job
    <3> QED  BY <2>3, FailJob
  <2> QED  BY <1>3, <2>1, <2>2, <2>3
<1> HIDE DEF job
<1>6. /\ PublishOK(s, job) /\ SchedulerOK(t)
      /\ DOMAIN t.jobs = DOMAIN s.jobs /\ t.jobs[id] = job
      /\ \A i \in DOMAIN s.jobs : i # id => t.jobs[i] = s.jobs[i]
  BY <1>1, <1>5, PublishStep DEF SameAttempt
<1>7. ReportOK(s, r, now) /\ Report(s, r, now) = t
  BY <1>6 DEF ReportOK, Report, job
<1> HIDE DEF t
<1>8. NotAfter(t, now)
  BY <1>5, <1>6 DEF NotAfter
<1> QED  BY <1>1, <1>5, <1>6, <1>7, <1>8 DEF Outcome, IsActive

\* The tables that recover_interrupted_jobs goes through exist.
LEMMA RecoveryDefined ==
  ASSUME NEW s, NEW now, NEW n \in Nat
  PROVE  \E f : f = [k \in 0..n |-> IF k = 0 THEN s ELSE SlotRecovered(f[k - 1], k, now)]
<1> DEFINE Defined(j) ==
             \E f : f = [k \in 0..j |-> IF k = 0 THEN s ELSE SlotRecovered(f[k - 1], k, now)]
           T == {j \in Nat : ~Defined(j)}
<1>1. SUFFICES ASSUME T # {} PROVE FALSE
  BY ZenonT(30), SMTT(60)
<1> DEFINE j == First(T)
<1>2. j \in T /\ \A k \in T : j <= k
  <2>1. T \in SUBSET Nat
    OBVIOUS
  <2> HIDE DEF T
  <2> QED  BY <1>1, <2>1, FirstIsLeast
<1> HIDE DEF j
<1>   j \in Nat /\ ~Defined(j)
  BY <1>2
<1>4. j # 0
  <2>1. Defined(0)
    <3> DEFINE f == [k \in 0..0 |-> s]
    <3>1. f = [k \in 0..0 |-> IF k = 0 THEN s ELSE SlotRecovered(f[k - 1], k, now)]
      OBVIOUS
    <3> QED  BY <3>1, ZenonT(30), SMTT(60)
  <2> QED  BY <2>1
<1>5. j - 1 \in Nat /\ Defined(j - 1)
  <2>1. j - 1 \in Nat /\ ~(j <= j - 1)
    BY <1>4
  <2>2. j - 1 \notin T
    BY <1>2, <2>1
  <2> QED  BY <2>1, <2>2
<1>6. PICK f : f = [k \in 0..(j - 1) |-> IF k = 0 THEN s ELSE SlotRecovered(f[k - 1], k, now)]
  BY <1>5
<1> DEFINE g == [k \in 0..j |-> IF k = j THEN SlotRecovered(f[j - 1], j, now) ELSE f[k]]
<1>7. \A k \in 0..j : g[k] = IF k = 0 THEN s ELSE SlotRecovered(g[k - 1], k, now)
  <2>1. SUFFICES ASSUME NEW k \in 0..j
                 PROVE  g[k] = IF k = 0 THEN s ELSE SlotRecovered(g[k - 1], k, now)
    OBVIOUS
  <2>2. CASE k = j
    <3>1. g[k - 1] = f[j - 1] /\ k # 0
      BY <1>4, <2>2
    <3> QED  BY <2>2, <3>1
  <2>3. CASE k # j
    <3>1. k \in 0..(j - 1) /\ g[k] = f[k]
      BY <2>3
    <3>2. f[k] = IF k = 0 THEN s ELSE SlotRecovered(f[k - 1], k, now)
      BY <1>6, <3>1, ZenonT(30)
    <3>3. k # 0 => g[k - 1] = f[k - 1]
      BY <2>3
    <3> QED  BY <3>1, <3>2, <3>3
  <2> QED  BY <2>2, <2>3
<1>8. g = [k \in 0..j |-> IF k = 0 THEN s ELSE SlotRecovered(g[k - 1], k, now)]
  <2>1. g = [k \in 0..j |-> g[k]]
    BY ZenonT(30)
  <2> HIDE DEF g
  <2> QED  BY <1>7, <2>1, ZenonT(30), SMTT(60)
<1> QED  BY <1>8, ZenonT(30), SMTT(60)

\* Recovery ends every active attempt, keeps every job, and leaves a
\* consistent table.
LEMMA RecoveredStep ==
  ASSUME NEW s, SchedulerOK(s), NEW now \in Nat, NotAfter(s, now)
  PROVE  LET t == Recovered(s, now)
         IN  /\ SchedulerOK(t) /\ NotAfter(t, now) /\ DOMAIN t.jobs = DOMAIN s.jobs
             /\ \A k \in DOMAIN t.jobs : ~IsActive(t.jobs[k])
             /\ \A k \in DOMAIN t.jobs : t.jobs[k].state # "ASSIGNED"
             /\ Unreported(s, t)
<1> DEFINE n == Len(s.jobs)
           Table(f) == f = [k \in 0..n |-> IF k = 0 THEN s ELSE SlotRecovered(f[k - 1], k, now)]
           after == CHOOSE f : Table(f)
<1>   n \in Nat /\ DOMAIN s.jobs = 1..n
  BY DEF SchedulerOK, SchedulerType
<1>2. Recovered(s, now) = after[n]
  BY DEF Recovered
<1>3. Table(after)
  <2>1. \E f : Table(f)
    BY RecoveryDefined
  <2> HIDE DEF Table
  <2> QED  BY <2>1
<1> HIDE DEF after
<1>4. after[0] = s /\ \A k \in 1..n : after[k] = SlotRecovered(after[k - 1], k, now)
  <2>1. \A k \in 0..n : after[k] = IF k = 0 THEN s ELSE SlotRecovered(after[k - 1], k, now)
    BY <1>3, ZenonT(30)
  <2> QED  BY <2>1
<1> HIDE DEF Table, n
<1> DEFINE Good(t, k) ==
      /\ SchedulerOK(t) /\ NotAfter(t, now) /\ DOMAIN t.jobs = 1..n
      /\ \A j \in 1..k : ~IsActive(t.jobs[j])
      /\ Unreported(s, t)
<1>5. ASSUME NEW k \in 1..n, NEW t, Good(t, k - 1)
      PROVE  Good(SlotRecovered(t, k, now), k)
  <2>1. k \in DOMAIN t.jobs /\ \A j \in 1..k : j = k \/ j \in 1..(k - 1)
    BY <1>5
  <2>2. CASE ~IsActive(t.jobs[k])
    BY <1>5, <2>1, <2>2 DEF SlotRecovered
  <2>3. CASE IsActive(t.jobs[k])
    <3> DEFINE u == WorkerLost(t, t.jobs[k].worker_id, now)
    <3>1. Outcome(t, u, k, now) /\ ~IsActive(u.jobs[k]) /\ Unreported(t, u)
      BY <1>5, <2>1, <2>3, AttemptLost, ZenonT(30), SMTT(60)
    <3>2. SlotRecovered(t, k, now) = u
      BY <2>3 DEF SlotRecovered
    <3> HIDE DEF u
    <3>3. \A j \in 1..(k - 1) : u.jobs[j] = t.jobs[j]
      BY <1>5, <3>1 DEF Outcome
    <3>4. Unreported(s, u)
      BY <1>5, <3>1, NeitherReported DEF Outcome
    <3> QED  BY <1>5, <2>1, <3>1, <3>2, <3>3, <3>4 DEF Outcome
  <2> QED  BY <2>2, <2>3
<1>6. Good(after[0], 0)
  BY <1>4, NothingReported
<1> DEFINE T == {k \in 0..n : ~Good(after[k], k)}
<1>7. T = {}
  <2>1. SUFFICES ASSUME T # {} PROVE FALSE
    OBVIOUS
  <2> DEFINE j == First(T)
  <2>2. j \in T /\ \A k \in T : j <= k
    <3>1. T \in SUBSET Nat
      OBVIOUS
    <3> HIDE DEF T
    <3> QED  BY <2>1, <3>1, FirstIsLeast
  <2> HIDE DEF j
  <2>3. j \in 0..n /\ ~Good(after[j], j)
    BY <2>2
  <2>4. j \in 1..n /\ j - 1 \in 0..n /\ ~(j <= j - 1)
    BY <1>6, <2>3
  <2>5. j - 1 \notin T
    BY <2>2, <2>4
  <2>6. Good(after[j - 1], j - 1)
    BY <2>4, <2>5
  <2> QED  BY <1>4, <1>5, <2>3, <2>4, <2>6
<1>8. Good(after[n], n)
  BY <1>7
<1> HIDE DEF after
<1> QED  BY <1>2, <1>8 DEF IsActive
=============================================================================
