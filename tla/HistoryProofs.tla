---------------------------- MODULE HistoryProofs ---------------------------
(***************************************************************************)
(* What the log as a whole says, and what clients can observe.  The        *)
(* inductive invariant of StoreInvariant relates each record to the views  *)
(* before and after it; the properties proved here relate two records that *)
(* may be far apart, or count records.  A step of the store leaves the log *)
(* alone, appends one record, or cuts off its end, so what every prefix of *)
(* the log satisfies is an invariant, and one record is all that a step adds *)
(* to it.  Then: every job can be reported to the clients, and the store   *)
(* implements the atomic store of module AtomicStore.                      *)
(***************************************************************************)
EXTENDS StoreProofs, StoreRefinement, Inspection

USE ZenonT(20), SMTT(30), SMTT(60)

(* The steps of the store.                                                 *)

\* The next log and history keep the first m records and add at most one.
Extends(m) ==
  /\ Len(log') = m \/ (Len(log') = m + 1 /\ m = Len(log))
  /\ \A i \in 1..m : log'[i] = log[i]
  /\ \A i \in 1..(m + 1) : shadow'[i] = shadow[i]

\* A step that leaves the log alone keeps all of it.
LEMMA IdleGrows ==
  ASSUME StoreInv, UNCHANGED <<log, shadow>>
  PROVE  Extends(Len(log))
BY DEF Extends

\* An append writes one record and one view, or neither.
LEMMA AppendGrows ==
  ASSUME StoreInv, NEW record, NEW s, NEW w, NEW time, AppendRecord(record, s, w, time)
  PROVE  Extends(Len(log))
<1>1. /\ log \in Seq(WalRecords) /\ shadow \in Seq(ViewType) /\ Len(shadow) = Len(log) + 1
      /\ Len(log) \in Nat
  BY SMTT(90) DEF StoreInv, TypeOK, HistoryInv
<1> DEFINE v == View(s, w.next_worker_id, time)
<1>2. CASE log' = Append(log, record) /\ shadow' = Append(shadow, v)
  <2> HIDE DEF v
  <2> QED  BY <1>1, <1>2 DEF Extends
<1>3. CASE UNCHANGED <<log, shadow>>
  BY <1>3, IdleGrows
<1> QED  BY <1>2, <1>3 DEF AppendRecord, disk

\* A latched failure writes nothing.
LEMMA FailGrows ==
  ASSUME StoreInv, NEW f, Fail(f)
  PROVE  Extends(Len(log))
BY IdleGrows DEF Fail, disk

\* commit_job appends its record or fails.
LEMMA CommitGrows ==
  ASSUME StoreInv, NEW type, NEW id, NEW scratch, NEW w, CommitJob(type, id, scratch, w)
  PROVE  Extends(Len(log))
<1>1. CASE Known(scratch, id)
  <2> DEFINE job == scratch.jobs[FindSlot(scratch, id)]
  <2>1. AppendRecord(JobRecord(next_sequence, type, job), scratch, w, job.updated_at)
    BY <1>1 DEF CommitJob
  <2> HIDE DEF job
  <2> QED  BY <2>1, AppendGrows
<1>2. CASE ~Known(scratch, id)
  BY <1>2, FailGrows DEF CommitJob
<1> QED  BY <1>1, <1>2

\* So does commit_worker_loss.
LEMMA LossGrows ==
  ASSUME StoreInv, NEW worker_id, NEW raw, NEW w, CommitWorkerLoss(worker_id, raw, w)
  PROVE  Extends(Len(log))
BY CommitGrows, FailGrows DEF CommitWorkerLoss

\* Every step of the store leaves the log alone, appends one record, or, when
\* the process stops, cuts off its end.
LEMMA LogStep ==
  ASSUME StoreInv, [Next]_vars
  PROVE  \E m \in 0..Len(log) : Extends(m)
<1>0. /\ log \in Seq(WalRecords) /\ shadow \in Seq(ViewType) /\ Len(shadow) = Len(log) + 1
      /\ Len(log) \in Nat /\ Len(log) \in 0..Len(log) /\ synced \in Nat
  BY SMTT(90) DEF StoreInv, TypeOK, HistoryInv
<1>1. CASE UNCHANGED vars
  BY <1>0, <1>1, IdleGrows DEF vars
<1>2. ASSUME NEW raw \in Readings, NEW fd \in Fds, StoreRegister(fd, raw)
      PROVE  Extends(Len(log))
  BY <1>2, AppendGrows, FailGrows DEF StoreRegister
<1>3. ASSUME NEW raw \in Readings, NEW task \in Tasks, NEW n \in 0..MAX_RETRIES,
             StoreSubmit(task, n, raw)
      PROVE  Extends(Len(log))
  BY <1>3, CommitGrows, FailGrows DEF StoreSubmit
<1>4. ASSUME NEW raw \in Readings, NEW w \in WorkerIds, StoreAssign(w, raw)
      PROVE  Extends(Len(log))
  BY <1>4, CommitGrows, FailGrows DEF StoreAssign
<1>5. ASSUME NEW raw \in Readings, NEW w \in WorkerIds, NEW report \in Reports,
             StoreReport(w, report, raw)
      PROVE  Extends(Len(log))
  BY <1>5, CommitGrows, FailGrows DEF StoreReport
<1>6. ASSUME NEW raw \in Readings, NEW w \in WorkerIds, NEW fd \in Fds, CloseClient(w, fd, raw)
      PROVE  Extends(Len(log))
  BY <1>6, LossGrows, IdleGrows DEF CloseClient, disk
<1>7. CASE SyncRecord \/ SyncFails \/ ReplayRecord \/ FinishReplay \/ ReplayFails
  <2>1. UNCHANGED <<log, shadow>>
    BY <1>7 DEF SyncRecord, SyncFails, ReplayRecord, FinishReplay, ReplayFails, disk
  <2> QED  BY <1>0, <2>1, IdleGrows
<1>8. ASSUME NEW raw \in {-1} \cup 0..MAX_CLOCK, CreateWal(raw) \/ OpenWal(raw)
      PROVE  Extends(Len(log))
  BY <1>8, IdleGrows DEF CreateWal, OpenWal, disk
<1>9. CASE RecoverSlot
  BY <1>0, <1>9, LossGrows, IdleGrows DEF RecoverSlot, disk
<1>10. CASE Stop
  <2>1. PICK m \in synced..Len(log) :
          log' = SubSeq(log, 1, m) /\ shadow' = SubSeq(shadow, 1, m + 1)
    BY <1>10 DEF Stop
  <2>2. m \in 0..Len(log)
    BY <1>0
  <2>3. Extends(m)
    BY <1>0, <2>1, <2>2 DEF Extends
  <2> QED  BY <2>2, <2>3
<1> QED  BY <1>0, <1>1, <1>2, <1>3, <1>4, <1>5, <1>6, <1>7, <1>8, <1>9, <1>10 DEF Next

\* What the invariant of the store says about the next log.
LEMMA NextHistory ==
  ASSUME StoreInv'
  PROVE  /\ log' \in Seq(WalRecords) /\ Len(log') \in Nat /\ DOMAIN log' = 1..Len(log')
         /\ \A i \in 1..Len(log') : log'[i] \in WalRecords
         /\ \A n \in 1..(Len(log') + 1) : ViewOK(shadow'[n])
         /\ \A n \in 1..Len(log') : Replays(shadow'[n], log'[n], n, shadow'[n + 1])
<1>1. /\ log' \in Seq(WalRecords) /\ shadow' \in Seq(ViewType) /\ Len(shadow') = Len(log') + 1
  BY DEF StoreInv, TypeOK, HistoryInv
<1>2. /\ \A n \in DOMAIN shadow' : ViewOK(shadow'[n])
      /\ \A n \in DOMAIN log' : Replays(shadow'[n], log'[n], n, shadow'[n + 1])
  BY DEF StoreInv, HistoryInv
<1>3. DOMAIN log' = 1..Len(log') /\ DOMAIN shadow' = 1..(Len(log') + 1)
  BY <1>1
<1> QED  BY <1>1, <1>2, <1>3

\* The view before the last record that a step may have added remembers the
\* records before it.
LEMMA MemoryBefore ==
  ASSUME StoreInv, MemoryInv, NEW m \in 0..Len(log), Extends(m), NEW i \in 1..m
  PROVE  Remembered(log'[i], shadow'[m + 1])
<1>1. log \in Seq(WalRecords)
  BY DEF StoreInv, TypeOK
<1>2. m \in DOMAIN log /\ m + 1 \in 1..(m + 1)
  BY <1>1
<1> QED  BY <1>2 DEF MemoryInv, Extends

\* Every view keeps remembering the records before it.
LEMMA MemoryStep ==
  ASSUME StoreInv, StoreInv', MemoryInv, [Next]_vars
  PROVE  MemoryInv'
<1>1. PICK m \in 0..Len(log) : Extends(m)
  BY LogStep
<1>2. log \in Seq(WalRecords) /\ Len(log) \in Nat /\ m \in Nat
  BY SMTT(90) DEF StoreInv, TypeOK
<1> SUFFICES ASSUME NEW n \in DOMAIN log', NEW i \in 1..n
             PROVE  Remembered(log'[i], shadow'[n + 1])
  BY DEF MemoryInv
<1>3. n \in Nat \ {0} /\ n \in 1..Len(log') /\ i \in 1..Len(log')
  BY NextHistory
<1>4. CASE n <= m
  <2>1. n \in DOMAIN log /\ i \in 1..m /\ n + 1 \in 1..(m + 1)
    BY <1>2, <1>3, <1>4
  <2>2. log'[i] = log[i] /\ shadow'[n + 1] = shadow[n + 1]
    BY <1>1, <2>1 DEF Extends
  <2> QED  BY <2>1, <2>2 DEF MemoryInv
<1>5. CASE n = m + 1
  <2> DEFINE v == shadow'[n]
             after == shadow'[n + 1]
  <2>1. /\ ViewOK(v) /\ ViewOK(after) /\ Replays(v, log'[n], n, after)
        /\ log'[n] \in WalRecords /\ log'[i] \in WalRecords
    BY <1>3, NextHistory
  <2>2. CASE i = n
    <3> HIDE DEF v, after
    <3>1. Remembered(log'[n], after)
      BY <1>3, <2>1, OwnMemory
    <3> QED  BY <2>2, <3>1 DEF after
  <2>3. CASE i # n
    <3>1. Remembered(log'[i], v)
      BY <1>1, <1>2, <1>3, <1>5, <2>3, MemoryBefore
    <3> HIDE DEF v, after
    <3>2. Remembered(log'[i], after)
      BY <1>3, <2>1, <3>1, MemoryKept
    <3> QED  BY <3>2 DEF after
  <2> QED  BY <2>2, <2>3
<1>6. n <= m \/ n = m + 1
  BY <1>1, <1>2, <1>3 DEF Extends
<1> QED  BY <1>4, <1>5, <1>6

\* The counters of every view stay numbers of records.
LEMMA CountStep ==
  ASSUME StoreInv, StoreInv', MemoryInv, CountInv, [Next]_vars
  PROVE  CountInv'
<1>1. PICK m \in 0..Len(log) : Extends(m)
  BY LogStep
<1>2. log \in Seq(WalRecords) /\ Len(log) \in Nat /\ m \in Nat /\ Len(log') \in Nat
  BY NextHistory, SMTT(90) DEF StoreInv, TypeOK
<1>3. ASSUME NEW n \in 0..m, NEW id, NEW type
      PROVE  OfJob(log', n, id, type) = OfJob(log, n, id, type)
  <2>1. \A k \in 1..n : log'[k] = log[k]
    BY <1>1, <1>2 DEF Extends
  <2> QED  BY <2>1 DEF OfJob
<1>4. ASSUME NEW n \in 0..m, NEW id \in DOMAIN shadow'[n + 1].scheduler.jobs
      PROVE  LET job == shadow'[n + 1].scheduler.jobs[id]
             IN  /\ job.attempt = Cardinality(OfJob(log', n, id, "JOB_ASSIGNED"))
                 /\ job.retry_count = Cardinality(OfJob(log', n, id, "JOB_REQUEUED"))
  <2>1. n \in 0..Len(log) /\ n + 1 \in 1..(m + 1)
    BY <1>2
  <2>2. shadow'[n + 1] = shadow[n + 1]
    BY <1>1, <2>1 DEF Extends
  <2>3. /\ OfJob(log', n, id, "JOB_ASSIGNED") = OfJob(log, n, id, "JOB_ASSIGNED")
        /\ OfJob(log', n, id, "JOB_REQUEUED") = OfJob(log, n, id, "JOB_REQUEUED")
    BY <1>3
  <2> QED  BY <2>1, <2>2, <2>3 DEF CountInv
<1>5. ASSUME Len(log') = m + 1, NEW id \in DOMAIN shadow'[m + 2].scheduler.jobs
      PROVE  LET job == shadow'[m + 2].scheduler.jobs[id]
             IN  /\ job.attempt = Cardinality(OfJob(log', m + 1, id, "JOB_ASSIGNED"))
                 /\ job.retry_count = Cardinality(OfJob(log', m + 1, id, "JOB_REQUEUED"))
  <2> DEFINE n     == m + 1
             v     == shadow'[n]
             after == shadow'[n + 1]
             file  == log'
  <2>1. n \in Nat \ {0} /\ n - 1 = m /\ n + 1 = m + 2 /\ m \in 0..m
    BY <1>2
  <2>2. /\ ViewOK(v) /\ ViewOK(after) /\ Replays(v, file[n], n, after)
        /\ \A i \in 1..n : file[i] \in WalRecords
    BY <1>2, <1>5, <2>1, NextHistory
  <2>3. \A i \in 1..(n - 1) : Remembered(file[i], v)
    BY <1>1, <2>1, MemoryBefore
  <2>4. id \in DOMAIN v.scheduler.jobs =>
          /\ v.scheduler.jobs[id].attempt = Cardinality(OfJob(file, n - 1, id, "JOB_ASSIGNED"))
          /\ v.scheduler.jobs[id].retry_count
               = Cardinality(OfJob(file, n - 1, id, "JOB_REQUEUED"))
    BY <1>4, <2>1
  <2>5. id \in DOMAIN after.scheduler.jobs
    BY <1>5, <2>1
  <2> HIDE DEF n, v, after, file
  <2>6. /\ after.scheduler.jobs[id].attempt = Cardinality(OfJob(file, n, id, "JOB_ASSIGNED"))
        /\ after.scheduler.jobs[id].retry_count
             = Cardinality(OfJob(file, n, id, "JOB_REQUEUED"))
    BY <2>1, <2>2, <2>3, <2>4, <2>5, CountKept, SMTT(90)
  <2> QED  BY <2>1, <2>6 DEF n, after, file
<1> SUFFICES ASSUME NEW n \in 0..Len(log'), NEW id \in DOMAIN shadow'[n + 1].scheduler.jobs
             PROVE  LET job == shadow'[n + 1].scheduler.jobs[id]
                    IN  /\ job.attempt = Cardinality(OfJob(log', n, id, "JOB_ASSIGNED"))
                        /\ job.retry_count = Cardinality(OfJob(log', n, id, "JOB_REQUEUED"))
  BY DEF CountInv
<1>6. n \in 0..m \/ (n = m + 1 /\ Len(log') = m + 1 /\ n + 1 = m + 2)
  BY <1>1, <1>2, SMTT(90) DEF Extends
<1> QED  BY <1>4, <1>5, <1>6

-----------------------------------------------------------------------------
(* The theorems.                                                           *)

\* Every view of the history remembers and counts the records before it.
THEOREM HistoryCorrect == Spec => [](StoreInv /\ MemoryInv /\ CountInv)
<1>1. Init => MemoryInv /\ CountInv
  <2> SUFFICES ASSUME Init PROVE MemoryInv /\ CountInv
    OBVIOUS
  <2>1. log = <<>> /\ shadow[1].scheduler.jobs = <<>>
    BY DEF Init, View, SchedulerInit
  <2> QED  BY <2>1 DEF MemoryInv, CountInv
<1>2. StoreInv /\ MemoryInv /\ CountInv /\ [Next]_vars /\ StoreInv' => MemoryInv' /\ CountInv'
  BY MemoryStep, CountStep
<1> QED  BY <1>1, <1>2, StoreCorrect, PTL DEF Spec

\* Two records of one log.
LEMMA TwoRecords ==
  ASSUME StoreInv, MemoryInv, NEW i \in DOMAIN log, NEW k \in DOMAIN log, i < k
  PROVE  /\ k \in Nat \ {0} /\ log[i] \in WalRecords /\ log[k] \in WalRecords
         /\ ViewOK(shadow[k]) /\ ViewOK(shadow[k + 1])
         /\ Replays(shadow[k], log[k], k, shadow[k + 1])
         /\ Remembered(log[i], shadow[k])
<1>1. log \in Seq(WalRecords) /\ shadow \in Seq(ViewType) /\ Len(shadow) = Len(log) + 1
  BY DEF StoreInv, TypeOK, HistoryInv
<1>2. /\ k \in Nat \ {0} /\ k \in DOMAIN shadow /\ k + 1 \in DOMAIN shadow
      /\ k - 1 \in DOMAIN log /\ i \in 1..(k - 1) /\ (k - 1) + 1 = k
  BY <1>1
<1>3. Remembered(log[i], shadow[k])
  BY <1>2 DEF MemoryInv
<1>4. log[i] \in WalRecords /\ log[k] \in WalRecords
  BY <1>1
<1> QED  BY <1>2, <1>3, <1>4 DEF StoreInv, HistoryInv

\* No worker id, job id or attempt number is issued twice in the life of a
\* log: not by the allocators of scheduler.c and worker_registry.c, and not
\* by the allocators that a restart rebuilds from the log.
THEOREM IdentitiesCorrect == Spec => []IdentitiesNotReused
<1>1. StoreInv /\ MemoryInv => IdentitiesNotReused
  <2> SUFFICES ASSUME StoreInv, MemoryInv, NEW i \in DOMAIN log, NEW k \in DOMAIN log,
                      i < k, log[i].type = log[k].type
               PROVE  CASE log[i].type = "WORKER_ID_ALLOCATED" -> log[i].worker_id < log[k].worker_id
                        [] log[i].type = "JOB_CREATED" -> log[i].job.id < log[k].job.id
                        [] log[i].type = "JOB_ASSIGNED" /\ log[i].job.id = log[k].job.id ->
                             log[i].job.attempt < log[k].job.attempt
                        [] OTHER -> TRUE
    BY DEF IdentitiesNotReused
  <2> QED  BY TwoRecords, RecordIsNew
<1> QED  BY <1>1, HistoryCorrect, PTL

\* Nothing is written about a job after its JOB_COMPLETED or JOB_FAILED
\* record: no late report and no recovery replaces an outcome.
THEOREM TerminalCorrect == Spec => []TerminalIsFinal
<1>1. StoreInv /\ MemoryInv => TerminalIsFinal
  <2> SUFFICES ASSUME StoreInv, MemoryInv, NEW i \in DOMAIN log, NEW k \in DOMAIN log, i < k,
                      log[i].type \in {"JOB_COMPLETED", "JOB_FAILED"},
                      log[k].type # "WORKER_ID_ALLOCATED"
               PROVE  log[k].job.id # log[i].job.id
    BY DEF TerminalIsFinal
  <2> QED  BY TwoRecords, RecordIsNew, SMTT(90)
<1> QED  BY <1>1, HistoryCorrect, PTL

\* The attempt number of a job is the number of its assignments in the log,
\* its retry_count the number of its requeues, and no job is assigned more
\* than max_retries + 1 times, however often the coordinator restarts.
THEOREM AttemptsCorrect == Spec => []AttemptsCounted
<1>1. StoreInv /\ CountInv => AttemptsCounted
  <2> SUFFICES ASSUME StoreInv, CountInv, Settled, NEW i \in DOMAIN sched.jobs
               PROVE  LET job == sched.jobs[i]
                      IN  /\ job.attempt = Cardinality(RecordsOf(job.id, "JOB_ASSIGNED"))
                          /\ job.retry_count = Cardinality(RecordsOf(job.id, "JOB_REQUEUED"))
                          /\ job.attempt <= job.max_retries + 1
    BY DEF AttemptsCounted
  <2> DEFINE job == sched.jobs[i]
  <2>1. shadow[Len(log) + 1].scheduler = sched /\ SchedulerOK(sched)
    BY SettledFacts DEF StoreInv
  <2>2. log \in Seq(WalRecords) /\ Len(log) \in 0..Len(log)
    BY SMTT(90) DEF StoreInv, TypeOK
  <2>3. job.id = i /\ job \in JobType /\ JobOK(job)
    BY <2>1, SlotOfJob
  <2>4. ASSUME NEW type
        PROVE  RecordsOf(i, type) = OfJob(log, Len(log), i, type)
    BY <2>2, SMTT(90) DEF RecordsOf, OfJob
  <2>5. /\ job.attempt = Cardinality(OfJob(log, Len(log), i, "JOB_ASSIGNED"))
        /\ job.retry_count = Cardinality(OfJob(log, Len(log), i, "JOB_REQUEUED"))
    BY <2>1, <2>2 DEF CountInv
  <2>6. job.attempt <= job.max_retries + 1
    <3> HIDE DEF job
    <3> QED  BY <2>3, SMTT(90) DEF JobOK, SnapshotType, RecordType, ValidJob, ValidQueued, ValidOwned,
                         JobType, JobStates
  <2> QED  BY <2>3, <2>4, <2>5, <2>6
<1> QED  BY <1>1, HistoryCorrect, PTL

-----------------------------------------------------------------------------
(* Reconciliation at startup.                                              *)

\* Scheduler s is what replay rebuilt, with every attempt that was active in a
\* slot before k lost, and its retries behind the pending work in slot order.
Charged(s, before, time, k) ==
  LET n == Len(before.pending)
  IN  /\ Len(s.jobs) = Len(before.jobs)
      /\ \A i \in DOMAIN s.jobs :
           s.jobs[i] = IF IsActive(before.jobs[i]) /\ i < k
                       THEN JobFail(before.jobs[i], "WORKER_LOST", time) ELSE before.jobs[i]
      /\ n <= Len(s.pending) /\ \A i \in 1..n : s.pending[i] = before.pending[i]
      /\ \A i \in (n + 1)..Len(s.pending) : s.pending[i] < k
      /\ \A i, j \in (n + 1)..Len(s.pending) : i < j => s.pending[i] < s.pending[j]

\* The published scheduler during reconciliation, and the one a commit in
\* progress is about to publish.
RecoveryInv ==
  pc = "recovering" /\ failure = "NONE" =>
    /\ Charged(sched, replay.scheduler, time_base, IF staged = <<>> THEN slot ELSE slot - 1)
    /\ staged # <<>> => Charged(staged[1].sched, replay.scheduler, time_base, slot)

\* What replay rebuilt is the start of the reconciliation.
LEMMA ChargedNothing ==
  ASSUME NEW s \in SchedulerType, NEW time
  PROVE  Charged(s, s, time, 1)
<1>1. s.jobs \in Seq(JobType) /\ s.pending \in Seq(1..MAX_JOB_ID)
  BY DEF SchedulerType
<1> QED  BY <1>1 DEF Charged

\* The slots without an active attempt that recover_interrupted_jobs skips.
LEMMA ChargedSkips ==
  ASSUME NEW s \in SchedulerType, NEW before \in SchedulerType, NEW time,
         NEW k \in Nat \ {0}, NEW j \in Nat, k <= j, Charged(s, before, time, k),
         \A i \in DOMAIN s.jobs : k <= i /\ i < j => ~IsActive(s.jobs[i])
  PROVE  Charged(s, before, time, j)
<1>1. s.jobs \in Seq(JobType) /\ s.pending \in Seq(1..MAX_JOB_ID) /\ Len(before.pending) \in Nat
  BY SMTT(90) DEF SchedulerType
<1>2. ASSUME NEW i \in DOMAIN s.jobs
      PROVE  s.jobs[i] = IF IsActive(before.jobs[i]) /\ i < j
                         THEN JobFail(before.jobs[i], "WORKER_LOST", time) ELSE before.jobs[i]
  <2>1. i \in Nat
    BY <1>1
  <2> QED  BY <2>1, SMTT(90) DEF Charged
<1>3. \A i \in (Len(before.pending) + 1)..Len(s.pending) : s.pending[i] \in Nat /\ s.pending[i] < k
  <2>1. \A i \in 1..Len(s.pending) : s.pending[i] \in Nat
    BY <1>1, SchedulerConstants
  <2> QED  BY <1>1, <2>1, SMTT(90) DEF Charged
<1> QED  BY <1>2, <1>3, SMTT(90) DEF Charged

\* The loss of the attempt in slot j.
LEMMA ChargedOne ==
  ASSUME NEW s, SchedulerOK(s), NEW before \in SchedulerType, NEW time,
         NEW j \in DOMAIN s.jobs, IsActive(s.jobs[j]), s.jobs[j].worker_id # 0,
         Charged(s, before, time, j)
  PROVE  Charged(WorkerLost(s, s.jobs[j].worker_id, time), before, time, j + 1)
<1> DEFINE job == s.jobs[j]
           new == JobFail(job, "WORKER_LOST", time)
           t   == WorkerLost(s, job.worker_id, time)
           n   == Len(before.pending)
<1>1. /\ s \in SchedulerType /\ s.jobs \in Seq(JobType) /\ s.pending \in Seq(1..MAX_JOB_ID)
      /\ before.jobs \in Seq(JobType) /\ n \in Nat
  <2> HIDE DEF job, new, t
  <2>1. s \in SchedulerType
    BY DEF SchedulerOK
  <2>2. s.jobs \in Seq(JobType) /\ s.pending \in Seq(1..MAX_JOB_ID)
    BY <2>1 DEF SchedulerType
  <2>3. before.jobs \in Seq(JobType) /\ before.pending \in Seq(1..MAX_JOB_ID)
    BY DEF SchedulerType
  <2>4. n \in Nat
    BY <2>3
  <2> QED  BY <2>1, <2>2, <2>3, <2>4
<1>2. job \in JobType /\ job.id = j /\ FindSlot(s, j) = j /\ j \in 1..Len(s.jobs)
  BY SlotOfJob
<1>3. Active(s, job.worker_id) = job
  BY ActiveSlot
<1>4. t = Publish(s, j, new)
  BY <1>2, <1>3 DEF WorkerLost
<1>5. new.id = j
  BY <1>2 DEF JobFail, JobType
<1> HIDE DEF job, new, t
<1>6. /\ t.jobs = [s.jobs EXCEPT ![j] = new]
      /\ t.pending = IF new.state = "QUEUED" THEN Append(s.pending, j) ELSE s.pending
  BY <1>1, <1>4, <1>5 DEF Publish, SchedulerType
<1>7. Len(t.jobs) = Len(s.jobs) /\ DOMAIN t.jobs = DOMAIN s.jobs
  BY <1>1, <1>6, SMTT(90)
<1>8. ASSUME NEW i \in DOMAIN t.jobs
      PROVE  t.jobs[i] = IF IsActive(before.jobs[i]) /\ i < j + 1
                         THEN JobFail(before.jobs[i], "WORKER_LOST", time) ELSE before.jobs[i]
  <2>1. i \in Nat /\ j \in Nat /\ i \in DOMAIN s.jobs
    BY <1>1, <1>2, <1>7
  <2>2. CASE i = j
    <3>1. before.jobs[j] = job /\ IsActive(job)
      BY <2>1, SMTT(90) DEF Charged, job
    <3>2. t.jobs[j] = new
      BY <1>1, <1>6
    <3> QED  BY <2>1, <2>2, <3>1, <3>2 DEF new
  <2>3. CASE i # j
    <3>1. t.jobs[i] = s.jobs[i]
      BY <1>1, <1>6, <2>1, <2>3
    <3>2. (i < j + 1) <=> (i < j)
      BY <2>1, <2>3
    <3> QED  BY <2>1, <3>1, <3>2 DEF Charged
  <2> QED  BY <2>2, <2>3
<1>9. /\ n <= Len(s.pending) /\ \A i \in 1..n : s.pending[i] = before.pending[i]
      /\ \A i \in (n + 1)..Len(s.pending) : s.pending[i] < j
      /\ \A i, k \in (n + 1)..Len(s.pending) : i < k => s.pending[i] < s.pending[k]
      /\ Len(s.jobs) = Len(before.jobs)
  BY DEF Charged
<1>10. /\ n <= Len(t.pending) /\ \A i \in 1..n : t.pending[i] = before.pending[i]
       /\ \A i \in (n + 1)..Len(t.pending) : t.pending[i] < j + 1
       /\ \A i, k \in (n + 1)..Len(t.pending) : i < k => t.pending[i] < t.pending[k]
  <2>1. CASE new.state = "QUEUED"
    <3>1. t.pending = Append(s.pending, j)
      BY <1>6, <2>1
    <3>2. Len(t.pending) = Len(s.pending) + 1 /\ t.pending[Len(s.pending) + 1] = j
          /\ \A i \in 1..Len(s.pending) : t.pending[i] = s.pending[i]
          /\ Len(s.pending) \in Nat /\ j \in Nat
      BY <1>1, <1>2, <3>1
    <3>3. \A i \in 1..Len(s.pending) : s.pending[i] \in Nat
      BY <1>1, SchedulerConstants, SMTT(90)
    <3>4. n <= Len(t.pending) /\ \A i \in 1..n : t.pending[i] = before.pending[i]
      BY <1>1, <1>9, <3>2
    <3>5. \A i \in (n + 1)..Len(t.pending) :
            (i \in (n + 1)..Len(s.pending) /\ t.pending[i] = s.pending[i] /\ t.pending[i] \in Nat
              /\ t.pending[i] < j)
            \/ (i = Len(s.pending) + 1 /\ t.pending[i] = j)
      BY <1>1, <1>9, <3>2, <3>3
    <3>6. ASSUME NEW i \in (n + 1)..Len(t.pending)
          PROVE  t.pending[i] < j + 1
      <4> DEFINE x == t.pending[i]
      <4>1. x = j \/ (x \in Nat /\ x < j)
        BY <3>5
      <4>2. j \in Nat
        BY <1>1, <1>2
      <4> HIDE DEF x
      <4>3. x < j + 1
        BY <4>1, <4>2
      <4> QED  BY <4>3 DEF x
    <3>7. ASSUME NEW i \in (n + 1)..Len(t.pending), NEW k \in (n + 1)..Len(t.pending), i < k
          PROVE  t.pending[i] < t.pending[k]
      <4>1. i \in (n + 1)..Len(s.pending) /\ t.pending[i] = s.pending[i] /\ t.pending[i] < j
        BY <1>1, <3>2, <3>5, <3>7, SMTT(90)
      <4>2. CASE k = Len(s.pending) + 1
        BY <3>2, <4>1, <4>2
      <4>3. CASE k # Len(s.pending) + 1
        <5>1. k \in (n + 1)..Len(s.pending) /\ t.pending[k] = s.pending[k]
          BY <3>5, <4>3
        <5> QED  BY <1>9, <3>7, <4>1, <5>1
      <4> QED  BY <4>2, <4>3
    <3> QED  BY <3>4, <3>6, <3>7
  <2>2. CASE new.state # "QUEUED"
    <3>1. t.pending = s.pending /\ j \in Nat /\ Len(s.pending) \in Nat
      BY <1>1, <1>2, <1>6, <2>2, SMTT(90)
    <3>2. \A i \in 1..Len(s.pending) : s.pending[i] \in Nat
      BY <1>1, SchedulerConstants
    <3> QED  BY <1>1, <1>9, <3>1, <3>2
  <2> QED  BY <2>1, <2>2
<1> QED  BY <1>7, <1>8, <1>9, <1>10 DEF Charged, t, job

\* recover_interrupted_jobs: slot j is the next with an active attempt, and
\* the commit of its loss is in progress.
Recovers(j) ==
  /\ j \in DOMAIN sched.jobs /\ j \in Nat /\ slot <= j
  /\ IsActive(sched.jobs[j]) /\ sched.jobs[j].worker_id # 0
  /\ \A i \in DOMAIN sched.jobs : slot <= i /\ i < j => ~IsActive(sched.jobs[i])
  /\ slot' = j + 1 /\ sched' = sched /\ Len(log') = Len(log) + 1
  /\ staged' # <<>> /\ staged'[1].workers = workers
  /\ staged'[1].sched = WorkerLost(sched, sched.jobs[j].worker_id, time_base)

\* A step of the reconciliation that neither ends it nor fails is of that kind.
LEMMA RecoverFacts ==
  ASSUME StoreInv, RecoverSlot, pc' = "recovering", failure' = "NONE"
  PROVE  \E j : Recovers(j)
<1> DEFINE todo == {i \in slot..Len(sched.jobs) : IsActive(sched.jobs[i])}
           j    == First(todo)
           w    == sched.jobs[j].worker_id
           t    == WorkerLost(sched, w, time_base)
<1>1. pc = "recovering" /\ failure = "NONE" /\ staged = <<>>
  BY DEF RecoverSlot
<1>2. todo # {} /\ slot' = j + 1 /\ CommitWorkerLoss(w, session_start, workers)
  BY <1>1 DEF RecoverSlot
<1>3. /\ SchedulerOK(sched) /\ slot \in Nat \ {0} /\ time_base \in Nat /\ session_start \in Int
      /\ sched.jobs \in Seq(JobType) /\ log \in Seq(WalRecords)
  BY DEF StoreInv, TypeOK, SchedulerType
<1>4. j \in todo /\ \A k \in todo : j <= k
  <2>1. todo \subseteq Nat
    BY <1>3
  <2> HIDE DEF todo
  <2> QED  BY <1>2, <2>1, FirstIsLeast DEF j
<1>5. j \in DOMAIN sched.jobs /\ IsActive(sched.jobs[j]) /\ slot <= j /\ j \in Nat
  BY <1>3, <1>4
<1> HIDE DEF j
<1>6. w # 0
  <2>1. JobOK(sched.jobs[j])
    BY <1>3, <1>5, SlotOfJob
  <2> QED  BY <1>5, <2>1 DEF JobOK, SnapshotType, RecordType, ValidJob, ValidOwned, IsActive
<1>7. \A i \in DOMAIN sched.jobs : slot <= i /\ i < j => ~IsActive(sched.jobs[i])
  BY <1>3, <1>4, <1>5
<1>8. JobTime(session_start) = time_base
  BY <1>3 DEF JobTime
<1>9. PICK type, id : CommitJob(type, id, t, workers)
  <2>1. JobTimeOK(session_start) /\ WorkerLostOK(sched, w, time_base)
    BY <1>2, <1>8 DEF CommitWorkerLoss, Fail
  <2> HIDE DEF w
  <2> QED  BY <1>2, <1>8, <2>1 DEF CommitWorkerLoss
<1> HIDE DEF t
<1>10. PICK record, time : AppendRecord(record, t, workers, time)
  <2> DEFINE job == t.jobs[FindSlot(t, id)]
  <2>1. AppendRecord(JobRecord(next_sequence, type, job), t, workers, job.updated_at)
    BY <1>9 DEF CommitJob, Fail
  <2> HIDE DEF job
  <2> QED  BY <2>1
<1>11. /\ sched' = sched /\ log' = Append(log, record)
       /\ staged' = <<[sched |-> t, workers |-> workers, time |-> time]>>
  BY <1>10 DEF AppendRecord
<1>12. /\ staged' # <<>> /\ staged'[1].sched = t /\ staged'[1].workers = workers
       /\ Len(log') = Len(log) + 1
  BY <1>3, <1>11
<1> QED  BY <1>2, <1>5, <1>6, <1>7, <1>11, <1>12 DEF Recovers, t

\* It charges the attempt in slot j.
LEMMA RecoverStep ==
  ASSUME StoreInv, RecoveryInv, RecoverSlot
  PROVE  RecoveryInv'
<1> SUFFICES ASSUME pc' = "recovering", failure' = "NONE"
             PROVE  RecoveryInv'
  BY DEF RecoveryInv
<1> DEFINE before == replay.scheduler
<1>1. /\ pc = "recovering" /\ failure = "NONE" /\ staged = <<>>
      /\ UNCHANGED <<replay, time_base>>
  BY DEF RecoverSlot, clock
<1>2. PICK j : Recovers(j)
  BY RecoverFacts
<1>3. /\ SchedulerOK(sched) /\ sched \in SchedulerType /\ before \in SchedulerType
      /\ slot \in Nat \ {0}
  BY DEF StoreInv, TypeOK, ReplayType
<1>4. Charged(sched, before, time_base, slot)
  BY <1>1 DEF RecoveryInv
<1> HIDE DEF before
<1>5. Charged(sched, before, time_base, j)
  BY <1>2, <1>3, <1>4, ChargedSkips DEF Recovers
<1> DEFINE t == WorkerLost(sched, sched.jobs[j].worker_id, time_base)
<1>6. Charged(t, before, time_base, j + 1)
  BY <1>2, <1>3, <1>5, ChargedOne DEF Recovers
<1>7. /\ sched' = sched /\ staged' # <<>> /\ staged'[1].sched = t
      /\ slot' - 1 = j /\ slot' = j + 1
  BY <1>2 DEF Recovers
<1> HIDE DEF t
<1>8. replay'.scheduler = before /\ time_base' = time_base
  BY <1>1 DEF before
<1>9. /\ Charged(sched', replay'.scheduler, time_base', slot' - 1)
      /\ Charged(staged'[1].sched, replay'.scheduler, time_base', slot')
  BY <1>5, <1>6, <1>7, <1>8
<1> QED  BY <1>7, <1>9 DEF RecoveryInv

\* Every step keeps what startup has reconciled.
LEMMA RecoveryStep ==
  ASSUME StoreInv, RecoveryInv, [Next]_vars
  PROVE  RecoveryInv'
<1> SUFFICES ASSUME pc' = "recovering", failure' = "NONE"
             PROVE  RecoveryInv'
  BY DEF RecoveryInv
<1>1. CASE UNCHANGED vars
  BY <1>1 DEF RecoveryInv, vars
<1>2. ASSUME NEW raw \in {-1} \cup 0..MAX_CLOCK, CreateWal(raw)
      PROVE  RecoveryInv'
  <2>1. /\ header = "absent" /\ pc = "down" /\ slot' = 1
        /\ UNCHANGED <<sched, replay, staged, time_base>>
    BY <1>2 DEF CreateWal
  <2>2. /\ log = <<>> /\ sched = SchedulerInit /\ staged = <<>>
        /\ replay.last_sequence <= Len(log) /\ replay.last_sequence \in Nat
        /\ replay = Mirror(shadow[replay.last_sequence + 1], replay.last_sequence)
        /\ shadow[1] = View(SchedulerInit, 1, 0) /\ sched \in SchedulerType
    BY <2>1 DEF StoreInv, HistoryInv, ReplayInv, TypeOK, ReplayType
  <2>3. replay.last_sequence = 0
    BY <2>2
  <2>4. replay = Mirror(View(SchedulerInit, 1, 0), 0)
    BY <2>2, <2>3
  <2>5. replay.scheduler = sched
    BY <2>2, <2>4 DEF Mirror, View
  <2> QED  BY <2>1, <2>2, <2>5, ChargedNothing DEF RecoveryInv
<1>3. CASE FinishReplay
  <2>1. staged = <<>> /\ replay.scheduler \in SchedulerType
    BY <1>3 DEF FinishReplay, Replaying, StoreInv, ReplayInv, TypeOK, ReplayType
  <2>2. slot' = 1 /\ sched' = replay'.scheduler /\ staged' = staged /\ replay' = replay
    BY <1>3 DEF FinishReplay
  <2> QED  BY <2>1, <2>2, ChargedNothing DEF RecoveryInv
<1>4. CASE RecoverSlot
  BY <1>4, RecoverStep
<1>5. CASE SyncRecord
  BY <1>5 DEF SyncRecord, RecoveryInv
<1>6. CASE SyncFails \/ ReplayRecord \/ ReplayFails \/ Stop
  BY <1>6 DEF SyncFails, ReplayRecord, ReplayFails, Replaying, Stop
<1>7. ASSUME NEW raw \in {-1} \cup 0..MAX_CLOCK, OpenWal(raw)
      PROVE  FALSE
  BY <1>7 DEF OpenWal
<1>8. ASSUME NEW raw,
             \/ \E fd \in Fds : StoreRegister(fd, raw)
             \/ \E task \in Tasks, n \in 0..MAX_RETRIES : StoreSubmit(task, n, raw)
             \/ \E w \in WorkerIds : StoreAssign(w, raw)
             \/ \E w \in WorkerIds, report \in Reports : StoreReport(w, report, raw)
             \/ \E w \in WorkerIds, fd \in Fds : CloseClient(w, fd, raw)
      PROVE  FALSE
  BY <1>8 DEF StoreRegister, StoreSubmit, StoreAssign, StoreReport, CloseClient, Usable,
              ServingFrame
<1> QED  BY <1>1, <1>2, <1>3, <1>4, <1>5, <1>6, <1>7, <1>8 DEF Next

\* Startup leaves QUEUED and terminal jobs as replay rebuilt them, charges each
\* interrupted attempt once, and queues the retries behind the pending work in
\* ascending slot order (recover_interrupted_jobs).
THEOREM RecoveryCorrect == Spec => []RecoveryChargesOnce
<1>1. Init => RecoveryInv
  BY DEF Init, RecoveryInv
<1>2. StoreInv /\ RecoveryInv => RecoveryChargesOnce
  <2> SUFFICES ASSUME StoreInv, RecoveryInv, pc = "recovering", failure = "NONE"
               PROVE  RecoveryChargesOnce
    BY DEF RecoveryChargesOnce
  <2> DEFINE before == replay.scheduler
             n      == Len(before.pending)
             k      == IF staged = <<>> THEN slot ELSE slot - 1
  <2>1. Charged(sched, before, time_base, k)
    BY DEF RecoveryInv
  <2>2. /\ sched.jobs \in Seq(JobType) /\ sched.pending \in Seq(1..MAX_JOB_ID)
        /\ before.pending \in Seq(1..MAX_JOB_ID) /\ slot \in Nat
    BY DEF StoreInv, TypeOK, ReplayType, SchedulerType
  <2>3. /\ Len(sched.jobs) = Len(before.jobs)
        /\ \A i \in DOMAIN sched.jobs :
             sched.jobs[i] = IF IsActive(before.jobs[i]) /\ i < k
                             THEN JobFail(before.jobs[i], "WORKER_LOST", time_base)
                             ELSE before.jobs[i]
        /\ n <= Len(sched.pending) /\ \A i \in 1..n : sched.pending[i] = before.pending[i]
        /\ \A i, m \in (n + 1)..Len(sched.pending) : i < m => sched.pending[i] < sched.pending[m]
    BY <2>1 DEF Charged
  <2>4. SubSeq(sched.pending, 1, n) = before.pending
    <3> HIDE DEF before
    <3> QED  BY <2>2, <2>3
  <2>5. ASSUME NEW i \in DOMAIN sched.jobs
        PROVE  i < k <=> (i < slot - 1 \/ (i < slot /\ staged = <<>>))
    BY <2>2
  <2> HIDE DEF before, n, k
  <2> QED  BY <2>3, <2>4, <2>5 DEF RecoveryChargesOnce, before, n
<1> QED  BY <1>1, <1>2, StoreCorrect, RecoveryStep, PTL DEF Spec

-----------------------------------------------------------------------------
(* What clients can observe.                                               *)

\* What validate_job_status and collect_jobs demand of the published jobs.
JobsReportable ==
  CollectOK(sched) /\ \A i \in DOMAIN sched.jobs : ValidStatus(Status(sched.jobs[i]))

\* A job that could be written to the log has a status that can be sent.
LEMMA StatusOfJob ==
  ASSUME NEW job \in JobType, JobOK(job)
  PROVE  ValidStatus(Status(job))
<1> DEFINE st == Status(job)
<1>1. /\ st.job_id = job.id /\ st.state = job.state /\ st.worker_id = job.worker_id
      /\ st.attempt = job.attempt /\ st.retry_count = job.retry_count
      /\ st.max_retries = job.max_retries /\ st.failure = job.failure /\ st.result = job.result
  BY DEF Status
<1>2. /\ job.id # 0 /\ job.retry_count <= job.max_retries /\ job.state \in JobStates
      /\ job.attempt \in Nat /\ job.retry_count \in Nat
  BY DEF JobOK, ValidJob, JobType
<1>3. CASE job.state = "QUEUED"
  <2>1. /\ job.worker_id = 0 /\ job.result = NoResult /\ job.attempt = job.retry_count
        /\ IF job.attempt = 0 THEN job.failure = "NONE" ELSE job.failure \in {"TASK", "WORKER_LOST"}
    BY <1>2, <1>3 DEF JobOK, SnapshotType, RecordType, ValidJob, ValidQueued, ValidFailure
  <2> HIDE DEF st
  <2> QED  BY <1>1, <1>2, <1>3, <2>1 DEF ValidStatus, st
<1>4. CASE job.state # "QUEUED"
  <2>1. /\ job.worker_id # 0 /\ job.attempt = job.retry_count + 1
        /\ IF job.state = "FAILED"
           THEN job.retry_count = job.max_retries /\ job.failure \in {"TASK", "WORKER_LOST"}
           ELSE job.failure = "NONE"
        /\ job.state # "DONE" => job.result = NoResult
    BY <1>2, <1>4 DEF JobOK, SnapshotType, RecordType, ValidJob, ValidOwned, ValidFailure,
                      JobStates
  <2> HIDE DEF st
  <2> QED  BY <1>1, <1>2, <1>4, <2>1 DEF ValidStatus, st
<1> QED  BY <1>3, <1>4

\* Every job of a running coordinator can be shown to a client and counted by
\* the statistics, after any sequence of operations, failures and restarts:
\* no status reply is refused by the encoder.
THEOREM JobsAreReportable == Spec => []JobsReportable
<1>1. StoreInv => JobsReportable
  <2> SUFFICES ASSUME SchedulerOK(sched) PROVE JobsReportable
    BY DEF StoreInv
  <2>1. ASSUME NEW i \in DOMAIN sched.jobs
        PROVE  /\ sched.jobs[i] \in JobType /\ JobOK(sched.jobs[i])
               /\ ValidStatus(Status(sched.jobs[i]))
    BY SlotOfJob, StatusOfJob
  <2>2. ASSUME NEW job \in JobType, JobOK(job)
        PROVE  /\ job.retry_count <= job.max_retries
               /\ job.attempt = job.retry_count + (IF job.state = "QUEUED" THEN 0 ELSE 1)
               /\ job.state = "DONE" => job.created_at >= 0 /\ job.finished_at >= job.created_at
    BY <2>2, SMTT(90) DEF JobOK, SnapshotType, RecordType, ValidJob, ValidQueued, ValidOwned, JobType,
                JobStates
  <2>3. CollectOK(sched)
    BY <2>1, <2>2 DEF CollectOK
  <2> QED  BY <2>1, <2>3 DEF JobsReportable
<1> QED  BY <1>1, StoreCorrect, PTL

-----------------------------------------------------------------------------
(* The operators of the job and the scheduler are those of AtomicStore.    *)

\* The job operations.
LEMMA SameJobs ==
  ASSUME NEW job, NEW x, NEW now
  PROVE  /\ Atomic!IsActive(job) = IsActive(job)
         /\ Atomic!JobFail(job, x, now) = JobFail(job, x, now)
         /\ Atomic!JobStart(job, now) = JobStart(job, now)
         /\ Atomic!JobComplete(job, x, now) = JobComplete(job, x, now)
BY DEF Atomic!IsActive, IsActive, Atomic!JobFail, JobFail, Atomic!FailNext, FailNext,
       Atomic!JobStart, JobStart, Atomic!JobComplete, JobComplete, Atomic!TIME_UNSET, TIME_UNSET

\* The scheduler operations.
LEMMA SameScheduler ==
  ASSUME NEW s, NEW x, NEW y, NEW now
  PROVE  /\ Atomic!Submit(s, x, y, now) = Submit(s, x, y, now)
         /\ Atomic!SubmitAdmitted(s, now) = SubmitAdmitted(s, now)
         /\ Atomic!Assign(s, x, now) = Assign(s, x, now)
         /\ Atomic!Busy(s, x) = Busy(s, x)
         /\ Atomic!Publish(s, x, y) = Publish(s, x, y)
BY DEF Atomic!Submit, Submit, Atomic!JobInit, JobInit, Atomic!TIME_UNSET, TIME_UNSET,
       Atomic!NoResult, NoResult, Atomic!SubmitAdmitted, SubmitAdmitted, Atomic!JobInitOK,
       JobInitOK, Atomic!Assign, Assign, Atomic!FindSlot, FindSlot, Atomic!SlotsOf, SlotsOf,
       Atomic!First, First, Atomic!JobAssign, JobAssign, Atomic!Busy, Busy,
       Atomic!ActiveSlots, ActiveSlots, Atomic!IsActive, IsActive, Atomic!Publish, Publish

\* A submission, an assignment and an outcome of the store are those of
\* AtomicStore.
LEMMA IsSubmission ==
  ASSUME NEW v, NEW w, NEW task \in Tasks, NEW n \in 0..MAX_RETRIES,
         SubmitAdmitted(v.scheduler, w.time),
         w = [v EXCEPT !.scheduler = Submit(v.scheduler, task, n, w.time), !.time = w.time]
  PROVE  Atomic!Submission(v, w)
<1>1. Atomic!Submit(v.scheduler, task, n, w.time) = Submit(v.scheduler, task, n, w.time)
  BY SameScheduler
<1>2. Atomic!SubmitAdmitted(v.scheduler, w.time)
  BY SameScheduler
<1>3. w = Atomic!Moved(v, Atomic!Submit(v.scheduler, task, n, w.time), w.time)
  BY <1>1 DEF Atomic!Moved
<1> QED  BY <1>2, <1>3 DEF Atomic!Submission

\* Assign of the scheduler, for a free known worker, is an abstract assignment.
LEMMA IsAssignment ==
  ASSUME NEW v, NEW w, NEW worker \in 1..MAX_WORKER_ID,
         v.next_worker_id = 0 \/ worker < v.next_worker_id,
         v.scheduler.pending # <<>>, ~Busy(v.scheduler, worker),
         w = [v EXCEPT !.scheduler = Assign(v.scheduler, worker, w.time), !.time = w.time]
  PROVE  Atomic!Assignment(v, w)
<1>1. Atomic!Assign(v.scheduler, worker, w.time) = Assign(v.scheduler, worker, w.time)
  BY SameScheduler
<1>2. ~Atomic!Busy(v.scheduler, worker)
  BY SameScheduler
<1>3. w = Atomic!Moved(v, Atomic!Assign(v.scheduler, worker, w.time), w.time)
  BY <1>1 DEF Atomic!Moved
<1> QED  BY <1>2, <1>3 DEF Atomic!Assignment

\* Publishing an outcome of an active attempt is a step of abstract progress.
LEMMA IsProgress ==
  ASSUME NEW v, NEW w, NEW id \in DOMAIN v.scheduler.jobs, IsActive(v.scheduler.jobs[id]),
         NEW job \in Atomic!Outcomes(v.scheduler.jobs[id], w.time),
         w = [v EXCEPT !.scheduler = Publish(v.scheduler, id, job), !.time = w.time]
  PROVE  Atomic!Progress(v, w)
<1>1. Atomic!Publish(v.scheduler, id, job) = Publish(v.scheduler, id, job)
  BY SameScheduler
<1>2. Atomic!IsActive(v.scheduler.jobs[id])
  BY SameJobs
<1>3. w = Atomic!Moved(v, Atomic!Publish(v.scheduler, id, job), w.time)
  BY <1>1 DEF Atomic!Moved
<1> QED  BY <1>2, <1>3 DEF Atomic!Progress

-----------------------------------------------------------------------------
(* What one record does is one operation.                                  *)

\* A view after a job record: only the scheduler and the time differ.
AfterJob(v, record, after) ==
  /\ after.time = record.job.updated_at /\ after.time >= v.time
  /\ after = [v EXCEPT !.scheduler = Rebuilt(v.scheduler, record.type, record.job),
                       !.time = after.time]

\* Replay turns a view into such a view.
LEMMA JobView ==
  ASSUME NEW v, ViewOK(v), NEW after, ViewOK(after), NEW record \in WalRecords,
         NEW n \in Nat \ {0}, Replays(v, record, n, after), record.type # "WORKER_ID_ALLOCATED"
  PROVE  AfterJob(v, record, after)
<1> DEFINE r == Mirror(v, n - 1)
<1>1. AcceptsRecord(r, record) /\ ApplyRecord(r, record) = Mirror(after, n)
  BY DEF Replays
<1>2. record.job.updated_at >= v.time /\ Derived(r, record) = record.job
  BY <1>1 DEF AcceptsRecord, AcceptsJob, Mirror
<1>3. ApplyRecord(r, record).job_time_base = record.job.updated_at
  BY <1>2 DEF ApplyRecord, ApplyJob, Mirror
<1>4. Mirror(after, n).job_time_base = after.time
  BY DEF Mirror
<1>5. /\ after.scheduler = Rebuilt(v.scheduler, record.type, record.job)
      /\ after.next_worker_id = v.next_worker_id
  BY JobStep
<1>6. v \in ViewType /\ after \in ViewType
  BY DEF ViewOK
<1> QED  BY <1>1, <1>2, <1>3, <1>4, <1>5, <1>6 DEF ViewType, AfterJob

\* An allocation record.
LEMMA AllocationRecord ==
  ASSUME NEW v, ViewOK(v), NEW after, ViewOK(after), NEW record \in WalRecords,
         NEW n \in Nat \ {0}, Replays(v, record, n, after), record.type = "WORKER_ID_ALLOCATED"
  PROVE  Atomic!Allocation(v, after)
<1> DEFINE r == Mirror(v, n - 1)
           i == Issued(v.next_worker_id, MAX_WORKER_ID)
           j == Issued(after.next_worker_id, MAX_WORKER_ID)
           id == record.worker_id
<1>1. AcceptsRecord(r, record) /\ ApplyRecord(r, record) = Mirror(after, n)
  BY DEF Replays
<1>2. id > i /\ id \in 1..MAX_WORKER_ID
  BY <1>1 DEF AcceptsRecord, Mirror, WalRecords, RecordTypes
<1>3. /\ ApplyRecord(r, record).scheduler = v.scheduler
      /\ ApplyRecord(r, record).job_time_base = v.time
      /\ ApplyRecord(r, record).allocated = (1..i) \cup {id}
      /\ ApplyRecord(r, record).next_worker_id = IF id = MAX_WORKER_ID THEN 0 ELSE id + 1
  BY DEF ApplyRecord, ApplyWorker, Mirror
<1>4. /\ Mirror(after, n).scheduler = after.scheduler
      /\ Mirror(after, n).job_time_base = after.time
      /\ Mirror(after, n).allocated = 1..j
      /\ Mirror(after, n).next_worker_id = after.next_worker_id
  BY DEF Mirror
<1>5. /\ after.scheduler = v.scheduler /\ after.time = v.time /\ 1..j = (1..i) \cup {id}
      /\ after.next_worker_id = IF id = MAX_WORKER_ID THEN 0 ELSE id + 1
  BY <1>1, <1>3, <1>4
<1>6. /\ v \in ViewType /\ after \in ViewType /\ v.next_worker_id \in 0..MAX_WORKER_ID
      /\ after.next_worker_id \in 0..MAX_WORKER_ID /\ MAX_WORKER_ID \in Nat
  BY RegistryConstants DEF ViewOK, ViewType
<1>7. i \in Nat /\ j \in Nat /\ j = id
  BY <1>2, <1>5, <1>6 DEF Issued
<1>8. id = i + 1
  <2>1. id \in Nat \ {0} /\ i \in Nat /\ id > i /\ 1..id = (1..i) \cup {id}
    BY <1>2, <1>5, <1>7
  <2> HIDE DEF i, j, id
  <2>2. CASE id = 1
    BY <2>1, <2>2
  <2>3. CASE id # 1
    <3>1. id - 1 \in 1..id
      BY <2>1, <2>3
    <3>2. id - 1 \in (1..i) \cup {id}
      BY <2>1, <3>1
    <3> QED  BY <2>1, <3>2
  <2> QED  BY <2>2, <2>3
<1>9. v.next_worker_id = id
  BY <1>2, <1>6, <1>8 DEF Issued
<1> QED  BY <1>2, <1>5, <1>6, <1>9, SMTT(90) DEF ViewType, Atomic!Allocation

\* A submission record.
LEMMA CreationRecord ==
  ASSUME NEW v, ViewOK(v), NEW after, ViewOK(after), NEW record \in WalRecords,
         NEW n \in Nat \ {0}, Replays(v, record, n, after), record.type = "JOB_CREATED"
  PROVE  Atomic!Submission(v, after)
<1> DEFINE s   == v.scheduler
           job == record.job
           k   == Len(s.jobs) + 1
<1>1. /\ job \in JobType /\ Derived(Mirror(v, n - 1), record) = job
      /\ AcceptsTransition(Mirror(v, n - 1), record)
  BY JobStep
<1>2. /\ after.time = job.updated_at
      /\ after = [v EXCEPT !.scheduler = Rebuilt(s, "JOB_CREATED", job), !.time = after.time]
  <2>1. record.type # "WORKER_ID_ALLOCATED"
    OBVIOUS
  <2>2. AfterJob(v, record, after)
    BY <2>1, JobView
  <2> QED  BY <2>2 DEF AfterJob
<1>3. job = JobInit(job.id, job.task, job.max_retries, job.created_at)
  BY <1>1 DEF Derived
<1>4. job.created_at = after.time
  BY <1>2, <1>3, SMTT(90) DEF JobInit
<1>5. JobInitOK(job.id, after.time)
  BY <1>1, <1>4 DEF AcceptsTransition, AcceptsCreated
<1>6. /\ s \in SchedulerType /\ s.jobs \in Seq(JobType) /\ TableOK(s)
      /\ after.scheduler \in SchedulerType /\ TableOK(after.scheduler)
  BY DEF ViewOK, SchedulerOK, SchedulerType
<1>7. /\ after.scheduler.jobs = Append(s.jobs, job)
      /\ after.scheduler = [ jobs |-> Append(s.jobs, job), pending |-> Append(s.pending, job.id),
                             next_job_id |-> IF job.id = MAX_JOB_ID THEN 0 ELSE job.id + 1 ]
  <2>1. after.scheduler = Rebuilt(s, "JOB_CREATED", job)
    BY JobStep
  <2> QED  BY <2>1 DEF Rebuilt
<1>8. /\ k \in DOMAIN after.scheduler.jobs /\ after.scheduler.jobs[k] = job
      /\ Len(after.scheduler.jobs) = k /\ k \in Nat
  BY <1>1, <1>6, <1>7
<1>9. job.id = k /\ k <= MAX_JOB_ID /\ k <= JOB_STORE_CAPACITY
  BY <1>6, <1>8 DEF TableOK
<1>10. s.next_job_id = k /\ Len(s.jobs) < JOB_STORE_CAPACITY
  BY <1>6, <1>8, <1>9, SchedulerConstants, SMTT(90) DEF TableOK
<1>11. SubmitAdmitted(s, after.time)
  BY <1>5, <1>9, <1>10, <1>8 DEF SubmitAdmitted
<1>12. Rebuilt(s, "JOB_CREATED", job) = Submit(s, job.task, job.max_retries, after.time)
  <2>1. job = JobInit(s.next_job_id, job.task, job.max_retries, after.time)
    BY <1>3, <1>4, <1>9, <1>10
  <2> HIDE DEF job, k
  <2> QED  BY <2>1, <1>9, <1>10 DEF Rebuilt, Submit
<1>13. job.task \in Tasks /\ job.max_retries \in 0..MAX_RETRIES
  BY <1>1 DEF JobType
<1> QED  BY <1>2, <1>11, <1>12, <1>13, IsSubmission

\* An assignment record.
LEMMA AssignmentRecord ==
  ASSUME NEW v, ViewOK(v), NEW after, ViewOK(after), NEW record \in WalRecords,
         NEW n \in Nat \ {0}, Replays(v, record, n, after), record.type = "JOB_ASSIGNED"
  PROVE  Atomic!Assignment(v, after)
<1> DEFINE s   == v.scheduler
           job == record.job
           w   == job.worker_id
           old == s.jobs[FindSlot(s, job.id)]
<1>1. /\ job \in JobType /\ Derived(Mirror(v, n - 1), record) = job
      /\ AcceptsTransition(Mirror(v, n - 1), record)
  BY JobStep
<1>2. /\ after.time = job.updated_at
      /\ after = [v EXCEPT !.scheduler = Rebuilt(s, "JOB_ASSIGNED", job), !.time = after.time]
  <2>1. record.type # "WORKER_ID_ALLOCATED"
    OBVIOUS
  <2>2. AfterJob(v, record, after)
    BY <2>1, JobView
  <2> QED  BY <2>2 DEF AfterJob
<1>3. Mirror(v, n - 1).scheduler = s
  BY DEF Mirror
<1>4. AcceptsAssigned(Mirror(v, n - 1), job, old)
  BY <1>1, <1>3 DEF AcceptsTransition
<1>5. /\ w \in 1..Issued(v.next_worker_id, MAX_WORKER_ID) /\ ~Busy(s, w)
      /\ s.pending # <<>> /\ Head(s.pending) = job.id
  BY <1>3, <1>4 DEF AcceptsAssigned, Mirror
<1>6. v.next_worker_id \in 0..MAX_WORKER_ID /\ MAX_WORKER_ID \in Nat
  BY RegistryConstants DEF ViewOK, ViewType
<1>7. w \in 1..MAX_WORKER_ID /\ (v.next_worker_id = 0 \/ w < v.next_worker_id)
  BY <1>5, <1>6 DEF Issued
<1>8. job = JobAssign(old, w, after.time)
  BY <1>1, <1>2, <1>3 DEF Derived
<1>9. Rebuilt(s, "JOB_ASSIGNED", job) = Assign(s, w, after.time)
  <2> HIDE DEF s, w, job
  <2> QED  BY <1>5, <1>8 DEF Rebuilt, Assign
<1> QED  BY <1>2, <1>5, <1>7, <1>9, IsAssignment

\* A record of what became of an attempt.
LEMMA ProgressRecord ==
  ASSUME NEW v, ViewOK(v), NEW after, ViewOK(after), NEW record \in WalRecords,
         NEW n \in Nat \ {0}, Replays(v, record, n, after),
         record.type \in {"JOB_STARTED", "JOB_COMPLETED", "JOB_REQUEUED", "JOB_FAILED"}
  PROVE  Atomic!Progress(v, after)
<1> DEFINE s   == v.scheduler
           job == record.job
           id  == job.id
           old == s.jobs[id]
<1>1. /\ job \in JobType /\ Derived(Mirror(v, n - 1), record) = job
      /\ AcceptsTransition(Mirror(v, n - 1), record)
  BY JobStep
<1>2. /\ after.time = job.updated_at
      /\ after = [v EXCEPT !.scheduler = Rebuilt(s, record.type, job), !.time = after.time]
  <2>1. record.type # "WORKER_ID_ALLOCATED"
    OBVIOUS
  <2>2. AfterJob(v, record, after)
    BY <2>1, JobView
  <2> QED  BY <2>2 DEF AfterJob
<1>3. Mirror(v, n - 1).scheduler = s /\ SchedulerOK(s)
  BY DEF Mirror, ViewOK
<1>4. SlotsOf(s, id) # {}
  BY <1>1, <1>3 DEF AcceptsTransition
<1>5. id \in DOMAIN s.jobs /\ FindSlot(s, id) = id /\ old \in JobType
  <2>1. PICK i \in DOMAIN s.jobs : s.jobs[i].id = id
    BY <1>4 DEF SlotsOf
  <2> QED  BY <1>3, <2>1, SlotOfJob
<1>6. Rebuilt(s, record.type, job) = Publish(s, id, job)
  BY <1>5 DEF Rebuilt
<1>7. CASE record.type = "JOB_STARTED"
  <2>1. JobStartOK(old, job.worker_id, job.attempt, after.time) /\ job = JobStart(old, after.time)
    BY <1>1, <1>2, <1>3, <1>5, <1>7 DEF AcceptsTransition, Derived
  <2>2. IsActive(old) /\ old.state = "ASSIGNED"
    BY <2>1, <1>5 DEF JobStartOK, CheckTransition, CanTransition, IsActive
  <2>3. job \in Atomic!Outcomes(old, after.time)
    BY <2>1, <2>2, SameJobs DEF Atomic!Outcomes
  <2> QED  BY <1>2, <1>5, <1>6, <2>2, <2>3, IsProgress
<1>8. CASE record.type = "JOB_COMPLETED"
  <2>1. /\ JobCompleteOK(old, job.worker_id, job.attempt, after.time)
        /\ job = JobComplete(old, job.result, after.time)
    BY <1>1, <1>2, <1>3, <1>5, <1>8 DEF AcceptsTransition, Derived
  <2>2. IsActive(old) /\ old.state = "RUNNING"
    BY <2>1, <1>5 DEF JobCompleteOK, CheckTransition, CanTransition, IsActive
  <2>3. job.result \in Results \cup {NoResult} /\ Atomic!NoResult = NoResult
    BY <1>1 DEF JobType, Atomic!NoResult, NoResult
  <2>4. job \in Atomic!Outcomes(old, after.time)
    BY <2>1, <2>2, <2>3, SameJobs, SMTT(90) DEF Atomic!Outcomes
  <2> QED  BY <1>2, <1>5, <1>6, <2>2, <2>4, IsProgress
<1>9. CASE record.type \in {"JOB_REQUEUED", "JOB_FAILED"}
  <2>1. /\ JobFailOK(old, old.worker_id, job.attempt, job.failure, after.time)
        /\ job = JobFail(old, job.failure, after.time)
    BY <1>1, <1>2, <1>3, <1>5, <1>9 DEF AcceptsTransition, Derived
  <2>2. IsActive(old) /\ job.failure \in {"TASK", "WORKER_LOST"}
    BY <2>1, <1>5 DEF JobFailOK, CheckTransition, CanTransition, IsActive, FailNext
  <2>3. job \in Atomic!Outcomes(old, after.time)
    BY <2>1, <2>2, SameJobs, SMTT(90) DEF Atomic!Outcomes
  <2> QED  BY <1>2, <1>5, <1>6, <2>2, <2>3, IsProgress
<1> QED  BY <1>7, <1>8, <1>9

\* Every record of the log is one operation of AtomicStore.
LEMMA RecordIsOperation ==
  ASSUME NEW v, ViewOK(v), NEW after, ViewOK(after), NEW record \in WalRecords,
         NEW n \in Nat \ {0}, Replays(v, record, n, after)
  PROVE  Atomic!Operation(v, after)
<1>1. CASE record.type = "WORKER_ID_ALLOCATED"
  BY <1>1, AllocationRecord DEF Atomic!Operation
<1>2. CASE record.type # "WORKER_ID_ALLOCATED"
  <2>1. after.time >= v.time /\ record.type \in RecordTypes
    <3>1. AfterJob(v, record, after)
      BY <1>2, JobView
    <3> QED  BY <1>2, <3>1, JobStep DEF AfterJob
  <2>2. Atomic!Submission(v, after) \/ Atomic!Assignment(v, after) \/ Atomic!Progress(v, after)
    BY <2>1, CreationRecord, AssignmentRecord, ProgressRecord DEF RecordTypes
  <2> QED  BY <2>1, <2>2 DEF Atomic!Operation
<1> QED  BY <1>1, <1>2

-----------------------------------------------------------------------------
(* The kinds of steps of the store, by what they do to the log and to what *)
(* is exposed of it.                                                       *)

\* Nothing is written or the operation failed, or one record is written and
\* waits for its sync.
Writes ==
  \/ UNCHANGED <<log, shadow>> /\ failure' # "NONE"
  \/ Extends(Len(log)) /\ Len(log') = Len(log) + 1 /\ Len(staged') = 1 /\ UNCHANGED failure

\* Neither the log nor what is exposed of it changes, and no service begins.
Quiet ==
  /\ UNCHANGED <<log, shadow, exposed>>
  /\ pc' = "serving" /\ failure' = "NONE" => UNCHANGED <<pc, failure, staged>>

\* An operation of the open store writes its record.
Serves ==
  /\ pc = "serving" /\ failure = "NONE" /\ staged = <<>>
  /\ Extends(Len(log)) /\ Len(log') = Len(log) + 1 /\ Len(staged') = 1
  /\ UNCHANGED exposed

\* The reconciliation of a start writes a record.
Reconciles == RecoverSlot /\ pc' = "recovering" /\ failure' = "NONE" /\ UNCHANGED exposed

\* The record of an operation becomes durable, and exposed.
Publishes ==
  /\ pc = "serving" /\ staged # <<>> /\ staged' = <<>>
  /\ UNCHANGED <<log, shadow>> /\ exposed' = log

\* The reconciliation ends, the store begins to serve.
Opens ==
  /\ Settled /\ pc = "recovering" /\ staged' = <<>>
  /\ \A i \in DOMAIN sched.jobs : slot <= i => ~IsActive(sched.jobs[i])
  /\ UNCHANGED <<log, shadow>> /\ exposed' = log

\* The process stops and its file keeps at least what was synced.
Cuts ==
  /\ pc' = "down" /\ UNCHANGED exposed
  /\ \E m \in 0..Len(log) : synced <= m /\ Len(log') = m /\ Extends(m)

\* faultline_wal_writer_append.
LEMMA AppendWrites ==
  ASSUME StoreInv, NEW record, NEW s, NEW w, NEW time, AppendRecord(record, s, w, time)
  PROVE  Writes
<1>1. log \in Seq(WalRecords) /\ Extends(Len(log))
  BY AppendGrows DEF StoreInv, TypeOK
<1>2. CASE /\ log' = Append(log, record)
           /\ staged' = <<[sched |-> s, workers |-> w, time |-> time]>> /\ UNCHANGED failure
  <2>1. Len(log') = Len(log) + 1 /\ Len(staged') = 1
    BY <1>1, <1>2
  <2> QED  BY <1>1, <1>2, <2>1 DEF Writes
<1>3. CASE UNCHANGED <<log, shadow>> /\ failure' = "WAL"
  BY <1>3 DEF Writes
<1> QED  BY <1>2, <1>3 DEF AppendRecord, disk

\* commit_job, and commit_worker_loss.
LEMMA CommitWrites ==
  ASSUME StoreInv, NEW type, NEW id, NEW scratch, NEW w, CommitJob(type, id, scratch, w)
  PROVE  Writes
<1>1. CASE Known(scratch, id)
  <2> DEFINE job == scratch.jobs[FindSlot(scratch, id)]
  <2>1. AppendRecord(JobRecord(next_sequence, type, job), scratch, w, job.updated_at)
    BY <1>1 DEF CommitJob
  <2> HIDE DEF job
  <2> QED  BY <2>1, AppendWrites
<1>2. CASE ~Known(scratch, id)
  BY <1>2 DEF CommitJob, Fail, disk, Writes
<1> QED  BY <1>1, <1>2

\* commit_worker_loss changes the file only as a commit does, or fails.
LEMMA LossWrites ==
  ASSUME StoreInv, NEW worker_id, NEW raw, NEW w, CommitWorkerLoss(worker_id, raw, w)
  PROVE  Writes
<1>1. ASSUME NEW f, Fail(f), f # "NONE" PROVE Writes
  BY <1>1 DEF Fail, disk, Writes
<1> QED  BY <1>1, CommitWrites DEF CommitWorkerLoss

\* An operation of the open store.
LEMMA OperationShape ==
  ASSUME pc = "serving", failure = "NONE", staged = <<>>, Writes, ServingFrame
  PROVE  Quiet \/ Serves
BY DEF Writes, ServingFrame, Quiet, Serves

\* Every step is of one of these kinds.
LEMMA StepShapes ==
  ASSUME StoreInv, [Next]_vars
  PROVE  Quiet \/ Serves \/ Reconciles \/ Publishes \/ Opens \/ Cuts
<1> DEFINE Goal == Quiet \/ Serves \/ Reconciles \/ Publishes \/ Opens \/ Cuts
<1> USE DEF Goal
<1>0. ASSUME NEW f, Fail(f), f # "NONE" PROVE Writes
  BY <1>0 DEF Fail, disk, Writes
<1>1. CASE UNCHANGED vars
  BY <1>1 DEF vars, Quiet
<1>2. ASSUME NEW raw \in Readings, NEW fd \in Fds, StoreRegister(fd, raw)
      PROVE  Goal
  <2>1. Writes
    BY <1>0, <1>2, AppendWrites DEF StoreRegister
  <2> QED  BY <1>2, <2>1, OperationShape DEF StoreRegister, Usable
<1>3. ASSUME NEW raw \in Readings, NEW task \in Tasks, NEW n \in 0..MAX_RETRIES,
             StoreSubmit(task, n, raw)
      PROVE  Goal
  <2>1. Writes
    BY <1>0, <1>3, CommitWrites DEF StoreSubmit
  <2> QED  BY <1>3, <2>1, OperationShape DEF StoreSubmit, Usable
<1>4. ASSUME NEW raw \in Readings, NEW w \in WorkerIds, StoreAssign(w, raw)
      PROVE  Goal
  <2>1. Writes
    BY <1>0, <1>4, CommitWrites DEF StoreAssign
  <2> QED  BY <1>4, <2>1, OperationShape DEF StoreAssign, Usable
<1>5. ASSUME NEW raw \in Readings, NEW w \in WorkerIds, NEW report \in Reports,
             StoreReport(w, report, raw)
      PROVE  Goal
  <2>1. Writes
    BY <1>0, <1>5, CommitWrites DEF StoreReport
  <2> QED  BY <1>5, <2>1, OperationShape DEF StoreReport, Usable
<1>6. ASSUME NEW raw \in Readings, NEW w \in WorkerIds, NEW fd \in Fds, CloseClient(w, fd, raw)
      PROVE  Goal
  <2>1. CASE Busy(sched, w) /\ failure = "NONE"
    <3>1. Writes
      BY <1>6, <2>1, LossWrites DEF CloseClient
    <3> QED  BY <1>6, <2>1, <3>1, OperationShape DEF CloseClient
  <2>2. CASE ~(Busy(sched, w) /\ failure = "NONE")
    BY <1>6, <2>2 DEF CloseClient, ServingFrame, disk, Quiet
  <2> QED  BY <2>1, <2>2
<1>7. CASE SyncRecord
  BY <1>7 DEF SyncRecord, Quiet, Publishes
<1>8. CASE SyncFails
  BY <1>8 DEF SyncFails, disk, Quiet
<1>9. ASSUME NEW raw \in {-1} \cup 0..MAX_CLOCK, CreateWal(raw) \/ OpenWal(raw)
      PROVE  Goal
  BY <1>9 DEF CreateWal, OpenWal, disk, Quiet
<1>10. CASE ReplayRecord
  BY <1>10 DEF ReplayRecord, Replaying, disk, Quiet
<1>11. CASE FinishReplay
  BY <1>11 DEF FinishReplay, Quiet
<1>12. CASE ReplayFails
  BY <1>12 DEF ReplayFails, Quiet
<1>13. CASE RecoverSlot
  <2> DEFINE todo == {i \in slot..Len(sched.jobs) : IsActive(sched.jobs[i])}
  <2>1. /\ pc = "recovering" /\ failure = "NONE" /\ staged = <<>>
        /\ sched.jobs \in Seq(JobType) /\ slot \in Nat
    BY <1>13 DEF RecoverSlot, StoreInv, TypeOK, SchedulerType
  <2>2. CASE todo = {}
    <3>1. ASSUME NEW i \in DOMAIN sched.jobs, slot <= i PROVE ~IsActive(sched.jobs[i])
      BY <2>1, <2>2, <3>1
    <3>2. /\ staged' = staged /\ UNCHANGED <<log, shadow>> /\ exposed' = log
      BY <1>13, <2>2 DEF RecoverSlot, disk
    <3> QED  BY <2>1, <3>1, <3>2 DEF Opens, Settled
  <2>3. CASE todo # {}
    <3>1. /\ CommitWorkerLoss(sched.jobs[First(todo)].worker_id, session_start, workers)
          /\ UNCHANGED <<pc, exposed>>
      BY <1>13, <2>3 DEF RecoverSlot
    <3>2. Writes
      BY <3>1, LossWrites
    <3>3. CASE failure' = "NONE"
      BY <1>13, <2>1, <3>1, <3>3 DEF Reconciles
    <3>4. CASE failure' # "NONE"
      <4>1. UNCHANGED <<log, shadow>>
        BY <2>1, <3>2, <3>4 DEF Writes
      <4> QED  BY <4>1, <3>1, <3>4 DEF Quiet
    <3> QED  BY <3>3, <3>4
  <2> QED  BY <2>2, <2>3
<1>14. CASE Stop
  <2>1. PICK m \in synced..Len(log) : log' = SubSeq(log, 1, m) /\ shadow' = SubSeq(shadow, 1, m + 1)
    BY <1>14 DEF Stop
  <2>2. /\ log \in Seq(WalRecords) /\ shadow \in Seq(ViewType) /\ Len(shadow) = Len(log) + 1
        /\ synced \in Nat
    BY DEF StoreInv, TypeOK, HistoryInv
  <2>3. m \in 0..Len(log) /\ synced <= m /\ Len(log') = m /\ Extends(m)
    BY <2>1, <2>2 DEF Extends
  <2> QED  BY <1>14, <2>3 DEF Stop, Cuts
<1> QED
  BY <1>1, <1>2, <1>3, <1>4, <1>5, <1>6, <1>7, <1>8, <1>9, <1>10, <1>11, <1>12, <1>13, <1>14
  DEF Next

-----------------------------------------------------------------------------
(* The records nobody has seen yet.                                        *)

\* w is v with the attempts of the slots before k lost.
Partial(w, v, k) ==
  /\ w.time = v.time /\ w.next_worker_id = v.next_worker_id
  /\ Charged(w.scheduler, v.scheduler, v.time, k) /\ Scanned(w.scheduler, k)

\* w is v after some part of a reconciliation.
Reconciling(w, v) == \E k \in Nat \ {0} : Partial(w, v, k)

\* While the store serves, at most the record being synced is not exposed.
\* Otherwise everything behind the first such record was written by
\* reconciliations, of which several may have been interrupted.
HiddenInv ==
  /\ pc = "serving" /\ failure = "NONE" => Len(log) = Len(exposed) + Len(staged)
  /\ \A n \in Len(exposed) + 1..Len(log) : Reconciling(shadow[n + 1], shadow[Len(exposed) + 2])

\* The lengths of the log and of its exposed part, and the views of the log.
LEMMA Lengths ==
  ASSUME StoreInv
  PROVE  /\ Len(log) \in Nat /\ Len(exposed) \in Nat /\ Len(exposed) <= synced
         /\ synced \in Nat /\ synced <= Len(log)
         /\ \A n \in 1..Len(log) + 1 : ViewOK(shadow[n])
<1>1. /\ log \in Seq(WalRecords) /\ exposed \in Seq(WalRecords) /\ synced \in Nat
      /\ shadow \in Seq(ViewType) /\ Len(shadow) = Len(log) + 1
      /\ \A n \in DOMAIN shadow : ViewOK(shadow[n])
  BY DEF StoreInv, TypeOK, HistoryInv
<1> QED  BY <1>1 DEF StoreInv, ExposedIsDurable

\* The first record behind the exposed ones begins a reconciliation, unless
\* it is an operation of a client.
LEMMA FirstHidden ==
  ASSUME NEW v, ViewOK(v)
  PROVE  Reconciling(v, v)
<1>1. v.scheduler \in SchedulerType /\ v.scheduler.jobs \in Seq(JobType)
  BY DEF ViewOK, SchedulerOK, SchedulerType
<1>2. Charged(v.scheduler, v.scheduler, v.time, 1)
  BY <1>1, ChargedNothing
<1>3. Scanned(v.scheduler, 1)
  BY <1>1 DEF Scanned
<1> QED  BY <1>2, <1>3 DEF Partial, Reconciling

\* A record that the reconciliation writes behind such records.
LEMMA NextHidden ==
  ASSUME StoreInv, StoreInv', Reconciles, NEW v, ViewOK(v),
         Reconciling(shadow[Len(log) + 1], v)
  PROVE  Reconciling(shadow'[Len(log') + 1], v)
<1> DEFINE w == shadow[Len(log) + 1]
           x == shadow'[Len(log') + 1]
<1>0. PICK k \in Nat \ {0} : Partial(w, v, k)
  BY DEF Reconciling
<1>1. PICK j : Recovers(j)
  BY RecoverFacts DEF Reconciles
<1>2. /\ Settled /\ pc = "recovering" /\ failure = "NONE" /\ UNCHANGED clock
      /\ pc' = "recovering" /\ UNCHANGED <<reading, workers>>
  BY DEF Reconciles, RecoverSlot, Settled
<1>3. /\ w.scheduler = sched /\ w.next_worker_id = workers.next_worker_id
      /\ w.time = last_job_time /\ Scanned(sched, slot)
  BY <1>2, SettledFacts
<1>4. reading = session_start /\ last_job_time = time_base
  BY <1>2 DEF StoreInv, ClockInv
<1>5. /\ View(staged'[1].sched, staged'[1].workers.next_worker_id, staged'[1].time) = x
      /\ Scanned(staged'[1].sched, slot')
  BY <1>1, <1>2 DEF StoreInv, LiveInv, Recovers
<1>6. x.time = staged'[1].time /\ x.scheduler = staged'[1].sched
      /\ x.next_worker_id = staged'[1].workers.next_worker_id
  BY <1>5 DEF View
<1>7. /\ SchedulerOK(sched) /\ sched \in SchedulerType /\ v.scheduler \in SchedulerType
      /\ time_base \in Nat /\ session_start \in Int /\ staged'[1].time \in Nat
      /\ slot \in Nat \ {0} /\ sched.jobs \in Seq(JobType)
  <2>1. /\ SchedulerOK(sched) /\ sched \in SchedulerType /\ v.scheduler \in SchedulerType
        /\ time_base \in Nat /\ session_start \in Int /\ slot \in Nat \ {0}
    BY DEF StoreInv, TypeOK, SchedulerOK, ViewOK
  <2>2. staged' \in Seq(StagedType)
    BY DEF StoreInv, TypeOK
  <2>3. staged'[1] \in StagedType
    BY <1>1, <2>2 DEF Recovers
  <2> QED  BY <2>1, <2>3 DEF StagedType, SchedulerType
<1>8. last_job_time' <= staged'[1].time /\ staged'[1].time <= JobTime(reading)'
  BY <1>1, <1>2 DEF StoreInv, ClockInv, Recovers
<1>9. x.time = time_base
  BY <1>2, <1>4, <1>6, <1>7, <1>8 DEF clock, JobTime
<1>10. /\ v.time = time_base /\ v.next_worker_id = workers.next_worker_id
       /\ Charged(sched, v.scheduler, time_base, k) /\ Scanned(sched, k)
  BY <1>0, <1>3, <1>4 DEF Partial
<1>11. /\ j \in DOMAIN sched.jobs /\ j \in Nat \ {0} /\ k <= j
       /\ \A i \in DOMAIN sched.jobs : i < j => ~IsActive(sched.jobs[i])
  <2>1. j \in DOMAIN sched.jobs /\ IsActive(sched.jobs[j]) /\ j \in Nat \ {0}
    BY <1>1, <1>7 DEF Recovers
  <2>2. k <= j
    BY <1>10, <2>1 DEF Scanned
  <2>3. ASSUME NEW i \in DOMAIN sched.jobs, i < j PROVE ~IsActive(sched.jobs[i])
    <3>1. i \in Nat
      BY <1>7
    <3>2. CASE i < slot
      BY <1>3, <3>2 DEF Scanned
    <3>3. CASE slot <= i
      BY <1>1, <2>3, <3>3 DEF Recovers
    <3> QED  BY <1>7, <3>1, <3>2, <3>3
  <2> QED  BY <2>1, <2>2, <2>3
<1>12. Charged(sched, v.scheduler, time_base, j)
  BY <1>7, <1>10, <1>11, ChargedSkips
<1>13. Charged(x.scheduler, v.scheduler, time_base, j + 1)
  BY <1>1, <1>6, <1>7, <1>11, <1>12, ChargedOne DEF Recovers
<1>14. Scanned(x.scheduler, j + 1) /\ x.next_worker_id = v.next_worker_id
  BY <1>1, <1>5, <1>6, <1>10 DEF Recovers
<1>15. j + 1 \in Nat \ {0}
  BY <1>11
<1>16. Partial(x, v, j + 1)
  <2> HIDE DEF x
  <2> QED  BY <1>9, <1>10, <1>13, <1>14 DEF Partial
<1> QED  BY <1>15, <1>16 DEF Reconciling

\* What is hidden stays of this form.
LEMMA HiddenStep ==
  ASSUME StoreInv, StoreInv', HiddenInv, [Next]_vars
  PROVE  HiddenInv'
<1> DEFINE e == Len(exposed)
<1>1. /\ Len(log) \in Nat /\ e \in Nat /\ e <= synced /\ synced \in Nat /\ synced <= Len(log)
      /\ \A n \in 1..Len(log) + 1 : ViewOK(shadow[n])
  BY Lengths
<1>2. /\ Len(log') \in Nat /\ \A n \in 1..Len(log') + 1 : ViewOK(shadow'[n])
  BY NextHistory
\* The records that the step keeps.
<1>3. ASSUME NEW m \in 0..Len(log), Extends(m), UNCHANGED exposed, NEW n \in e + 1..m
      PROVE  Reconciling(shadow'[n + 1], shadow'[e + 2])
  <2>1. /\ n \in e + 1..Len(log) /\ n + 1 \in 1..(m + 1) /\ e + 2 \in 1..(m + 1)
    BY <1>1
  <2>2. /\ Reconciling(shadow[n + 1], shadow[e + 2])
        /\ shadow'[n + 1] = shadow[n + 1] /\ shadow'[e + 2] = shadow[e + 2]
    BY <1>3, <2>1 DEF HiddenInv, Extends
  <2> QED  BY <2>2
\* A record that the step adds as the first that is hidden.
<1>4. ASSUME Len(log') = e + 1
      PROVE  Reconciling(shadow'[e + 2], shadow'[e + 2])
  <2>1. ViewOK(shadow'[e + 2])
    BY <1>1, <1>2, <1>4
  <2> QED  BY <2>1, FirstHidden
\* A step that adds one record.
<1>5. ASSUME Extends(Len(log)), UNCHANGED exposed, Len(log') = Len(log) + 1,
             Len(log) > e => Reconciling(shadow'[Len(log') + 1], shadow'[e + 2])
      PROVE  \A n \in e + 1..Len(log') : Reconciling(shadow'[n + 1], shadow'[e + 2])
  <2> SUFFICES ASSUME NEW n \in e + 1..Len(log')
               PROVE  Reconciling(shadow'[n + 1], shadow'[e + 2])
    OBVIOUS
  <2>1. Len(log) \in 0..Len(log)
    BY <1>1
  <2>2. CASE n <= Len(log)
    <3>1. n \in e + 1..Len(log)
      BY <1>1, <2>1, <2>2
    <3> QED  BY <1>3, <1>5, <2>1, <3>1
  <2>3. CASE n > Len(log)
    <3>1. n = Len(log')
      BY <1>1, <1>5, <2>1, <2>3
    <3>2. CASE Len(log) = e
      <4>1. Reconciling(shadow'[e + 2], shadow'[e + 2]) /\ n + 1 = e + 2
        BY <1>1, <1>4, <1>5, <3>1, <3>2
      <4> QED  BY <4>1
    <3>3. CASE Len(log) # e
      BY <1>1, <1>5, <3>1, <3>3
    <3> QED  BY <3>2, <3>3
  <2> QED  BY <1>1, <2>1, <2>2, <2>3
<1>6. CASE Quiet
  <2>1. Extends(Len(log)) /\ UNCHANGED <<log, exposed>> /\ Len(log) \in 0..Len(log)
    BY <1>1, <1>6, IdleGrows DEF Quiet
  <2>2. \A n \in e + 1..Len(log') : Reconciling(shadow'[n + 1], shadow'[e + 2])
    BY <1>3, <2>1
  <2>3. pc' = "serving" /\ failure' = "NONE" => Len(log') = Len(exposed') + Len(staged')
    BY <1>6 DEF Quiet, HiddenInv
  <2> QED  BY <2>1, <2>2, <2>3 DEF HiddenInv
<1>7. CASE Serves
  <2>1. Len(log) = e
    BY <1>1, <1>7 DEF Serves, HiddenInv
  <2>2. \A n \in e + 1..Len(log') : Reconciling(shadow'[n + 1], shadow'[e + 2])
    BY <1>1, <1>5, <1>7, <2>1 DEF Serves
  <2>3. Len(log') = Len(exposed') + Len(staged')
    BY <1>1, <1>7, <2>1 DEF Serves
  <2>4. UNCHANGED exposed
    BY <1>7 DEF Serves
  <2> QED  BY <2>2, <2>3, <2>4 DEF HiddenInv
<1>8. CASE Reconciles
  <2>1. PICK j : Recovers(j)
    BY <1>8, RecoverFacts DEF Reconciles
  <2>2. Len(log') = Len(log) + 1 /\ UNCHANGED exposed /\ pc' = "recovering"
    BY <1>8, <2>1 DEF Recovers, Reconciles
  <2>3. Extends(Len(log))
    <3>1. PICK m \in 0..Len(log) : Extends(m)
      BY LogStep
    <3>2. m = Len(log)
      BY <1>1, <2>2, <3>1 DEF Extends
    <3> QED  BY <3>1, <3>2
  <2>4. ASSUME Len(log) > e PROVE Reconciling(shadow'[Len(log') + 1], shadow'[e + 2])
    <3>1. /\ Len(log) \in e + 1..Len(log) /\ e + 2 \in 1..Len(log) + 1
          /\ shadow'[e + 2] = shadow[e + 2]
      BY <1>1, <2>3, <2>4, SMTT(90) DEF Extends
    <3>2. Reconciling(shadow[Len(log) + 1], shadow[e + 2])
      BY <3>1 DEF HiddenInv
    <3>3. ViewOK(shadow[e + 2])
      BY <1>1, <3>1
    <3>4. Reconciling(shadow'[Len(log') + 1], shadow[e + 2])
      BY <1>8, <3>2, <3>3, NextHidden
    <3> QED  BY <3>1, <3>4
  <2>5. \A n \in e + 1..Len(log') : Reconciling(shadow'[n + 1], shadow'[e + 2])
    BY <1>5, <2>2, <2>3, <2>4
  <2> QED  BY <2>2, <2>5 DEF HiddenInv
<1>9. CASE Publishes \/ Opens
  <2>1. Len(exposed') = Len(log') /\ staged' = <<>>
    BY <1>9 DEF Publishes, Opens
  <2> QED  BY <1>2, <2>1 DEF HiddenInv
<1>10. CASE Cuts
  <2>1. PICK m \in 0..Len(log) : synced <= m /\ Len(log') = m /\ Extends(m)
    BY <1>10 DEF Cuts
  <2>2. \A n \in e + 1..Len(log') : Reconciling(shadow'[n + 1], shadow'[e + 2])
    BY <1>3, <1>10, <2>1 DEF Cuts
  <2> QED  BY <1>10, <2>2 DEF Cuts, HiddenInv
<1> QED  BY <1>6, <1>7, <1>8, <1>9, <1>10, StepShapes

-----------------------------------------------------------------------------
(* Every step of the store is a step of AtomicStore, or changes nothing    *)
(* that can be seen.                                                       *)

\* A finished reconciliation has lost every active attempt and nothing else.
LEMMA FinishedIsLost ==
  ASSUME NEW v, ViewOK(v), NEW w, ViewOK(w), Reconciling(w, v),
         \A i \in DOMAIN w.scheduler.jobs : ~IsActive(w.scheduler.jobs[i])
  PROVE  Atomic!Lost(v, w)
<1> DEFINE a == v.scheduler
           b == w.scheduler
           n == Len(a.pending)
<1>1. PICK k \in Nat \ {0} : Partial(w, v, k)
  BY DEF Reconciling
<1>2. /\ w.time = v.time /\ w.next_worker_id = v.next_worker_id /\ Len(b.jobs) = Len(a.jobs)
      /\ n <= Len(b.pending) /\ \A i \in 1..n : b.pending[i] = a.pending[i]
      /\ \A i, j \in (n + 1)..Len(b.pending) : i < j => b.pending[i] < b.pending[j]
      /\ \A i \in DOMAIN b.jobs :
           b.jobs[i] = IF IsActive(a.jobs[i]) /\ i < k
                       THEN JobFail(a.jobs[i], "WORKER_LOST", v.time) ELSE a.jobs[i]
  BY <1>1 DEF Partial, Charged
<1>3. /\ a.jobs \in Seq(JobType) /\ b.jobs \in Seq(JobType)
      /\ a.pending \in Seq(1..MAX_JOB_ID) /\ b.pending \in Seq(1..MAX_JOB_ID)
      /\ QueueOK(a) /\ QueueOK(b)
  BY DEF ViewOK, SchedulerOK, SchedulerType
<1>4. ASSUME NEW i \in DOMAIN b.jobs
      PROVE  b.jobs[i] = IF IsActive(a.jobs[i]) THEN JobFail(a.jobs[i], "WORKER_LOST", v.time)
                         ELSE a.jobs[i]
  <2>1. IsActive(a.jobs[i]) => i < k
    BY <1>2
  <2> QED  BY <1>2, <2>1
<1>5. DOMAIN a.jobs = DOMAIN b.jobs /\ DOMAIN a.pending = 1..n /\ DOMAIN b.pending = 1..Len(b.pending)
      /\ n \in Nat /\ Len(b.pending) \in Nat
  BY <1>2, <1>3
<1> DEFINE Tail2 == {b.pending[i] : i \in n + 1..Len(b.pending)}
           Again == {i \in DOMAIN b.jobs : IsActive(a.jobs[i]) /\ b.jobs[i].state = "QUEUED"}
<1>6. ASSUME NEW i \in n + 1..Len(b.pending) PROVE b.pending[i] \in Again
  <2> DEFINE x == b.pending[i]
  <2>1. i \in DOMAIN b.pending /\ x \in Members(b.pending)
    BY <1>5 DEF Members
  <2>2. x \in DOMAIN b.jobs /\ b.jobs[x].state = "QUEUED"
    BY <1>3, <2>1 DEF QueueOK
  <2>3. ASSUME ~IsActive(a.jobs[x]) PROVE FALSE
    <3>1. a.jobs[x].state = "QUEUED" /\ x \in DOMAIN a.jobs
      BY <1>4, <1>5, <2>2, <2>3
    <3>2. x \in Members(a.pending)
      BY <1>3, <3>1 DEF QueueOK
    <3>3. PICK h \in DOMAIN a.pending : a.pending[h] = x
      BY <3>2 DEF Members
    <3>4. h \in DOMAIN b.pending /\ b.pending[h] = b.pending[i] /\ h # i
      BY <1>2, <1>5, <3>3, SMTT(90)
    <3> QED  BY <1>3, <2>1, <3>4 DEF QueueOK, NoDuplicates
  <2> QED  BY <2>2, <2>3
<1>7. ASSUME NEW x \in Again PROVE x \in Tail2
  <2>1. x \in Members(b.pending) /\ x \in DOMAIN a.jobs /\ a.jobs[x].state # "QUEUED"
    BY <1>3, <1>5 DEF QueueOK, IsActive
  <2>2. PICK i \in DOMAIN b.pending : b.pending[i] = x
    BY <2>1 DEF Members
  <2>3. x \notin Members(a.pending)
    BY <1>3, <2>1 DEF QueueOK
  <2>4. i \notin 1..n
    BY <1>2, <1>5, <2>2, <2>3 DEF Members
  <2>5. i \in n + 1..Len(b.pending)
    BY <1>5, <2>4, SMTT(90)
  <2> QED  BY <2>2, <2>5
<1>8. Tail2 = Again
  BY <1>6, <1>7
<1>9. \A i \in DOMAIN b.jobs :
        b.jobs[i] = IF Atomic!IsActive(a.jobs[i])
                    THEN Atomic!JobFail(a.jobs[i], "WORKER_LOST", v.time) ELSE a.jobs[i]
  BY <1>4, SameJobs
<1>10. Tail2 = {i \in DOMAIN b.jobs : Atomic!IsActive(a.jobs[i]) /\ b.jobs[i].state = "QUEUED"}
  BY <1>8, SameJobs
<1> QED  BY <1>2, <1>9, <1>10 DEF Atomic!Lost

\* What is visible and in flight when one more record is written.
LEMMA WriteIsBegin ==
  ASSUME StoreInv, StoreInv', Extends(Len(log)), Len(log') = Len(log) + 1, UNCHANGED exposed
  PROVE  [Atomic!AtomicNext]_<<Visible, InFlight>>
<1> DEFINE e == Len(exposed)
<1>1. Len(log) \in Nat /\ e \in Nat /\ e <= Len(log)
  BY Lengths
<1>2. Visible' = Visible
  BY <1>1 DEF Visible, Extends
<1>3. CASE Len(log) > e
  <2>1. InFlight' = InFlight
    BY <1>1, <1>3 DEF InFlight, Extends
  <2> QED  BY <1>2, <2>1
<1>4. CASE Len(log) = e
  <2>1. InFlight = <<>> /\ InFlight' = <<shadow'[e + 2]>> /\ Visible = shadow'[e + 1]
    BY <1>1, <1>2, <1>4 DEF InFlight, Visible
  <2>2. e + 1 \in 1..Len(log') /\ e + 1 \in Nat \ {0} /\ e + 2 \in 1..(Len(log') + 1)
        /\ (e + 1) + 1 = e + 2 /\ e + 1 \in 1..(Len(log') + 1)
    BY <1>1, <1>4
  <2>3. /\ ViewOK(shadow'[e + 1]) /\ ViewOK(shadow'[e + 2]) /\ log'[e + 1] \in WalRecords
        /\ Replays(shadow'[e + 1], log'[e + 1], e + 1, shadow'[e + 2])
    BY <2>2, NextHistory
  <2>4. Atomic!Operation(shadow'[e + 1], shadow'[e + 2])
    BY <2>2, <2>3, RecordIsOperation
  <2>5. Len(InFlight') = 1 /\ InFlight'[1] = shadow'[e + 2]
    BY <2>1
  <2>6. Atomic!Begin
    BY <1>2, <2>1, <2>4, <2>5 DEF Atomic!Begin
  <2> QED  BY <2>6 DEF Atomic!AtomicNext
<1> QED  BY <1>1, <1>3, <1>4

\* One step of the store.
LEMMA Simulation ==
  ASSUME StoreInv, StoreInv', HiddenInv, [Next]_vars
  PROVE  [Atomic!AtomicNext]_<<Visible, InFlight>>
<1> DEFINE e == Len(exposed)
<1>1. /\ Len(log) \in Nat /\ e \in Nat /\ e <= synced /\ synced \in Nat /\ synced <= Len(log)
      /\ \A n \in 1..Len(log) + 1 : ViewOK(shadow[n])
  BY Lengths
<1>2. CASE Quiet
  BY <1>2 DEF Quiet, Visible, InFlight
<1>3. CASE Serves
  BY <1>3, WriteIsBegin DEF Serves
<1>4. CASE Reconciles
  <2>1. PICK j : Recovers(j)
    BY <1>4, RecoverFacts DEF Reconciles
  <2>2. Len(log') = Len(log) + 1 /\ UNCHANGED exposed
    BY <1>4, <2>1 DEF Recovers, Reconciles
  <2>3. PICK m \in 0..Len(log) : Extends(m)
    BY LogStep
  <2>4. m = Len(log)
    BY <1>1, <2>2, <2>3 DEF Extends
  <2> QED  BY <2>2, <2>3, <2>4, WriteIsBegin
<1>5. CASE Publishes
  <2>1. staged # <<>> /\ failure = "NONE" /\ Len(staged) = 1
    <3>1. staged # <<>> /\ pc = "serving" /\ staged \in Seq(StagedType) /\ Len(staged) <= 1
      BY <1>5 DEF Publishes, StoreInv, TypeOK
    <3>2. failure = "NONE"
      BY <3>1 DEF StoreInv, LiveInv
    <3> DEFINE n == Len(staged)
    <3>3. n # 0 /\ n \in Nat /\ n <= 1
      BY <3>1
    <3>4. n = 1
      <4> HIDE DEF n
      <4> QED  BY <3>3
    <3> QED  BY <3>1, <3>2, <3>4
  <2>2. Len(log) = e + 1
    BY <1>1, <1>5, <2>1 DEF Publishes, HiddenInv
  <2>3. InFlight = <<shadow[e + 2]>> /\ Visible' = shadow[e + 2] /\ InFlight' = <<>>
    BY <1>1, <1>5, <2>2 DEF Publishes, InFlight, Visible
  <2>4. Atomic!Finish
    BY <2>3 DEF Atomic!Finish
  <2> QED  BY <2>4 DEF Atomic!AtomicNext
<1>6. CASE Opens
  <2>1. Visible' = shadow[Len(log) + 1] /\ InFlight' = <<>>
    BY <1>1, <1>6 DEF Opens, Visible, InFlight
  <2>2. CASE Len(log) = e
    BY <1>1, <2>1, <2>2 DEF Visible, InFlight
  <2>3. CASE Len(log) > e
    <3>1. InFlight = <<shadow[e + 2]>>
      BY <2>3 DEF InFlight
    <3>2. /\ Len(log) \in e + 1..Len(log) /\ Len(log) + 1 \in 1..Len(log) + 1
          /\ e + 2 \in 1..Len(log) + 1
      BY <1>1, <2>3
    <3>3. /\ Reconciling(shadow[Len(log) + 1], shadow[e + 2])
          /\ ViewOK(shadow[Len(log) + 1]) /\ ViewOK(shadow[e + 2])
      BY <1>1, <3>2 DEF HiddenInv
    <3>4. shadow[Len(log) + 1].scheduler = sched /\ Scanned(sched, slot)
      BY <1>6, SettledFacts DEF Opens
    <3>5. sched.jobs \in Seq(JobType) /\ slot \in Nat
      BY DEF StoreInv, TypeOK, SchedulerType
    <3>6. \A i \in DOMAIN sched.jobs : ~IsActive(sched.jobs[i])
      BY <1>6, <3>4, <3>5 DEF Opens, Scanned
    <3>7. Atomic!Lost(shadow[e + 2], shadow[Len(log) + 1])
      BY <3>3, <3>4, <3>6, FinishedIsLost
    <3>8. Atomic!Restart
      BY <2>1, <3>1, <3>7 DEF Atomic!Restart
    <3> QED  BY <3>8 DEF Atomic!AtomicNext
  <2> QED  BY <1>1, <2>2, <2>3
<1>7. CASE Cuts
  <2>1. PICK m \in 0..Len(log) : synced <= m /\ Len(log') = m /\ Extends(m)
    BY <1>7 DEF Cuts
  <2>2. exposed' = exposed /\ e <= m
    BY <1>1, <1>7, <2>1 DEF Cuts
  <2>3. Visible' = Visible
    BY <1>1, <2>1, <2>2 DEF Visible, Extends
  <2>4. CASE m > e
    <3>1. InFlight' = InFlight
      BY <1>1, <2>1, <2>2, <2>4, SMTT(90) DEF InFlight, Extends
    <3> QED  BY <2>3, <3>1
  <2>5. CASE m = e
    <3>1. InFlight' = <<>>
      BY <1>1, <2>1, <2>2, <2>5 DEF InFlight
    <3> QED  BY <2>3, <3>1 DEF Atomic!AtomicNext, Atomic!Forget
  <2> QED  BY <1>1, <2>2, <2>4, <2>5
<1> QED  BY <1>2, <1>3, <1>4, <1>5, <1>6, <1>7, StepShapes

\* What the records that nobody has seen yet may be.
THEOREM HiddenCorrect == Spec => [](StoreInv /\ HiddenInv)
<1>1. Init => HiddenInv
  BY DEF Init, HiddenInv
<1>2. StoreInv /\ StoreInv' /\ HiddenInv /\ [Next]_vars => HiddenInv'
  BY HiddenStep
<1> QED  BY <1>1, <1>2, StoreCorrect, PTL DEF Spec

\* For any number of jobs, workers, retries, records, crashes and interrupted
\* recoveries, the store with its log implements AtomicStore: every operation
\* happens as a whole or not at all, and a restart loses each active attempt
\* once and changes nothing else.
THEOREM StoreIsAtomic == Spec => ImplementsAtomicStore
<1>1. Init => Atomic!AtomicInit
  <2> SUFFICES ASSUME Init PROVE Atomic!AtomicInit
    OBVIOUS
  <2>1. Visible = View(SchedulerInit, 1, 0) /\ InFlight = <<>>
    BY DEF Init, Visible, InFlight
  <2> QED  BY <2>1 DEF Atomic!AtomicInit, View, SchedulerInit, Atomic!SchedulerInit
<1>2. StoreInv /\ StoreInv' /\ HiddenInv /\ [Next]_vars
        => [Atomic!AtomicNext]_<<Visible, InFlight>>
  BY Simulation
<1> QED  BY <1>1, <1>2, HiddenCorrect, PTL DEF Spec, ImplementsAtomicStore, Atomic!AtomicSpec
=============================================================================
