-------------------------- MODULE CoordinatorStore --------------------------
(***************************************************************************)
(* The coordinator's durable store (src/src/coordinator/                   *)
(* coordinator_store.c) over its write-ahead log (wal_writer.c,            *)
(* wal_replay.c), driven by the single-threaded event loop of main.c.      *)
(*                                                                         *)
(* Every change is prepared and validated on a scratch copy, appended to   *)
(* the log, synced, and only then published and exposed (acknowledged,     *)
(* dispatched, shown to queries).  A commit is two steps here, the write   *)
(* and the sync, because a crash or a failure between them decides what    *)
(* the file holds; nothing else interleaves, the event loop is blocked.    *)
(*                                                                         *)
(* A stop of the process, by crash, signal or after a fatal failure, loses *)
(* all volatile state, and may lose the unsynced end of the file or leave  *)
(* an incomplete record there.  A start replays the file record by record, *)
(* repairs the tail, syncs, and commits the loss of every attempt that was *)
(* active, slot by slot, before it serves.                                 *)
(***************************************************************************)
EXTENDS WalReplay, JobTable, FiniteSets

CONSTANTS
  Fds,           \* descriptors of connections that may register as workers
  MAX_CLOCK,     \* largest raw monotonic clock reading (bound)
  MAX_TIME,      \* INT64_MAX: largest logical job time
  MAX_SEQUENCE   \* UINT64_MAX: largest record sequence number

ASSUME StoreConstants ==
  /\ Fds \subseteq Nat
  /\ MAX_CLOCK \in Nat /\ MAX_TIME \in Nat /\ MAX_SEQUENCE \in Nat \ {0}

VARIABLES
  header,         \* the log file: absent, with a partial header, or ok
  log,            \* its complete records
  synced,         \* how many of them are known to be on stable storage
  torn,           \* does an incomplete record follow them?
  pc,             \* the process: down, starting (replay), recovering, serving
  sched,          \* store->jobs: the published scheduler
  workers,        \* store->workers: the registry
  failure,        \* store->failure: the latched fatal failure
  write_result,   \* store->write_result
  replay_result,  \* store->replay_result (rejections are one value)
  next_sequence,  \* store->wal.next_sequence
  time_base, session_start, last_job_time,
  reading,        \* the last raw clock reading
  slot,           \* loop index of recover_interrupted_jobs
  replay,         \* the candidate state of a replay in progress
  staged,         \* <<>>, or <<what the write in progress will publish>>
  shadow,         \* history: shadow[n + 1] is the state that record n reports
  exposed         \* history: the records whose effects were exposed

disk  == <<header, log, synced, torn>>
clock == <<time_base, session_start, last_job_time>>
vars  == <<header, log, synced, torn, pc, sched, workers, failure, write_result,
           replay_result, next_sequence, time_base, session_start, last_job_time,
           reading, slot, replay, staged, shadow, exposed>>

View(s, next_worker_id, time) ==
  [scheduler |-> s, next_worker_id |-> next_worker_id, time |-> time]

Init ==
  /\ header = "absent" /\ log = <<>> /\ synced = 0 /\ torn = FALSE
  /\ pc = "down"
  /\ sched = SchedulerInit /\ workers = RegistryInit
  /\ failure = "NONE" /\ write_result = "OK" /\ replay_result = "OK"
  /\ next_sequence = 0
  /\ time_base = 0 /\ session_start = 0 /\ last_job_time = 0
  /\ reading = 0 /\ slot = 1
  /\ replay = ReplayInit /\ staged = <<>>
  /\ shadow = <<View(SchedulerInit, 1, 0)>> /\ exposed = <<>>

-----------------------------------------------------------------------------
Usable == pc = "serving" /\ failure = "NONE" /\ staged = <<>>

Readings == {-1} \cup reading..MAX_CLOCK

\* Mutant of JobTime: the time of earlier sessions is not added.
JobTimeOfSession(raw) == raw - session_start

JobTime(raw) == time_base + (raw - session_start)

JobTimeOK(raw) ==
  /\ raw >= session_start /\ raw >= 0
  /\ raw - session_start <= MAX_TIME - time_base
  /\ JobTime(raw) >= last_job_time

Fail(f) ==
  /\ failure' = f
  /\ UNCHANGED <<disk, sched, write_result, next_sequence, staged, shadow>>

-----------------------------------------------------------------------------
(* The write-ahead-log writer.                                             *)

\* faultline_wal_writer_append up to the sync: the encoder or the sequence
\* check refuses the record, or it is written, or the write fails half-way.
AppendRecord(record, s, w, time) ==
  IF next_sequence = 0 \/ ~ValidRecord(record)
  THEN /\ failure' = "WAL"
       /\ write_result' = IF next_sequence = 0 THEN "SEQUENCE_EXHAUSTED"
                                               ELSE "INVALID_RECORD"
       /\ UNCHANGED <<disk, sched, next_sequence, staged, shadow>>
  ELSE \/ /\ log' = Append(log, record)
          /\ staged' = <<[sched |-> s, workers |-> w, time |-> time]>>
          /\ shadow' = Append(shadow, View(s, w.next_worker_id, time))
          /\ UNCHANGED <<header, synced, torn, sched, failure, write_result,
                         next_sequence>>
       \/ /\ torn' \in BOOLEAN
          /\ failure' = "WAL" /\ write_result' = "IO_ERROR"
          /\ UNCHANGED <<header, log, synced, sched, next_sequence, staged, shadow>>

\* commit_job: the record is the job as the scratch scheduler holds it.
CommitJob(type, id, scratch, w) ==
  IF Known(scratch, id)
  THEN LET job == scratch.jobs[FindSlot(scratch, id)]
       IN  AppendRecord(JobRecord(next_sequence, type, job), scratch, w, job.updated_at)
  ELSE Fail("INTERNAL")

\* fsync succeeds: the scratch copy is published, and exposed once serving.
SyncRecord ==
  /\ staged # <<>>
  /\ synced' = Len(log)
  /\ next_sequence' = IF next_sequence = MAX_SEQUENCE THEN 0 ELSE next_sequence + 1
  /\ sched' = staged[1].sched /\ workers' = staged[1].workers
  /\ last_job_time' = staged[1].time
  /\ exposed' = IF pc = "serving" THEN log ELSE exposed
  /\ staged' = <<>>
  /\ UNCHANGED <<header, log, torn, pc, failure, write_result, replay_result,
                 time_base, session_start, reading, slot, replay, shadow>>

\* fsync fails: nothing is published, whether the record survives is unknown.
SyncFails ==
  /\ staged # <<>>
  /\ failure' = "WAL" /\ write_result' = "IO_ERROR"
  /\ staged' = <<>>
  /\ UNCHANGED <<disk, pc, sched, workers, replay_result, next_sequence, clock,
                 reading, slot, replay, shadow, exposed>>

-----------------------------------------------------------------------------
(* The operations the event loop performs on an open store.  A rejected    *)
(* request leaves the store as it is and is therefore no step.             *)

ServingFrame == UNCHANGED <<pc, replay_result, clock, slot, replay, exposed>>

StoreRegister(fd, raw) ==
  /\ Usable
  /\ reading' = raw
  /\ IF raw < 0
     THEN Fail("CLOCK")
     ELSE /\ RegisterOK(workers, fd, raw)
          /\ AppendRecord(WorkerRecord(next_sequence, workers.next_worker_id),
                          sched, Register(workers, fd, raw), last_job_time)
  /\ UNCHANGED workers
  /\ ServingFrame

StoreSubmit(task, max_retries, raw) ==
  /\ Usable
  /\ reading' = raw
  /\ IF ~JobTimeOK(raw)
     THEN Fail("CLOCK")
     ELSE /\ SubmitAdmitted(sched, JobTime(raw))
          /\ IF SubmitOK(sched, task, max_retries, JobTime(raw))
             THEN CommitJob("JOB_CREATED", sched.next_job_id,
                            Submit(sched, task, max_retries, JobTime(raw)), workers)
             ELSE Fail("INTERNAL")
  /\ UNCHANGED workers
  /\ ServingFrame

StoreAssign(worker_id, raw) ==
  /\ Usable
  /\ Alive(workers, worker_id)
  /\ reading' = raw
  /\ IF ~JobTimeOK(raw)
     THEN Fail("CLOCK")
     ELSE /\ ~Busy(sched, worker_id)
          /\ sched.pending # <<>>
          /\ IF AssignOK(sched, worker_id, JobTime(raw))
             THEN CommitJob("JOB_ASSIGNED", Head(sched.pending),
                            Assign(sched, worker_id, JobTime(raw)), workers)
             ELSE Fail("INTERNAL")
  /\ UNCHANGED workers
  /\ ServingFrame

StoreReport(worker_id, report, raw) ==
  /\ Usable
  /\ Alive(workers, worker_id) /\ Busy(sched, worker_id)
  /\ reading' = raw
  /\ IF ~JobTimeOK(raw)
     THEN Fail("CLOCK")
     ELSE /\ ReportAccepted(sched, worker_id, report, JobTime(raw))
          /\ IF ReportOK(sched, report, JobTime(raw))
             THEN LET scratch == Report(sched, report, JobTime(raw))
                      id      == Active(sched, worker_id).id
                      job     == scratch.jobs[FindSlot(scratch, id)]
                  IN  CommitJob(RecordType(job), id, scratch, workers)
             ELSE Fail("INTERNAL")
  /\ UNCHANGED workers
  /\ ServingFrame

\* commit_worker_loss, for a worker that is Busy.
CommitWorkerLoss(worker_id, raw, w) ==
  IF ~JobTimeOK(raw)
  THEN Fail("CLOCK")
  ELSE IF WorkerLostOK(sched, worker_id, JobTime(raw))
       THEN LET scratch == WorkerLost(sched, worker_id, JobTime(raw))
                id      == Active(sched, worker_id).id
                job     == scratch.jobs[FindSlot(scratch, id)]
            IN  CommitJob(IF job.state = "QUEUED" THEN "JOB_REQUEUED" ELSE "JOB_FAILED",
                          id, scratch, w)
       ELSE Fail("INTERNAL")

\* Mutant of CloseClient: the latched failure is not looked at.
CloseClientAfterFailure(worker_id, fd, raw) ==
  /\ pc = "serving" /\ staged = <<>>
  /\ LiveConnection(workers, worker_id, fd)
  /\ workers' = MarkDead(workers, worker_id, fd)
  /\ Busy(sched, worker_id)
  /\ reading' = raw
  /\ CommitWorkerLoss(worker_id, raw, MarkDead(workers, worker_id, fd))
  /\ ServingFrame

\* close_client of main.c for the connection of a registered worker: its
\* active attempt is lost, then its identity dies, whatever the commit does.
\* After a failure the attempt is left for the next start to reconcile.
CloseClient(worker_id, fd, raw) ==
  /\ pc = "serving" /\ staged = <<>>
  /\ LiveConnection(workers, worker_id, fd)
  /\ workers' = MarkDead(workers, worker_id, fd)
  /\ IF Busy(sched, worker_id) /\ failure = "NONE"
     THEN /\ reading' = raw
          /\ CommitWorkerLoss(worker_id, raw, MarkDead(workers, worker_id, fd))
     ELSE /\ raw = reading
          /\ UNCHANGED <<disk, sched, failure, write_result, next_sequence, staged,
                         shadow, reading>>
  /\ ServingFrame

-----------------------------------------------------------------------------
(* Start, recovery and stop of the process.                                *)

\* --init-wal: a new file only.  A failure may leave a partial header, or a
\* complete one that was not synced.
CreateWal(raw) ==
  /\ pc = "down"
  /\ reading' = raw
  /\ \/ /\ raw >= 0 /\ header = "absent"
        /\ header' = "ok" /\ next_sequence' = 1
        /\ session_start' = raw /\ last_job_time' = time_base
        /\ pc' = "recovering" /\ slot' = 1
        /\ UNCHANGED <<failure, write_result>>
     \/ /\ failure' = IF raw < 0 THEN "CLOCK" ELSE "OPEN"
        /\ header' \in IF raw >= 0 /\ header = "absent"
                       THEN {"absent", "partial", "ok"} ELSE {header}
        /\ write_result' = IF raw < 0 THEN write_result ELSE "IO_ERROR"
        /\ pc' = "starting"
        /\ UNCHANGED <<next_sequence, session_start, last_job_time, slot>>
  /\ UNCHANGED <<log, synced, torn, sched, workers, replay_result,
                 time_base, replay, staged, shadow, exposed>>

\* Without --init-wal an existing file with a complete header is required.
OpenWal(raw) ==
  /\ pc = "down"
  /\ pc' = "starting"
  /\ reading' = raw
  /\ failure' = IF raw < 0 THEN "CLOCK" ELSE IF header = "ok" THEN "NONE" ELSE "OPEN"
  /\ replay_result' = IF raw < 0 \/ header = "ok" THEN "OK"
                      ELSE IF header = "absent" THEN "IO_ERROR" ELSE "REJECTED"
  /\ UNCHANGED <<disk, sched, workers, write_result, next_sequence, clock, slot,
                 replay, staged, shadow, exposed>>

Replaying == pc = "starting" /\ failure = "NONE"

\* Bytes after the last possible sequence number are a format error.
MoreToReplay ==
  \/ replay.last_sequence < Len(log)
  \/ torn /\ replay.last_sequence = MAX_SEQUENCE

ReplayRecord ==
  /\ Replaying
  /\ MoreToReplay
  /\ LET record == log[replay.last_sequence + 1]
     IN  IF replay.last_sequence # MAX_SEQUENCE /\ AcceptsRecord(replay, record)
         THEN /\ replay' = ApplyRecord(replay, record)
              /\ UNCHANGED <<failure, replay_result>>
         ELSE /\ failure' = "OPEN" /\ replay_result' = "REJECTED"
              /\ UNCHANGED replay
  /\ UNCHANGED <<disk, pc, sched, workers, write_result, next_sequence, clock,
                 reading, slot, staged, shadow, exposed>>

\* Mutant of AtEnd: an incomplete record at the end is waited for.
AtCleanEnd == ~MoreToReplay /\ ~torn

AtEnd == ~MoreToReplay

\* Mutant of SyncedByReplay: the repaired file is not synced.
NotSyncedByReplay == synced

\* What the syncs of file and directory after the repair make durable.
SyncedByReplay == Len(log)

\* Mutant of RestoredWorkers: the id allocator starts over.
NewWorkers == RegistryInit

\* Identities of earlier sessions are not restored, the allocator is.
RestoredWorkers == [RegistryInit EXCEPT !.next_worker_id = replay.next_worker_id]

RestoredTime == replay.job_time_base

\* End of the file: cut the incomplete record off, sync file and directory,
\* and only then adopt the rebuilt state.
FinishReplay ==
  /\ Replaying
  /\ AtEnd
  /\ torn' = FALSE /\ synced' = SyncedByReplay
  /\ sched' = replay.scheduler
  /\ workers' = RestoredWorkers
  /\ time_base' = RestoredTime
  /\ session_start' = reading /\ last_job_time' = RestoredTime
  /\ next_sequence' = IF replay.last_sequence = MAX_SEQUENCE
                      THEN 0 ELSE replay.last_sequence + 1
  /\ pc' = "recovering" /\ slot' = 1
  /\ UNCHANGED <<header, log, failure, write_result, replay_result, reading, replay,
                 staged, shadow, exposed>>

\* A read, the truncation or a sync fails.
ReplayFails ==
  /\ Replaying
  /\ torn' \in {torn, torn /\ replay.last_sequence < Len(log)}
  /\ failure' = "OPEN" /\ replay_result' = "IO_ERROR"
  /\ UNCHANGED <<header, log, synced, pc, sched, workers, write_result, next_sequence,
                 clock, reading, slot, replay, staged, shadow, exposed>>

\* recover_interrupted_jobs: the next slot with an active attempt, or the end
\* of the table, which opens the store.
RecoverSlot ==
  LET todo == {i \in slot..Len(sched.jobs) : IsActive(sched.jobs[i])}
  IN /\ pc = "recovering" /\ failure = "NONE" /\ staged = <<>>
     /\ IF todo = {}
        THEN /\ pc' = "serving"
             /\ exposed' = log
             /\ UNCHANGED <<disk, sched, failure, write_result, next_sequence, staged,
                            shadow, slot>>
        ELSE /\ slot' = First(todo) + 1
             /\ CommitWorkerLoss(sched.jobs[First(todo)].worker_id, session_start, workers)
             /\ UNCHANGED <<pc, exposed>>
     /\ UNCHANGED <<workers, replay_result, clock, reading, replay>>

\* Crash, shutdown by signal, or exit after a fatal failure.  The shutdown
\* path closes sockets and the file and writes nothing.  The records that
\* were never synced may be lost, the first of them in part.
Stop ==
  /\ pc # "down"
  /\ \E kept \in synced..Len(log) :
       /\ log' = SubSeq(log, 1, kept)
       /\ shadow' = SubSeq(shadow, 1, kept + 1)
       /\ torn' \in IF kept < Len(log) THEN BOOLEAN ELSE {torn}
  /\ pc' = "down"
  /\ sched' = SchedulerInit /\ workers' = RegistryInit
  /\ failure' = "NONE" /\ write_result' = "OK" /\ replay_result' = "OK"
  /\ next_sequence' = 0
  /\ time_base' = 0 /\ session_start' = 0 /\ last_job_time' = 0
  /\ reading' = 0 /\ slot' = 1
  /\ replay' = ReplayInit /\ staged' = <<>>
  /\ UNCHANGED <<header, synced, exposed>>

-----------------------------------------------------------------------------
WorkerIds == 1..MAX_WORKER_ID

Reports ==
  [type : {"JOB_STARTED", "JOB_COMPLETED", "JOB_FAILED"},
   job_id : 1..MAX_JOB_ID, worker_id : WorkerIds, attempt : 1..MAX_RETRIES + 1,
   result : Results, failure : {"TASK", "WORKER_LOST"}]

Next ==
  \/ \E raw \in Readings :
       \/ \E fd \in Fds : StoreRegister(fd, raw)
       \/ \E task \in Tasks, n \in 0..MAX_RETRIES : StoreSubmit(task, n, raw)
       \/ \E w \in WorkerIds : StoreAssign(w, raw)
       \/ \E w \in WorkerIds, report \in Reports : StoreReport(w, report, raw)
       \/ \E w \in WorkerIds, fd \in Fds : CloseClient(w, fd, raw)
  \/ SyncRecord
  \/ SyncFails
  \/ \E raw \in {-1} \cup 0..MAX_CLOCK : CreateWal(raw) \/ OpenWal(raw)
  \/ ReplayRecord
  \/ FinishReplay
  \/ ReplayFails
  \/ RecoverSlot
  \/ Stop

Spec == Init /\ [][Next]_vars

\* The event loop performs startup without waiting for anybody.
Startup == ReplayRecord \/ FinishReplay \/ RecoverSlot \/ SyncRecord

FairSpec == Spec /\ WF_vars(Startup)

-----------------------------------------------------------------------------
RecordTypes ==
  {"JOB_CREATED", "JOB_ASSIGNED", "JOB_STARTED", "JOB_COMPLETED", "JOB_REQUEUED",
   "JOB_FAILED"}

WalRecords ==
  [type : {"WORKER_ID_ALLOCATED"}, sequence : Nat, worker_id : 1..MAX_WORKER_ID]
  \cup [type : RecordTypes, sequence : Nat, job : JobType]

ReplayType ==
  [ scheduler : SchedulerType, next_worker_id : 0..MAX_WORKER_ID,
    highest_worker_id : 0..MAX_WORKER_ID, highest_job_id : 0..MAX_JOB_ID,
    allocated : SUBSET (1..MAX_WORKER_ID), job_time_base : Nat, last_sequence : Nat ]

ViewType ==
  [scheduler : SchedulerType, next_worker_id : 0..MAX_WORKER_ID, time : Nat]

StagedType == [sched : SchedulerType, workers : RegistryType, time : Nat]

\* Every store field, the file and the histories stay within their types.
TypeOK ==
  /\ header \in {"absent", "partial", "ok"}
  /\ log \in Seq(WalRecords) /\ synced \in Nat /\ torn \in BOOLEAN
  /\ pc \in {"down", "starting", "recovering", "serving"}
  /\ sched \in SchedulerType /\ workers \in RegistryType
  /\ failure \in {"NONE", "OPEN", "WAL", "CLOCK", "INTERNAL"}
  /\ write_result \in {"OK", "IO_ERROR", "SEQUENCE_EXHAUSTED", "INVALID_RECORD"}
  /\ replay_result \in {"OK", "IO_ERROR", "REJECTED"}
  /\ next_sequence \in Nat
  /\ time_base \in Nat /\ session_start \in Int /\ last_job_time \in Nat
  /\ reading \in Int /\ slot \in Nat \ {0}
  /\ replay \in ReplayType
  /\ staged \in Seq(StagedType) /\ Len(staged) <= 1
  /\ shadow \in Seq(ViewType) /\ exposed \in Seq(WalRecords)

-----------------------------------------------------------------------------
(* Safety.                                                                 *)

\* No commit is in progress and no failure is latched.
Settled ==
  pc \in {"recovering", "serving"} /\ failure = "NONE" /\ staged = <<>>

\* Whatever was acknowledged, dispatched or shown to a query is in the synced
\* part of the file, at the position it was written to, at every moment of
\* every crash, failed write, failed sync, tail repair and restart: commit_job
\* and faultline_store_register publish only what append has synced, and
\* replay syncs the file before its result becomes visible.
ExposedIsDurable ==
  /\ Len(exposed) <= synced /\ synced <= Len(log)
  /\ \A i \in 1..Len(exposed) : exposed[i] = log[i]

SameView(s, next_worker_id, time, view) ==
  s = view.scheduler /\ next_worker_id = view.next_worker_id /\ time = view.time

\* After n records replay holds exactly the job table, queue order, id
\* allocators and job time that the live store prepared when it wrote record
\* n, and the store serves from nothing else: apply_record and the live
\* operations of scheduler.c compute the same function.
ReplayAgrees ==
  /\ pc = "starting" =>
       SameView(replay.scheduler, replay.next_worker_id, replay.job_time_base,
                shadow[replay.last_sequence + 1])
  /\ Settled =>
       SameView(sched, workers.next_worker_id, last_job_time, shadow[Len(log) + 1])

\* Replay rejects no file that the store left behind, whatever it was doing
\* when it stopped; the one file it refuses is a header cut short while the
\* log was created.
ReplayAccepts == replay_result = "REJECTED" => header = "partial"

\* The checks that commit_job, the scheduler and the record encoder repeat on
\* a prepared change never fire: no latched INTERNAL failure, and no record
\* refused as invalid.
NoInternalFailure == failure # "INTERNAL" /\ write_result # "INVALID_RECORD"

\* The pending queue holds every QUEUED job once and nothing else.
PendingIsQueued ==
  /\ \A i, k \in DOMAIN sched.pending : sched.pending[i] = sched.pending[k] => i = k
  /\ {sched.pending[i] : i \in DOMAIN sched.pending}
       = {sched.jobs[i].id : i \in {k \in DOMAIN sched.jobs : sched.jobs[k].state = "QUEUED"}}

\* A worker owns at most one active attempt, and while the store serves every
\* active attempt is owned by a live registered worker: close_client and
\* recover_interrupted_jobs leave no attempt behind that nobody will report.
ActiveAttemptsOwned ==
  /\ \A i, k \in DOMAIN sched.jobs :
       /\ IsActive(sched.jobs[i]) /\ IsActive(sched.jobs[k])
       /\ sched.jobs[i].worker_id = sched.jobs[k].worker_id
       => i = k
  /\ Usable => \A i \in DOMAIN sched.jobs :
       IsActive(sched.jobs[i]) => Alive(workers, sched.jobs[i].worker_id)

RecordsOf(id, type) ==
  {i \in DOMAIN log : log[i].type = type /\ log[i].job.id = id}

\* Over all restarts a job is assigned at most max_retries + 1 times, its
\* attempt number counts its assignments and its retry_count the requeues,
\* so that one interruption is never charged twice nor forgotten.
AttemptsCounted ==
  Settled => \A i \in DOMAIN sched.jobs :
    LET job == sched.jobs[i]
    IN  /\ job.attempt = Cardinality(RecordsOf(job.id, "JOB_ASSIGNED"))
        /\ job.retry_count = Cardinality(RecordsOf(job.id, "JOB_REQUEUED"))
        /\ job.attempt <= job.max_retries + 1

\* No identity is issued twice in the life of a log: not a worker id, not a
\* job id, not the attempt number of a job.
IdentitiesNotReused ==
  \A i, k \in DOMAIN log :
    (i < k /\ log[i].type = log[k].type) =>
      CASE log[i].type = "WORKER_ID_ALLOCATED" -> log[i].worker_id < log[k].worker_id
        [] log[i].type = "JOB_CREATED" -> log[i].job.id < log[k].job.id
        [] log[i].type = "JOB_ASSIGNED" /\ log[i].job.id = log[k].job.id ->
             log[i].job.attempt < log[k].job.attempt
        [] OTHER -> TRUE

\* A job that is DONE or FAILED is never written again, so no late report and
\* no recovery replaces a result.
TerminalIsFinal ==
  \A i, k \in DOMAIN log :
    (i < k /\ log[i].type \in {"JOB_COMPLETED", "JOB_FAILED"}
     /\ log[k].type # "WORKER_ID_ALLOCATED") => log[k].job.id # log[i].job.id

\* Startup leaves QUEUED and terminal jobs as replay rebuilt them and charges
\* each interrupted attempt once: the retries join the queue behind the work
\* that was already pending, in ascending slot order.
RecoveryChargesOnce ==
  (pc = "recovering" /\ failure = "NONE") =>
    LET before == replay.scheduler
        n      == Len(before.pending)
    IN  /\ Len(sched.jobs) = Len(before.jobs)
        /\ \A i \in DOMAIN sched.jobs :
             IF IsActive(before.jobs[i]) /\ (i < slot - 1 \/ (i < slot /\ staged = <<>>))
             THEN sched.jobs[i] = JobFail(before.jobs[i], "WORKER_LOST", time_base)
             ELSE sched.jobs[i] = before.jobs[i]
        /\ SubSeq(sched.pending, 1, n) = before.pending
        /\ \A i, k \in n + 1..Len(sched.pending) :
             i < k => sched.pending[i] < sched.pending[k]

\* job_time latches a CLOCK failure only when the clock could not be read or
\* the logical time would overflow, never because a restart moved the base.
ClockFailsForCause ==
  failure = "CLOCK" =>
    reading = -1 \/ reading - session_start > MAX_TIME - time_base

\* Once a failure is latched the process writes nothing more to the file.
NoWriteAfterFailure ==
  [][failure # "NONE" /\ pc' # "down" => UNCHANGED <<header, log, torn>>]_vars

-----------------------------------------------------------------------------
(* Liveness.                                                               *)

\* Replay and reconciliation end: a start that is not interrupted and meets no
\* failure gets to serve.
StartupSettles ==
  pc = "starting" ~> (pc \in {"serving", "down"} \/ failure # "NONE")
=============================================================================
