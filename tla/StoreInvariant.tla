--------------------------- MODULE StoreInvariant ---------------------------
(***************************************************************************)
(* The inductive invariant behind the safety properties of                 *)
(* CoordinatorStore.  The properties alone are not inductive: that replay  *)
(* accepts the file, for example, depends on every record having been      *)
(* acceptable when it was written, which depends on the table, the queue   *)
(* and the clock of that moment.  The invariant therefore speaks about     *)
(* every prefix of the log through the history variable shadow.            *)
(***************************************************************************)
EXTENDS CoordinatorStore

ViewOK(v) ==
  v \in ViewType /\ SchedulerOK(v.scheduler) /\ NotAfter(v.scheduler, v.time)

\* The replay state that stands for a view after n records.
Mirror(v, n) ==
  [ scheduler |-> v.scheduler, next_worker_id |-> v.next_worker_id,
    highest_worker_id |-> Issued(v.next_worker_id, MAX_WORKER_ID),
    highest_job_id |-> Len(v.scheduler.jobs),
    allocated |-> 1..Issued(v.next_worker_id, MAX_WORKER_ID),
    job_time_base |-> v.time, last_sequence |-> n ]

\* Replay turns the view before a record into the view after it.
Replays(v, record, n, after) ==
  /\ AcceptsRecord(Mirror(v, n - 1), record)
  /\ ApplyRecord(Mirror(v, n - 1), record) = Mirror(after, n)

\* The file and its history.
HistoryInv ==
  /\ Len(shadow) = Len(log) + 1
  /\ synced <= Len(log) /\ Len(log) <= MAX_SEQUENCE
  /\ torn => Len(log) < MAX_SEQUENCE
  /\ header # "ok" => log = <<>> /\ ~torn /\ pc \in {"down", "starting"}
  /\ shadow[1] = View(SchedulerInit, 1, 0)
  /\ \A n \in DOMAIN shadow : ViewOK(shadow[n])
  /\ \A n \in DOMAIN log : Replays(shadow[n], log[n], n, shadow[n + 1])

\* No slot before k has an active attempt.
Scanned(s, k) == \A i \in DOMAIN s.jobs : i < k => ~IsActive(s.jobs[i])

\* The process: what it holds in each phase.
ReplayInv ==
  pc \in {"down", "starting"} =>
    /\ pc = "down" => /\ sched = SchedulerInit /\ workers = RegistryInit
                      /\ failure = "NONE" /\ time_base = 0
    /\ staged = <<>>
    /\ replay.last_sequence <= Len(log)
    /\ replay = Mirror(shadow[replay.last_sequence + 1], replay.last_sequence)
    /\ pc = "starting" /\ failure = "NONE" => header = "ok" /\ reading >= 0

LiveInv ==
  pc \in {"recovering", "serving"} =>
    /\ RegistryOK(workers)
    /\ failure = "NONE" => ~torn
    /\ Settled =>
         /\ synced = Len(log)
         /\ next_sequence = IF Len(log) = MAX_SEQUENCE THEN 0 ELSE Len(log) + 1
         /\ View(sched, workers.next_worker_id, last_job_time) = shadow[Len(log) + 1]
         /\ IF pc = "serving" THEN Owned(sched, workers) ELSE Scanned(sched, slot)
    /\ staged # <<>> =>
         /\ failure = "NONE"
         /\ Len(log) > 0 /\ synced = Len(log) - 1 /\ next_sequence = Len(log)
         /\ View(staged[1].sched, staged[1].workers.next_worker_id, staged[1].time)
              = shadow[Len(log) + 1]
         /\ RegistryOK(staged[1].workers)
         /\ IF pc = "serving" THEN Owned(staged[1].sched, staged[1].workers)
                               ELSE Scanned(staged[1].sched, slot)

ClockInv ==
  pc \in {"recovering", "serving"} =>
    /\ session_start >= 0
    /\ failure = "NONE" => reading >= session_start /\ last_job_time <= JobTime(reading)
    /\ staged # <<>> =>
         last_job_time <= staged[1].time /\ staged[1].time <= JobTime(reading)
    /\ pc = "recovering" /\ failure = "NONE" =>
         reading = session_start /\ last_job_time = time_base

\* The inductive invariant.
StoreInv ==
  /\ TypeOK
  /\ HistoryInv /\ ReplayInv /\ LiveInv /\ ClockInv
  /\ SchedulerOK(sched)
  /\ ExposedIsDurable
  /\ NoInternalFailure /\ ReplayAccepts /\ ClockFailsForCause
=============================================================================
