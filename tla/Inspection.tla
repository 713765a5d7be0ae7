----------------------------- MODULE Inspection -----------------------------
(***************************************************************************)
(* What the coordinator tells about itself: job status, the listings of    *)
(* jobs and workers (src/src/coordinator/main.c), the statistics           *)
(* (coordinator_stats.c), and the checks the message encoder makes on them *)
(* (src/src/common/protocol.c).  A reply that fails a check is not sent,   *)
(* and the client that asked is closed.                                    *)
(***************************************************************************)
EXTENDS Scheduler, WorkerRegistry, FiniteSets

LOCAL INSTANCE Functions
LOCAL INSTANCE TLC

CONSTANT HEARTBEAT_TIMEOUT

ASSUME InspectionConstants == HEARTBEAT_TIMEOUT \in Nat \ {0}

-----------------------------------------------------------------------------
(* Jobs.                                                                   *)

Status(job) ==
  [ job_id |-> job.id, state |-> job.state, worker_id |-> job.worker_id,
    attempt |-> job.attempt, retry_count |-> job.retry_count,
    max_retries |-> job.max_retries, failure |-> job.failure, result |-> job.result ]

\* validate_job_status
ValidStatus(st) ==
  LET queued      == st.state = "QUEUED"
      has_failure == st.state = "FAILED" \/ (queued /\ st.attempt # 0)
  IN /\ st.job_id # 0
     /\ st.state \in JobStates
     /\ st.retry_count <= st.max_retries
     /\ st.state = "FAILED" => st.retry_count = st.max_retries
     /\ queued <=> st.worker_id = 0
     /\ st.attempt = st.retry_count + (IF queued THEN 0 ELSE 1)
     /\ IF has_failure THEN st.failure \in {"TASK", "WORKER_LOST"} ELSE st.failure = "NONE"
     /\ st.state # "DONE" => st.result = NoResult

Ascending(ids) == \A i \in DOMAIN ids : i > 1 => ids[i] > ids[i - 1]

JobsListing(s) ==
  SortSeq([i \in DOMAIN s.jobs |-> Status(s.jobs[i])],
          LAMBDA a, b : a.job_id < b.job_id)

ValidJobs(list) ==
  /\ Len(list) <= JOB_STORE_CAPACITY
  /\ \A i \in DOMAIN list : ValidStatus(list[i])
  /\ Ascending([i \in DOMAIN list |-> list[i].job_id])

-----------------------------------------------------------------------------
(* Workers.                                                                *)

Retained(r) == {k \in 1..MAX_WORKERS : r.slots[k].state # "UNUSED"}

WorkersListingOK(r, now) ==
  \A k \in Retained(r) : r.slots[k].last_heartbeat \in 0..now

WorkerSummary(s, worker, now) ==
  LET active == worker.state = "ALIVE" /\ Busy(s, worker.id)
  IN [ worker_id |-> worker.id, state |-> worker.state,
       heartbeat_age |-> now - worker.last_heartbeat,
       job_id |-> IF active THEN Active(s, worker.id).id ELSE 0,
       attempt |-> IF active THEN Active(s, worker.id).attempt ELSE 0 ]

\* Mutant of WorkersListing: the order of the registry slots.
WorkersInSlotOrder(s, r, now) ==
  LET Kept(worker) == worker.state # "UNUSED"
      slots        == SelectSeq(r.slots, Kept)
  IN [i \in DOMAIN slots |-> WorkerSummary(s, slots[i], now)]

\* Slot reuse can put a newer id before an older one, so the list is sorted.
WorkersListing(s, r, now) ==
  LET Kept(worker) == worker.state # "UNUSED"
      slots        == SelectSeq(r.slots, Kept)
  IN SortSeq([i \in DOMAIN slots |-> WorkerSummary(s, slots[i], now)],
             LAMBDA a, b : a.worker_id < b.worker_id)

ValidWorkers(list) ==
  /\ Len(list) <= MAX_WORKERS
  /\ \A i \in DOMAIN list :
       /\ list[i].worker_id # 0
       /\ list[i].state \in {"ALIVE", "DEAD"}
       /\ list[i].job_id = 0 <=> list[i].attempt = 0
       /\ list[i].state = "DEAD" => list[i].job_id = 0
  /\ Ascending([i \in DOMAIN list |-> list[i].worker_id])

-----------------------------------------------------------------------------
(* Statistics.                                                             *)

Count(s, state) == Cardinality({i \in DOMAIN s.jobs : s.jobs[i].state = state})

DoneSlots(s) == {i \in DOMAIN s.jobs : s.jobs[i].state = "DONE"}

\* The mean without a sum that could overflow: quotients, then the remainders.
FlooredMean(latency, n) ==
  SumFunction([i \in DOMAIN latency |-> latency[i] \div n])
  + SumFunction([i \in DOMAIN latency |-> latency[i] % n]) \div n

\* collect_jobs
CollectOK(s) ==
  \A i \in DOMAIN s.jobs :
    LET job == s.jobs[i]
    IN /\ job.retry_count <= job.max_retries
       /\ job.attempt = job.retry_count + (IF job.state = "QUEUED" THEN 0 ELSE 1)
       /\ job.state = "DONE" => job.created_at >= 0 /\ job.finished_at >= job.created_at

Collect(s) ==
  LET latency == [i \in DoneSlots(s) |-> s.jobs[i].finished_at - s.jobs[i].created_at]
  IN [ submitted |-> Len(s.jobs), queued |-> Count(s, "QUEUED"),
       assigned |-> Count(s, "ASSIGNED"), running |-> Count(s, "RUNNING"),
       completed |-> Count(s, "DONE"), failed |-> Count(s, "FAILED"),
       attempts |-> SumFunction([i \in DOMAIN s.jobs |-> s.jobs[i].attempt]),
       retries |-> SumFunction([i \in DOMAIN s.jobs |-> s.jobs[i].retry_count]),
       average |-> IF DoneSlots(s) = {} THEN 0
                   ELSE FlooredMean(latency, Cardinality(DoneSlots(s))) ]

\* faultline_stats_begin: what the totals were when the session began.
BeginOK(s, interrupted, start, now) ==
  start >= 0 /\ now >= start /\ CollectOK(s) /\ interrupted <= Len(s.jobs)

Begin(s, interrupted, start, now) ==
  [ ready_at |-> now, startup_duration |-> now - start, interrupted |-> interrupted,
    submitted |-> Collect(s).submitted, completed |-> Collect(s).completed,
    failed |-> Collect(s).failed, retries |-> Collect(s).retries ]

\* faultline_stats_snapshot
SnapshotOK(session, s, r, now) ==
  /\ session.ready_at >= 0 /\ now >= session.ready_at
  /\ CollectOK(s)
  /\ Collect(s).submitted >= session.submitted /\ Collect(s).completed >= session.completed
  /\ Collect(s).failed >= session.failed /\ Collect(s).retries >= session.retries
  /\ \A k \in Retained(r) : r.slots[k].state = "ALIVE" => r.slots[k].last_heartbeat \in 0..now

Snapshot(session, s, r, now) ==
  LET jobs    == Collect(s)
      alive   == {k \in Retained(r) : r.slots[k].state = "ALIVE"}
      expired == {k \in alive : TimedOut(r.slots[k], now, HEARTBEAT_TIMEOUT)}
      busy    == {k \in alive \ expired : Busy(s, r.slots[k].id)}
  IN [ jobs |-> jobs,
       retained |-> Cardinality(Retained(r)), dead |-> Cardinality(Retained(r) \ alive),
       expired |-> Cardinality(expired), alive |-> Cardinality(alive \ expired),
       busy |-> Cardinality(busy), idle |-> Cardinality((alive \ expired) \ busy),
       uptime |-> now - session.ready_at, startup_duration |-> session.startup_duration,
       recovered |-> session.submitted, interrupted |-> session.interrupted,
       session_submitted |-> jobs.submitted - session.submitted,
       session_completed |-> jobs.completed - session.completed,
       session_failed |-> jobs.failed - session.failed,
       session_retries |-> jobs.retries - session.retries ]

\* validate_stats; the limits against overflow follow from the sums.
ValidStats(st) ==
  LET j == st.jobs
  IN /\ j.submitted <= JOB_STORE_CAPACITY
     /\ j.queued + j.assigned + j.running + j.completed + j.failed = j.submitted
     /\ j.attempts = j.retries + j.submitted - j.queued
     /\ st.alive + st.expired + st.dead = st.retained
     /\ st.busy + st.idle = st.alive
     /\ st.busy <= j.assigned + j.running
     /\ st.interrupted <= st.recovered /\ st.recovered <= j.submitted
     /\ st.session_submitted = j.submitted - st.recovered
     /\ st.session_completed <= j.completed /\ st.session_failed <= j.failed
     /\ st.session_retries <= j.retries
     /\ j.completed = 0 => j.average = 0
     /\ st.uptime >= 0 /\ st.startup_duration >= 0
=============================================================================
