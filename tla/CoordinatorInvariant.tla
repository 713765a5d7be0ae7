------------------------ MODULE CoordinatorInvariant ------------------------
(***************************************************************************)
(* The inductive invariant behind the safety properties of Coordinator.    *)
(* Its parts speak about the values a step passes along, because a step    *)
(* may commit, queue a reply and close the connection in one go.           *)
(***************************************************************************)
EXTENDS CoordinatorHandlers

-----------------------------------------------------------------------------
(* Types.                                                                  *)

ReplyTypes ==
  {"NONE", "PONG", "WORKER_REGISTER_ACK", "JOB_SUBMIT_ACK", "JOB_ASSIGN",
   "JOB_STATUS_RESPONSE", "JOB_STATUS_NOT_FOUND", "JOBS_RESPONSE", "WORKERS_RESPONSE",
   "STATS_RESPONSE"}

ReplyValues ==
  {<<>>} \cup {<<task>> : task \in Tasks}
  \cup {<<state, result>> : state \in JobStates, result \in Results \cup {NoResult}}

Replies ==
  [type : ReplyTypes, worker_id : Nat, job_id : Nat, attempt : Nat, value : ReplyValues]

ClientType ==
  [ fd : Int, conn : Conns \cup {"none"}, phase : {"READING", "WRITING"},
    worker_id : 0..MAX_WORKER_ID, job_client : BOOLEAN,
    received : {"nothing", "part", "header", "all"}, output : Replies, sent : BOOLEAN,
    last_progress : Int, since : Int ]

\* What the codec guarantees of a frame that arrives.
RequestOK(m) ==
  /\ m.job_id \in Nat
  /\ m.type = "JOB_SUBMIT" => m.value[1] \in Tasks /\ m.value[2] \in 0..MAX_RETRIES
  /\ m.type = "JOB_COMPLETED" => m.value # <<>> /\ m.value[1] \in Results

\* What waits on a connection: a sequence of such frames.
FramesOK(q) ==
  q \in Seq({q[n] : n \in DOMAIN q}) /\ \A n \in DOMAIN q : RequestOK(q[n])

-----------------------------------------------------------------------------
(* The tables and the client slots.                                        *)

\* A closed slot names no worker and has nothing to send; a connection that
\* is being read has nothing to send either; descriptors are different.
ClientsOK(cl) ==
  /\ cl \in [Slots -> ClientType]
  /\ \A i \in Slots : /\ Open(cl, i) => cl[i].conn \in Conns
                      /\ ~Open(cl, i) => cl[i].worker_id = 0
                      /\ cl[i].phase = "READING" => cl[i].output = NoMessage
  /\ \A i, k \in Slots : Open(cl, i) /\ cl[i].fd = cl[k].fd => i = k

\* The record of the registry for the worker of slot i.
RecordOf(w, cl, i, k) ==
  /\ w.slots[k].state = "ALIVE" /\ w.slots[k].id = cl[i].worker_id
  /\ w.slots[k].fd = cl[i].fd

\* Live records and registered connections name each other.
Agree(w, cl) ==
  /\ \A i \in Slots : cl[i].worker_id # 0 => \E k \in 1..MAX_WORKERS : RecordOf(w, cl, i, k)
  /\ \A k \in 1..MAX_WORKERS : w.slots[k].state = "ALIVE" =>
       \E i \in Slots : cl[i].worker_id # 0 /\ RecordOf(w, cl, i, k)

\* No lease is older than its timeout tells apart, or from the future.
LeasesOK(w) ==
  \A k \in 1..MAX_WORKERS : w.slots[k].state = "ALIVE" =>
    /\ w.slots[k].last_heartbeat <= NOW
    /\ NOW - w.slots[k].last_heartbeat <= HEARTBEAT_TIMEOUT

\* Acknowledged submissions, and those whose ACK is being sent, are known.
AcksKnown(s, cl, sent) ==
  /\ \A m \in sent : m.type = "JOB_SUBMIT_ACK" => m.job_id \in DOMAIN s.jobs
  /\ \A i \in Slots : cl[i].output.type = "JOB_SUBMIT_ACK" =>
       cl[i].output.job_id \in DOMAIN s.jobs

StateOK(st, sent) ==
  /\ st = [sched |-> st.sched, workers |-> st.workers, clients |-> st.clients, up |-> st.up]
  /\ SchedulerOK(st.sched) /\ NotAfter(st.sched, 0)
  /\ st.workers \in RegistryType /\ RegistryOK(st.workers) /\ LeasesOK(st.workers)
  /\ ClientsOK(st.clients) /\ Agree(st.workers, st.clients)
  /\ DOMAIN st.up = Conns
  /\ \A c \in Conns : FramesOK(st.up[c])
  /\ AcksKnown(st.sched, st.clients, sent)

\* The assignment of the job is in its owner's output buffer, or was sent.
InFlight(job, cl, sent) ==
  \E i \in Slots :
    /\ cl[i].worker_id # 0 /\ cl[i].worker_id = job.worker_id
    /\ cl[i].output = Assignment(job) \/ Assignment(job) \in sent

\* That of every active attempt is, but for those of worker id.
InFlightBut(s, cl, sent, id) ==
  \A k \in DOMAIN s.jobs :
    IsActive(s.jobs[k]) /\ s.jobs[k].worker_id # id => InFlight(s.jobs[k], cl, sent)

-----------------------------------------------------------------------------
\* What a failed commit may have written is a consistent table with every job
\* of the published one.
UnsyncedOK ==
  \A k \in DOMAIN unsynced :
    LET s == unsynced[k].sched
    IN /\ SchedulerOK(s) /\ NotAfter(s, 0) /\ DOMAIN sched.jobs \subseteq DOMAIN s.jobs
       /\ unsynced[k].next_worker_id \in 0..MAX_WORKER_ID

\* The inductive invariant.
CoordinatorInv ==
  /\ StateOK(Here, dispatched)
  /\ failure = "NONE" /\ phase # "down" => InFlightBut(sched, clients, dispatched, 0)
  /\ phase \in {"poll", "clients", "accept", "schedule", "stopped", "down"}
  /\ failure \in {"NONE", "FATAL"} /\ (failure = "FATAL" => phase = "stopped")
  /\ index \in Slots /\ seen \in Int
  /\ UnsyncedOK /\ (unsynced # <<>> => failure = "FATAL")
=============================================================================
