------------------------- MODULE CoordinatorHandlers -------------------------
(***************************************************************************)
(* The state of the coordinator's event loop (src/src/coordinator/main.c)  *)
(* and its message handlers: what a complete frame of a client slot makes  *)
(* of the tables, the slot and its reply, and how a slot is closed.        *)
(* Module Coordinator has the loop that calls them.                        *)
(*                                                                         *)
(* Commits of the durable store are one step here: they publish, or latch  *)
(* a fatal failure; module CoordinatorStore opens them up.                 *)
(*                                                                         *)
(* Time is kept relative to the present.  The clock always reads NOW; when *)
(* time passes, recorded times move into the past, down to where no        *)
(* timeout tells them apart any more.                                      *)
(***************************************************************************)
EXTENDS JobTable, Protocol, FiniteSets

CONSTANTS
  Conns,               \* connections, one per life of a peer process
  Processes,           \* those of them whose peer is a process modelled elsewhere
  PeerTypes,           \* message types the other peers send
  MAX_CLIENTS,         \* client slots
  HEARTBEAT_TIMEOUT,
  IO_TIMEOUT,
  SyncTimes,           \* how long a commit may keep the loop waiting
  BUFFER,              \* frames a connection holds in one direction (bound)
  MAX_RESTARTS         \* restarts of the coordinator (bound)

ASSUME CoordinatorConstants ==
  /\ Processes \subseteq Conns
  /\ MAX_CLIENTS \in Nat \ {0}
  /\ HEARTBEAT_TIMEOUT \in Nat \ {0} /\ IO_TIMEOUT \in Nat \ {0}
  /\ SyncTimes \subseteq Nat /\ BUFFER \in Nat \ {0} /\ MAX_RESTARTS \in Nat

VARIABLES
  sched, workers,   \* the published store
  failure,          \* its latched failure
  unsynced,         \* <<>>, or <<the change a failed commit may have written>>
  clients,          \* the client slots
  phase, index,     \* where the loop is, and the slot it is at
  ready,            \* what poll reported: slots, and 0 for the listener
  seen,             \* the loop's variable now
  peer,             \* the peer's end of a connection: idle, open or closed
  server,           \* the coordinator's end: none, backlog, open or closed
  up, down,         \* frames on their way to the coordinator and to Processes
  dispatched,       \* history: assignments and submission ACKs sent completely
  restarts

store   == <<sched, workers, failure, unsynced>>
loop    == <<phase, index, ready, seen>>
network == <<peer, server, up, down>>
cvars   == <<sched, workers, failure, unsynced, clients, phase, index, ready, seen,
             peer, server, up, down, dispatched, restarts>>

-----------------------------------------------------------------------------
NOW == IF HEARTBEAT_TIMEOUT > IO_TIMEOUT THEN HEARTBEAT_TIMEOUT ELSE IO_TIMEOUT

\* A time d units later, as old as its timeout tells apart.
Past(time, d, timeout) ==
  IF time - d > NOW - timeout THEN time - d ELSE NOW - timeout

Slots == 1..MAX_CLIENTS

\* The field since is history: when the last transfer really happened.  The
\* times of a closed slot are not read.
NoClient ==
  [ fd |-> -1, conn |-> "none", phase |-> "READING", worker_id |-> 0,
    job_client |-> FALSE, received |-> "nothing", output |-> NoMessage, sent |-> FALSE,
    last_progress |-> NOW - IO_TIMEOUT, since |-> NOW - IO_TIMEOUT ]

Open(cl, i) == cl[i].fd >= 0

-----------------------------------------------------------------------------
(* A step of the loop passes the values it has prepared so far along in a  *)
(* record; Settle makes them the next state, d time units after the step   *)
(* read the clock.                                                         *)

Here == [sched |-> sched, workers |-> workers, clients |-> clients, up |-> up]

AgedWorkers(w, d) ==
  [w EXCEPT !.slots = [k \in 1..MAX_WORKERS |->
     [w.slots[k] EXCEPT !.last_heartbeat = Past(@, d, HEARTBEAT_TIMEOUT)]]]

AgedClients(cl, d) ==
  [i \in Slots |-> [cl[i] EXCEPT !.last_progress = Past(@, d, IO_TIMEOUT),
                                  !.since = Past(@, d, IO_TIMEOUT)]]

Settle(st, d) ==
  /\ sched' = st.sched /\ workers' = AgedWorkers(st.workers, d)
  /\ clients' = AgedClients(st.clients, d) /\ up' = st.up

\* A commit that succeeds leads to done, one that fails leaves kept and the
\* prepared change in doubt.
Published(done, d) ==
  /\ Settle(done, d)
  /\ UNCHANGED <<failure, unsynced>>

Failed(kept, s, next_worker_id) ==
  /\ Settle(kept, 0)
  /\ failure' = "FATAL"
  /\ unsynced' = <<[sched |-> s, next_worker_id |-> next_worker_id]>>

\* Mutant of CloseClient: the registry keeps the worker.
CloseClientKeepsWorker(st, i, d) ==
  LET client == st.clients[i]
      closed == [st EXCEPT !.clients[i] = NoClient, !.up[client.conn] = <<>>]
  IN /\ server' = [server EXCEPT ![client.conn] = "closed"]
     /\ Published(IF Busy(st.sched, client.worker_id)
                  THEN [closed EXCEPT !.sched = WorkerLost(@, client.worker_id, 0)]
                  ELSE closed, d)

\* Mutant of CloseClient: the worker's attempt stays active.
CloseClientKeepsAttempt(st, i, d) ==
  LET client == st.clients[i]
  IN /\ server' = [server EXCEPT ![client.conn] = "closed"]
     /\ Published([st EXCEPT !.workers = MarkDead(@, client.worker_id, client.fd),
                             !.clients[i] = NoClient, !.up[client.conn] = <<>>], d)

\* close_client, from the values st of a step in progress.
CloseClient(st, i, d) ==
  LET client == st.clients[i]
      closed == [st EXCEPT !.workers = MarkDead(@, client.worker_id, client.fd),
                           !.clients[i] = NoClient,
                           !.up[client.conn] = <<>>]
      lost   == WorkerLost(st.sched, client.worker_id, 0)
  IN /\ server' = [server EXCEPT ![client.conn] = "closed"]
     /\ IF Busy(st.sched, client.worker_id)
        THEN \/ /\ WorkerLostOK(st.sched, client.worker_id, 0)
                /\ Published([closed EXCEPT !.sched = lost], d)
             \/ Failed(closed, lost, closed.workers.next_worker_id)
        ELSE Published(closed, d)

\* The same where nothing was committed before: d is the time of its own commit.
Reject(st, i, d) ==
  /\ Busy(st.sched, st.clients[i].worker_id) \/ d = 0
  /\ CloseClient(st, i, d)

\* queue_message: the reply gets a fresh progress time; when the clock cannot
\* be read the client is closed instead.
QueueMessage(st, i, m, d) ==
  \/ /\ Published([st EXCEPT !.clients[i] =
                     [@ EXCEPT !.output = m, !.sent = FALSE, !.phase = "WRITING",
                               !.last_progress = NOW + d, !.since = NOW + d]], d)
     /\ UNCHANGED server
  \/ CloseClient(st, i, d)

Assignment(job) ==
  Carrying(Message("JOB_ASSIGN", job.worker_id, job.id, job.attempt), <<job.task>>)

ResetInput(client) == [client EXCEPT !.received = "nothing", !.phase = "READING"]

-----------------------------------------------------------------------------
(* The handlers of complete messages.                                      *)

\* The message types a complete header may announce on a connection.
Allowed(client, type) ==
  \/ type = "PING"
  \/ type = "WORKER_REGISTER" /\ ~client.job_client
  \/ type \in Queries \cup {"JOB_SUBMIT"} /\ client.worker_id = 0
  \/ type \in ReportTypes \cup {"HEARTBEAT"} /\ client.worker_id # 0

HandleRegister(st, i, d) ==
  LET fd == st.clients[i].fd
      id == st.workers.next_worker_id
      w  == Register(st.workers, fd, NOW)
  IN IF ~st.clients[i].job_client /\ RegisterOK(st.workers, fd, NOW)
     THEN \/ QueueMessage([st EXCEPT !.workers = w, !.clients[i].worker_id = id], i,
                          Message("WORKER_REGISTER_ACK", id, 0, 0), d)
          \/ Failed(st, st.sched, w.next_worker_id) /\ UNCHANGED server
     ELSE Reject(st, i, d)

HeartbeatFits(st, i, m) ==
  /\ m.worker_id = st.clients[i].worker_id
  /\ HeartbeatOK(st.workers, m.worker_id, st.clients[i].fd, NOW)

HandleHeartbeat(st, i, m, d) ==
  IF HeartbeatFits(st, i, m)
  THEN /\ Published([st EXCEPT !.workers = Heartbeat(@, m.worker_id, NOW),
                               !.clients[i] = ResetInput(@)], 0)
       /\ d = 0
       /\ UNCHANGED server
  ELSE Reject(st, i, d)

\* Mutant of HandleSubmit: the submission is acknowledged before its commit.
HandleSubmitAcksEarly(st, i, m, d) ==
  IF SubmitAdmitted(st.sched, 0)
  THEN \E s \in {st.sched, Submit(st.sched, m.value[1], m.value[2], 0)} :
         QueueMessage([st EXCEPT !.sched = s, !.clients[i].job_client = TRUE], i,
                      Message("JOB_SUBMIT_ACK", 0, st.sched.next_job_id, 0), d)
  ELSE Reject(st, i, d)

HandleSubmit(st, i, m, d) ==
  IF st.clients[i].worker_id = 0 /\ SubmitAdmitted(st.sched, 0)
  THEN LET s == Submit(st.sched, m.value[1], m.value[2], 0)
       IN \/ /\ SubmitOK(st.sched, m.value[1], m.value[2], 0)
             /\ QueueMessage([st EXCEPT !.sched = s, !.clients[i].job_client = TRUE], i,
                             Message("JOB_SUBMIT_ACK", 0, st.sched.next_job_id, 0), d)
          \/ /\ Failed(st, s, st.workers.next_worker_id)
             /\ UNCHANGED server
  ELSE Reject(st, i, d)

\* Mutant of StatusReply: the job is looked up in the pending queue.
StatusReplyFromQueue(s, id) ==
  LET job == s.jobs[FindSlot(s, id)]
  IN IF \E k \in DOMAIN s.pending : s.pending[k] = id
     THEN Carrying(Message("JOB_STATUS_RESPONSE", 0, id, 0), <<job.state, job.result>>)
     ELSE Message("JOB_STATUS_NOT_FOUND", 0, id, 0)

\* The status reply names the job and tells its state and result.
StatusReply(s, id) ==
  LET job == s.jobs[FindSlot(s, id)]
  IN IF Known(s, id)
     THEN Carrying(Message("JOB_STATUS_RESPONSE", 0, id, 0), <<job.state, job.result>>)
     ELSE Message("JOB_STATUS_NOT_FOUND", 0, id, 0)

\* A query changes nothing but its connection, which can no longer become a
\* worker's.
HandleStatus(st, i, m) ==
  QueueMessage([st EXCEPT !.clients[i].job_client = TRUE], i,
               StatusReply(st.sched, m.job_id), 0)

\* queue_listing, which may meet a clock error of its own.  What it lists is
\* module Inspection's.
QueueListing(st, i, m) ==
  \/ CloseClient(st, i, 0)
  \/ QueueMessage([st EXCEPT !.clients[i].job_client = TRUE], i,
                  Message(IF m.type = "JOBS_REQUEST" THEN "JOBS_RESPONSE"
                          ELSE "WORKERS_RESPONSE", 0, 0, 0), 0)

\* The statistics may refuse to be taken.
HandleStats(st, i) ==
  LET asked == [st EXCEPT !.clients[i].job_client = TRUE]
  IN \/ QueueMessage(asked, i, Message("STATS_RESPONSE", 0, 0, 0), 0)
     \/ CloseClient(asked, i, 0)

ReportOf(m) ==
  [type |-> m.type, job_id |-> m.job_id, worker_id |-> m.worker_id,
   attempt |-> m.attempt, failure |-> "TASK",
   result |-> IF m.value = <<>> THEN NoResult ELSE m.value[1]]

ReportFits(st, i, m) ==
  LET id == st.clients[i].worker_id
  IN /\ Alive(st.workers, id) /\ Busy(st.sched, id)
     /\ ReportAccepted(st.sched, id, ReportOf(m), 0)

HandleReport(st, i, m, d) ==
  LET s == Report(st.sched, ReportOf(m), 0)
  IN IF ReportFits(st, i, m)
     THEN \/ /\ ReportOK(st.sched, ReportOf(m), 0)
             /\ Published([st EXCEPT !.sched = s, !.clients[i] = ResetInput(@)], d)
             /\ UNCHANGED server
          \/ /\ Failed(st, s, st.workers.next_worker_id)
             /\ UNCHANGED server
     ELSE Reject(st, i, d)

HandleMessage(st, i, m, d) ==
  \/ m.type = "PING" /\ d = 0 /\ QueueMessage(st, i, Message("PONG", 0, 0, 0), 0)
  \/ m.type = "WORKER_REGISTER" /\ HandleRegister(st, i, d)
  \/ m.type = "HEARTBEAT" /\ HandleHeartbeat(st, i, m, d)
  \/ m.type = "JOB_SUBMIT" /\ HandleSubmit(st, i, m, d)
  \/ m.type = "JOB_STATUS_REQUEST" /\ d = 0 /\ HandleStatus(st, i, m)
  \/ m.type \in {"JOBS_REQUEST", "WORKERS_REQUEST"} /\ d = 0 /\ QueueListing(st, i, m)
  \/ m.type = "STATS_REQUEST" /\ d = 0 /\ HandleStats(st, i)
  \/ m.type \in ReportTypes /\ HandleReport(st, i, m, d)
=============================================================================
