----------------------------- MODULE LoopEffects ----------------------------
(***************************************************************************)
(* What a step of the coordinator does to the job table, to the slot it    *)
(* serves and to what waits on its connection, as the programs at the      *)
(* other ends see it.                                                      *)
(***************************************************************************)
EXTENDS CoordinatorInvariant

-----------------------------------------------------------------------------
(* The job table changes as messages ask for.                              *)

\* An outcome that takes a report is that of message m.
Told(k, old, job, m) ==
  /\ Completes(old, job) =>
       /\ m.type = "JOB_COMPLETED" /\ m.job_id = k /\ m.attempt = job.attempt
       /\ job.result = m.value[1]
  /\ Fails(old, job) => m.type = "JOB_FAILED" /\ m.job_id = k /\ m.attempt = job.attempt

\* A new job is the one message m submits.
Submitted(job, m) ==
  /\ m.type = "JOB_SUBMIT" /\ job.task = m.value[1] /\ job.max_retries = m.value[2]
  /\ job.state # "DONE" /\ job.failure # "TASK"

Evolves(s, t, m) ==
  /\ Grows(s, t)
  /\ \A k \in DOMAIN s.jobs : Told(k, s.jobs[k], t.jobs[k], m)
  /\ \A k \in DOMAIN t.jobs \ DOMAIN s.jobs : Submitted(t.jobs[k], m)
  /\ \A j, k \in DOMAIN t.jobs \ DOMAIN s.jobs : j = k

-----------------------------------------------------------------------------
(* Frames of the coordinator are true of the job table, then and later.    *)

FrameTrue(f, s) ==
  /\ f.type \in {"JOB_SUBMIT_ACK", "JOB_STATUS_RESPONSE", "JOB_ASSIGN"} =>
       f.job_id \in DOMAIN s.jobs
  /\ (f.type = "JOB_STATUS_RESPONSE" /\ f.value[1] \in {"DONE", "FAILED"}) =>
       f.value = <<s.jobs[f.job_id].state, s.jobs[f.job_id].result>>
  /\ f.type = "JOB_ASSIGN" =>
       /\ f.attempt <= s.jobs[f.job_id].attempt
       /\ f.value = <<s.jobs[f.job_id].task>>
  /\ f.type \in {"NONE", "PONG", "WORKER_REGISTER_ACK", "JOBS_RESPONSE", "WORKERS_RESPONSE",
                 "STATS_RESPONSE"} => f.job_id = 0

\* Frame r, queued for message m, is new: what it says is so in the next table,
\* and an attempt it announces has a number the table did not have.
New(m, r) ==
  /\ r \in Replies /\ FrameTrue(r, sched')
  /\ r.type = "JOB_STATUS_NOT_FOUND" => r.job_id \notin DOMAIN sched'.jobs
  /\ r.type = "JOB_STATUS_RESPONSE" =>
       r.value = <<sched'.jobs[r.job_id].state, sched'.jobs[r.job_id].result>>
  /\ r.type = "JOB_SUBMIT_ACK" =>
       m.type = "JOB_SUBMIT" /\ r.job_id \in DOMAIN sched'.jobs \ DOMAIN sched.jobs
  /\ r.type = "JOB_ASSIGN" =>
       r.job_id \in DOMAIN sched.jobs /\ sched.jobs[r.job_id].attempt < r.attempt

\* The table changes as message m asks for, and so would the one in doubt.
Changes(m) ==
  /\ Evolves(sched, sched', m)
  /\ \/ UNCHANGED <<failure, unsynced>>
     \/ /\ failure' = "FATAL"
        /\ \A k \in DOMAIN unsynced' : /\ Evolves(sched, unsynced'[k].sched, m)
                                       /\ Grows(sched', unsynced'[k].sched)

-----------------------------------------------------------------------------
(* The slots and the connections.                                          *)

\* Client slots that differ in their times at most.
SameClient(a, b) ==
  /\ a.fd = b.fd /\ a.conn = b.conn /\ a.phase = b.phase /\ a.worker_id = b.worker_id
  /\ a.job_client = b.job_client /\ a.received = b.received
  /\ a.output = b.output /\ a.sent = b.sent

Rest(i) == \A k \in Slots : k # i => SameClient(clients[k], clients'[k])

\* Message m is the next frame of connection c, which is taken in u; NoMessage
\* stands for none.
Takes(c, m, u) ==
  \/ m = NoMessage /\ u = up
  \/ up[c] # <<>> /\ m = Head(up[c]) /\ u = [up EXCEPT ![c] = Tail(up[c])]

\* Slot i is served: its connection is closed, or stays and gets a new reply,
\* or a frame leaves the output buffer for the connection.
Dropped(i, m) ==
  LET c == clients[i].conn
  IN /\ SameClient(NoClient, clients'[i]) /\ UNCHANGED down
     /\ server' = [server EXCEPT ![c] = "closed"] /\ up' = [up EXCEPT ![c] = <<>>]
     /\ \E u : Takes(c, m, u)

Continues(i, m) ==
  LET c == clients[i].conn
  IN /\ clients'[i].fd = clients[i].fd /\ clients'[i].conn = c /\ UNCHANGED server
     /\ Takes(c, m, up')
     /\ \/ UNCHANGED down /\ (clients'[i].output = clients[i].output \/ New(m, clients'[i].output))
        \/ /\ clients'[i].output = NoMessage
           /\ down' = IF c \in Processes
                      THEN [down EXCEPT ![c] = Append(down[c], clients[i].output)] ELSE down

Serves(i, m) == Rest(i) /\ UNCHANGED peer /\ Changes(m) /\ (Dropped(i, m) \/ Continues(i, m))

\* Nothing happens but the passing of time or a recovery.
Rests ==
  /\ \A i \in Slots : SameClient(clients[i], clients'[i])
  /\ UNCHANGED <<peer, server, up, down, failure, unsynced>>
  /\ Evolves(sched, sched', NoMessage) /\ (sched' = sched \/ unsynced = <<>>)

\* A connection is accepted in a free slot, or refused.
Enters(c) ==
  /\ server[c] = "backlog" /\ UNCHANGED <<sched, failure, unsynced, peer, down>>
  /\ \/ \E i \in Slots :
          /\ ~Open(clients, i) /\ \A k \in Slots : k # i => clients'[k] = clients[k]
          /\ clients'[i].fd >= 0 /\ clients'[i].conn = c /\ clients'[i].worker_id = 0
          /\ ~clients'[i].job_client /\ clients'[i].output = NoMessage
          /\ server' = [server EXCEPT ![c] = "open"] /\ up' = up
     \/ clients' = clients /\ server' = [server EXCEPT ![c] = "closed"]
        /\ up' = [up EXCEPT ![c] = <<>>]

\* The coordinator ends, with the published table or the one in doubt.
Ends ==
  /\ UNCHANGED <<peer, down>> /\ failure' = "NONE" /\ unsynced' = <<>>
  /\ sched' = sched \/ \E k \in DOMAIN unsynced : sched' = unsynced[k].sched
  /\ \A i \in Slots : clients'[i] = NoClient
  /\ server' = [c \in Conns |-> IF server[c] = "none" THEN "none" ELSE "closed"]
  /\ up' = [c \in Conns |-> <<>>]
=============================================================================
