----------------------------- MODULE Coordinator -----------------------------
(***************************************************************************)
(* The coordinator's event loop (src/src/coordinator/main.c): client       *)
(* slots, framed reads and writes, the expiry of heartbeats, and the       *)
(* dispatch of queued jobs, over connections whose other ends act          *)
(* concurrently.  Module CoordinatorHandlers has what is done with a       *)
(* complete message.                                                       *)
(*                                                                         *)
(* The loop is single-threaded.  One iteration polls, serves the client    *)
(* slots in order, accepts, and schedules; every slot is a step, because   *)
(* peers and the clock move between them.  Module CoordinatorStore         *)
(* justifies what Restart finds.                                           *)
(***************************************************************************)
EXTENDS CoordinatorHandlers

\* A process that has opened its store serves nobody yet.
InitWith(s) ==
  /\ sched = s /\ workers = RegistryInit
  /\ failure = "NONE" /\ unsynced = <<>>
  /\ clients = [i \in Slots |-> NoClient]
  /\ phase = "poll" /\ index = 1 /\ ready = {} /\ seen = NOW
  /\ peer = [c \in Conns |-> "idle"] /\ server = [c \in Conns |-> "none"]
  /\ up = [c \in Conns |-> <<>>] /\ down = [c \in Conns |-> <<>>]
  /\ dispatched = {} /\ restarts = 0

Init == InitWith(SchedulerInit)

-----------------------------------------------------------------------------
(* Reading a frame.                                                        *)

\* Bytes arrived, the frame is not complete.
Progress(i, received, d) ==
  /\ d = 0
  /\ Published([Here EXCEPT !.clients[i] =
                  [@ EXCEPT !.received = received, !.last_progress = NOW, !.since = NOW]], 0)
  /\ UNCHANGED server

\* read_message: one recv, which never reads past the header it waits for or
\* past the payload a header announced.  The header may come in two
\* pieces.
ReadMessage(i, d) ==
  LET client == clients[i]
      m      == Head(up[client.conn])
      st     == [Here EXCEPT !.clients[i] =
                   [@ EXCEPT !.received = "all", !.last_progress = NOW, !.since = NOW],
                 !.up[client.conn] = Tail(@)]
  IN IF up[client.conn] = <<>>
     THEN Reject(Here, i, d)
     ELSE \/ client.received = "nothing" /\ Progress(i, "part", d)
          \/ /\ client.received \in {"nothing", "part"}
             /\ IF ~Allowed(client, m.type) THEN Reject(Here, i, d)
                ELSE IF HasPayload(m.type) THEN Progress(i, "header", d)
                ELSE HandleMessage(st, i, m, d)
          \/ /\ client.received = "header"
             /\ HandleMessage(st, i, m, d)

-----------------------------------------------------------------------------
(* The steps of the loop.                                                  *)

\* write_reply: a partial send (one per frame), the complete frame, or a broken connection.
WriteReply(i, d) ==
  LET client == clients[i]
      m      == client.output
      moved  == [client EXCEPT !.last_progress = NOW, !.since = NOW]
  IN \/ /\ d = 0 /\ ~client.sent
        /\ Published([Here EXCEPT !.clients[i] = [moved EXCEPT !.sent = TRUE]], 0)
        /\ UNCHANGED <<server, down, dispatched>>
     \/ /\ d = 0
        /\ Published([Here EXCEPT !.clients[i] =
                        [ResetInput(moved) EXCEPT !.output = NoMessage, !.sent = FALSE]], 0)
        /\ down' = IF client.conn \in Processes
                   THEN [down EXCEPT ![client.conn] = Append(@, m)] ELSE down
        /\ dispatched' = IF m.type \in {"JOB_ASSIGN", "JOB_SUBMIT_ACK"}
                         THEN dispatched \cup {m} ELSE dispatched
        /\ UNCHANGED server
     \/ /\ peer[client.conn] = "closed"
        /\ Reject(Here, i, d)
        /\ UNCHANGED <<down, dispatched>>

\* Mutant of Expired: a connection with input is read first.
ExpiredWhenSilent(i) ==
  /\ clients[i].worker_id # 0 /\ i \notin ready
  /\ RecordSlots(workers, clients[i].worker_id) # {}
  /\ TimedOut(workers.slots[RecordSlot(workers, clients[i].worker_id)], NOW,
              HEARTBEAT_TIMEOUT)

Expired(i) ==
  /\ clients[i].worker_id # 0
  /\ RecordSlots(workers, clients[i].worker_id) # {}
  /\ TimedOut(workers.slots[RecordSlot(workers, clients[i].worker_id)], NOW,
              HEARTBEAT_TIMEOUT)

\* Mutant of Readable: a hangup without data is not noticed.
ReadableData(i) == up[clients[i].conn] # <<>>

Readable(i) == up[clients[i].conn] # <<>> \/ peer[clients[i].conn] = "closed"

Writable(i) ==
  Len(down[clients[i].conn]) < BUFFER \/ peer[clients[i].conn] = "closed"

\* A peer in the middle of a frame may keep the rest back, or not read.
MayStall(i) ==
  /\ peer[clients[i].conn] = "open" /\ clients[i].conn \notin Processes
  /\ clients[i].phase = "WRITING" \/ clients[i].received # "nothing"

Inactive(i) ==
  /\ \/ clients[i].worker_id = 0
     \/ clients[i].phase = "WRITING"
     \/ clients[i].received # "nothing"
  /\ NOW - clients[i].last_progress >= IO_TIMEOUT

\* poll returns when something is ready, or after at most a second.
Poll ==
  /\ phase = "poll"
  /\ LET open == {i \in Slots : Open(clients, i)}
         able == {i \in open : IF clients[i].phase = "READING" THEN Readable(i) ELSE Writable(i)}
     IN \E stalled \in SUBSET {i \in able : MayStall(i)} :
          ready' = (able \ stalled) \cup {k \in {0} : \E c \in Conns : server[c] = "backlog"}
  /\ phase' = "clients" /\ index' = 1 /\ seen' = NOW
  /\ UNCHANGED <<store, clients, network, dispatched, restarts>>

\* Where the loop goes after slot i.
NextSlot(i) ==
  IF failure' # "NONE" THEN phase' = "stopped" /\ index' = 1
  ELSE IF i < MAX_CLIENTS THEN phase' = "clients" /\ index' = i + 1
  ELSE phase' = (IF 0 \in ready THEN "accept" ELSE "schedule") /\ index' = 1

\* One client slot: expiry before reading, then the event poll reported, then
\* the inactivity limit.
ServeClient(d) ==
  LET i == index
  IN /\ phase = "clients"
     /\ IF ~Open(clients, i)
        THEN d = 0 /\ UNCHANGED <<store, clients, server, up, down, dispatched>>
        ELSE IF Expired(i) THEN Reject(Here, i, d) /\ UNCHANGED <<down, dispatched>>
        ELSE IF i \in ready /\ clients[i].phase = "READING"
        THEN ReadMessage(i, d) /\ UNCHANGED <<down, dispatched>>
        ELSE IF i \in ready THEN WriteReply(i, d)
        ELSE IF Inactive(i) THEN Reject(Here, i, d) /\ UNCHANGED <<down, dispatched>>
        ELSE d = 0 /\ UNCHANGED <<store, clients, server, up, down, dispatched>>
     /\ NextSlot(i)
     /\ seen' = Past(NOW, d, IO_TIMEOUT)
     /\ UNCHANGED <<ready, peer, restarts>>

\* accept_clients, one connection at a time and at most MAX_CLIENTS of them:
\* the first free slot, and the lowest free descriptor.  It may be refused.
Accept(c) ==
  LET free == {i \in Slots : ~Open(clients, i)}
      fd   == First({k \in 1..MAX_CLIENTS + 1 : \A i \in Slots : clients[i].fd # k})
  IN /\ phase = "accept" /\ server[c] = "backlog"
     /\ \/ /\ free # {}
           /\ clients' = [clients EXCEPT ![First(free)] =
                            [NoClient EXCEPT !.fd = fd, !.conn = c,
                                             !.last_progress = seen, !.since = NOW]]
           /\ server' = [server EXCEPT ![c] = "open"]
           /\ UNCHANGED up
        \/ /\ server' = [server EXCEPT ![c] = "closed"]
           /\ up' = [up EXCEPT ![c] = <<>>]
           /\ UNCHANGED clients
     /\ IF index < MAX_CLIENTS THEN index' = index + 1 /\ UNCHANGED <<phase, seen>>
        ELSE index' = 1 /\ phase' = "schedule" /\ seen' = NOW
     /\ UNCHANGED <<store, ready, peer, down, dispatched, restarts>>

AcceptDone ==
  /\ phase = "accept"
  /\ \A c \in Conns : server[c] # "backlog"
  /\ phase' = "schedule" /\ index' = 1 /\ seen' = NOW
  /\ UNCHANGED <<store, clients, ready, network, dispatched, restarts>>

\* Mutant of Eligible: a reply in the output buffer does not matter.
EligibleWhileWriting(i) ==
  LET id == clients[i].worker_id
  IN /\ Open(clients, i)
     /\ id # 0 /\ RecordSlots(workers, id) # {}
     /\ LiveConnection(workers, id, clients[i].fd)
     /\ ~TimedOut(workers.slots[RecordSlot(workers, id)], NOW, HEARTBEAT_TIMEOUT)
     /\ ~Busy(sched, id)

\* The workers schedule_jobs may give a job to.
Eligible(i) ==
  LET id == clients[i].worker_id
  IN /\ Open(clients, i)
     /\ id # 0 /\ RecordSlots(workers, id) # {}
     /\ LiveConnection(workers, id, clients[i].fd)
     /\ ~TimedOut(workers.slots[RecordSlot(workers, id)], NOW, HEARTBEAT_TIMEOUT)
     /\ clients[i].phase = "READING" /\ clients[i].received = "nothing"
     /\ ~Busy(sched, id)

\* schedule_jobs: the next eligible worker gets the oldest pending job.
Schedule(d) ==
  LET S   == {i \in index..MAX_CLIENTS : sched.pending # <<>> /\ Eligible(i)}
      i   == First(S)
      id  == clients[i].worker_id
      s   == Assign(sched, id, 0)
      job == s.jobs[FindSlot(s, Head(sched.pending))]
  IN /\ phase = "schedule"
     /\ IF S = {}
        THEN /\ phase' = "poll" /\ index' = 1 /\ d = 0
             /\ UNCHANGED <<store, clients, server, up>>
        ELSE /\ \/ /\ AssignOK(sched, id, 0)
                   /\ QueueMessage([Here EXCEPT !.sched = s], i,
                                   Assignment(job), d)
                \/ Failed(Here, s, workers.next_worker_id) /\ UNCHANGED server
             /\ phase' = (IF failure' # "NONE" THEN "stopped"
                          ELSE IF i = MAX_CLIENTS THEN "poll" ELSE "schedule")
             /\ index' = IF i < MAX_CLIENTS /\ failure' = "NONE" THEN i + 1 ELSE 1
     /\ seen' = NOW
     /\ ready' = IF phase' = "poll" THEN {} ELSE ready
     /\ UNCHANGED <<peer, down, dispatched, restarts>>

\* Time passes.  What accept_clients takes itself, which never blocks, is not
\* counted: seen there is as old as the last slot's commit made it.
Tick ==
  /\ phase \notin {"accept", "down"}
  /\ workers' = AgedWorkers(workers, 1) /\ clients' = AgedClients(clients, 1)
  /\ UNCHANGED <<sched, failure, unsynced, loop, network, dispatched, restarts>>

\* The process ends: a signal, a failed poll or clock, a latched failure, or a
\* crash.  Sockets close, nothing is written; what a failed commit wrote may
\* have survived.
Exit ==
  /\ phase # "down"
  /\ phase' = "down" /\ index' = 1 /\ ready' = {} /\ seen' = NOW
  /\ \E kept \in {[sched |-> sched, next_worker_id |-> workers.next_worker_id]}
                 \cup {unsynced[k] : k \in DOMAIN unsynced} :
       /\ sched' = kept.sched
       /\ workers' = [RegistryInit EXCEPT !.next_worker_id = kept.next_worker_id]
  /\ failure' = "NONE" /\ unsynced' = <<>>
  /\ clients' = [i \in Slots |-> NoClient]
  /\ server' = [c \in Conns |-> IF server[c] = "none" THEN "none" ELSE "closed"]
  /\ up' = [c \in Conns |-> <<>>]
  /\ UNCHANGED <<peer, down, dispatched, restarts>>

Restart ==
  /\ phase = "down" /\ restarts < MAX_RESTARTS
  /\ restarts' = restarts + 1
  /\ phase' = "poll"
  /\ sched' = Recovered(sched, 0)
  /\ UNCHANGED <<workers, failure, unsynced, clients, index, ready, seen, network,
                 dispatched>>

-----------------------------------------------------------------------------
(* Peers whose program is not modelled: they connect, send any message of  *)
(* the protocol in any order, read or do not read, and leave.              *)

PeerMessages ==
  {Message(type, 0, 0, 0) :
     type \in PeerTypes \ (ReportTypes \cup {"HEARTBEAT", "JOB_SUBMIT", "JOB_STATUS_REQUEST"})}
  \cup {Message(type, 0, j, 0) : type \in PeerTypes \cap {"JOB_STATUS_REQUEST"},
                                 j \in 1..MAX_JOB_ID}
  \cup {Carrying(Message(type, 0, 0, 0), <<task, n>>) :
          type \in PeerTypes \cap {"JOB_SUBMIT"}, task \in Tasks, n \in 0..MAX_RETRIES}
  \cup {Message(type, w, 0, 0) : type \in PeerTypes \cap {"HEARTBEAT"},
                                 w \in 1..MAX_WORKER_ID}
  \cup {Carrying(Message(type, w, j, a), <<r>>) :
          type \in PeerTypes \cap ReportTypes, w \in 1..MAX_WORKER_ID,
          j \in 1..MAX_JOB_ID, a \in 1..MAX_RETRIES + 1, r \in Results}

Connect(c) ==
  /\ peer[c] = "idle" /\ phase # "down"
  /\ peer' = [peer EXCEPT ![c] = "open"]
  /\ server' = [server EXCEPT ![c] = "backlog"]
  /\ UNCHANGED <<store, clients, loop, up, down, dispatched, restarts>>

CanSend(c) ==
  peer[c] = "open" /\ server[c] \in {"backlog", "open"} /\ Len(up[c]) < BUFFER

Send(c, m) ==
  /\ CanSend(c)
  /\ up' = [up EXCEPT ![c] = Append(@, m)]
  /\ UNCHANGED <<store, clients, loop, peer, server, down, dispatched, restarts>>

\* An orderly close leaves what was sent; a reset takes it away.
Disconnect(c) ==
  /\ peer[c] = "open" /\ server[c] \in {"backlog", "open"}
  /\ peer' = [peer EXCEPT ![c] = "closed"]
  /\ up' \in {up, [up EXCEPT ![c] = <<>>]}
  /\ UNCHANGED <<store, clients, loop, server, down, dispatched, restarts>>

\* What these peers do after poll returned either is not noticed before the
\* next poll, or looks as if it had been done before this one, so they act
\* while the loop is in poll.
PeerStep(c) ==
  /\ phase = "poll"
  /\ Connect(c) \/ (\E m \in PeerMessages : Send(c, m)) \/ Disconnect(c)

LoopStep ==
  \/ Poll
  \/ \E d \in SyncTimes : ServeClient(d) \/ Schedule(d)
  \/ \E c \in Conns : Accept(c)
  \/ AcceptDone

Next ==
  \/ LoopStep
  \/ Tick
  \/ Exit
  \/ Restart
  \/ \E c \in Conns \ Processes : PeerStep(c)

Spec == Init /\ [][Next]_cvars

-----------------------------------------------------------------------------
Registered(i) == Open(clients, i) /\ clients[i].worker_id # 0

\* The registry and the client slots name the same live workers, one slot and
\* one descriptor each: register and close_client change both together, and a
\* descriptor the system hands out again never leads to an older identity.
ConnectionsAgree ==
  /\ \A i \in Slots : Registered(i) =>
       LiveConnection(workers, clients[i].worker_id, clients[i].fd)
  /\ \A k \in 1..MAX_WORKERS : workers.slots[k].state = "ALIVE" =>
       \E i \in Slots : Registered(i) /\ clients[i].worker_id = workers.slots[k].id
  /\ \A i, k \in Slots : Registered(i) /\ clients[i].worker_id = clients[k].worker_id => i = k
  /\ \A i, k \in Slots : Open(clients, i) /\ clients[i].fd = clients[k].fd => i = k

\* While the coordinator runs, the assignment of every active attempt is in
\* the output buffer of its owner's open connection or was sent on it in full:
\* no attempt stays active whose frame was overwritten or whose connection is
\* gone.
AssignmentsInFlight ==
  failure = "NONE" /\ phase # "down" =>
    \A k \in DOMAIN sched.jobs : IsActive(sched.jobs[k]) =>
      LET job == sched.jobs[k]
          m   == Assignment(job)
      IN \E i \in Slots :
           /\ Registered(i) /\ clients[i].worker_id = job.worker_id
           /\ clients[i].output = m \/ m \in dispatched

\* A job whose submission was acknowledged is in the job table from then on,
\* before and after every restart: the ACK is queued after the commit.
AcknowledgedIsKept ==
  \A m \in dispatched : m.type = "JOB_SUBMIT_ACK" => Known(sched, m.job_id)

\* schedule_jobs never replaces a reply that is still being sent: the output
\* of a connection changes only when it was sent in full or the connection
\* closes.
RepliesKept ==
  [][\A i \in Slots :
       (clients[i].phase = "WRITING" /\ clients'[i].conn = clients[i].conn
        /\ clients'[i].output # clients[i].output)
       => clients'[i].phase = "READING"]_cvars

\* The step takes report m from client slot i: the frame is used up, the
\* connection stays, and the job table changes, or a commit in doubt would
\* change it.
TakesReport(i, m) ==
  LET c == clients[i].conn
  IN /\ phase = "clients" /\ index = i /\ Registered(i)
     /\ up[c] # <<>> /\ m = Head(up[c]) /\ up'[c] = Tail(up[c])
     /\ m.type \in ReportTypes /\ Open(clients', i)
     /\ sched' # sched \/ unsynced' # unsynced

\* A report counts only for the last assignment that was sent of its job, and
\* only from the worker it was sent to: one that comes late, twice, or before
\* its assignment has left, from whichever peer, changes no job.
ReportsAreCurrent ==
  [][\A i \in Slots : \A m \in {Head(up[c]) : c \in {c \in Conns : up[c] # <<>>}} :
       TakesReport(i, m) =>
         LET sent == {a \in dispatched : a.type = "JOB_ASSIGN" /\ a.job_id = m.job_id}
         IN \E a \in sent :
              /\ a.worker_id = m.worker_id /\ a.worker_id = clients[i].worker_id
              /\ a.attempt = m.attempt
              /\ \A b \in sent : b.attempt <= a.attempt]_cvars

\* A lease is renewed only while it lasts, and only its holder gets work: a
\* heartbeat that was already buffered when the timeout passed does not revive
\* the worker, and no assignment goes to one whose timeout has passed.
LeasesRespected ==
  [][\A k \in 1..MAX_WORKERS :
       LET before == workers.slots[k]
           after  == workers'.slots[k]
       IN (before.state = "ALIVE" /\ TimedOut(before, NOW, HEARTBEAT_TIMEOUT)
           /\ after.id = before.id)
          => /\ after.last_heartbeat <= before.last_heartbeat
             /\ \A n \in DOMAIN sched.jobs :
                  (sched'.jobs[n].state = "ASSIGNED" /\ sched.jobs[n].state # "ASSIGNED")
                    => sched'.jobs[n].worker_id # before.id]_cvars

\* docs/networking.md: the inactivity limit of a client is "measured since
\* acceptance or the last successful read/write", so a client the loop would
\* close for inactivity was accepted, or last made progress, that long ago.
InactivityMeasured ==
  \A i \in Slots : Open(clients, i) /\ Inactive(i) => NOW - clients[i].since >= IO_TIMEOUT

\* A worker whose lease has run out is declared dead, whatever it sends and
\* however busy the other connections keep the loop.
ExpiredWorkersDie ==
  \A id \in 1..MAX_WORKER_ID :
    (Alive(workers, id) /\ TimedOut(workers.slots[RecordSlot(workers, id)], NOW,
                                    HEARTBEAT_TIMEOUT))
      ~> ~Alive(workers, id)

\* A connection whose peer has gone is closed, and with it the attempt of its
\* worker is settled: at some later time none is left, since a connection has
\* one life and there are finitely many.
LostPeersAreClosed ==
  []<>(\A c \in Conns : peer[c] = "closed" => server[c] \notin {"backlog", "open"})
=============================================================================
