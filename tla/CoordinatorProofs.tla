-------------------------- MODULE CoordinatorProofs -------------------------
(***************************************************************************)
(* CoordinatorInv is an inductive invariant of the event loop, and the     *)
(* properties of module Coordinator follow from it.  Each step of the loop *)
(* has one of the effects of LoopEffects.                                  *)
(***************************************************************************)
EXTENDS HandlerProofs, Coordinator

USE ZenonT(20), SMTT(30), SMTT(60)

-----------------------------------------------------------------------------
(* A client slot's turn.                                                   *)

\* The published values, as a step starts from them.
LEMMA HereFields ==
  /\ Fields(Here) /\ Here.sched = sched /\ Here.workers = workers
  /\ Here.clients = clients /\ Here.up = up
BY StateFields DEF Fields, Here

\* What replacing the frames of one connection gives.
UpSet(st, k, q) ==
  [st EXCEPT !.up[k] = q]
  = Values(st.sched, st.workers, st.clients, [st.up EXCEPT ![k] = q])

\* Nothing else changes.
LEMMA UpField ==
  ASSUME NEW st, NEW k, NEW q, Fields(st)
  PROVE  UpSet(st, k, q)
<1> DEFINE s == st.sched
           w == st.workers
           cl == st.clients
           u == st.up
<1>1. st = [sched |-> s, workers |-> w, clients |-> cl, up |-> u]
  BY DEF Fields
<1> HIDE DEF s, w, cl, u
<1>2. [st EXCEPT !.up[k] = q] = [sched |-> s, workers |-> w, clients |-> cl,
                                 up |-> [u EXCEPT ![k] = q]]
  BY <1>1, SMTT(90)
<1> QED  BY <1>2 DEF UpSet, Values, s, w, cl, u

\* A connection that is being read, and keeps its identity and its worker.
Kept(old, c) ==
  /\ c \in ClientType /\ c.fd = old.fd /\ c.conn = old.conn /\ c.phase = "READING"
  /\ c.worker_id = old.worker_id /\ c.output = NoMessage

\* Bytes that arrive on a connection move its progress time.
LEMMA MovedSlot ==
  ASSUME NEW old \in ClientType, old.output = NoMessage, old.phase = "READING",
         NEW received \in {"nothing", "part", "header", "all"}
  PROVE  Kept(old, [old EXCEPT !.received = received, !.last_progress = NOW, !.since = NOW])
<1> DEFINE c == [old EXCEPT !.received = received, !.last_progress = NOW, !.since = NOW]
<1>1. NOW \in Int
  BY Clock
<1> HIDE DEF Replies
<1>2. c \in ClientType
  BY <1>1 DEF ClientType
<1>3. /\ c.fd = old.fd /\ c.conn = old.conn /\ c.phase = old.phase
      /\ c.worker_id = old.worker_id /\ c.output = old.output
  BY <1>2 DEF ClientType
<1> HIDE DEF c
<1>4. Kept(old, c)
  BY <1>2, <1>3 DEF Kept
<1> QED  BY <1>4 DEF c

\* The slot that is being read, among the published values.
LEMMA HereSlot ==
  ASSUME NEW i \in Slots, Reading(Here, i)
  PROVE  /\ clients[i] \in ClientType /\ clients[i].output = NoMessage
         /\ clients[i].phase = "READING" /\ clients[i].conn \in Conns
         /\ DOMAIN up = Conns /\ \A k \in Conns : FramesOK(up[k])
BY HereFields DEF Reading, StateOK, ClientsOK

\* Part of a frame arrives.
LEMMA ProgressStep ==
  ASSUME NEW i \in Slots, Reading(Here, i), NEW d,
         NEW received \in {"nothing", "part", "header", "all"}, Progress(i, received, d)
  PROVE  Served(Here, i)
<1> DEFINE c == [clients[i] EXCEPT !.received = received, !.last_progress = NOW, !.since = NOW]
           cl == [clients EXCEPT ![i] = c]
           t == Values(sched, workers, cl, up)
<1>1. Kept(clients[i], c)
  BY HereSlot, MovedSlot
<1>2. SlotSet(Here, i, c)
  BY HereFields, SlotField
<1>3. [Here EXCEPT !.clients[i] = c] = t
  BY <1>2, HereFields DEF SlotSet
<1>4. Published([Here EXCEPT !.clients[i] = c], 0)
  BY HereFields DEF Progress
<1> HIDE DEF c
<1>5. DOMAIN up = Conns /\ \A k \in Conns : FramesOK(up[k])
  BY HereSlot
<1>6. Reading(t, i) /\ Follows(Here, t, i)
  <2> HIDE DEF cl, t
  <2>1. cl = [Here.clients EXCEPT ![i] = c] /\ t = Values(Here.sched, Here.workers, cl, up)
    BY HereFields DEF cl, t
  <2> QED  BY <1>1, <1>5, <2>1, HereFields, ReadSlot DEF Kept
<1> HIDE DEF t
<1>7. Served(t, i)
  BY <1>3, <1>4, <1>6, PublishedServed DEF Reading
<1> QED  BY <1>6, <1>7, ServedFrom

\* read_message: the slot's worker has not timed out.
LEMMA ReadStep ==
  ASSUME NEW i \in Slots, Reading(Here, i), NEW d \in Nat, ReadMessage(i, d),
         \A k \in 1..MAX_WORKERS :
           RecordOf(workers, clients, i, k) =>
             ~TimedOut(workers.slots[k], NOW, HEARTBEAT_TIMEOUT)
  PROVE  Served(Here, i)
<1> DEFINE conn == clients[i].conn
           c  == [clients[i] EXCEPT !.received = "all", !.last_progress = NOW, !.since = NOW]
           cl == [clients EXCEPT ![i] = c]
           u  == [up EXCEPT ![conn] = Tail(up[conn])]
           t  == Values(sched, workers, cl, u)
           m  == Head(up[conn])
<1>1. CASE Reject(Here, i, d)
  BY <1>1, CloseOpen DEF Reading
<1>2. CASE Progress(i, "part", d)
  BY <1>2, ProgressStep
<1>3. CASE Progress(i, "header", d)
  BY <1>3, ProgressStep
<1>4. CASE up[conn] # <<>> /\ HandleMessage(t, i, m, d)
  <2>1. DOMAIN up = Conns /\ (\A k \in Conns : FramesOK(up[k])) /\ conn \in Conns
    BY HereSlot
  <2>2. RequestOK(m) /\ FramesOK(Tail(up[conn]))
    BY <1>4, <2>1, FrameTaken
  <2>3. DOMAIN u = Conns /\ \A k \in Conns : FramesOK(u[k])
    <3> DEFINE q == Tail(up[conn])
    <3> HIDE DEF q, conn
    <3> QED  BY <2>1, <2>2 DEF q
  <2>4. Kept(clients[i], c)
    BY HereSlot, MovedSlot
  <2> HIDE DEF c, u, m
  <2>5. Reading(t, i) /\ Follows(Here, t, i) /\ t.workers = workers /\ t.clients[i] = c
    <3> HIDE DEF cl, t
    <3>1. cl = [Here.clients EXCEPT ![i] = c] /\ t = Values(Here.sched, Here.workers, cl, u)
      BY HereFields DEF cl, t
    <3>2. Kept(Here.clients[i], c)
      BY <2>4, HereFields
    <3>3. Reading(t, i) /\ Follows(Here, t, i) /\ t.workers = Here.workers /\ t.clients[i] = c
      BY <2>3, <3>1, <3>2, ReadSlot, SMTT(90) DEF Kept
    <3> QED  BY <3>3, HereFields
  <2> HIDE DEF t
  <2>6. \A k \in 1..MAX_WORKERS :
          RecordOf(t.workers, t.clients, i, k) =>
            ~TimedOut(t.workers.slots[k], NOW, HEARTBEAT_TIMEOUT)
    BY <2>4, <2>5 DEF RecordOf, Kept
  <2>7. Served(t, i)
    BY <1>4, <2>2, <2>5, <2>6, MessageHandled
  <2> QED  BY <2>5, <2>7, ServedFrom
<1>5. [Here EXCEPT !.clients[i] = c, !.up[conn] = Tail(@)] = t
  <2> DEFINE a == [Here EXCEPT !.clients[i] = c]
  <2>1. SlotSet(Here, i, c)
    BY HereFields, SlotField
  <2> HIDE DEF c
  <2>2. a = Values(sched, workers, cl, up)
    BY <2>1, HereFields DEF SlotSet
  <2> HIDE DEF a, cl
  <2>3. Fields(a) /\ a.sched = sched /\ a.workers = workers /\ a.clients = cl /\ a.up = up
    BY <2>2, StateFields DEF Values, Fields
  <2> DEFINE q == Tail(up[conn])
  <2>4. UpSet(a, conn, q)
    BY <2>3, UpField
  <2>5. [a EXCEPT !.up[conn] = q] = t
    BY <2>3, <2>4 DEF UpSet
  <2>6. [a EXCEPT !.up[conn] = Tail(@)] = [a EXCEPT !.up[conn] = q]
    BY <2>3
  <2> QED  BY <2>5, <2>6 DEF a
<1>6. [Here EXCEPT !.clients[i] =
         [@ EXCEPT !.received = "all", !.last_progress = NOW, !.since = NOW],
         !.up[conn] = Tail(@)] = t
  BY <1>5, HereFields
<1> HIDE DEF t
<1> QED  BY <1>1, <1>2, <1>3, <1>4, <1>6 DEF ReadMessage

\* What a turn of the loop leaves: consistent tables with every assignment in
\* flight, or a latched failure; no reply replaced while it is being sent; no
\* lease renewed that had run out, and no job assigned to its holder.
Turned ==
  /\ StateOK(Here', dispatched')
  /\ \/ UNCHANGED <<failure, unsynced>> /\ InFlightBut(sched', clients', dispatched', 0)
     \/ failure' = "FATAL" /\ UnsyncedOK'
  /\ \A i \in Slots : (clients[i].phase = "WRITING" /\ clients'[i].output # clients[i].output)
                        => clients'[i].phase = "READING"
  /\ \A k \in 1..MAX_WORKERS : TimedOut(workers.slots[k], NOW, HEARTBEAT_TIMEOUT) =>
       /\ workers'.slots[k].last_heartbeat <= workers.slots[k].last_heartbeat
       /\ \A n \in DOMAIN sched.jobs :
            (sched'.jobs[n].state = "ASSIGNED" /\ sched.jobs[n].state # "ASSIGNED")
              => sched'.jobs[n].worker_id # workers.slots[k].id

\* Serving a slot is such a turn.
LEMMA ServedTurn ==
  ASSUME NEW i \in Slots, Served(Here, i), UNCHANGED dispatched,
         \/ clients[i].phase = "READING" \/ clients'[i].phase = "READING"
         \/ clients'[i].output = clients[i].output
  PROVE  Turned
<1>1. \A k \in Slots : (clients[k].phase = "WRITING" /\ clients'[k].output # clients[k].output)
                         => clients'[k].phase = "READING"
  BY HereFields DEF Served, SameClient
<1>2. \A n \in DOMAIN sched.jobs :
        sched'.jobs[n].state = "ASSIGNED" => sched.jobs[n].state = "ASSIGNED"
  BY HereFields DEF Served
<1>3. \A k \in 1..MAX_WORKERS : TimedOut(workers.slots[k], NOW, HEARTBEAT_TIMEOUT) =>
        workers'.slots[k].last_heartbeat <= workers.slots[k].last_heartbeat
  BY HereFields DEF Served
<1>4. /\ StateOK(Here', dispatched')
      /\ \/ UNCHANGED <<failure, unsynced>> /\ InFlightBut(sched', clients', dispatched', 0)
         \/ failure' = "FATAL" /\ UnsyncedOK'
  BY DEF Served
<1> QED  BY <1>1, <1>2, <1>3, <1>4 DEF Turned

\* So is a turn in which nothing happens.
LEMMA IdleTurn ==
  ASSUME StateOK(Here, dispatched), InFlightBut(sched, clients, dispatched, 0),
         UNCHANGED <<store, clients, up, dispatched>>
  PROVE  Turned
<1>1. Here' = Here /\ dispatched' = dispatched /\ UNCHANGED <<failure, unsynced>>
      /\ sched' = sched /\ clients' = clients /\ workers' = workers
  BY DEF Here, store
<1>2. StateOK(Here', dispatched') /\ InFlightBut(sched', clients', dispatched', 0)
  BY <1>1
<1>3. \A k \in 1..MAX_WORKERS : TimedOut(workers.slots[k], NOW, HEARTBEAT_TIMEOUT) =>
        workers'.slots[k].last_heartbeat <= workers.slots[k].last_heartbeat
  <2>1. workers \in RegistryType
    BY HereFields DEF StateOK
  <2>2. \A k \in 1..MAX_WORKERS : workers.slots[k].last_heartbeat \in Int
    BY <2>1, RegistryShape DEF WorkerType
  <2> QED  BY <1>1, <2>2
<1> QED  BY <1>1, <1>2, <1>3 DEF Turned

\* The slot write_reply leaves, after a part of the frame and after all of it.
Moved(old) == [old EXCEPT !.last_progress = NOW, !.since = NOW]

PartSent(old) == [Moved(old) EXCEPT !.sent = TRUE]

AllSent(old) == [ResetInput(Moved(old)) EXCEPT !.output = NoMessage, !.sent = FALSE]

\* Its identity and its worker stay, and a part of a frame leaves the frame.
LEMMA WrittenSlot ==
  ASSUME NEW old \in ClientType
  PROVE  /\ LET part == PartSent(old)
            IN  /\ part \in ClientType /\ part.fd = old.fd /\ part.conn = old.conn
                /\ part.phase = old.phase /\ part.worker_id = old.worker_id
                /\ part.output = old.output
         /\ Kept(old, AllSent(old))
<1> DEFINE moved == Moved(old)
           part  == PartSent(old)
           input == ResetInput(moved)
           full  == AllSent(old)
<1>1. NOW \in Int /\ NoMessage \in Replies
  <2>1. NoMessage \in Replies
    BY ReplyType DEF NoMessage, ReplyTypes, ReplyValues
  <2> QED  BY <2>1, Clock
<1> HIDE DEF Replies, NoMessage
<1>   /\ moved \in ClientType /\ moved.fd = old.fd /\ moved.conn = old.conn
      /\ moved.phase = old.phase /\ moved.worker_id = old.worker_id
      /\ moved.output = old.output
  <2>1. moved \in ClientType
    BY <1>1 DEF ClientType, Moved
  <2> QED  BY <2>1 DEF ClientType, Moved
<1> HIDE DEF moved
<1>3. /\ part \in ClientType /\ part.fd = moved.fd /\ part.conn = moved.conn
      /\ part.phase = moved.phase /\ part.worker_id = moved.worker_id
      /\ part.output = moved.output
  <2>0. part = [moved EXCEPT !.sent = TRUE]
    BY DEF PartSent, moved
  <2>1. part \in ClientType
    BY <2>0 DEF ClientType
  <2> HIDE DEF part
  <2> QED  BY <2>0, <2>1 DEF ClientType
<1>4. /\ input \in ClientType /\ input.fd = moved.fd /\ input.conn = moved.conn
      /\ input.phase = "READING" /\ input.worker_id = moved.worker_id
  <2>1. input \in ClientType
    BY DEF ClientType, ResetInput
  <2> QED  BY <2>1 DEF ClientType, ResetInput
<1> HIDE DEF input
<1>5. /\ full \in ClientType /\ full.fd = input.fd /\ full.conn = input.conn
      /\ full.phase = input.phase /\ full.worker_id = input.worker_id
      /\ full.output = NoMessage
  <2>0. full = [input EXCEPT !.output = NoMessage, !.sent = FALSE]
    BY DEF AllSent, input, moved
  <2>1. full \in ClientType
    BY <1>1, <1>4, <2>0 DEF ClientType
  <2> HIDE DEF full
  <2> QED  BY <1>4, <2>0, <2>1 DEF ClientType
<1> HIDE DEF part, full
<1>6. Kept(old, full)
  BY <1>4, <1>5 DEF Kept
<1> QED  BY <1>3, <1>6 DEF part, full

\* What is left when slot i holds c, after some time.
Written(i, c, t, sent) ==
  /\ StateOK(Here', sent) /\ SettledFrom(t)
  /\ UNCHANGED <<failure, unsynced>> /\ InFlightBut(sched', clients', sent, 0)
  /\ t.sched = sched /\ t.workers = workers /\ t.clients[i] = c
  /\ \A k \in Slots : k # i => t.clients[k] = clients[k]

\* Published values in which slot i holds c, which keeps its worker.
LEMMA SlotWritten ==
  ASSUME NEW i \in Slots, StateOK(Here, dispatched), Open(clients, i), NEW sent,
         dispatched \subseteq sent, InFlightBut(sched, clients, dispatched, 0),
         NEW c \in ClientType, c.fd = clients[i].fd, c.conn = clients[i].conn,
         c.worker_id = clients[i].worker_id, c.phase = "READING" => c.output = NoMessage,
         c.output = clients[i].output \/ c.output = NoMessage,
         clients[i].output.type = "JOB_ASSIGN" =>
           c.output = clients[i].output \/ clients[i].output \in sent,
         \A m \in sent : m.type = "JOB_SUBMIT_ACK" => m.job_id \in DOMAIN sched.jobs,
         NEW t, t = Values(sched, workers, [clients EXCEPT ![i] = c], up),
         Published(t, 0)
  PROVE  Written(i, c, t, sent)
<1> DEFINE cl == [clients EXCEPT ![i] = c]
<1>1. /\ Agree(workers, clients) /\ clients \in [Slots -> ClientType]
      /\ SchedulerOK(sched) /\ NotAfter(sched, 0)
      /\ workers \in RegistryType /\ RegistryOK(workers) /\ LeasesOK(workers)
      /\ DOMAIN up = Conns /\ \A k \in Conns : FramesOK(up[k])
      /\ AcksKnown(sched, clients, dispatched)
  BY HereFields DEF StateOK, ClientsOK
<1>2. cl[i] = c /\ \A k \in Slots : k # i => cl[k] = clients[k]
  <2> HIDE DEF ClientType
  <2> QED  BY <1>1
<1>3. t = Values(sched, workers, cl, up)
  OBVIOUS
<1> HIDE DEF cl
<1>4. Agree(workers, cl)
  BY <1>1, <1>2, AgreeSlot, SMTT(90)
<1>5. StateOK(Here, sent)
  <2>1. AcksKnown(sched, clients, sent)
    BY <1>1 DEF AcksKnown
  <2> QED  BY <2>1, HereFields DEF StateOK
<1>6. c.output.type = "JOB_SUBMIT_ACK" => c.output.job_id \in DOMAIN sched.jobs
  <2>1. NoMessage.type = "NONE"
    BY DEF NoMessage, Message
  <2> QED  BY <1>1, <2>1 DEF AcksKnown
<1>7. StateOK(t, sent)
  <2>1. /\ cl = [Here.clients EXCEPT ![i] = c] /\ DOMAIN Here.sched.jobs \subseteq DOMAIN sched.jobs
        /\ Open(Here.clients, i) /\ c.fd = Here.clients[i].fd /\ c.conn = Here.clients[i].conn
    BY HereFields DEF cl
  <2>2. StateOK(Values(sched, workers, cl, up), sent)
    BY <1>1, <1>4, <1>5, <1>6, <2>1, NewState
  <2> QED  BY <1>3, <2>2
<1>8. t.sched = sched /\ t.workers = workers /\ t.clients = cl
  BY <1>3, StateFields, SMTT(90) DEF Values
<1>9. InFlightBut(t.sched, t.clients, sent, 0)
  <2>1. SUFFICES ASSUME NEW n \in DOMAIN sched.jobs, IsActive(sched.jobs[n])
                 PROVE  InFlight(sched.jobs[n], cl, sent)
    BY <1>8 DEF InFlightBut
  <2> DEFINE m == Assignment(sched.jobs[n])
  <2>2. PICK k \in Slots : /\ clients[k].worker_id # 0
                           /\ clients[k].worker_id = sched.jobs[n].worker_id
                           /\ clients[k].output = m \/ m \in dispatched
    BY <1>1, <2>1, ActiveOwned, SMTT(90) DEF InFlightBut, InFlight
  <2>3. cl[k].worker_id = clients[k].worker_id
    BY <1>2
  <2>4. m.type = "JOB_ASSIGN"
    BY AssignmentType
  <2> HIDE DEF m
  <2>5. cl[k].output = m \/ m \in sent
    BY <1>2, <2>2, <2>4
  <2> QED  BY <2>2, <2>3, <2>5 DEF InFlight, m
<1>10. StateOK(Here', sent) /\ SettledFrom(t)
  BY <1>7, Settled DEF Published
<1>11. InFlightBut(sched', clients', sent, 0)
  BY <1>9, <1>10, InFlightSettled
<1> QED  BY <1>2, <1>8, <1>10, <1>11 DEF Published, Written

\* Such a step is a turn of the loop.
LEMMA WrittenTurn ==
  ASSUME StateOK(Here, dispatched), NEW i \in Slots, NEW t, SettledFrom(t),
         t.sched = sched, t.workers = workers,
         t.clients[i].output = clients[i].output \/ t.clients[i].phase = "READING",
         \A k \in Slots : k # i => t.clients[k] = clients[k],
         StateOK(Here', dispatched'), UNCHANGED <<failure, unsynced>>,
         InFlightBut(sched', clients', dispatched', 0)
  PROVE  Turned
<1>1. \A k \in Slots : (clients[k].phase = "WRITING" /\ clients'[k].output # clients[k].output)
                         => clients'[k].phase = "READING"
  BY DEF SettledFrom, SameClient
<1>2. sched' = sched
  BY DEF SettledFrom
<1>3. ASSUME NEW k \in 1..MAX_WORKERS, TimedOut(workers.slots[k], NOW, HEARTBEAT_TIMEOUT)
      PROVE  workers'.slots[k].last_heartbeat <= workers.slots[k].last_heartbeat
  <2>1. NOW - workers.slots[k].last_heartbeat <= HEARTBEAT_TIMEOUT
    BY <1>3, HereFields DEF StateOK, LeasesOK, TimedOut
  <2> QED  BY <2>1 DEF SettledFrom
<1> QED  BY <1>1, <1>2, <1>3 DEF Turned

\* write_reply.
LEMMA WriteStep ==
  ASSUME NEW i \in Slots, StateOK(Here, dispatched), Open(clients, i),
         InFlightBut(sched, clients, dispatched, 0), NEW d \in Nat, WriteReply(i, d)
  PROVE  Turned
<1> DEFINE part == PartSent(clients[i])
           full == AllSent(clients[i])
           m    == clients[i].output
<1>   /\ clients \in [Slots -> ClientType] /\ clients[i] \in ClientType
      /\ clients[i].phase = "READING" => m = NoMessage
      /\ \A x \in dispatched : x.type = "JOB_SUBMIT_ACK" => x.job_id \in DOMAIN sched.jobs
      /\ m.type = "JOB_SUBMIT_ACK" => m.job_id \in DOMAIN sched.jobs
  <2>1. ClientsOK(clients) /\ AcksKnown(sched, clients, dispatched)
    BY HereFields DEF StateOK
  <2> QED  BY <2>1 DEF ClientsOK, AcksKnown
<1>   /\ part \in ClientType /\ part.fd = clients[i].fd /\ part.conn = clients[i].conn
      /\ part.phase = clients[i].phase /\ part.worker_id = clients[i].worker_id
      /\ part.output = clients[i].output
      /\ Kept(clients[i], full)
  BY WrittenSlot
<1>3. SlotSet(Here, i, part) /\ SlotSet(Here, i, full)
  BY HereFields, SlotField
<1>4. /\ [Here EXCEPT !.clients[i] = part] = Values(sched, workers, [clients EXCEPT ![i] = part], up)
      /\ [Here EXCEPT !.clients[i] = full] = Values(sched, workers, [clients EXCEPT ![i] = full], up)
  BY <1>3, HereFields DEF SlotSet
<1>5. \/ Published([Here EXCEPT !.clients[i] = part], 0) /\ UNCHANGED dispatched
      \/ /\ Published([Here EXCEPT !.clients[i] = full], 0)
         /\ dispatched' = IF m.type \in {"JOB_ASSIGN", "JOB_SUBMIT_ACK"}
                          THEN dispatched \cup {m} ELSE dispatched
      \/ Reject(Here, i, d) /\ UNCHANGED dispatched
  BY DEF WriteReply, PartSent, AllSent, Moved
<1> HIDE DEF part, full
<1>6. CASE Published([Here EXCEPT !.clients[i] = part], 0) /\ UNCHANGED dispatched
  <2> DEFINE t == [Here EXCEPT !.clients[i] = part]
  <2>1. t = Values(sched, workers, [clients EXCEPT ![i] = part], up) /\ Published(t, 0)
    BY <1>4, <1>6
  <2> HIDE DEF t
  <2>2. Written(i, part, t, dispatched)
    <3>1. part.phase = "READING" => part.output = NoMessage
      OBVIOUS
    <3> QED  BY <2>1, <3>1, SlotWritten
  <2> QED  BY <1>6, <2>2, WrittenTurn DEF Written
<1>7. CASE /\ Published([Here EXCEPT !.clients[i] = full], 0)
           /\ dispatched' = IF m.type \in {"JOB_ASSIGN", "JOB_SUBMIT_ACK"}
                            THEN dispatched \cup {m} ELSE dispatched
  <2> DEFINE t == [Here EXCEPT !.clients[i] = full]
             sent == dispatched'
  <2>1. t = Values(sched, workers, [clients EXCEPT ![i] = full], up) /\ Published(t, 0)
    BY <1>4, <1>7
  <2>2. /\ dispatched \subseteq sent /\ (m.type = "JOB_ASSIGN" => m \in sent)
        /\ \A x \in sent : x.type = "JOB_SUBMIT_ACK" => x.job_id \in DOMAIN sched.jobs
    BY <1>7
  <2> HIDE DEF t, sent
  <2>3. Written(i, full, t, sent)
    <3>1. /\ full \in ClientType /\ full.fd = clients[i].fd /\ full.conn = clients[i].conn
          /\ full.worker_id = clients[i].worker_id /\ full.output = NoMessage
      BY DEF Kept
    <3> QED  BY <2>1, <2>2, <3>1, SlotWritten
  <2>4. t.clients[i].phase = "READING"
    BY <2>3 DEF Kept, Written
  <2> QED  BY <2>3, <2>4, WrittenTurn DEF sent, Written
<1>8. CASE Reject(Here, i, d) /\ UNCHANGED dispatched
  BY <1>8, HereFields, CloseOpen, ServedTurn
<1> QED  BY <1>5, <1>6, <1>7, <1>8

\* The record of the worker a slot serves.
LEMMA RecordFound ==
  ASSUME StateOK(Here, dispatched), NEW i \in Slots, clients[i].worker_id # 0
  PROVE  /\ RecordSlots(workers, clients[i].worker_id) # {}
         /\ RecordSlot(workers, clients[i].worker_id) \in 1..MAX_WORKERS
         /\ \A k \in 1..MAX_WORKERS : RecordOf(workers, clients, i, k) =>
              k = RecordSlot(workers, clients[i].worker_id)
<1> DEFINE id == clients[i].worker_id
<1>1. /\ workers \in RegistryType /\ RegistryOK(workers) /\ Agree(workers, clients)
  BY HereFields DEF StateOK
<1>2. PICK a \in 1..MAX_WORKERS : RecordOf(workers, clients, i, a)
  BY <1>1 DEF Agree
<1>3. ASSUME NEW k \in 1..MAX_WORKERS, RecordOf(workers, clients, i, k)
      PROVE  RecordSlot(workers, id) = k /\ RecordSlots(workers, id) # {}
  <2>1. workers.slots[k].state # "UNUSED" /\ workers.slots[k].id = id
    BY <1>3 DEF RecordOf
  <2> QED  BY <1>1, <2>1, RecordSlotOf
<1> QED  BY <1>2, <1>3

\* A step of the loop for one client slot.
LEMMA ServeStep ==
  ASSUME StateOK(Here, dispatched), InFlightBut(sched, clients, dispatched, 0),
         index \in Slots, NEW d \in Nat, ServeClient(d)
  PROVE  Turned
<1> DEFINE i == index
<1>1. CASE UNCHANGED <<store, clients, server, up, down, dispatched>>
  BY <1>1, IdleTurn
<1>2. CASE Open(clients, i) /\ Reject(Here, i, d) /\ UNCHANGED <<down, dispatched>>
  BY <1>2, HereFields, CloseOpen, ServedTurn
<1>3. CASE /\ Open(clients, i) /\ ~Expired(i) /\ clients[i].phase = "READING"
           /\ ReadMessage(i, d) /\ UNCHANGED <<down, dispatched>>
  <2>1. Reading(Here, i)
    BY <1>3, HereFields DEF Reading
  <2>2. ASSUME NEW k \in 1..MAX_WORKERS, RecordOf(workers, clients, i, k)
        PROVE  ~TimedOut(workers.slots[k], NOW, HEARTBEAT_TIMEOUT)
    <3>1. clients[i].worker_id # 0
      <4>1. RegistryOK(workers)
        BY HereFields DEF StateOK
      <4> QED  BY <2>2, <4>1 DEF RecordOf, RegistryOK
    <3>2. /\ RecordSlots(workers, clients[i].worker_id) # {}
          /\ k = RecordSlot(workers, clients[i].worker_id)
      BY <2>2, <3>1, RecordFound
    <3> QED  BY <1>3, <3>1, <3>2 DEF Expired
  <2>3. Served(Here, i)
    BY <1>3, <2>1, <2>2, ReadStep
  <2> QED  BY <1>3, <2>3, ServedTurn
<1>4. CASE Open(clients, i) /\ WriteReply(i, d)
  BY <1>4, WriteStep
<1>5. Open(clients, i) => clients[i].phase \in {"READING", "WRITING"}
  BY HereFields DEF StateOK, ClientsOK, ClientType
<1> QED  BY <1>1, <1>2, <1>3, <1>4 DEF ServeClient

\* There are more descriptors than slots, so one is free.
LEMMA FreshDescriptor ==
  ASSUME NEW cl
  PROVE  \E k \in 1..MAX_CLIENTS + 1 : \A i \in Slots : cl[i].fd # k
<1> DEFINE f == [i \in Slots |-> cl[i].fd]
           T == {cl[i].fd : i \in Slots}
<1>1. MAX_CLIENTS \in Nat
  BY CoordinatorConstants
<1>2. IsFiniteSet(Slots) /\ Cardinality(Slots) <= MAX_CLIENTS
  BY <1>1, FS_Interval DEF Slots
<1>3. f \in Surjection(Slots, T)
  BY DEF Surjection
<1>4. IsFiniteSet(T) /\ Cardinality(T) <= Cardinality(Slots)
  BY <1>2, <1>3, FS_Surjection
<1>5. SUFFICES ASSUME 1..MAX_CLIENTS + 1 \subseteq T  PROVE FALSE
  OBVIOUS
<1> HIDE DEF T
<1>6. Cardinality(1..MAX_CLIENTS + 1) <= Cardinality(T)
  BY <1>4, <1>5, FS_Subset
<1>7. Cardinality(1..MAX_CLIENTS + 1) = MAX_CLIENTS + 1
  BY <1>1, FS_Interval
<1>8. Cardinality(T) \in Nat /\ Cardinality(Slots) \in Nat
  BY <1>2, <1>4, FS_CardinalityType
<1> QED  BY <1>1, <1>2, <1>4, <1>6, <1>7, <1>8

\* The slot of a new connection.
Accepted(fd, conn) ==
  [NoClient EXCEPT !.fd = fd, !.conn = conn, !.last_progress = seen, !.since = NOW]

\* The slot of a connection that was accepted.
LEMMA AcceptedSlot ==
  ASSUME NEW fd \in Nat, NEW conn \in Conns, seen \in Int
  PROVE  LET c == Accepted(fd, conn)
         IN  /\ c \in ClientType /\ c.fd = fd /\ c.conn = conn /\ c.phase = "READING"
             /\ c.worker_id = 0 /\ c.output = NoMessage
<1> DEFINE c == Accepted(fd, conn)
<1>1. NOW \in Int /\ fd \in Int /\ 0 \in 0..MAX_WORKER_ID
  BY Clock, RegistryConstants
<1>3. NoClient \in ClientType
  BY ClosedSlotType
<1>4. NoClient.phase = "READING" /\ NoClient.worker_id = 0 /\ NoClient.output = NoMessage
  BY ClosedSlotType
<1> HIDE DEF Replies, NoMessage, NoClient
<1>5. c \in ClientType
  BY <1>1, <1>3 DEF ClientType, Accepted
<1>6. /\ c.fd = fd /\ c.conn = conn /\ c.phase = NoClient.phase
      /\ c.worker_id = NoClient.worker_id /\ c.output = NoClient.output
  BY <1>3 DEF ClientType, Accepted
<1> QED  BY <1>4, <1>5, <1>6

\* A new connection takes a closed slot, which served no worker.
LEMMA SlotAccepted ==
  ASSUME StateOK(Here, dispatched), InFlightBut(sched, clients, dispatched, 0),
         NEW i \in Slots, ~Open(clients, i), NEW c \in ClientType, c.fd \in Nat,
         c.conn \in Conns, c.phase = "READING", c.worker_id = 0, c.output = NoMessage,
         \A k \in Slots : clients[k].fd # c.fd,
         UNCHANGED <<store, up, dispatched>>, clients' = [clients EXCEPT ![i] = c]
  PROVE  Turned
<1>   /\ ClientsOK(clients) /\ clients \in [Slots -> ClientType] /\ Agree(workers, clients)
      /\ SchedulerOK(sched) /\ NotAfter(sched, 0)
      /\ workers \in RegistryType /\ RegistryOK(workers) /\ LeasesOK(workers)
      /\ DOMAIN up = Conns /\ (\A k \in Conns : FramesOK(up[k]))
      /\ AcksKnown(sched, clients, dispatched)
  BY HereFields DEF StateOK, ClientsOK
<1>   /\ clients' \in [Slots -> ClientType] /\ clients'[i] = c
      /\ \A k \in Slots : k # i => clients'[k] = clients[k]
  <2> HIDE DEF ClientType
  <2> QED  OBVIOUS
<1>3. clients[i].worker_id = 0
  BY DEF ClientsOK
<1>4. ClientsOK(clients')
  <2>1. \A k \in Slots : /\ Open(clients', k) => clients'[k].conn \in Conns
                         /\ ~Open(clients', k) => clients'[k].worker_id = 0
                         /\ clients'[k].phase = "READING" => clients'[k].output = NoMessage
    BY DEF ClientsOK, Open
  <2>2. \A a, b \in Slots : Open(clients', a) /\ clients'[a].fd = clients'[b].fd => a = b
    BY DEF ClientsOK, Open
  <2> QED  BY <2>1, <2>2 DEF ClientsOK
<1>5. \A k \in Slots : clients'[k].worker_id # 0 => clients'[k] = clients[k]
  OBVIOUS
<1>6. \A k \in Slots : clients[k].worker_id # 0 => clients'[k] = clients[k]
  BY <1>3
<1>7. Agree(workers, clients')
  BY <1>5, <1>6 DEF Agree, RecordOf
<1>8. AcksKnown(sched, clients', dispatched)
  <2>1. NoMessage.type = "NONE"
    BY DEF NoMessage, Message
  <2> QED  BY <2>1 DEF AcksKnown
<1>   sched' = sched /\ workers' = workers /\ up' = up /\ UNCHANGED <<failure, unsynced>>
  BY DEF store
<1>10. /\ Here'.sched = sched' /\ Here'.workers = workers' /\ Here'.clients = clients'
       /\ Here'.up = up'
       /\ Here' = [sched |-> Here'.sched, workers |-> Here'.workers,
                   clients |-> Here'.clients, up |-> Here'.up]
  BY DEF Here
<1>11. StateOK(Here', dispatched')
  BY <1>4, <1>7, <1>8, <1>10 DEF StateOK
<1>12. InFlightBut(sched', clients', dispatched', 0)
  BY <1>6 DEF InFlightBut, InFlight
<1>13. \A k \in Slots :
         (clients[k].phase = "WRITING" /\ clients'[k].output # clients[k].output)
            => clients'[k].phase = "READING"
  OBVIOUS
<1>14. \A k \in 1..MAX_WORKERS : workers'.slots[k].last_heartbeat <= workers.slots[k].last_heartbeat
  <2>1. \A k \in 1..MAX_WORKERS : workers.slots[k].last_heartbeat \in Int
    BY RegistryShape DEF WorkerType
  <2> QED  BY <2>1, SMTT(90)
<1> QED  BY <1>11, <1>12, <1>13, <1>14 DEF Turned

\* Frames that come, or are dropped, concern no other part of the state.
LEMMA FramesTurn ==
  ASSUME StateOK(Here, dispatched), InFlightBut(sched, clients, dispatched, 0),
         DOMAIN up' = Conns, \A k \in Conns : FramesOK(up'[k]),
         UNCHANGED <<store, clients, dispatched>>
  PROVE  Turned
<1>1. /\ ClientsOK(clients) /\ Agree(workers, clients)
      /\ SchedulerOK(sched) /\ NotAfter(sched, 0)
      /\ workers \in RegistryType /\ RegistryOK(workers) /\ LeasesOK(workers)
      /\ AcksKnown(sched, clients, dispatched)
  BY HereFields DEF StateOK
<1>2. /\ sched' = sched /\ workers' = workers /\ clients' = clients
      /\ dispatched' = dispatched /\ UNCHANGED <<failure, unsynced>>
  BY DEF store
<1>3. /\ Here'.sched = sched' /\ Here'.workers = workers' /\ Here'.clients = clients'
      /\ Here'.up = up'
      /\ Here' = [sched |-> Here'.sched, workers |-> Here'.workers,
                  clients |-> Here'.clients, up |-> Here'.up]
  BY DEF Here
<1>4. StateOK(Here', dispatched')
  BY <1>1, <1>2, <1>3 DEF StateOK
<1>5. \A k \in 1..MAX_WORKERS : workers'.slots[k].last_heartbeat <= workers.slots[k].last_heartbeat
  <2>1. \A k \in 1..MAX_WORKERS : workers.slots[k].last_heartbeat \in Int
    BY <1>1, RegistryShape DEF WorkerType
  <2> QED  BY <1>2, <2>1
<1> QED  BY <1>2, <1>4, <1>5 DEF Turned

\* accept_clients takes or refuses a connection.
LEMMA AcceptStep ==
  ASSUME StateOK(Here, dispatched), InFlightBut(sched, clients, dispatched, 0),
         seen \in Int, NEW c \in Conns, Accept(c)
  PROVE  Turned
<1> DEFINE free == {i \in Slots : ~Open(clients, i)}
           fds  == {k \in 1..MAX_CLIENTS + 1 : \A i \in Slots : clients[i].fd # k}
           i    == First(free)
           fd   == First(fds)
           slot == Accepted(fd, c)
<1>1. MAX_CLIENTS \in Nat
  BY CoordinatorConstants
<1>2. CASE /\ free # {} /\ clients' = [clients EXCEPT ![i] = slot]
           /\ UNCHANGED <<store, up, dispatched>>
  <2>1. free \in SUBSET Nat /\ fds \in SUBSET Nat /\ fds # {}
    <3>1. free \in SUBSET Nat
      BY <1>1, SMTT(90) DEF Slots
    <3>2. fds \in SUBSET Nat
      BY <1>1, SMTT(90)
    <3>3. fds # {}
      BY FreshDescriptor
    <3> QED  BY <3>1, <3>2, <3>3
  <2>2. i \in free /\ fd \in fds
    BY <1>2, <2>1, FirstIsLeast
  <2>3. i \in Slots /\ ~Open(clients, i) /\ fd \in Nat /\ \A k \in Slots : clients[k].fd # fd
    BY <1>1, <2>2
  <2> HIDE DEF free, fds, i, fd
  <2>4. /\ slot \in ClientType /\ slot.fd = fd /\ slot.conn = c /\ slot.phase = "READING"
        /\ slot.worker_id = 0 /\ slot.output = NoMessage
    BY <2>3, AcceptedSlot
  <2> HIDE DEF slot
  <2> QED  BY <1>2, <2>3, <2>4, SlotAccepted
<1>3. CASE up' = [up EXCEPT ![c] = <<>>] /\ UNCHANGED <<store, clients, dispatched>>
  <2>1. DOMAIN up = Conns /\ \A k \in Conns : FramesOK(up[k])
    BY HereFields DEF StateOK
  <2>2. DOMAIN up' = Conns /\ \A k \in Conns : up'[k] = up[k] \/ up'[k] = <<>>
    BY <1>3, <2>1
  <2>3. \A k \in Conns : FramesOK(up'[k])
    BY <2>1, <2>2, NoFrames
  <2> QED  BY <1>3, <2>2, <2>3, FramesTurn
<1> HIDE DEF slot
<1>4. \/ /\ free # {} /\ clients' = [clients EXCEPT ![i] = slot]
         /\ UNCHANGED <<store, up, dispatched>>
      \/ up' = [up EXCEPT ![c] = <<>>] /\ UNCHANGED <<store, clients, dispatched>>
  BY DEF Accept, Accepted, slot
<1> QED  BY <1>2, <1>3, <1>4

\* What the other peers send is well formed.
LEMMA PeerRequest ==
  ASSUME NEW m \in PeerMessages
  PROVE  RequestOK(m)
<1>1. MAX_JOB_ID \in Nat /\ MAX_WORKER_ID \in Nat /\ MAX_RETRIES \in Nat
  BY RegistryConstants, SchedulerConstants, TableConstants
<1>2. ASSUME NEW type, NEW w, NEW j, NEW a, NEW v
      PROVE  /\ Message(type, w, j, a).type = type /\ Message(type, w, j, a).job_id = j
             /\ Carrying(Message(type, w, j, a), v).type = type
             /\ Carrying(Message(type, w, j, a), v).job_id = j
             /\ Carrying(Message(type, w, j, a), v).value = v
  BY DEF Message, Carrying
<1>3. CASE \E type \in PeerTypes \ (ReportTypes \cup {"HEARTBEAT", "JOB_SUBMIT", "JOB_STATUS_REQUEST"}) :
             m = Message(type, 0, 0, 0)
  BY <1>2, <1>3, SMTT(90) DEF RequestOK, ReportTypes
<1>4. CASE \E type \in PeerTypes \cap {"JOB_STATUS_REQUEST"}, j \in 1..MAX_JOB_ID :
             m = Message(type, 0, j, 0)
  BY <1>1, <1>2, <1>4, SMTT(90) DEF RequestOK
<1>5. CASE \E type \in PeerTypes \cap {"JOB_SUBMIT"}, task \in Tasks, n \in 0..MAX_RETRIES :
             m = Carrying(Message(type, 0, 0, 0), <<task, n>>)
  BY <1>2, <1>5, SMTT(90) DEF RequestOK
<1>6. CASE \E type \in PeerTypes \cap {"HEARTBEAT"}, w \in 1..MAX_WORKER_ID :
             m = Message(type, w, 0, 0)
  BY <1>2, <1>6, SMTT(90) DEF RequestOK
<1>7. CASE \E type \in PeerTypes \cap ReportTypes, w \in 1..MAX_WORKER_ID,
             j \in 1..MAX_JOB_ID, a \in 1..MAX_RETRIES + 1, r \in Results :
             m = Carrying(Message(type, w, j, a), <<r>>)
  BY <1>1, <1>2, <1>7, SMTT(90) DEF RequestOK, ReportTypes
<1> QED  BY <1>3, <1>4, <1>5, <1>6, <1>7 DEF PeerMessages

\* A peer connects, sends a frame or leaves.
LEMMA PeerTurn ==
  ASSUME StateOK(Here, dispatched), InFlightBut(sched, clients, dispatched, 0),
         NEW c \in Conns, PeerStep(c)
  PROVE  Turned
<1>   DOMAIN up = Conns /\ \A k \in Conns : FramesOK(up[k])
  BY HereFields DEF StateOK
<1>2. CASE Connect(c)
  BY <1>2, IdleTurn DEF Connect
<1>3. CASE \E m \in PeerMessages : Send(c, m)
  <2>1. PICK m \in PeerMessages : Send(c, m)
    BY <1>3
  <2>2. RequestOK(m)
    BY PeerRequest
  <2>3. FramesOK(Append(up[c], m))
    BY <2>2, FrameAdded
  <2>4. DOMAIN up' = Conns /\ \A k \in Conns : FramesOK(up'[k])
    <3> DEFINE q == Append(up[c], m)
    <3>1. up' = [up EXCEPT ![c] = q]
      BY <2>1 DEF Send
    <3> HIDE DEF q
    <3> QED  BY <2>3, <3>1 DEF q
  <2> QED  BY <2>1, <2>4, FramesTurn DEF Send
<1>4. CASE Disconnect(c)
  <2>1. DOMAIN up' = Conns /\ \A k \in Conns : up'[k] = up[k] \/ up'[k] = <<>>
    BY <1>4 DEF Disconnect
  <2>2. \A k \in Conns : FramesOK(up'[k])
    BY <2>1, NoFrames
  <2> QED  BY <1>4, <2>1, <2>2, FramesTurn DEF Disconnect
<1> QED  BY <1>2, <1>3, <1>4 DEF PeerStep

\* Tables that differ in one job, which worker id has in the second.
OneAssigned(s, t, id) ==
  /\ DOMAIN t.jobs = DOMAIN s.jobs
  /\ \E k \in DOMAIN s.jobs : /\ t.jobs[k].worker_id = id
                              /\ \A n \in DOMAIN s.jobs : n # k => t.jobs[n] = s.jobs[n]

\* A job given to a worker whose lease lasts is such a turn.
LEMMA AssignedTurn ==
  ASSUME NEW i \in Slots, NEW t, Served(t, i), UNCHANGED dispatched, RegistryOK(workers),
         clients[i].phase = "READING", t.workers = workers, t.clients = clients,
         ~TimedOut(workers.slots[RecordSlot(workers, clients[i].worker_id)], NOW,
                   HEARTBEAT_TIMEOUT),
         OneAssigned(sched, t.sched, clients[i].worker_id)
  PROVE  Turned
<1> DEFINE s == t.sched
           w == clients[i].worker_id
<1>0. PICK head \in DOMAIN sched.jobs :
        /\ DOMAIN s.jobs = DOMAIN sched.jobs /\ s.jobs[head].worker_id = w
        /\ \A n \in DOMAIN sched.jobs : n # head => s.jobs[n] = sched.jobs[n]
  BY DEF OneAssigned
<1> HIDE DEF s, w
<1>1. \A k \in Slots : (clients[k].phase = "WRITING" /\ clients'[k].output # clients[k].output)
                         => clients'[k].phase = "READING"
  BY DEF Served, SameClient
<1>2. ASSUME NEW k \in 1..MAX_WORKERS, TimedOut(workers.slots[k], NOW, HEARTBEAT_TIMEOUT),
             NEW n \in DOMAIN sched.jobs, sched'.jobs[n].state = "ASSIGNED",
             sched.jobs[n].state # "ASSIGNED"
      PROVE  sched'.jobs[n].worker_id # workers.slots[k].id
  <2>1. sched'.jobs[n] = s.jobs[n]
    BY <1>0, <1>2 DEF Served, s
  <2>2. n = head
    BY <1>0, <1>2, <2>1
  <2>3. workers.slots[k].state # "UNUSED"
    BY <1>2 DEF TimedOut
  <2>4. RecordSlot(workers, workers.slots[k].id) = k
    BY <2>3, RecordSlotOf
  <2> QED  BY <1>0, <1>2, <2>1, <2>2, <2>4 DEF w
<1>3. \A k \in 1..MAX_WORKERS : TimedOut(workers.slots[k], NOW, HEARTBEAT_TIMEOUT) =>
        workers'.slots[k].last_heartbeat <= workers.slots[k].last_heartbeat
  BY DEF Served
<1>4. /\ StateOK(Here', dispatched')
      /\ \/ UNCHANGED <<failure, unsynced>> /\ InFlightBut(sched', clients', dispatched', 0)
         \/ failure' = "FATAL" /\ UnsyncedOK'
  BY DEF Served
<1> QED  BY <1>1, <1>2, <1>3, <1>4 DEF Turned

\* The table after an assignment, and the frame that announces it.
LEMMA AssignedTable ==
  ASSUME NEW s, SchedulerOK(s), NotAfter(s, 0), s.pending # <<>>, NEW w \in 1..MAX_WORKER_ID,
         ~Busy(s, w)
  PROVE  LET id == Head(s.pending)
             t  == Assign(s, w, 0)
         IN  /\ SchedulerOK(t) /\ NotAfter(t, 0) /\ DOMAIN t.jobs = DOMAIN s.jobs
             /\ id \in DOMAIN s.jobs /\ t.jobs[id].worker_id = w /\ FindSlot(t, id) = id
             /\ \A n \in DOMAIN s.jobs : n # id => t.jobs[n] = s.jobs[n]
             /\ Assignment(t.jobs[id]) \in Replies
<1> DEFINE id  == Head(s.pending)
           t   == Assign(s, w, 0)
           job == JobAssign(s.jobs[id], w, 0)
<1>   /\ id \in DOMAIN s.jobs /\ SchedulerOK(t) /\ DOMAIN t.jobs = DOMAIN s.jobs
      /\ t.jobs[id] = job /\ \A n \in DOMAIN s.jobs : n # id => t.jobs[n] = s.jobs[n]
  BY AssignStep
<1>2. s.jobs[id] \in JobType
  BY SlotOfJob
<1> HIDE DEF id, t
<1>3. job.worker_id = w /\ job.updated_at = 0
  <2> DEFINE old == s.jobs[id]
  <2> HIDE DEF old
  <2>1. old \in JobType /\ job = JobAssign(old, w, 0)
    BY <1>2 DEF old
  <2> HIDE DEF job
  <2> QED  BY <2>1 DEF JobType, JobAssign
<1> HIDE DEF job
<1>4. NotAfter(t, 0)
  BY <1>3 DEF NotAfter
<1>5. FindSlot(t, id) = id /\ t.jobs[id] \in JobType
  BY SlotOfJob
<1>6. Assignment(t.jobs[id]) \in Replies
  <2> DEFINE new == t.jobs[id]
  <2>1. /\ new.worker_id \in Nat /\ new.id \in Nat /\ new.attempt \in Nat
        /\ <<new.task>> \in ReplyValues /\ "JOB_ASSIGN" \in ReplyTypes
    BY <1>5, RegistryConstants, SchedulerConstants DEF JobType, ReplyValues, ReplyTypes
  <2> HIDE DEF new
  <2>2. Carrying(Message("JOB_ASSIGN", new.worker_id, new.id, new.attempt), <<new.task>>) \in Replies
    BY <2>1, ReplyType
  <2> QED  BY <2>2 DEF Assignment, new
<1> QED  BY <1>3, <1>4, <1>5, <1>6 DEF id, t

\* schedule_jobs: an assignment is committed, then queued for its worker.
LEMMA ScheduleStep ==
  ASSUME StateOK(Here, dispatched), InFlightBut(sched, clients, dispatched, 0),
         index \in Slots, NEW d \in Nat, Schedule(d)
  PROVE  Turned
<1> DEFINE S    == {j \in index..MAX_CLIENTS : sched.pending # <<>> /\ Eligible(j)}
           i    == First(S)
           w    == clients[i].worker_id
           s    == Assign(sched, w, 0)
           head == Head(sched.pending)
           m    == Assignment(s.jobs[FindSlot(s, head)])
           t    == [Here EXCEPT !.sched = s]
<1>1. CASE UNCHANGED <<store, clients, server, up>> /\ UNCHANGED dispatched
  BY <1>1, IdleTurn
<1>2. ASSUME S # {}, UNCHANGED dispatched,
             QueueMessage(t, i, m, d) \/ Failed(Here, s, workers.next_worker_id)
      PROVE  Turned
  <2>   i \in Slots /\ sched.pending # <<>> /\ Eligible(i)
    <3>1. S \in SUBSET Nat
      BY CoordinatorConstants, SMTT(90) DEF Slots
    <3>2. i \in S
      BY <1>2, <3>1, FirstIsLeast
    <3> QED  BY <3>2, CoordinatorConstants DEF Slots
  <2> HIDE DEF i
  <2>   /\ Open(clients, i) /\ w # 0 /\ ~Busy(sched, w) /\ clients[i].phase = "READING"
        /\ ~TimedOut(workers.slots[RecordSlot(workers, w)], NOW, HEARTBEAT_TIMEOUT)
    BY DEF Eligible
  <2>   /\ SchedulerOK(sched) /\ NotAfter(sched, 0) /\ RegistryOK(workers)
        /\ ClientsOK(clients) /\ Agree(workers, clients)
        /\ workers \in RegistryType /\ LeasesOK(workers) /\ DOMAIN up = Conns
        /\ (\A k \in Conns : FramesOK(up[k])) /\ AcksKnown(sched, clients, dispatched)
    BY HereFields DEF StateOK
  <2>4. w \in 1..MAX_WORKER_ID /\ clients[i].output = NoMessage
    BY RegistryConstants, SMTT(90) DEF ClientsOK, ClientType
  <2>   /\ SchedulerOK(s) /\ NotAfter(s, 0) /\ DOMAIN s.jobs = DOMAIN sched.jobs
        /\ head \in DOMAIN sched.jobs /\ s.jobs[head].worker_id = w
        /\ FindSlot(s, head) = head
        /\ \A n \in DOMAIN sched.jobs : n # head => s.jobs[n] = sched.jobs[n]
        /\ Assignment(s.jobs[head]) \in Replies
    BY <2>4, AssignedTable
  <2>6. m = Assignment(s.jobs[head]) /\ m \in Replies /\ m.type = "JOB_ASSIGN"
    BY AssignmentType
  <2> HIDE DEF w, s, head, m
  <2>7. CASE Failed(Here, s, workers.next_worker_id)
    <3>1. workers.next_worker_id \in 0..MAX_WORKER_ID
      BY RegistryShape DEF RegistryType
    <3>2. Served(Here, i)
      BY <2>7, <3>1, HereFields, FailedServed
    <3> QED  BY <1>2, <3>2, ServedTurn
  <2>8. CASE QueueMessage(t, i, m, d)
    <3>1. Updated(Here, t, s, Here.workers)
      BY HereFields, TableFields
    <3>   Fields(t) /\ t.sched = s /\ t.workers = workers /\ t.clients = clients /\ t.up = up
      BY <3>1, HereFields DEF Updated
    <3> HIDE DEF t
    <3>3. StateOK(t, dispatched)
      <4>1. AcksKnown(s, clients, dispatched)
        BY DEF AcksKnown
      <4> QED  BY <4>1 DEF StateOK, Fields
    <3>4. InFlightBut(s, clients, dispatched, w)
      <4> SUFFICES ASSUME NEW n \in DOMAIN s.jobs, IsActive(s.jobs[n]), s.jobs[n].worker_id # w
                   PROVE  InFlight(s.jobs[n], clients, dispatched)
        BY DEF InFlightBut
      <4>1. n \in DOMAIN sched.jobs /\ s.jobs[n] = sched.jobs[n]
        OBVIOUS
      <4>2. sched.jobs[n].worker_id \in 1..MAX_WORKER_ID
        BY <4>1, ActiveOwned
      <4>3. sched.jobs[n].worker_id # 0
        BY <4>2
      <4> QED  BY <4>1, <4>3 DEF InFlightBut
    <3>5. ASSUME NEW n \in DOMAIN s.jobs, IsActive(s.jobs[n]), s.jobs[n].worker_id = w
          PROVE  Assignment(s.jobs[n]) = m
      <4>1. n = head
        BY <3>5 DEF Busy, ActiveSlots
      <4> QED  BY <2>6, <4>1
    <3>6. Served(t, i)
      BY <2>6, <2>8, <3>3, <3>4, <3>5, QueueStep DEF w
    <3>7. OneAssigned(sched, t.sched, clients[i].worker_id)
      BY DEF OneAssigned, w
    <3> QED  BY <1>2, <3>6, <3>7, AssignedTurn DEF w
  <2> QED  BY <1>2, <2>7, <2>8
<1>3. \/ UNCHANGED <<store, clients, server, up>> /\ UNCHANGED dispatched
      \/ /\ S # {} /\ UNCHANGED dispatched
         /\ QueueMessage(t, i, m, d) \/ Failed(Here, s, workers.next_worker_id)
  BY DEF Schedule
<1> HIDE DEF S, i, w, s, m, t
<1> QED  BY <1>1, <1>2, <1>3

-----------------------------------------------------------------------------
(* The other steps.                                                        *)

\* What a step may never do, from a state in which the invariant holds: replace
\* a reply that is being sent, renew a lease that has run out, assign a job to
\* its holder.
Careful ==
  /\ \A i \in Slots : (clients[i].phase = "WRITING" /\ clients'[i].output # clients[i].output)
                        => clients'[i].phase = "READING"
  /\ \A k \in 1..MAX_WORKERS :
       (TimedOut(workers.slots[k], NOW, HEARTBEAT_TIMEOUT)
        /\ workers'.slots[k].id = workers.slots[k].id) =>
         /\ workers'.slots[k].last_heartbeat <= workers.slots[k].last_heartbeat
         /\ \A n \in DOMAIN sched.jobs :
              (sched'.jobs[n].state = "ASSIGNED" /\ sched.jobs[n].state # "ASSIGNED")
                => sched'.jobs[n].worker_id # workers.slots[k].id

\* A turn of the loop keeps the invariant.
LEMMA TurnInv ==
  ASSUME CoordinatorInv, failure = "NONE", Turned, index' \in Slots, seen' \in Int,
         phase' \in {"poll", "clients", "accept", "schedule", "stopped", "down"},
         failure' # "NONE" => phase' = "stopped"
  PROVE  CoordinatorInv' /\ Careful
<1>1. StateOK(Here', dispatched')
  BY DEF Turned
<1>2. unsynced = <<>>
  BY DEF CoordinatorInv
<1>3. CASE UNCHANGED <<failure, unsynced>> /\ InFlightBut(sched', clients', dispatched', 0)
  <2>1. unsynced' = <<>>
    BY <1>2, <1>3
  <2>2. UnsyncedOK'
    BY <2>1 DEF UnsyncedOK
  <2> QED  BY <1>1, <1>3, <2>1, <2>2 DEF CoordinatorInv, Turned, Careful
<1>4. CASE failure' = "FATAL" /\ UnsyncedOK'
  BY <1>1, <1>4 DEF CoordinatorInv, Turned, Careful
<1> QED  BY <1>3, <1>4 DEF Turned

\* The fields of the published values, in the next state.
LEMMA NextFields ==
  /\ Here'.sched = sched' /\ Here'.workers = workers' /\ Here'.clients = clients'
  /\ Here'.up = up'
  /\ Here' = [sched |-> Here'.sched, workers |-> Here'.workers,
              clients |-> Here'.clients, up |-> Here'.up]
BY DEF Here

\* Time passes.
LEMMA TickStep ==
  ASSUME CoordinatorInv, Tick
  PROVE  CoordinatorInv' /\ Careful
<1>   /\ Settle(Here, 1) /\ UNCHANGED <<failure, unsynced, loop, dispatched>>
      /\ phase # "down" /\ sched' = sched
  BY HereFields DEF Tick, Settle, network
<1>   StateOK(Here', dispatched) /\ SettledFrom(Here)
  <2>1. 1 \in Nat /\ StateOK(Here, dispatched)
    BY DEF CoordinatorInv
  <2> QED  BY <2>1, Settled
<1>3. failure' = "NONE" => InFlightBut(sched', clients', dispatched', 0)
  <2>1. ASSUME failure = "NONE"
        PROVE  InFlightBut(sched', clients', dispatched, 0)
    <3>1. InFlightBut(Here.sched, Here.clients, dispatched, 0)
      BY <2>1, HereFields DEF CoordinatorInv
    <3> QED  BY <3>1, InFlightSettled
  <2> QED  BY <2>1
<1>4. UnsyncedOK'
  BY DEF CoordinatorInv, UnsyncedOK
<1>5. CoordinatorInv'
  BY <1>3, <1>4 DEF CoordinatorInv, loop
<1>6. \A i \in Slots : clients'[i].output = clients[i].output
  BY HereFields DEF SettledFrom, SameClient
<1>7. ASSUME NEW k \in 1..MAX_WORKERS, TimedOut(workers.slots[k], NOW, HEARTBEAT_TIMEOUT)
      PROVE  workers'.slots[k].last_heartbeat <= workers.slots[k].last_heartbeat
  <2>1. LeasesOK(workers)
    BY HereFields DEF CoordinatorInv, StateOK
  <2>2. NOW - workers.slots[k].last_heartbeat <= HEARTBEAT_TIMEOUT
    BY <1>7, <2>1 DEF LeasesOK, TimedOut
  <2> QED  BY <2>2, HereFields DEF SettledFrom
<1> QED  BY <1>5, <1>6, <1>7 DEF Careful

\* A registry and client slots that serve nobody.
LEMMA NobodyServed ==
  ASSUME NEW n \in 0..MAX_WORKER_ID
  PROVE  LET w  == [RegistryInit EXCEPT !.next_worker_id = n]
             cl == [i \in Slots |-> NoClient]
         IN  /\ w \in RegistryType /\ RegistryOK(w) /\ LeasesOK(w) /\ Agree(w, cl)
             /\ ClientsOK(cl)
             /\ \A k \in 1..MAX_WORKERS : w.slots[k].id = 0
             /\ \A i \in Slots : cl[i] = NoClient
<1> DEFINE w  == [RegistryInit EXCEPT !.next_worker_id = n]
           cl == [i \in Slots |-> NoClient]
<1>1. /\ w \in RegistryType
      /\ \A k \in 1..MAX_WORKERS : w.slots[k].state = "UNUSED" /\ w.slots[k].id = 0
  BY RegistryConstants, SMTT(90) DEF RegistryInit, RegistryType, WorkerStates
<1>2. \A i \in Slots : cl[i] = NoClient
  OBVIOUS
<1>3. NoClient.worker_id = 0 /\ NoClient.fd = -1 /\ NoClient.phase = "READING"
      /\ NoClient.output = NoMessage
  BY ClosedSlotType
<1>4. NoClient \in ClientType
  BY ClosedSlotType
<1>5. cl \in [Slots -> ClientType]
  <2> HIDE DEF ClientType, NoClient
  <2> QED  BY <1>4
<1> HIDE DEF w, cl, NoClient
<1>6. ClientsOK(cl)
  BY <1>2, <1>3, <1>5 DEF ClientsOK, Open
<1>7. RegistryOK(w) /\ LeasesOK(w)
  BY <1>1 DEF RegistryOK, LeasesOK
<1>8. Agree(w, cl)
  BY <1>1, <1>2, <1>3 DEF Agree
<1> QED  BY <1>1, <1>2, <1>6, <1>7, <1>8 DEF w, cl

\* The process ends.
LEMMA ExitStep ==
  ASSUME CoordinatorInv, Exit
  PROVE  CoordinatorInv' /\ Careful
<1>1. PICK kept \in {[sched |-> sched, next_worker_id |-> workers.next_worker_id]}
                    \cup {unsynced[k] : k \in DOMAIN unsynced} :
        /\ sched' = kept.sched
        /\ workers' = [RegistryInit EXCEPT !.next_worker_id = kept.next_worker_id]
  BY DEF Exit
<1>   /\ SchedulerOK(sched) /\ NotAfter(sched, 0) /\ workers \in RegistryType
      /\ RegistryOK(workers) /\ AcksKnown(sched, clients, dispatched) /\ UnsyncedOK
  BY HereFields DEF CoordinatorInv, StateOK
<1>3. /\ SchedulerOK(sched') /\ NotAfter(sched', 0) /\ DOMAIN sched.jobs \subseteq DOMAIN sched'.jobs
      /\ kept.next_worker_id \in 0..MAX_WORKER_ID
  <2>1. CASE kept = [sched |-> sched, next_worker_id |-> workers.next_worker_id]
    BY <1>1, <2>1, RegistryShape
  <2>2. ASSUME NEW k \in DOMAIN unsynced, kept = unsynced[k]
        PROVE  /\ SchedulerOK(sched') /\ NotAfter(sched', 0)
               /\ DOMAIN sched.jobs \subseteq DOMAIN sched'.jobs
               /\ kept.next_worker_id \in 0..MAX_WORKER_ID
    BY <1>1, <2>2 DEF UnsyncedOK
  <2> QED  BY <2>1, <2>2
<1>   /\ clients' = [i \in Slots |-> NoClient] /\ up' = [c \in Conns |-> <<>>]
      /\ phase' = "down" /\ index' = 1 /\ seen' = NOW /\ failure' = "NONE"
      /\ unsynced' = <<>> /\ dispatched' = dispatched
  BY DEF Exit
<1>   /\ workers' \in RegistryType /\ RegistryOK(workers') /\ LeasesOK(workers')
      /\ Agree(workers', clients') /\ ClientsOK(clients')
      /\ \A k \in 1..MAX_WORKERS : workers'.slots[k].id = 0
      /\ \A i \in Slots : clients'[i] = NoClient
  BY <1>1, <1>3, NobodyServed
<1>6. DOMAIN up' = Conns /\ \A c \in Conns : FramesOK(up'[c])
  BY NoFrames
<1>7. AcksKnown(sched', clients', dispatched')
  <2>1. NoClient.output.type = "NONE"
    BY ClosedSlotType, SMTT(90) DEF NoMessage, Message
  <2> QED  BY <1>3, <2>1 DEF AcksKnown
<1>8. StateOK(Here', dispatched')
  BY <1>3, <1>6, <1>7, NextFields DEF StateOK
<1>9. CoordinatorInv'
  <2>1. UnsyncedOK'
    BY SMTT(90) DEF UnsyncedOK
  <2>2. 1 \in Slots /\ NOW \in Int
    BY Clock, CoordinatorConstants, SMTT(90) DEF Slots
  <2> QED  BY <1>8, <2>1, <2>2 DEF CoordinatorInv
<1>10. \A k \in 1..MAX_WORKERS : TimedOut(workers.slots[k], NOW, HEARTBEAT_TIMEOUT) =>
         workers'.slots[k].id # workers.slots[k].id
  <2> TAKE k \in 1..MAX_WORKERS
  <2> HAVE TimedOut(workers.slots[k], NOW, HEARTBEAT_TIMEOUT)
  <2>1. workers.slots[k].state # "UNUSED"
    BY DEF TimedOut
  <2>2. workers.slots[k].id \in 1..Issued(workers.next_worker_id, MAX_WORKER_ID)
    BY <2>1 DEF RegistryOK
  <2>3. workers.slots[k].id # 0
    BY <2>2
  <2> QED  BY <2>3
<1>11. \A i \in Slots : clients'[i].phase = "READING"
  BY ClosedSlotType
<1> QED  BY <1>9, <1>10, <1>11 DEF Careful

\* The process starts again.
LEMMA RestartStep ==
  ASSUME CoordinatorInv, Restart
  PROVE  CoordinatorInv' /\ Careful
<1>   /\ StateOK(Here, dispatched) /\ SchedulerOK(sched) /\ NotAfter(sched, 0)
      /\ workers \in RegistryType /\ RegistryOK(workers) /\ LeasesOK(workers)
      /\ ClientsOK(clients) /\ Agree(workers, clients) /\ DOMAIN up = Conns
      /\ (\A c \in Conns : FramesOK(up[c])) /\ AcksKnown(sched, clients, dispatched)
  BY HereFields DEF CoordinatorInv, StateOK
<1>   /\ sched' = Recovered(sched, 0) /\ phase = "down" /\ phase' = "poll"
      /\ workers' = workers /\ clients' = clients /\ up' = up /\ dispatched' = dispatched
      /\ UNCHANGED <<failure, unsynced, index, seen>>
  BY DEF Restart, network
<1>   /\ SchedulerOK(sched') /\ NotAfter(sched', 0) /\ DOMAIN sched'.jobs = DOMAIN sched.jobs
      /\ \A k \in DOMAIN sched'.jobs : ~IsActive(sched'.jobs[k])
      /\ \A k \in DOMAIN sched'.jobs : sched'.jobs[k].state # "ASSIGNED"
  BY RecoveredStep
<1>4. AcksKnown(sched', clients', dispatched')
  BY DEF AcksKnown
<1>5. StateOK(Here', dispatched')
  BY <1>4, NextFields DEF StateOK
<1>6. InFlightBut(sched', clients', dispatched', 0)
  BY DEF InFlightBut
<1>7. CoordinatorInv'
  <2>1. failure = "NONE" /\ unsynced = <<>>
    BY DEF CoordinatorInv
  <2>2. UnsyncedOK'
    BY <2>1 DEF UnsyncedOK
  <2> QED  BY <1>5, <1>6, <2>1, <2>2 DEF CoordinatorInv
<1>8. \A k \in 1..MAX_WORKERS : workers'.slots[k].last_heartbeat <= workers.slots[k].last_heartbeat
  <2>1. \A k \in 1..MAX_WORKERS : workers.slots[k].last_heartbeat \in Int
    BY RegistryShape DEF WorkerType
  <2> QED  BY <2>1
<1> QED  BY <1>7, <1>8 DEF Careful

\* A step that changes no variable.
LEMMA StutterStep ==
  ASSUME CoordinatorInv, UNCHANGED cvars
  PROVE  CoordinatorInv' /\ Careful
<1>   /\ sched' = sched /\ workers' = workers /\ clients' = clients /\ up' = up
      /\ dispatched' = dispatched /\ phase' = phase
      /\ UNCHANGED <<failure, unsynced, index, seen>>
  BY DEF cvars
<1>2. Here' = Here /\ UnsyncedOK' = UnsyncedOK
  BY DEF Here, UnsyncedOK
<1>3. CoordinatorInv'
  BY <1>2 DEF CoordinatorInv
<1>4. \A k \in 1..MAX_WORKERS : workers'.slots[k].last_heartbeat <= workers.slots[k].last_heartbeat
  <2>1. workers \in RegistryType
    BY HereFields DEF CoordinatorInv, StateOK
  <2>2. \A k \in 1..MAX_WORKERS : workers.slots[k].last_heartbeat \in Int
    BY <2>1, RegistryShape DEF WorkerType
  <2> QED  BY <2>2
<1> QED  BY <1>3, <1>4 DEF Careful

\* The loop between its phases has no latched failure, and its steps are turns.
LEMMA LoopKeeps ==
  ASSUME CoordinatorInv, LoopStep
  PROVE  CoordinatorInv' /\ Careful
<1>   /\ StateOK(Here, dispatched) /\ index \in Slots /\ seen \in Int
      /\ failure \in {"NONE", "FATAL"} /\ (failure = "FATAL" => phase = "stopped")
      /\ failure = "NONE" /\ phase # "down" => InFlightBut(sched, clients, dispatched, 0)
  BY DEF CoordinatorInv
<1>   1 \in Slots /\ NOW \in Int /\ SyncTimes \subseteq Nat /\ MAX_CLIENTS \in Nat
      /\ \A d \in Nat : Past(NOW, d, IO_TIMEOUT) \in Int
  BY Clock, CoordinatorConstants DEF Slots, Past
<1>   phase \in {"poll", "clients", "accept", "schedule"} =>
        failure = "NONE" /\ InFlightBut(sched, clients, dispatched, 0)
  OBVIOUS
<1>4. CASE Poll
  <2>1. Turned
    <3>1. UNCHANGED <<store, clients, up, dispatched>>
      BY <1>4 DEF Poll, network
    <3> QED  BY <1>4, <3>1, IdleTurn DEF Poll
  <2>2. phase' = "clients" /\ index' = 1 /\ seen' = NOW /\ failure' = failure /\ failure = "NONE"
    BY <1>4 DEF Poll, store
  <2> QED  BY <2>1, <2>2, TurnInv
<1>5. ASSUME NEW d \in SyncTimes, ServeClient(d)
      PROVE  CoordinatorInv' /\ Careful
  <2>1. Turned
    BY <1>5, ServeStep DEF ServeClient
  <2>2. /\ failure = "NONE" /\ NextSlot(index) /\ seen' = Past(NOW, d, IO_TIMEOUT)
    BY <1>5 DEF ServeClient
  <2>3. /\ index' \in Slots /\ phase' \in {"clients", "accept", "schedule", "stopped"}
        /\ failure' # "NONE" => phase' = "stopped"
    BY <2>2 DEF NextSlot, Slots
  <2> QED  BY <2>1, <2>2, <2>3, TurnInv
<1>6. ASSUME NEW d \in SyncTimes, Schedule(d)
      PROVE  CoordinatorInv' /\ Careful
  <2> DEFINE S == {j \in index..MAX_CLIENTS : sched.pending # <<>> /\ Eligible(j)}
             i == First(S)
  <2>1. Turned
    BY <1>6, ScheduleStep DEF Schedule
  <2>2. failure = "NONE" /\ seen' = NOW
    BY <1>6 DEF Schedule
  <2>3. CASE S = {}
    <3>1. phase' = "poll" /\ index' = 1 /\ failure' = failure
      BY <1>6, <2>3 DEF Schedule, store
    <3> QED  BY <2>1, <2>2, <3>1, TurnInv
  <2>4. CASE S # {}
    <3>1. i \in Slots
      <4>1. S \in SUBSET Nat
        BY SMTT(90) DEF Slots
      <4>2. i \in S
        BY <2>4, <4>1, FirstIsLeast
      <4> QED  BY <4>2 DEF Slots
    <3>2. /\ phase' = (IF failure' # "NONE" THEN "stopped"
                       ELSE IF i = MAX_CLIENTS THEN "poll" ELSE "schedule")
          /\ index' = IF i < MAX_CLIENTS /\ failure' = "NONE" THEN i + 1 ELSE 1
      BY <1>6, <2>4 DEF Schedule
    <3> HIDE DEF i
    <3>3. /\ index' \in Slots /\ phase' \in {"poll", "schedule", "stopped"}
          /\ failure' # "NONE" => phase' = "stopped"
      BY <3>1, <3>2 DEF Slots
    <3> QED  BY <2>1, <2>2, <3>3, TurnInv
  <2> QED  BY <2>3, <2>4
<1>7. ASSUME NEW c \in Conns, Accept(c)
      PROVE  CoordinatorInv' /\ Careful
  <2>1. Turned
    BY <1>7, AcceptStep DEF Accept
  <2>2. failure = "NONE" /\ failure' = failure /\ phase = "accept"
    BY <1>7 DEF Accept, store
  <2>3. index' \in Slots /\ phase' \in {"accept", "schedule"} /\ seen' \in Int
    BY <1>7, <2>2, SMTT(90) DEF Accept, Slots
  <2> QED  BY <2>1, <2>2, <2>3, TurnInv
<1>8. CASE AcceptDone
  <2>1. Turned
    <3>1. UNCHANGED <<store, clients, up, dispatched>>
      BY <1>8 DEF AcceptDone, network
    <3> QED  BY <1>8, <3>1, IdleTurn DEF AcceptDone
  <2>2. phase' = "schedule" /\ index' = 1 /\ seen' = NOW /\ failure' = failure
        /\ failure = "NONE"
    BY <1>8 DEF AcceptDone, store
  <2> QED  BY <2>1, <2>2, TurnInv
<1> QED  BY <1>4, <1>5, <1>6, <1>7, <1>8 DEF LoopStep

\* So do those of the peers.
LEMMA PeerKeeps ==
  ASSUME CoordinatorInv, NEW c \in Conns, PeerStep(c)
  PROVE  CoordinatorInv' /\ Careful
<1>1. phase = "poll" /\ failure = "NONE" /\ StateOK(Here, dispatched)
      /\ InFlightBut(sched, clients, dispatched, 0)
  BY DEF PeerStep, CoordinatorInv
<1>2. Turned
  BY <1>1, PeerTurn
<1>3. UNCHANGED <<failure, phase, index, seen>>
  BY DEF PeerStep, Connect, Send, Disconnect, store, loop
<1> QED  BY <1>1, <1>2, <1>3, TurnInv DEF CoordinatorInv

\* Every step keeps the invariant.
LEMMA StepKeeps ==
  ASSUME CoordinatorInv, [Next]_cvars
  PROVE  CoordinatorInv' /\ Careful
<1>1. ASSUME NEW c \in Conns \ Processes, PeerStep(c)
      PROVE  CoordinatorInv' /\ Careful
  BY <1>1, PeerKeeps
<1> QED  BY <1>1, LoopKeeps, TickStep, ExitStep, RestartStep, StutterStep DEF Next

\* A coordinator that starts with a table in which nothing is active.
LEMMA StartState ==
  ASSUME NEW s, InitWith(s), SchedulerOK(s), NotAfter(s, 0),
         \A k \in DOMAIN s.jobs : ~IsActive(s.jobs[k])
  PROVE  CoordinatorInv
<1>   /\ sched = s /\ workers = RegistryInit /\ failure = "NONE" /\ unsynced = <<>>
      /\ clients = [i \in Slots |-> NoClient] /\ phase = "poll" /\ index = 1 /\ seen = NOW
      /\ up = [c \in Conns |-> <<>>] /\ dispatched = {}
  BY DEF InitWith
<1>2. RegistryInit = [RegistryInit EXCEPT !.next_worker_id = 1]
  <2> DEFINE slots == RegistryInit.slots
  <2>1. RegistryInit = [slots |-> slots, next_worker_id |-> 1]
    BY DEF RegistryInit
  <2> HIDE DEF slots, RegistryInit
  <2> QED  BY <2>1
<1>3. /\ workers \in RegistryType /\ RegistryOK(workers) /\ LeasesOK(workers)
      /\ Agree(workers, clients) /\ ClientsOK(clients)
      /\ \A i \in Slots : clients[i] = NoClient
  <2>1. 1 \in 0..MAX_WORKER_ID
    BY RegistryConstants
  <2> HIDE DEF RegistryInit
  <2> QED  BY <1>2, <2>1, NobodyServed
<1>4. SchedulerOK(sched) /\ NotAfter(sched, 0) /\ InFlightBut(sched, clients, dispatched, 0)
  BY DEF InFlightBut
<1>5. AcksKnown(sched, clients, dispatched)
  <2>1. NoClient.output.type = "NONE"
    BY ClosedSlotType DEF NoMessage, Message
  <2> QED  BY <1>3, <2>1 DEF AcksKnown
<1>6. DOMAIN up = Conns /\ \A c \in Conns : FramesOK(up[c])
  BY NoFrames
<1>7. StateOK(Here, dispatched)
  BY <1>3, <1>4, <1>5, <1>6, HereFields DEF StateOK, Fields
<1>8. 1 \in Slots /\ NOW \in Int /\ UnsyncedOK
  BY Clock, CoordinatorConstants DEF Slots, UnsyncedOK
<1> QED  BY <1>4, <1>7, <1>8 DEF CoordinatorInv

\* It starts with an empty one.
LEMMA InitialState ==
  ASSUME Init
  PROVE  CoordinatorInv
<1>1. SchedulerOK(SchedulerInit) /\ DOMAIN SchedulerInit.jobs = {}
  BY EmptyTable DEF SchedulerInit
<1>2. NotAfter(SchedulerInit, 0)
  BY <1>1 DEF NotAfter
<1> HIDE DEF SchedulerInit
<1> QED  BY <1>1, <1>2, StartState DEF Init

-----------------------------------------------------------------------------
(* The theorems.                                                           *)

\* The tables, the client slots and the frames stay consistent in every
\* reachable state, across commits, failures, closed connections, crashes and
\* restarts.
THEOREM CoordinatorSafety == Spec => []CoordinatorInv
<1>1. Init => CoordinatorInv
  BY InitialState
<1>2. CoordinatorInv /\ [Next]_cvars => CoordinatorInv'
  BY StepKeeps
<1> QED  BY <1>1, <1>2, PTL DEF Spec

\* The registry and the client slots name the same live workers, one slot and
\* one descriptor each.
THEOREM ConnectionsAlwaysAgree == Spec => []ConnectionsAgree
<1>1. ASSUME CoordinatorInv  PROVE ConnectionsAgree
  <2>   /\ StateOK(Here, dispatched) /\ RegistryOK(workers) /\ Agree(workers, clients)
        /\ ClientsOK(clients)
    BY <1>1, HereFields DEF CoordinatorInv, StateOK
  <2>2. ASSUME NEW i \in Slots, Registered(i)
        PROVE  LiveConnection(workers, clients[i].worker_id, clients[i].fd)
    <3>1. clients[i].worker_id # 0 /\ \E k \in 1..MAX_WORKERS : RecordOf(workers, clients, i, k)
      BY <2>2 DEF Registered, Agree
    <3>2. PICK k \in 1..MAX_WORKERS : RecordOf(workers, clients, i, k)
      BY <3>1
    <3>3. /\ RecordSlot(workers, clients[i].worker_id) = k
          /\ RecordSlots(workers, clients[i].worker_id) # {}
      BY <3>1, <3>2, RecordFound
    <3> QED  BY <3>1, <3>2, <3>3 DEF LiveConnection, Alive, RecordOf
  <2>3. ASSUME NEW k \in 1..MAX_WORKERS, workers.slots[k].state = "ALIVE"
        PROVE  \E i \in Slots : Registered(i) /\ clients[i].worker_id = workers.slots[k].id
    BY <2>3 DEF Agree, RecordOf, Registered, ClientsOK
  <2>4. ASSUME NEW i \in Slots, NEW k \in Slots, Registered(i),
               clients[i].worker_id = clients[k].worker_id
        PROVE  i = k
    BY <2>4, HereFields, OneSlot DEF Registered
  <2> QED  BY <2>2, <2>3, <2>4 DEF ConnectionsAgree, ClientsOK
<1> QED  BY <1>1, CoordinatorSafety, PTL

\* While the coordinator runs, the assignment of every active attempt is in its
\* owner's output buffer or was sent in full.
THEOREM AssignmentsStayInFlight == Spec => []AssignmentsInFlight
<1>1. ASSUME CoordinatorInv  PROVE AssignmentsInFlight
  <2>1. StateOK(Here, dispatched) /\ SchedulerOK(sched) /\ ClientsOK(clients)
    BY <1>1, HereFields DEF CoordinatorInv, StateOK
  <2>2. SUFFICES ASSUME failure = "NONE", phase # "down",
                        NEW k \in DOMAIN sched.jobs, IsActive(sched.jobs[k])
                 PROVE  \E i \in Slots :
                          /\ Registered(i) /\ clients[i].worker_id = sched.jobs[k].worker_id
                          /\ \/ clients[i].output = Assignment(sched.jobs[k])
                             \/ Assignment(sched.jobs[k]) \in dispatched
    BY DEF AssignmentsInFlight
  <2>3. sched.jobs[k].worker_id \in 1..MAX_WORKER_ID
    BY <2>1, <2>2, ActiveOwned
  <2>4. sched.jobs[k].worker_id # 0
    BY <2>3
  <2>5. InFlightBut(sched, clients, dispatched, 0)
    BY <1>1, <2>2 DEF CoordinatorInv
  <2>6. InFlight(sched.jobs[k], clients, dispatched)
    BY <2>2, <2>4, <2>5 DEF InFlightBut
  <2> QED  BY <2>1, <2>6 DEF InFlight, Registered, ClientsOK
<1> QED  BY <1>1, CoordinatorSafety, PTL

\* A job whose submission was acknowledged is in the table from then on, before
\* and after every restart.
THEOREM AcknowledgedJobsAreKept == Spec => []AcknowledgedIsKept
<1>1. ASSUME CoordinatorInv  PROVE AcknowledgedIsKept
  <2>1. SchedulerOK(sched) /\ AcksKnown(sched, clients, dispatched)
    BY <1>1, HereFields DEF CoordinatorInv, StateOK
  <2> QED  BY <2>1, SlotOfJob DEF AcksKnown, AcknowledgedIsKept
<1> QED  BY <1>1, CoordinatorSafety, PTL

\* The output of a connection changes only when it was sent in full or the
\* connection closes.
THEOREM RepliesAreKept == Spec => RepliesKept
<1>1. CoordinatorInv /\ [Next]_cvars =>
        [\A i \in Slots :
           (clients[i].phase = "WRITING" /\ clients'[i].conn = clients[i].conn
            /\ clients'[i].output # clients[i].output)
           => clients'[i].phase = "READING"]_cvars
  BY StepKeeps DEF Careful
<1> QED  BY <1>1, CoordinatorSafety, PTL DEF Spec, RepliesKept

\* A lease that has run out is not renewed, and its holder gets no job.
THEOREM LeasesAreRespected == Spec => LeasesRespected
<1>1. CoordinatorInv /\ [Next]_cvars =>
        [\A k \in 1..MAX_WORKERS :
           LET before == workers.slots[k]
               after  == workers'.slots[k]
           IN (before.state = "ALIVE" /\ TimedOut(before, NOW, HEARTBEAT_TIMEOUT)
               /\ after.id = before.id)
              => /\ after.last_heartbeat <= before.last_heartbeat
                 /\ \A n \in DOMAIN sched.jobs :
                      (sched'.jobs[n].state = "ASSIGNED" /\ sched.jobs[n].state # "ASSIGNED")
                        => sched'.jobs[n].worker_id # before.id]_cvars
  BY StepKeeps DEF Careful
<1> QED  BY <1>1, CoordinatorSafety, PTL DEF Spec, LeasesRespected

-----------------------------------------------------------------------------
(* How the operations of the scheduler change the job table.               *)

\* The oldest pending job is assigned to worker w, and a frame announces it.
GivesOut(s, w) ==
  LET id == Head(s.pending)
      t  == Assign(s, w, 0)
      f  == Assignment(t.jobs[id])
  IN  /\ SchedulerOK(t) /\ NotAfter(t, 0) /\ Unreported(s, t) /\ FindSlot(t, id) = id
      /\ id \in DOMAIN s.jobs /\ f \in Replies
      /\ t.jobs[id].state = "ASSIGNED" /\ t.jobs[id].worker_id = w
      /\ t.jobs[id].attempt = s.jobs[id].attempt + 1 /\ s.jobs[id].attempt \in Nat
      /\ f.type = "JOB_ASSIGN" /\ f.worker_id = w /\ f.job_id = id
      /\ f.attempt = t.jobs[id].attempt /\ f.value = <<t.jobs[id].task>>
      /\ \A k \in DOMAIN s.jobs : IsActive(s.jobs[k]) => t.jobs[k] = s.jobs[k]

\* An assignment gives out the next attempt of the oldest pending job.
LEMMA AssignEvolves ==
  ASSUME NEW s, SchedulerOK(s), NotAfter(s, 0), s.pending # <<>>, NEW w \in 1..MAX_WORKER_ID,
         ~Busy(s, w)
  PROVE  GivesOut(s, w)
<1> DEFINE id == Head(s.pending)
           t  == Assign(s, w, 0)
<1>1. /\ SchedulerOK(t) /\ NotAfter(t, 0) /\ DOMAIN t.jobs = DOMAIN s.jobs
      /\ id \in DOMAIN s.jobs /\ t.jobs[id].worker_id = w /\ FindSlot(t, id) = id
      /\ \A n \in DOMAIN s.jobs : n # id => t.jobs[n] = s.jobs[n]
      /\ Assignment(t.jobs[id]) \in Replies
  BY AssignedTable
<1>2. s.jobs[id].state = "QUEUED" /\ s.jobs[id] \in JobType /\ FindSlot(s, id) = id
  <2>1. id = s.pending[1] /\ 1 \in DOMAIN s.pending
    BY DEF SchedulerOK, SchedulerType
  <2>2. id \in {k \in DOMAIN s.jobs : s.jobs[k].state = "QUEUED"}
    BY <2>1 DEF SchedulerOK, QueueOK, Members
  <2> HIDE DEF id
  <2> QED  BY <1>1, <2>2, SlotOfJob
<1>3. t.jobs[id] = JobAssign(s.jobs[id], w, 0)
  <2>1. s.jobs \in Seq(JobType)
    BY DEF SchedulerOK, SchedulerType
  <2>2. t.jobs = [s.jobs EXCEPT ![id] = JobAssign(s.jobs[id], w, 0)]
    BY <1>2 DEF Assign, SchedulerOK, SchedulerType
  <2> HIDE DEF t, id
  <2> QED  BY <1>1, <2>1, <2>2
<1> HIDE DEF t, id
<1>4. /\ JobGrows(s.jobs[id], t.jobs[id]) /\ ~Completes(s.jobs[id], t.jobs[id])
      /\ ~Fails(s.jobs[id], t.jobs[id])
      /\ t.jobs[id].attempt = s.jobs[id].attempt + 1 /\ t.jobs[id].state = "ASSIGNED"
  BY <1>2, <1>3, AssignGrows, SMTT(90)
<1>5. Unreported(s, t)
  <2>1. Unreported(s, s)
    BY NothingReported
  <2> QED  BY <1>1, <1>4, <2>1 DEF Unreported, Grows
<1>6. LET f == Assignment(t.jobs[id])
      IN  /\ f.type = "JOB_ASSIGN" /\ f.worker_id = w /\ f.job_id = id
          /\ f.attempt = t.jobs[id].attempt /\ f.value = <<t.jobs[id].task>>
  <2>1. t.jobs[id].id = id
    BY <1>1, SlotOfJob
  <2> QED  BY <1>1, <2>1 DEF Assignment, Carrying, Message
<1>7. \A k \in DOMAIN s.jobs : IsActive(s.jobs[k]) => t.jobs[k] = s.jobs[k]
  BY <1>1, <1>2 DEF IsActive
<1>8. s.jobs[id].attempt \in Nat
  BY <1>2 DEF JobType
<1> QED  BY <1>1, <1>4, <1>5, <1>6, <1>7, <1>8 DEF t, id, GivesOut

-----------------------------------------------------------------------------
(* What the steps of the loop do.                                          *)

\* Slot i is as it was, but for what is being read or sent.
Waits(i) == Stays(up, i, sched, clients[i].worker_id, clients[i].job_client, clients[i].output)

\* The values from which a step starts.
LEMMA HerePrepared ==
  ASSUME StateOK(Here, dispatched), NEW i \in Slots
  PROVE  Prepared(Here, i) /\ SchedulerOK(sched) /\ NotAfter(sched, 0) /\ Agree(workers, clients)
         /\ clients \in [Slots -> ClientType]
BY HereFields DEF StateOK, ClientsOK, Prepared, Fields

\* Part of a frame arrives.
LEMMA ProgressEffect ==
  ASSUME NEW i \in Slots, Reading(Here, i), NEW d, NEW received \in {"part", "header"},
         Progress(i, received, d)
  PROVE  Waits(i)
<1> DEFINE old == clients[i]
           c == [old EXCEPT !.received = received, !.last_progress = NOW, !.since = NOW]
<1>1. Prepared(Here, i) /\ old \in ClientType /\ Here.clients = clients
  BY HerePrepared, HereFields DEF Reading
<1>2. /\ c \in ClientType /\ c.fd = old.fd /\ c.conn = old.conn /\ c.worker_id = old.worker_id
      /\ c.job_client = old.job_client /\ c.output = old.output
  <2> DEFINE now == NOW
  <2>1. now \in Int
    BY Clock
  <2> HIDE DEF now, Replies, old
  <2>2. c \in ClientType
    BY <1>1, <2>1 DEF ClientType, now
  <2> QED  BY <1>1, <2>2 DEF ClientType
<1>3. [Here EXCEPT !.clients[i] = c] = Values(sched, workers, [Here.clients EXCEPT ![i] = c], up)
  BY HereFields, SlotField, SMTT(90) DEF SlotSet
<1>4. Published([Here EXCEPT !.clients[i] = c], 0) /\ UNCHANGED server
  BY HereFields DEF Progress
<1> HIDE DEF c
<1> QED  BY <1>1, <1>2, <1>3, <1>4, Staying, SMTT(90) DEF Waits

\* read_message: the next frame is handled, or is not complete, or the
\* connection is closed without it.
LEMMA ReadEffect ==
  ASSUME NEW i \in Slots, Reading(Here, i), NEW d \in Nat, ReadMessage(i, d)
  PROVE  LET c == clients[i].conn
         IN  \/ Waits(i) \/ Shut(up, i, sched, clients[i].worker_id)
             \/ /\ up[c] # <<>> /\ RequestOK(Head(up[c]))
                /\ Handled([up EXCEPT ![c] = Tail(up[c])], i, Head(up[c]))
<1> DEFINE conn == clients[i].conn
           old == clients[i]
           c  == [old EXCEPT !.received = "all", !.last_progress = NOW, !.since = NOW]
           cl == [clients EXCEPT ![i] = c]
           u  == [up EXCEPT ![conn] = Tail(up[conn])]
           t  == Values(sched, workers, cl, u)
           m  == Head(up[conn])
<1>1. /\ Prepared(Here, i) /\ SchedulerOK(sched) /\ NotAfter(sched, 0)
      /\ Agree(workers, clients) /\ old \in ClientType
  BY HerePrepared DEF Reading
<1>2. CASE Reject(Here, i, d)
  BY <1>1, <1>2, HereFields, Closing DEF Reject
<1>3. CASE Progress(i, "part", d) \/ Progress(i, "header", d)
  BY <1>3, ProgressEffect
<1>4. CASE up[conn] # <<>> /\ HandleMessage(t, i, m, d)
  <2>1. DOMAIN up = Conns /\ (\A k \in Conns : FramesOK(up[k])) /\ conn \in Conns
    BY HereSlot
  <2>2. RequestOK(m) /\ FramesOK(Tail(up[conn]))
    BY <1>4, <2>1, FrameTaken
  <2>3. DOMAIN u = Conns /\ \A k \in Conns : FramesOK(u[k])
    <3> DEFINE q == Tail(up[conn])
    <3> HIDE DEF q, conn
    <3> QED  BY <2>1, <2>2 DEF q
  <2>4. Kept(old, c)
    BY HereSlot, MovedSlot
  <2>5. c.job_client = old.job_client
    <3> HIDE DEF old, Replies
    <3> QED  BY <1>1 DEF ClientType
  <2> HIDE DEF c, u, m
  <2>6. /\ Prepared(t, i) /\ t.sched = sched /\ t.workers = workers /\ t.up = u
        /\ t.clients[i] = c
    <3>1. Here.clients = clients
      BY HereFields
    <3> QED  BY <1>1, <2>4, <3>1, PreparedSlot, SMTT(90) DEF Kept
  <2>7. Reading(t, i)
    <3> HIDE DEF cl, t
    <3>1. cl = [Here.clients EXCEPT ![i] = c] /\ t = Values(Here.sched, Here.workers, cl, u)
      BY HereFields DEF cl, t
    <3>2. Kept(Here.clients[i], c)
      BY <2>4, HereFields
    <3> QED  BY <2>3, <3>1, <3>2, ReadSlot DEF Kept
  <2> HIDE DEF t
  <2>8. Arrived(t, i)
    <3>1. old.output = NoMessage
      BY HereSlot
    <3> QED  BY <2>4, <2>5, <2>6, <2>7, <3>1 DEF Arrived, Kept
  <2>9. Handled(u, i, m)
    BY <1>1, <1>4, <2>2, <2>6, <2>8, FrameHandled
  <2> QED  BY <1>4, <2>2, <2>9 DEF u, m
<1>5. [Here EXCEPT !.clients[i] = c, !.up[conn] = Tail(@)] = t
  <2> DEFINE a == [Here EXCEPT !.clients[i] = c]
  <2>1. SlotSet(Here, i, c)
    BY HereFields, SlotField
  <2> HIDE DEF c
  <2>2. a = Values(sched, workers, cl, up)
    BY <2>1, HereFields DEF SlotSet
  <2> HIDE DEF a, cl
  <2>3. Fields(a) /\ a.sched = sched /\ a.workers = workers /\ a.clients = cl /\ a.up = up
    BY <2>2, StateFields DEF Values, Fields
  <2> DEFINE q == Tail(up[conn])
  <2>4. UpSet(a, conn, q)
    BY <2>3, UpField
  <2>5. [a EXCEPT !.up[conn] = q] = t
    BY <2>3, <2>4 DEF UpSet
  <2>6. [a EXCEPT !.up[conn] = Tail(@)] = [a EXCEPT !.up[conn] = q]
    BY <2>3
  <2> QED  BY <2>5, <2>6 DEF a
<1>6. [Here EXCEPT !.clients[i] =
         [@ EXCEPT !.received = "all", !.last_progress = NOW, !.since = NOW],
         !.up[conn] = Tail(@)] = t
  BY <1>5, HereFields
<1> HIDE DEF t
<1> QED  BY <1>2, <1>3, <1>4, <1>6 DEF ReadMessage

\* write_reply: the whole reply is on its way then.
LEMMA WriteEffect ==
  ASSUME NEW i \in Slots, StateOK(Here, dispatched), NEW d \in Nat, WriteReply(i, d)
  PROVE  LET c == clients[i].conn
         IN  \/ UNCHANGED down /\ (Waits(i) \/ Shut(up, i, sched, clients[i].worker_id))
             \/ /\ Stays(up, i, sched, clients[i].worker_id, clients[i].job_client, NoMessage)
                /\ down' = IF c \in Processes
                           THEN [down EXCEPT ![c] = Append(down[c], clients[i].output)] ELSE down
<1> DEFINE old  == clients[i]
           part == PartSent(old)
           full == AllSent(old)
<1>1. Prepared(Here, i) /\ old \in ClientType /\ Here.clients = clients
  BY HerePrepared, HereFields
<1>2. /\ part \in ClientType /\ part.fd = old.fd /\ part.conn = old.conn
      /\ part.worker_id = old.worker_id /\ part.output = old.output
      /\ Kept(old, full)
  BY <1>1, WrittenSlot
<1>3. part.job_client = old.job_client /\ full.job_client = old.job_client
  <2> HIDE DEF old, Replies
  <2> QED  BY <1>1 DEF ClientType, PartSent, AllSent, Moved, ResetInput
<1>4. /\ [Here EXCEPT !.clients[i] = part] = Values(sched, workers, [Here.clients EXCEPT ![i] = part], up)
      /\ [Here EXCEPT !.clients[i] = full] = Values(sched, workers, [Here.clients EXCEPT ![i] = full], up)
  BY HereFields, SlotField DEF SlotSet
<1>5. \/ Published([Here EXCEPT !.clients[i] = part], 0) /\ UNCHANGED <<server, down>>
      \/ /\ Published([Here EXCEPT !.clients[i] = full], 0) /\ UNCHANGED server
         /\ down' = IF old.conn \in Processes
                    THEN [down EXCEPT ![old.conn] = Append(@, old.output)] ELSE down
      \/ Reject(Here, i, d) /\ UNCHANGED down
  BY DEF WriteReply, PartSent, AllSent, Moved
<1> HIDE DEF part, full
<1>6. CASE Published([Here EXCEPT !.clients[i] = part], 0) /\ UNCHANGED <<server, down>>
  <2>1. Published(Values(sched, workers, [Here.clients EXCEPT ![i] = part], up), 0)
    BY <1>4, <1>6
  <2>2. Stays(up, i, sched, part.worker_id, part.job_client, part.output)
    BY <1>1, <1>2, <1>6, <2>1, Staying
  <2>3. Waits(i)
    BY <1>2, <1>3, <2>2 DEF Waits
  <2> QED  BY <1>6, <2>3
<1>7. CASE /\ Published([Here EXCEPT !.clients[i] = full], 0) /\ UNCHANGED server
           /\ down' = IF old.conn \in Processes
                      THEN [down EXCEPT ![old.conn] = Append(@, old.output)] ELSE down
  <2>1. Stays(up, i, sched, old.worker_id, old.job_client, NoMessage)
    BY <1>1, <1>2, <1>3, <1>4, <1>7, Staying, SMTT(90) DEF Kept
  <2> QED  BY <1>7, <2>1
<1>8. CASE Reject(Here, i, d) /\ UNCHANGED down
  BY <1>1, <1>8, HereFields, Closing DEF Reject
<1> QED  BY <1>5, <1>6, <1>7, <1>8

\* The attempt that r announces is new, and the table s has it for worker w.
Assigns(s, w, r) ==
  /\ SchedulerOK(s) /\ Unreported(sched, s) /\ r \in Replies /\ FrameTrue(r, s)
  /\ r.type = "JOB_ASSIGN" /\ r.worker_id = w /\ r.job_id \in DOMAIN sched.jobs
  /\ sched.jobs[r.job_id].attempt < r.attempt
  /\ s.jobs[r.job_id].state = "ASSIGNED" /\ s.jobs[r.job_id].worker_id = w
  /\ s.jobs[r.job_id].attempt = r.attempt
  /\ \A k \in DOMAIN sched.jobs : IsActive(sched.jobs[k]) => s.jobs[k] = sched.jobs[k]

\* schedule_jobs: nobody is eligible, or a job is assigned.
LEMMA ScheduleEffect ==
  ASSUME StateOK(Here, dispatched), index \in Slots, NEW d \in Nat, Schedule(d)
  PROVE  /\ UNCHANGED <<peer, down>>
         /\ \/ UNCHANGED <<store, clients, server, up>>
            \/ \E i \in Slots : \E s, r :
                 LET w == clients[i].worker_id
                 IN  /\ Eligible(i) /\ Assigns(s, w, r)
                     /\ \/ Stays(up, i, s, w, clients[i].job_client, r) \/ Shut(up, i, s, w)
                        \/ Doubt(up, i, s)
<1> DEFINE S    == {j \in index..MAX_CLIENTS : sched.pending # <<>> /\ Eligible(j)}
           i    == First(S)
           w    == clients[i].worker_id
           s    == Assign(sched, w, 0)
           head == Head(sched.pending)
           m    == Assignment(s.jobs[FindSlot(s, head)])
           t    == [Here EXCEPT !.sched = s]
<1>1. UNCHANGED <<peer, down>>
  BY DEF Schedule
<1>2. ASSUME S # {},
             QueueMessage(t, i, m, d) \/ (Failed(Here, s, workers.next_worker_id) /\ UNCHANGED server)
      PROVE  \E k \in Slots : \E x, r :
                 LET a == clients[k].worker_id
                 IN  /\ Eligible(k) /\ Assigns(x, a, r)
                     /\ \/ Stays(up, k, x, a, clients[k].job_client, r) \/ Shut(up, k, x, a)
                        \/ Doubt(up, k, x)
  <2>1. i \in Slots /\ sched.pending # <<>> /\ Eligible(i)
    <3>1. S \in SUBSET Nat
      BY CoordinatorConstants, SMTT(90) DEF Slots
    <3>2. i \in S
      BY <1>2, <3>1, FirstIsLeast
    <3> QED  BY <3>2, CoordinatorConstants DEF Slots
  <2> HIDE DEF i
  <2>2. w # 0 /\ ~Busy(sched, w)
    BY <2>1 DEF Eligible
  <2>3. /\ Prepared(Here, i) /\ SchedulerOK(sched) /\ NotAfter(sched, 0)
        /\ clients[i] \in ClientType /\ Here.sched = sched /\ Here.clients = clients
    BY <2>1, HerePrepared, HereFields
  <2>4. w \in 1..MAX_WORKER_ID
    BY <2>2, <2>3, RegistryConstants, SMTT(90) DEF ClientType
  <2> HIDE DEF w
  <2>5. /\ SchedulerOK(s) /\ NotAfter(s, 0) /\ FindSlot(s, head) = head
        /\ Assigns(s, w, Assignment(s.jobs[head]))
    <3> DEFINE f == Assignment(s.jobs[head])
    <3>1. /\ SchedulerOK(s) /\ NotAfter(s, 0) /\ Unreported(sched, s) /\ FindSlot(s, head) = head
          /\ head \in DOMAIN sched.jobs /\ f \in Replies
          /\ s.jobs[head].state = "ASSIGNED" /\ s.jobs[head].worker_id = w
          /\ s.jobs[head].attempt = sched.jobs[head].attempt + 1 /\ sched.jobs[head].attempt \in Nat
          /\ f.type = "JOB_ASSIGN" /\ f.worker_id = w /\ f.job_id = head
          /\ f.attempt = s.jobs[head].attempt /\ f.value = <<s.jobs[head].task>>
          /\ \A k \in DOMAIN sched.jobs : IsActive(sched.jobs[k]) => s.jobs[k] = sched.jobs[k]
      <4>1. GivesOut(sched, w)
        BY <2>1, <2>2, <2>3, <2>4, AssignEvolves
      <4> QED  BY <4>1 DEF GivesOut
    <3> HIDE DEF s, head, f, Replies
    <3>2. head \in DOMAIN s.jobs
      BY <3>1 DEF Unreported
    <3>3. FrameTrue(f, s)
      BY <3>1, <3>2, SMTT(90) DEF FrameTrue
    <3>4. Assigns(s, w, f)
      BY <3>1, <3>3, SMTT(90) DEF Assigns
    <3> QED  BY <3>1, <3>4 DEF f
  <2>6. Assigns(s, w, m) /\ m \in Replies
    BY <2>5 DEF Assigns
  <2> HIDE DEF m, head
  <2>7. CASE Failed(Here, s, workers.next_worker_id) /\ UNCHANGED server
    <3> HIDE DEF s
    <3>1. Doubt(up, i, s)
      BY <2>1, <2>3, <2>7, HereFields, Failing
    <3> QED  BY <2>1, <2>6, <3>1 DEF w
  <2>8. CASE QueueMessage(t, i, m, d)
    <3> HIDE DEF s
    <3>1. Updated(Here, t, s, Here.workers)
      BY HereFields, TableFields
    <3>2. Fields(t) /\ t.sched = s /\ t.clients = clients /\ t.up = up
      BY <3>1, HereFields DEF Updated
    <3> HIDE DEF t
    <3>3. Prepared(t, i)
      BY <2>3, <2>5, <3>2 DEF Prepared
    <3>4. Stays(up, i, s, w, clients[i].job_client, m) \/ Shut(up, i, s, w)
      BY <2>1, <2>6, <2>8, <3>2, <3>3, Queueing DEF w
    <3> QED  BY <2>1, <2>6, <3>4 DEF w
  <2> QED  BY <1>2, <2>7, <2>8
<1>3. \/ UNCHANGED <<store, clients, server, up>>
      \/ /\ S # {}
         /\ QueueMessage(t, i, m, d) \/ (Failed(Here, s, workers.next_worker_id) /\ UNCHANGED server)
  BY DEF Schedule
<1> HIDE DEF S, i, w, s, m, t
<1> QED  BY <1>1, <1>2, <1>3

-----------------------------------------------------------------------------
(* The same, as the processes at the other ends see it.                    *)

\* A connection that is closed.
LEMMA ShutServes ==
  ASSUME NEW i \in Slots, NEW m, NEW s, NEW w, NEW u, SchedulerOK(sched), SchedulerOK(s),
         Evolves(sched, s, m), Shut(u, i, s, w), Takes(clients[i].conn, m, u),
         UNCHANGED <<peer, down>>
  PROVE  Serves(i, m)
<1> DEFINE c == clients[i].conn
<1>1. up' = [up EXCEPT ![c] = <<>>]
  <2>1. up' = [u EXCEPT ![c] = <<>>]
    BY DEF Shut
  <2> QED  BY <2>1 DEF Takes
<1>2. Dropped(i, m)
  BY <1>1 DEF Shut, Dropped
<1>3. ASSUME NEW t, Loses(s, t, w)
      PROVE  Evolves(sched, t, m) /\ Grows(s, t)
  BY <1>3, EvolvesLost DEF Loses, Unreported
<1>4. Changes(m)
  <2>1. CASE UNCHANGED <<failure, unsynced>> /\ Loses(s, sched', w)
    BY <1>3, <2>1 DEF Changes
  <2>2. CASE /\ failure' = "FATAL" /\ sched' = s
             /\ \A k \in DOMAIN unsynced' : Loses(s, unsynced'[k].sched, w)
    BY <1>3, <2>2 DEF Changes
  <2> QED  BY <2>1, <2>2 DEF Shut, Lost
<1> QED  BY <1>2, <1>4 DEF Serves, Shut

\* A commit that fails.
LEMMA DoubtServes ==
  ASSUME NEW i \in Slots, NEW m, NEW s, NEW u, SchedulerOK(sched), Evolves(sched, s, m),
         Doubt(u, i, s), Takes(clients[i].conn, m, u), UNCHANGED <<peer, down>>
  PROVE  Serves(i, m)
<1>1. Evolves(sched, sched, m)
  BY NothingReported, UnreportedEvolves
<1>2. Changes(m)
  BY <1>1 DEF Changes, Doubt, Evolves
<1>3. Continues(i, m)
  BY DEF Continues, Doubt
<1> QED  BY <1>2, <1>3 DEF Serves, Doubt

\* A connection that stays.
LEMMA StaysServes ==
  ASSUME NEW i \in Slots, NEW m, NEW s, NEW w, NEW j, NEW r, NEW u, Evolves(sched, s, m),
         Stays(u, i, s, w, j, r), Takes(clients[i].conn, m, u), UNCHANGED <<peer, down>>,
         sched' = s => r = clients[i].output \/ New(m, r)
  PROVE  Serves(i, m)
<1>1. Changes(m) /\ Continues(i, m)
  BY DEF Changes, Continues, Stays
<1> QED  BY <1>1 DEF Serves, Stays

\* The answer to a message is a new frame.
LEMMA AnswerIsNew ==
  ASSUME NEW i, NEW m, NEW w, NEW j, NEW r, Answer(i, m, sched', w, j, r)
  PROVE  New(m, r)
BY DEF Answer, New

\* A message that was handled.
LEMMA HandledServes ==
  ASSUME NEW i \in Slots, NEW m, NEW u, SchedulerOK(sched), Handled(u, i, m),
         Takes(clients[i].conn, m, u), UNCHANGED <<peer, down>>
  PROVE  Serves(i, m)
<1>1. Evolves(sched, sched, m)
  BY NothingReported, UnreportedEvolves
<1>2. CASE Shut(u, i, sched, clients[i].worker_id)
  BY <1>1, <1>2, ShutServes
<1>3. ASSUME NEW s, NEW w, NEW j, NEW r, Answer(i, m, s, w, j, r),
             Stays(u, i, s, w, j, r) \/ Shut(u, i, s, w) \/ Doubt(u, i, s)
      PROVE  Serves(i, m)
  <2>1. SchedulerOK(s) /\ Evolves(sched, s, m)
    BY <1>3 DEF Answer
  <2>2. sched' = s => New(m, r)
    BY <1>3, AnswerIsNew
  <2> QED  BY <1>3, <2>1, <2>2, StaysServes, ShutServes, DoubtServes
<1> QED  BY <1>2, <1>3 DEF Handled

\* A slot on which nothing arrives, and one that is closed.
LEMMA WaitsServes ==
  ASSUME NEW i \in Slots, SchedulerOK(sched), UNCHANGED <<peer, down>>,
         Waits(i) \/ Shut(up, i, sched, clients[i].worker_id)
  PROVE  Serves(i, NoMessage)
<1>1. Evolves(sched, sched, NoMessage)
  BY NothingReported, UnreportedEvolves
<1>2. Takes(clients[i].conn, NoMessage, up)
  BY DEF Takes
<1> HIDE DEF NoMessage
<1> QED  BY <1>1, <1>2, StaysServes, ShutServes DEF Waits

\* write_reply.
LEMMA WriteServes ==
  ASSUME NEW i \in Slots, StateOK(Here, dispatched), NEW d \in Nat, WriteReply(i, d),
         UNCHANGED peer
  PROVE  Serves(i, NoMessage)
<1> DEFINE c == clients[i].conn
<1>1. SchedulerOK(sched)
  BY HerePrepared
<1>2. CASE UNCHANGED down /\ (Waits(i) \/ Shut(up, i, sched, clients[i].worker_id))
  BY <1>1, <1>2, WaitsServes
<1>3. CASE /\ Stays(up, i, sched, clients[i].worker_id, clients[i].job_client, NoMessage)
           /\ down' = IF c \in Processes
                      THEN [down EXCEPT ![c] = Append(down[c], clients[i].output)] ELSE down
  <2>1. Evolves(sched, sched, NoMessage)
    BY <1>1, NothingReported, UnreportedEvolves
  <2> HIDE DEF NoMessage
  <2>2. Changes(NoMessage) /\ Continues(i, NoMessage)
    BY <1>3, <2>1 DEF Changes, Continues, Stays, Takes
  <2> QED  BY <1>3, <2>2 DEF Serves, Stays
<1> QED  BY <1>2, <1>3, WriteEffect

\* A step that leaves the loop's values alone.
LEMMA IdleRests ==
  ASSUME SchedulerOK(sched), UNCHANGED <<sched, failure, unsynced, clients, peer, server, up, down>>
  PROVE  Rests
<1>1. Evolves(sched, sched, NoMessage)
  BY NothingReported, UnreportedEvolves
<1> QED  BY <1>1 DEF Rests, SameClient

\* A step of the loop that may commit.
LEMMA ServeEffect ==
  ASSUME CoordinatorInv, NEW d \in Nat, ServeClient(d) \/ Schedule(d)
  PROVE  /\ failure = "NONE" /\ unsynced = <<>>
         /\ Rests \/ \E i \in Slots : \E m : Open(clients, i) /\ Serves(i, m)
<1>1. /\ StateOK(Here, dispatched) /\ index \in Slots /\ SchedulerOK(sched)
      /\ (unsynced # <<>> => failure = "FATAL") /\ failure \in {"NONE", "FATAL"}
      /\ (failure = "FATAL" => phase = "stopped")
      /\ failure = "NONE" /\ phase # "down" => InFlightBut(sched, clients, dispatched, 0)
  BY HereFields DEF CoordinatorInv, StateOK
<1>2. /\ failure = "NONE" /\ unsynced = <<>> /\ InFlightBut(sched, clients, dispatched, 0)
      /\ UNCHANGED peer
  BY <1>1 DEF ServeClient, Schedule
<1>3. CASE ServeClient(d)
  <2> DEFINE i == index
             c == clients[i].conn
  <2>1. CASE UNCHANGED <<store, clients, server, up, down>>
    BY <1>1, <1>2, <2>1, IdleRests DEF store
  <2>2. CASE Open(clients, i) /\ Reject(Here, i, d) /\ UNCHANGED down
    <3>1. Shut(up, i, sched, clients[i].worker_id)
      BY <1>1, <2>2, HerePrepared, HereFields, Closing DEF Reject
    <3> QED  BY <1>1, <1>2, <2>2, <3>1, WaitsServes
  <2>3. CASE /\ Open(clients, i) /\ clients[i].phase = "READING"
             /\ ReadMessage(i, d) /\ UNCHANGED down
    <3>1. Reading(Here, i)
      BY <1>1, <1>2, <2>3, HereFields DEF Reading
    <3>2. CASE Waits(i) \/ Shut(up, i, sched, clients[i].worker_id)
      BY <1>1, <1>2, <2>3, <3>2, WaitsServes
    <3>3. CASE up[c] # <<>> /\ Handled([up EXCEPT ![c] = Tail(up[c])], i, Head(up[c]))
      <4> DEFINE u == [up EXCEPT ![c] = Tail(up[c])]
                 m == Head(up[c])
      <4>1. Takes(clients[i].conn, m, u)
        BY <3>3 DEF Takes
      <4> HIDE DEF u, m
      <4>2. Serves(i, m)
        BY <1>1, <1>2, <2>3, <3>3, <4>1, HandledServes DEF u, m
      <4> QED  BY <1>1, <1>2, <2>3, <4>2
    <3> QED  BY <1>1, <2>3, <3>1, <3>2, <3>3, ReadEffect
  <2>4. CASE Open(clients, i) /\ WriteReply(i, d)
    BY <1>1, <1>2, <2>4, WriteServes
  <2> QED  BY <1>3, <2>1, <2>2, <2>3, <2>4 DEF ServeClient
<1>4. CASE Schedule(d)
  <2>1. CASE UNCHANGED <<store, clients, server, up>> /\ UNCHANGED down
    BY <1>1, <1>2, <2>1, IdleRests DEF store
  <2>2. ASSUME NEW i \in Slots, NEW s, NEW r, Eligible(i), Assigns(s, clients[i].worker_id, r),
               \/ Stays(up, i, s, clients[i].worker_id, clients[i].job_client, r)
               \/ Shut(up, i, s, clients[i].worker_id)
               \/ Doubt(up, i, s),
               UNCHANGED down
        PROVE  Open(clients, i) /\ Serves(i, NoMessage)
    <3>1. Takes(clients[i].conn, NoMessage, up)
      BY DEF Takes
    <3> HIDE DEF NoMessage
    <3>2. SchedulerOK(s) /\ Evolves(sched, s, NoMessage)
      BY <2>2, UnreportedEvolves DEF Assigns
    <3>3. sched' = s => New(NoMessage, r)
      BY <2>2 DEF Assigns, New
    <3>4. Serves(i, NoMessage)
      BY <1>1, <1>2, <2>2, <3>1, <3>2, <3>3, StaysServes, ShutServes, DoubtServes
    <3> QED  BY <2>2, <3>4 DEF Eligible
  <2> QED  BY <1>1, <1>2, <1>4, <2>1, <2>2, ScheduleEffect
<1> QED  BY <1>2, <1>3, <1>4

\* Time passes for the loop.
LEMMA TickRests ==
  ASSUME CoordinatorInv, Tick
  PROVE  Rests
<1>1. SchedulerOK(sched) /\ clients \in [Slots -> ClientType]
  BY HereFields DEF CoordinatorInv, StateOK, ClientsOK
<1>2. \A i \in Slots : SameClient(clients[i], clients'[i])
  BY <1>1, AgedSlot DEF Tick
<1>3. Evolves(sched, sched, NoMessage)
  BY <1>1, NothingReported, UnreportedEvolves
<1> QED  BY <1>2, <1>3 DEF Rests, Tick, network

\* The coordinator starts again.
LEMMA RestartRests ==
  ASSUME CoordinatorInv, Restart
  PROVE  Rests
<1>1. SchedulerOK(sched) /\ NotAfter(sched, 0) /\ unsynced = <<>>
  BY HereFields DEF CoordinatorInv, StateOK, Restart
<1>2. Unreported(sched, sched')
  BY <1>1, RecoveredStep DEF Restart
<1>3. Evolves(sched, sched', NoMessage)
  BY <1>2, UnreportedEvolves
<1> QED  BY <1>1, <1>3 DEF Rests, Restart, network, SameClient

\* Accept puts a connection into a free slot, or closes it.
LEMMA AcceptEffect ==
  ASSUME CoordinatorInv, NEW c \in Conns, Accept(c)
  PROVE  Enters(c)
<1> DEFINE free == {i \in Slots : ~Open(clients, i)}
           fds  == {k \in 1..MAX_CLIENTS + 1 : \A i \in Slots : clients[i].fd # k}
           i    == First(free)
           fd   == First(fds)
           slot == [NoClient EXCEPT !.fd = fd, !.conn = c, !.last_progress = seen, !.since = NOW]
<1>1. server[c] = "backlog" /\ UNCHANGED <<sched, failure, unsynced, peer, down>>
  BY DEF Accept, store
<1>2. CASE /\ free # {} /\ clients' = [clients EXCEPT ![i] = slot]
           /\ server' = [server EXCEPT ![c] = "open"] /\ up' = up
  <2>1. MAX_CLIENTS \in Nat /\ clients \in [Slots -> ClientType]
    BY CoordinatorConstants, HereFields DEF CoordinatorInv, StateOK, ClientsOK
  <2>2. free \in SUBSET Nat /\ fds \in SUBSET Nat
    BY <2>1, SMTT(90) DEF Slots
  <2>3. fds # {}
    BY HereFields, FreshDescriptor DEF CoordinatorInv
  <2>4. i \in free /\ fd \in fds
    BY <1>2, <2>2, <2>3, FirstIsLeast
  <2>5. i \in Slots /\ ~Open(clients, i) /\ fd \in Nat
    BY <2>2, <2>4
  <2> HIDE DEF free, fds, i, fd
  <2>6. /\ slot.fd = fd /\ slot.conn = c /\ slot.worker_id = 0 /\ slot.job_client = FALSE
        /\ slot.output = NoMessage
    <3> HIDE DEF NoMessage, NOW
    <3> QED  BY DEF NoClient
  <2> HIDE DEF slot
  <2>7. clients'[i] = slot /\ \A k \in Slots : k # i => clients'[k] = clients[k]
    <3> HIDE DEF ClientType
    <3> QED  BY <1>2, <2>1, <2>5
  <2>8. clients'[i].fd >= 0
    BY <2>5, <2>6, <2>7
  <2> HIDE DEF NoMessage
  <2> QED  BY <1>1, <1>2, <2>5, <2>6, <2>7, <2>8 DEF Enters
<1>3. CASE /\ server' = [server EXCEPT ![c] = "closed"] /\ up' = [up EXCEPT ![c] = <<>>]
           /\ clients' = clients
  BY <1>1, <1>3 DEF Enters
<1> HIDE DEF slot
<1>4. \/ /\ free # {} /\ clients' = [clients EXCEPT ![i] = slot]
         /\ server' = [server EXCEPT ![c] = "open"] /\ up' = up
      \/ /\ server' = [server EXCEPT ![c] = "closed"] /\ up' = [up EXCEPT ![c] = <<>>]
         /\ clients' = clients
  BY DEF Accept, slot
<1> QED  BY <1>2, <1>3, <1>4

\* Exit closes every connection, and keeps the published table or the one in doubt.
LEMMA ExitEffect ==
  ASSUME Exit
  PROVE  Ends
<1>1. PICK kept \in {[sched |-> sched, next_worker_id |-> workers.next_worker_id]}
                    \cup {unsynced[k] : k \in DOMAIN unsynced} : sched' = kept.sched
  BY DEF Exit
<1>2. sched' = sched \/ \E k \in DOMAIN unsynced : sched' = unsynced[k].sched
  BY <1>1
<1>3. \A i \in Slots : clients'[i] = NoClient
  <2> HIDE DEF NoClient
  <2> QED  BY DEF Exit
<1> HIDE DEF NoClient
<1> QED  BY <1>2, <1>3 DEF Exit, Ends

-----------------------------------------------------------------------------
(* Reports count for the last attempt that was announced.                  *)

\* An assignment names an attempt the table has reached.
AttemptKnown(f, s) ==
  f.type = "JOB_ASSIGN" =>
    /\ f.job_id \in DOMAIN s.jobs /\ f.attempt \in Nat
    /\ f.attempt <= s.jobs[f.job_id].attempt

\* So do those that were sent and those that wait in a buffer, and the table in
\* doubt has come no less far.
AttemptsKnown ==
  /\ \A f \in dispatched : AttemptKnown(f, sched)
  /\ \A i \in Slots : AttemptKnown(clients[i].output, sched)
  /\ \A k \in DOMAIN unsynced : Grows(sched, unsynced[k].sched)

\* It is still reached in what the table grows into.
LEMMA AttemptStays ==
  ASSUME NEW s, NEW t, SchedulerOK(s), SchedulerOK(t), Grows(s, t), NEW f, AttemptKnown(f, s)
  PROVE  AttemptKnown(f, t)
<1>1. SUFFICES ASSUME f.type = "JOB_ASSIGN"  PROVE AttemptKnown(f, t)
  BY DEF AttemptKnown
<1> DEFINE id == f.job_id
<1>2. id \in DOMAIN s.jobs /\ id \in DOMAIN t.jobs /\ JobGrows(s.jobs[id], t.jobs[id])
  BY <1>1 DEF AttemptKnown, Grows
<1>3. s.jobs[id].attempt \in Nat /\ t.jobs[id].attempt \in Nat
  BY <1>2, SlotOfJob DEF JobType
<1> QED  BY <1>1, <1>2, <1>3 DEF AttemptKnown, JobGrows

\* An empty buffer announces nothing.
LEMMA NothingAnnounced ==
  ASSUME NEW s
  PROVE  AttemptKnown(NoMessage, s)
BY DEF AttemptKnown, NoMessage, Message

\* The buffers and tables of a step: a buffer keeps its frame, is emptied, or
\* gets one that is true of the next table.
Advances ==
  /\ Grows(sched, sched') /\ \A k \in DOMAIN unsynced' : Grows(sched', unsynced'[k].sched)
  /\ \A i \in Slots : \/ clients'[i].output \in {clients[i].output, NoMessage}
                      \/ clients'[i].output \in Replies /\ FrameTrue(clients'[i].output, sched')

\* Every step of the loop and around it does so.
LEMMA ServedAdvances ==
  ASSUME unsynced = <<>>, NEW i \in Slots, NEW m, Serves(i, m)
  PROVE  Advances
<1>1. /\ Grows(sched, sched') /\ \A k \in DOMAIN unsynced' : Grows(sched', unsynced'[k].sched)
  BY DEF Serves, Changes, Evolves
<1>2. \A k \in Slots : k # i => clients'[k].output = clients[k].output
  BY DEF Serves, Rest, SameClient
<1>3. \/ clients'[i].output \in {clients[i].output, NoMessage}
      \/ clients'[i].output \in Replies /\ FrameTrue(clients'[i].output, sched')
  <2>1. NoClient.output = NoMessage
    <3> HIDE DEF NoMessage
    <3> QED  BY DEF NoClient
  <2> HIDE DEF NoMessage, NoClient
  <2> QED  BY <2>1 DEF Serves, Dropped, Continues, New, SameClient
<1> HIDE DEF NoMessage
<1> QED  BY <1>1, <1>2, <1>3 DEF Advances

LEMMA RestAdvances ==
  ASSUME Rests, AttemptsKnown
  PROVE  Advances
<1> HIDE DEF NoMessage
<1> QED  BY DEF Advances, Rests, Evolves, SameClient, AttemptsKnown

LEMMA IdleAdvances ==
  ASSUME CoordinatorInv, AttemptsKnown, sched' = sched, unsynced' = unsynced,
         \A i \in Slots : clients'[i].output \in {clients[i].output, NoMessage}
  PROVE  Advances
<1>1. Grows(sched, sched)
  BY HereFields, NothingReported DEF CoordinatorInv, StateOK, Unreported
<1> HIDE DEF NoMessage
<1> QED  BY <1>1 DEF Advances, AttemptsKnown

LEMMA StepAdvances ==
  ASSUME CoordinatorInv, AttemptsKnown, [Next]_cvars
  PROVE  Advances
<1> HIDE DEF NoMessage
<1>1. ASSUME NEW d \in SyncTimes, ServeClient(d) \/ Schedule(d)
      PROVE  Advances
  <2>1. d \in Nat
    BY CoordinatorConstants
  <2> QED  BY <1>1, <2>1, ServeEffect, ServedAdvances, RestAdvances
<1>2. CASE Poll \/ AcceptDone \/ UNCHANGED cvars \/ \E c \in Conns \ Processes : PeerStep(c)
  <2>1. UNCHANGED <<sched, unsynced, clients>>
    BY <1>2 DEF Poll, AcceptDone, PeerStep, Connect, Send, Disconnect, cvars, store
  <2> QED  BY <2>1, IdleAdvances
<1>3. ASSUME NEW c \in Conns, Accept(c)
      PROVE  Advances
  <2>1. Enters(c)
    BY <1>3, AcceptEffect
  <2> QED  BY <2>1, IdleAdvances DEF Enters
<1>4. CASE Tick \/ Restart
  BY <1>4, TickRests, RestartRests, RestAdvances
<1>5. CASE Exit
  <2>1. Ends
    BY <1>5, ExitEffect
  <2>2. NoClient.output = NoMessage
    BY DEF NoClient
  <2> HIDE DEF NoClient
  <2>3. CASE sched' = sched
    <3>1. Grows(sched, sched)
      BY HereFields, NothingReported DEF CoordinatorInv, StateOK, Unreported
    <3> QED  BY <2>1, <2>2, <2>3, <3>1 DEF Ends, Advances
  <2>4. CASE \E k \in DOMAIN unsynced : sched' = unsynced[k].sched
    BY <2>1, <2>2, <2>4 DEF Ends, Advances, AttemptsKnown
  <2> QED  BY <2>1, <2>3, <2>4 DEF Ends
<1> QED  BY <1>1, <1>2, <1>3, <1>4, <1>5 DEF Next, LoopStep

\* What is sent is what a buffer held.
LEMMA SentWasQueued ==
  ASSUME CoordinatorInv, [Next]_cvars, NEW f \in dispatched'
  PROVE  f \in dispatched \/ \E i \in Slots : f = clients[i].output
<1>1. ASSUME NEW d \in SyncTimes, ServeClient(d)
      PROVE  dispatched' \subseteq dispatched \cup {clients[index].output}
  BY <1>1 DEF ServeClient, WriteReply
<1>2. index \in Slots
  BY DEF CoordinatorInv
<1>3. CASE ~\E d \in SyncTimes : ServeClient(d)
  <2>1. UNCHANGED dispatched
    BY <1>3 DEF Next, LoopStep, Poll, Schedule, Accept, AcceptDone, Tick, Exit, Restart,
                PeerStep, Connect, Send, Disconnect, cvars
  <2> QED  BY <2>1
<1> QED  BY <1>1, <1>2, <1>3

\* Every step keeps the invariant.
LEMMA AttemptsStayKnown ==
  ASSUME CoordinatorInv, AttemptsKnown, [Next]_cvars
  PROVE  AttemptsKnown'
<1>1. SchedulerOK(sched) /\ SchedulerOK(sched') /\ Advances
  <2>1. CoordinatorInv'
    BY StepKeeps
  <2>2. StateOK(Here, dispatched) /\ StateOK(Here', dispatched')
    BY <2>1 DEF CoordinatorInv
  <2> QED  BY <2>2, HereFields, NextFields, StepAdvances DEF StateOK
<1>2. ASSUME NEW f, AttemptKnown(f, sched)
      PROVE  AttemptKnown(f, sched')
  BY <1>1, <1>2, AttemptStays DEF Advances
<1>3. AttemptKnown(NoMessage, sched')
  BY NothingAnnounced
<1>4. ASSUME NEW f \in Replies, FrameTrue(f, sched')
      PROVE  AttemptKnown(f, sched')
  BY <1>4 DEF AttemptKnown, FrameTrue, Replies
<1> HIDE DEF NoMessage, Replies
<1>5. \A i \in Slots : AttemptKnown(clients'[i].output, sched')
  BY <1>1, <1>2, <1>3, <1>4 DEF Advances, AttemptsKnown
<1>6. \A f \in dispatched' : AttemptKnown(f, sched')
  BY <1>2, SentWasQueued DEF AttemptsKnown
<1> QED  BY <1>1, <1>5, <1>6 DEF AttemptsKnown, Advances

\* A report that is taken is of the attempt the table has active, and the
\* assignment of that attempt was sent in full.
LEMMA ReportTaken ==
  ASSUME CoordinatorInv, Next, NEW i \in Slots, NEW m, TakesReport(i, m)
  PROVE  LET job == sched.jobs[m.job_id]
         IN  /\ m.job_id \in DOMAIN sched.jobs /\ Assignment(job) \in dispatched
             /\ job.worker_id = clients[i].worker_id /\ m.worker_id = job.worker_id
             /\ job.attempt = m.attempt
<1> DEFINE c   == clients[i].conn
           job == sched.jobs[m.job_id]
<1>1. /\ phase = "clients" /\ index = i /\ m = Head(up[c]) /\ m.type \in ReportTypes
      /\ Open(clients', i) /\ (sched' # sched \/ unsynced' # unsynced)
  BY DEF TakesReport
<1>2. NoClient.fd = -1
  BY DEF NoClient
<1>3. PICK d \in Nat : ServeClient(d)
  <2>1. ~Exit
    <3> HIDE DEF NoClient
    <3> QED  BY <1>1, <1>2 DEF Exit, Open
  <2>2. \E d \in SyncTimes : ServeClient(d)
    BY <1>1, <2>1 DEF Next, LoopStep, Poll, Schedule, Accept, AcceptDone, Tick, Restart, PeerStep
  <2> QED  BY <2>2, CoordinatorConstants
<1>4. /\ StateOK(Here, dispatched) /\ failure = "NONE" /\ phase # "down"
      /\ InFlightBut(sched, clients, dispatched, 0)
  BY <1>1 DEF CoordinatorInv
<1> HIDE DEF NoClient
<1>5. ASSUME NEW u, NEW s, NEW w, Shut(u, i, s, w)
      PROVE  FALSE
  BY <1>1, <1>2, <1>5 DEF Shut, SameClient, Open
<1>6. ASSUME NEW u, NEW w, NEW j, NEW r, Stays(u, i, sched, w, j, r)
      PROVE  FALSE
  BY <1>1, <1>6 DEF Stays
<1>7. ~Reject(Here, i, d)
  BY <1>4, <1>5, HerePrepared, HereFields, Closing DEF Reject
<1>8. ~WriteReply(i, d)
  BY <1>4, <1>5, <1>6, WriteEffect DEF Waits
<1>9. Reading(Here, i) /\ ReadMessage(i, d)
  BY <1>1, <1>3, <1>4, <1>7, <1>8, HereFields DEF ServeClient, Reading, store
<1>10. Handled([up EXCEPT ![c] = Tail(up[c])], i, m)
  BY <1>1, <1>5, <1>6, <1>9, ReadEffect DEF Waits
<1>11. PICK s, w, j, r : Answer(i, m, s, w, j, r)
  BY <1>5, <1>10 DEF Handled
<1>12. /\ m.job_id \in DOMAIN sched.jobs /\ IsActive(job) /\ job.worker_id = clients[i].worker_id
       /\ m.worker_id = job.worker_id /\ job.attempt = m.attempt
  BY <1>1, <1>11 DEF Answer, ReportTypes
<1>13. Assignment(job) \in dispatched
  BY <1>9, <1>12, HereFields, ReadingSent
<1> QED  BY <1>12, <1>13

\* A report counts only for the last assignment that was sent of its job, and
\* only from the worker it was sent to.
THEOREM ReportsAlwaysCurrent == Spec => ReportsAreCurrent
<1> DEFINE Current(i, m) ==
             LET sent == {a \in dispatched : a.type = "JOB_ASSIGN" /\ a.job_id = m.job_id}
             IN \E a \in sent :
                  /\ a.worker_id = m.worker_id /\ a.worker_id = clients[i].worker_id
                  /\ a.attempt = m.attempt
                  /\ \A b \in sent : b.attempt <= a.attempt
<1>1. Init => AttemptsKnown
  <2>1. NoClient.output = NoMessage
    <3> HIDE DEF NoMessage
    <3> QED  BY DEF NoClient
  <2> HIDE DEF NoClient, NoMessage
  <2> QED  BY <2>1, NothingAnnounced DEF Init, InitWith, AttemptsKnown
<1>2. CoordinatorInv /\ AttemptsKnown /\ [Next]_cvars => AttemptsKnown'
  BY AttemptsStayKnown
<1>3. ASSUME CoordinatorInv, AttemptsKnown, Next, NEW i \in Slots, NEW m, TakesReport(i, m)
      PROVE  Current(i, m)
  <2> DEFINE job == sched.jobs[m.job_id]
             a   == Assignment(job)
  <2>1. /\ m.job_id \in DOMAIN sched.jobs /\ a \in dispatched
        /\ job.worker_id = clients[i].worker_id /\ m.worker_id = job.worker_id
        /\ job.attempt = m.attempt
    BY <1>3, ReportTaken
  <2>2. job.id = m.job_id
    BY <1>3, <2>1, HereFields, SlotOfJob DEF CoordinatorInv, StateOK
  <2>3. /\ a.type = "JOB_ASSIGN" /\ a.job_id = m.job_id /\ a.worker_id = job.worker_id
        /\ a.attempt = job.attempt
    <3> HIDE DEF job
    <3> QED  BY <2>2 DEF Assignment, Carrying, Message
  <2>4. \A b \in dispatched : b.type = "JOB_ASSIGN" /\ b.job_id = m.job_id =>
          b.attempt <= a.attempt
    BY <1>3, <2>3 DEF AttemptsKnown, AttemptKnown
  <2> HIDE DEF a
  <2> QED  BY <2>1, <2>3, <2>4
<1>4. CoordinatorInv /\ AttemptsKnown /\ [Next]_cvars =>
        [\A i \in Slots : \A m \in {Head(up[c]) : c \in {c \in Conns : up[c] # <<>>}} :
           TakesReport(i, m) => Current(i, m)]_cvars
  BY <1>3
<1> QED  BY <1>1, <1>2, <1>4, CoordinatorSafety, PTL DEF Spec, ReportsAreCurrent
=============================================================================
