---------------------------- MODULE HandlerProofs ---------------------------
(***************************************************************************)
(* What the handlers of module CoordinatorHandlers leave of the parts of   *)
(* CoordinatorInv: the scheduler, the registry and the client slots, a     *)
(* commit, a closed connection, and each request; and what they do to the  *)
(* job table and to the slot they serve, as LoopEffects states it.         *)
(***************************************************************************)
EXTENDS LoopEffects, SchedulerProofs

USE ZenonT(20), SMTT(30), SMTT(60)

-----------------------------------------------------------------------------
(* The clock.                                                              *)

\* The clock's reading is a number at least as large as the timeouts.
LEMMA Clock ==
  /\ NOW \in Nat \ {0} /\ NOW >= HEARTBEAT_TIMEOUT /\ NOW >= IO_TIMEOUT
  /\ HEARTBEAT_TIMEOUT \in Nat \ {0} /\ IO_TIMEOUT \in Nat \ {0}
BY CoordinatorConstants DEF NOW

-----------------------------------------------------------------------------
(* The client slots.                                                       *)

\* A message of the loop is a reply, and the accessors see its fields.
LEMMA ReplyType ==
  ASSUME NEW type \in ReplyTypes, NEW worker_id \in Nat, NEW job_id \in Nat,
         NEW attempt \in Nat, NEW value \in ReplyValues
  PROVE  LET m == Message(type, worker_id, job_id, attempt)
         IN  /\ m \in Replies /\ m.type = type /\ m.job_id = job_id /\ m.worker_id = worker_id
             /\ Carrying(m, value) \in Replies
             /\ Carrying(m, value).type = type /\ Carrying(m, value).job_id = job_id
<1>1. <<>> \in ReplyValues
  BY DEF ReplyValues
<1> HIDE DEF ReplyValues, ReplyTypes
<1> QED  BY <1>1 DEF Message, Carrying, Replies

\* An open slot whose connection stays: the table stays well-formed.
LEMMA SlotUpdate ==
  ASSUME NEW cl, ClientsOK(cl), NEW i \in Slots, Open(cl, i), NEW c \in ClientType,
         c.fd = cl[i].fd, c.conn = cl[i].conn, c.phase = "READING" => c.output = NoMessage
  PROVE  LET n == [cl EXCEPT ![i] = c]
         IN  ClientsOK(n) /\ n[i] = c /\ \A k \in Slots : k # i => n[k] = cl[k]
<1> DEFINE n == [cl EXCEPT ![i] = c]
<1>1. cl \in [Slots -> ClientType]
  BY DEF ClientsOK
<1>2. /\ n \in [Slots -> ClientType]
      /\ n[i] = c /\ \A k \in Slots : k # i => n[k] = cl[k]
  <2> HIDE DEF ClientType
  <2> QED  BY <1>1
<1> HIDE DEF n
<1>3. \A k \in Slots : n[k].fd = cl[k].fd /\ n[k].conn = cl[k].conn
                       /\ (Open(n, k) <=> Open(cl, k))
  BY <1>2 DEF Open
<1>4. ClientsOK(n)
  BY <1>2, <1>3 DEF ClientsOK
<1> QED  BY <1>2, <1>4 DEF n

\* A closed slot serves nobody and has nothing to send.
LEMMA ClosedSlotType ==
  /\ NoClient \in ClientType /\ NoClient.fd = -1 /\ NoClient.worker_id = 0
  /\ NoClient.output = NoMessage /\ NoClient.phase = "READING"
<1>1. NOW - IO_TIMEOUT \in Int /\ -1 \in Int /\ 0 \in 0..MAX_WORKER_ID
  BY Clock, RegistryConstants
<1>2. NoMessage \in Replies
  BY ReplyType DEF NoMessage, ReplyTypes, ReplyValues
<1> HIDE DEF NoMessage
<1>3. NoClient \in ClientType
  BY <1>1, <1>2 DEF NoClient, ClientType
<1> QED  BY <1>3 DEF NoClient

\* A closed slot is free, and free slots are well-formed.
LEMMA SlotClosed ==
  ASSUME NEW cl, ClientsOK(cl), NEW i \in Slots
  PROVE  LET n == [cl EXCEPT ![i] = NoClient]
         IN  ClientsOK(n) /\ n[i] = NoClient /\ \A k \in Slots : k # i => n[k] = cl[k]
<1> DEFINE n == [cl EXCEPT ![i] = NoClient]
<1>1. cl \in [Slots -> ClientType]
  BY DEF ClientsOK
<1>2. NoClient \in ClientType
  BY ClosedSlotType
<1>3. /\ n \in [Slots -> ClientType]
      /\ n[i] = NoClient /\ \A k \in Slots : k # i => n[k] = cl[k]
  <2> HIDE DEF ClientType, NoClient
  <2> QED  BY <1>1, <1>2
<1>4. /\ NoClient.fd = -1 /\ NoClient.worker_id = 0 /\ NoClient.output = NoMessage
      /\ NoClient.phase = "READING"
  BY ClosedSlotType
<1> HIDE DEF n
<1>5. ClientsOK(n)
  <2> HIDE DEF NoClient
  <2> QED  BY <1>3, <1>4, SMTT(90) DEF ClientsOK, Open
<1> QED  BY <1>3, <1>5 DEF n

-----------------------------------------------------------------------------
(* Steps that settle prepared values.                                      *)

\* The values of st, after some time.
SettledFrom(st) ==
  /\ sched' = st.sched
  /\ workers'.next_worker_id = st.workers.next_worker_id
  /\ \A k \in 1..MAX_WORKERS :
       /\ workers'.slots[k].id = st.workers.slots[k].id
       /\ workers'.slots[k].fd = st.workers.slots[k].fd
       /\ workers'.slots[k].state = st.workers.slots[k].state
       /\ NOW - st.workers.slots[k].last_heartbeat <= HEARTBEAT_TIMEOUT =>
            workers'.slots[k].last_heartbeat <= st.workers.slots[k].last_heartbeat
  /\ \A i \in Slots : SameClient(st.clients[i], clients'[i])

\* The passage of time keeps the tables, and moves no time forward.
LEMMA AgedRegistry ==
  ASSUME NEW w \in RegistryType, RegistryOK(w), LeasesOK(w), NEW d \in Nat
  PROVE  LET t == AgedWorkers(w, d)
         IN  /\ t \in RegistryType /\ RegistryOK(t) /\ LeasesOK(t)
             /\ t.next_worker_id = w.next_worker_id
             /\ \A k \in 1..MAX_WORKERS :
                  /\ t.slots[k].id = w.slots[k].id /\ t.slots[k].fd = w.slots[k].fd
                  /\ t.slots[k].state = w.slots[k].state
                  /\ NOW - w.slots[k].last_heartbeat <= HEARTBEAT_TIMEOUT =>
                       t.slots[k].last_heartbeat <= w.slots[k].last_heartbeat
<1> DEFINE aged(k) == [w.slots[k] EXCEPT !.last_heartbeat =
                         Past(w.slots[k].last_heartbeat, d, HEARTBEAT_TIMEOUT)]
           t == AgedWorkers(w, d)
<1>1. /\ w = [slots |-> w.slots, next_worker_id |-> w.next_worker_id]
      /\ w.next_worker_id \in 0..MAX_WORKER_ID
      /\ w.slots \in [1..MAX_WORKERS -> WorkerType]
  BY RegistryShape
<1> DEFINE ages == [k \in 1..MAX_WORKERS |-> aged(k)]
<1>2. t = [slots |-> ages, next_worker_id |-> w.next_worker_id]
  <2>1. t = [w EXCEPT !.slots = ages]
    BY DEF AgedWorkers
  <2> HIDE DEF t, ages
  <2> QED  BY <1>1, <2>1
<1>   t.slots = [k \in 1..MAX_WORKERS |-> aged(k)] /\ t.next_worker_id = w.next_worker_id
  <2>1. t.slots = ages /\ t.next_worker_id = w.next_worker_id
    <3> HIDE DEF t, ages
    <3> QED  BY <1>2
  <2> HIDE DEF t
  <2> QED  BY <2>1
<1>4. \A k \in 1..MAX_WORKERS : t.slots[k] = aged(k)
  OBVIOUS
<1>5. ASSUME NEW k \in 1..MAX_WORKERS
      PROVE  /\ aged(k) \in WorkerType
             /\ aged(k).id = w.slots[k].id /\ aged(k).fd = w.slots[k].fd
             /\ aged(k).state = w.slots[k].state
             /\ aged(k).last_heartbeat =
                  Past(w.slots[k].last_heartbeat, d, HEARTBEAT_TIMEOUT)
             /\ w.slots[k].last_heartbeat \in Int
  <2>1. w.slots[k] \in WorkerType
    BY <1>1
  <2>2. w.slots[k].last_heartbeat \in Int
    BY <2>1 DEF WorkerType
  <2>3. Past(w.slots[k].last_heartbeat, d, HEARTBEAT_TIMEOUT) \in Int
    BY <2>2, Clock, SMTT(90) DEF Past
  <2> HIDE DEF Past
  <2>4. aged(k) \in WorkerType
    BY <2>1, <2>3 DEF WorkerType
  <2> QED  BY <2>1, <2>2, <2>4 DEF WorkerType
<1> HIDE DEF t, aged, ages
<1>6. t.slots \in [1..MAX_WORKERS -> WorkerType]
  <2> HIDE DEF WorkerType
  <2> QED  BY <1>5
<1>7. t \in RegistryType
  BY <1>1, <1>2, <1>6 DEF RegistryType, WorkerType
<1>   \A k \in 1..MAX_WORKERS :
        /\ t.slots[k].id = w.slots[k].id /\ t.slots[k].fd = w.slots[k].fd
        /\ t.slots[k].state = w.slots[k].state
        /\ t.slots[k].last_heartbeat =
             Past(w.slots[k].last_heartbeat, d, HEARTBEAT_TIMEOUT)
        /\ w.slots[k].last_heartbeat \in Int
  BY <1>4, <1>5
<1>9. RegistryOK(t)
  BY SMTT(90) DEF RegistryOK
<1>10. ASSUME NEW k \in 1..MAX_WORKERS, NOW - w.slots[k].last_heartbeat <= HEARTBEAT_TIMEOUT
       PROVE  /\ t.slots[k].last_heartbeat <= w.slots[k].last_heartbeat
              /\ NOW - t.slots[k].last_heartbeat <= HEARTBEAT_TIMEOUT
              /\ t.slots[k].last_heartbeat \in Int
  BY <1>10, Clock, SMTT(90) DEF Past
<1>11. LeasesOK(t)
  BY <1>10, Clock, SMTT(90) DEF LeasesOK
<1> QED  BY <1>7, <1>9, <1>10, <1>11 DEF t

\* The same for the client slots: they keep all but their times.
LEMMA AgedSlot ==
  ASSUME NEW cl \in [Slots -> ClientType], NEW d \in Nat
  PROVE  LET n == AgedClients(cl, d)
         IN  n \in [Slots -> ClientType] /\ \A i \in Slots : SameClient(cl[i], n[i])
<1> DEFINE aged(i) == [cl[i] EXCEPT !.last_progress = Past(cl[i].last_progress, d, IO_TIMEOUT),
                                    !.since = Past(cl[i].since, d, IO_TIMEOUT)]
           n == AgedClients(cl, d)
<1>1. ASSUME NEW i \in Slots
      PROVE  aged(i) \in ClientType /\ SameClient(cl[i], aged(i))
  <2>1. cl[i] \in ClientType
    OBVIOUS
  <2>2. cl[i].last_progress \in Int /\ cl[i].since \in Int
    BY <2>1 DEF ClientType
  <2>3. /\ Past(cl[i].last_progress, d, IO_TIMEOUT) \in Int
        /\ Past(cl[i].since, d, IO_TIMEOUT) \in Int
    BY <2>2, Clock DEF Past
  <2> HIDE DEF Past
  <2>4. aged(i) \in ClientType
    BY <2>1, <2>3 DEF ClientType
  <2>5. SameClient(cl[i], aged(i))
    BY <2>1 DEF SameClient, ClientType
  <2> QED  BY <2>4, <2>5
<1>2. n = [i \in Slots |-> aged(i)]
  BY DEF AgedClients
<1> HIDE DEF aged, n
<1>3. n \in [Slots -> ClientType] /\ \A i \in Slots : SameClient(cl[i], n[i])
  <2> HIDE DEF ClientType
  <2> QED  BY <1>1, <1>2
<1> QED  BY <1>3 DEF n

\* They stay well-formed.
LEMMA AgedSlots ==
  ASSUME NEW cl, ClientsOK(cl), NEW d \in Nat
  PROVE  LET n == AgedClients(cl, d)
         IN  ClientsOK(n) /\ \A i \in Slots : SameClient(cl[i], n[i])
<1> DEFINE n == AgedClients(cl, d)
<1>1. n \in [Slots -> ClientType] /\ \A i \in Slots : SameClient(cl[i], n[i])
  BY AgedSlot DEF ClientsOK
<1> HIDE DEF n
<1>2. \A i \in Slots : Open(n, i) <=> Open(cl, i)
  BY <1>1 DEF Open, SameClient
<1>3. ClientsOK(n)
  BY <1>1, <1>2 DEF ClientsOK, SameClient
<1> QED  BY <1>1, <1>3 DEF n

\* Settle keeps what holds of the values it settles.
LEMMA Settled ==
  ASSUME NEW st, NEW sent, StateOK(st, sent), NEW d \in Nat, Settle(st, d)
  PROVE  StateOK(Here', sent) /\ SettledFrom(st)
<1>   /\ workers' \in RegistryType /\ RegistryOK(workers') /\ LeasesOK(workers')
      /\ workers'.next_worker_id = st.workers.next_worker_id
      /\ \A k \in 1..MAX_WORKERS :
           /\ workers'.slots[k].id = st.workers.slots[k].id
           /\ workers'.slots[k].fd = st.workers.slots[k].fd
           /\ workers'.slots[k].state = st.workers.slots[k].state
           /\ NOW - st.workers.slots[k].last_heartbeat <= HEARTBEAT_TIMEOUT =>
                workers'.slots[k].last_heartbeat <= st.workers.slots[k].last_heartbeat
  BY AgedRegistry DEF StateOK, Settle
<1>   ClientsOK(clients') /\ \A i \in Slots : SameClient(st.clients[i], clients'[i])
  BY AgedSlots DEF StateOK, Settle
<1>3. sched' = st.sched /\ up' = st.up
  BY DEF Settle
<1>4. Agree(workers', clients')
  <2>1. \A i \in Slots, k \in 1..MAX_WORKERS :
          RecordOf(workers', clients', i, k) <=> RecordOf(st.workers, st.clients, i, k)
    BY DEF RecordOf, SameClient
  <2>2. Agree(st.workers, st.clients)
    BY DEF StateOK
  <2> QED  BY <2>1, <2>2 DEF Agree, SameClient
<1>5. AcksKnown(sched', clients', sent)
  BY <1>3 DEF StateOK, AcksKnown, SameClient
<1>6. /\ Here'.sched = sched' /\ Here'.workers = workers' /\ Here'.clients = clients'
      /\ Here'.up = up'
      /\ Here' = [sched |-> Here'.sched, workers |-> Here'.workers,
                  clients |-> Here'.clients, up |-> Here'.up]
  BY DEF Here
<1>7. StateOK(Here', sent)
  <2>1. /\ SchedulerOK(sched') /\ NotAfter(sched', 0) /\ DOMAIN up' = Conns
        /\ \A c \in Conns : FramesOK(up'[c])
    BY <1>3 DEF StateOK
  <2> QED  BY <1>4, <1>5, <1>6, <2>1 DEF StateOK
<1> QED  BY <1>3, <1>7 DEF SettledFrom

\* What a step that serves slot i leaves: consistent values in which every
\* assignment is in flight, or a latched failure; the replies of the other
\* slots; no new assignment; and no lease renewed that had run out.
Served(st, i) ==
  /\ StateOK(Here', dispatched)
  /\ \/ UNCHANGED <<failure, unsynced>> /\ InFlightBut(sched', clients', dispatched, 0)
     \/ failure' = "FATAL" /\ UnsyncedOK'
  /\ \A k \in Slots : k # i => SameClient(st.clients[k], clients'[k])
  /\ \A n \in DOMAIN st.sched.jobs :
       n \in DOMAIN sched'.jobs
       /\ (sched'.jobs[n].state = "ASSIGNED" => sched'.jobs[n] = st.sched.jobs[n])
  /\ \A k \in 1..MAX_WORKERS :
       TimedOut(st.workers.slots[k], NOW, HEARTBEAT_TIMEOUT) =>
         workers'.slots[k].last_heartbeat <= st.workers.slots[k].last_heartbeat

\* Assignments stay in flight while only time passes.
LEMMA InFlightSettled ==
  ASSUME NEW st, NEW sent, NEW id, SettledFrom(st), InFlightBut(st.sched, st.clients, sent, id)
  PROVE  InFlightBut(sched', clients', sent, id)
<1>1. ASSUME NEW job, InFlight(job, st.clients, sent)
      PROVE  InFlight(job, clients', sent)
  BY <1>1 DEF InFlight, SettledFrom, SameClient
<1> QED  BY <1>1 DEF InFlightBut, SettledFrom

\* A commit that publishes.
LEMMA PublishedStep ==
  ASSUME NEW st, StateOK(st, dispatched), InFlightBut(st.sched, st.clients, dispatched, 0),
         NEW d \in Nat, Published(st, d)
  PROVE  /\ StateOK(Here', dispatched) /\ SettledFrom(st)
         /\ UNCHANGED <<failure, unsynced>> /\ InFlightBut(sched', clients', dispatched, 0)
<1>1. StateOK(Here', dispatched) /\ SettledFrom(st)
  BY Settled DEF Published
<1> QED  BY <1>1, InFlightSettled DEF Published

\* A commit that fails.
LEMMA FailedStep ==
  ASSUME NEW st, StateOK(st, dispatched), NEW s, SchedulerOK(s), NotAfter(s, 0),
         DOMAIN st.sched.jobs \subseteq DOMAIN s.jobs, NEW n \in 0..MAX_WORKER_ID,
         Failed(st, s, n)
  PROVE  /\ StateOK(Here', dispatched) /\ SettledFrom(st)
         /\ failure' = "FATAL" /\ UnsyncedOK'
<1>1. StateOK(Here', dispatched) /\ SettledFrom(st)
  BY Settled DEF Failed
<1>2. unsynced' = <<[sched |-> s, next_worker_id |-> n]>> /\ failure' = "FATAL"
  BY DEF Failed
<1>3. UnsyncedOK'
  <2>1. SUFFICES ASSUME NEW k \in DOMAIN unsynced'
                 PROVE  /\ unsynced'[k].sched = s /\ unsynced'[k].next_worker_id = n
    BY <1>1, <2>1 DEF UnsyncedOK, SettledFrom
  <2> QED  BY <1>2
<1> QED  BY <1>1, <1>2, <1>3

\* The fields of the values of a step.
LEMMA StateFields ==
  ASSUME NEW s, NEW w, NEW cl, NEW u
  PROVE  LET st == [sched |-> s, workers |-> w, clients |-> cl, up |-> u]
         IN  /\ st.sched = s /\ st.workers = w /\ st.clients = cl /\ st.up = u
             /\ st = [sched |-> st.sched, workers |-> st.workers, clients |-> st.clients,
                      up |-> st.up]
OBVIOUS

\* A connection with nothing on it.
LEMMA NoFrames == FramesOK(<<>>)
BY DEF FramesOK

\* A frame is added.
LEMMA FrameAdded ==
  ASSUME NEW q, FramesOK(q), NEW m, RequestOK(m)
  PROVE  FramesOK(Append(q, m))
<1> DEFINE S == {q[n] : n \in DOMAIN q} \cup {m}
           r == Append(q, m)
<1>1. q \in Seq({q[n] : n \in DOMAIN q})
  BY DEF FramesOK
<1>2. q \in Seq(S) /\ m \in S
  BY <1>1
<1> HIDE DEF S
<1>3. r \in Seq(S) /\ \A n \in DOMAIN r : (n \in DOMAIN q /\ r[n] = q[n]) \/ r[n] = m
  BY <1>2
<1> HIDE DEF r
<1>4. r \in Seq({r[n] : n \in DOMAIN r})
  BY <1>3
<1>5. \A n \in DOMAIN r : RequestOK(r[n])
  BY <1>3 DEF FramesOK
<1> QED  BY <1>4, <1>5 DEF FramesOK, r

\* A frame is taken.
LEMMA FrameTaken ==
  ASSUME NEW q, FramesOK(q), q # <<>>
  PROVE  RequestOK(Head(q)) /\ FramesOK(Tail(q))
<1> DEFINE S == {q[n] : n \in DOMAIN q}
           r == Tail(q)
<1>1. q \in Seq(S) /\ \A x \in S : RequestOK(x)
  BY DEF FramesOK
<1> HIDE DEF S
<1>2. Head(q) \in S /\ r \in Seq(S)
  BY <1>1
<1> HIDE DEF r
<1>3. r \in Seq({r[n] : n \in DOMAIN r}) /\ \A n \in DOMAIN r : r[n] \in S
  BY <1>2
<1> QED  BY <1>1, <1>2, <1>3 DEF FramesOK, r

\* A record of the values a step passes along, and what replacing three of its
\* fields gives.
Fields(st) ==
  st = [sched |-> st.sched, workers |-> st.workers, clients |-> st.clients, up |-> st.up]

Replaced(st, w, i, x, c, y) ==
  [st EXCEPT !.workers = w, !.clients[i] = x, !.up[c] = y]
  = [sched |-> st.sched, workers |-> w, clients |-> [st.clients EXCEPT ![i] = x],
     up |-> [st.up EXCEPT ![c] = y]]

\* The three replacements do not meet.
LEMMA ClosedFields ==
  ASSUME NEW st, NEW dead, NEW i, NEW x, NEW c, NEW y, Fields(st)
  PROVE  Replaced(st, dead, i, x, c, y)
<1> DEFINE s == st.sched
           cl == st.clients
           u == st.up
           a == [st EXCEPT !.workers = dead]
           b == [a EXCEPT !.clients[i] = x]
           e == [b EXCEPT !.up[c] = y]
<1>1. a = [sched |-> s, workers |-> dead, clients |-> cl, up |-> u]
  BY DEF Fields
<1> HIDE DEF a, s, cl, u
<1>2. b = [sched |-> s, workers |-> dead, clients |-> [cl EXCEPT ![i] = x], up |-> u]
  BY <1>1
<1> HIDE DEF b
<1>3. e = [sched |-> s, workers |-> dead, clients |-> [cl EXCEPT ![i] = x],
           up |-> [u EXCEPT ![c] = y]]
  BY <1>2, SMTT(90)
<1> HIDE DEF e
<1> QED  BY <1>3 DEF Replaced, a, b, e, s, cl, u

\* What a closed connection leaves in the tables w, cl and u: its worker is
\* dead, and every other connection is as it was.
ClosedOK(st, i, w, cl, u, sent) ==
  /\ w \in RegistryType /\ RegistryOK(w) /\ LeasesOK(w)
  /\ w.next_worker_id = st.workers.next_worker_id
  /\ \A k \in 1..MAX_WORKERS :
       w.slots[k].last_heartbeat = st.workers.slots[k].last_heartbeat
  /\ ClientsOK(cl) /\ Agree(w, cl)
  /\ cl[i] = NoClient /\ \A k \in Slots : k # i => cl[k] = st.clients[k]
  /\ DOMAIN u = Conns
  /\ \A c \in Conns : FramesOK(u[c])
  /\ AcksKnown(st.sched, cl, sent)

\* close_client's changes of the tables.
LEMMA ClosedState ==
  ASSUME NEW st, NEW sent, StateOK(st, sent), NEW i \in Slots, Open(st.clients, i)
  PROVE  ClosedOK(st, i, MarkDead(st.workers, st.clients[i].worker_id, st.clients[i].fd),
                  [st.clients EXCEPT ![i] = NoClient],
                  [st.up EXCEPT ![st.clients[i].conn] = <<>>], sent)
<1> DEFINE client == st.clients[i]
           id == client.worker_id
           w  == MarkDead(st.workers, id, client.fd)
           cl == [st.clients EXCEPT ![i] = NoClient]
           u  == [st.up EXCEPT ![client.conn] = <<>>]
<1>   /\ ClientsOK(cl) /\ cl[i] = NoClient
      /\ \A k \in Slots : k # i => cl[k] = st.clients[k]
  BY SlotClosed DEF StateOK
<1>2. NoClient.worker_id = 0 /\ NoClient.output.type = "NONE" /\ NoClient.fd = -1
  BY DEF NoClient, NoMessage, Message
<1>3. DOMAIN u = Conns /\ \A c \in Conns : FramesOK(u[c])
  <2>1. /\ DOMAIN st.up = Conns
        /\ \A c \in Conns : FramesOK(st.up[c])
    BY DEF StateOK
  <2> HIDE DEF client
  <2>2. DOMAIN u = Conns
    BY <2>1
  <2>3. \A c \in Conns : u[c] = st.up[c] \/ u[c] = <<>>
    BY <2>1
  <2> HIDE DEF u
  <2> QED  BY <2>1, <2>2, <2>3, NoFrames
<1>4. AcksKnown(st.sched, cl, sent)
  <2> HIDE DEF cl
  <2> QED  BY <1>2 DEF StateOK, AcksKnown
<1>   /\ st.workers \in RegistryType /\ RegistryOK(st.workers) /\ LeasesOK(st.workers)
      /\ Agree(st.workers, st.clients)
  BY DEF StateOK
<1> DEFINE goal ==
      /\ w \in RegistryType /\ RegistryOK(w) /\ LeasesOK(w)
      /\ w.next_worker_id = st.workers.next_worker_id
      /\ \A k \in 1..MAX_WORKERS :
           w.slots[k].last_heartbeat = st.workers.slots[k].last_heartbeat
      /\ Agree(w, cl)
<1>6. ASSUME id = 0 PROVE goal
  <2>1. w = st.workers
    BY <1>6 DEF MarkDead, LiveConnection, Alive
  <2> HIDE DEF w, cl
  <2>2. \A k \in Slots : cl[k].worker_id # 0 => k # i
    BY <1>2
  <2>3. \A k \in Slots : st.clients[k].worker_id # 0 => k # i
    BY <1>6
  <2>4. Agree(w, cl)
    BY <2>1, <2>2, <2>3, SMTT(90) DEF Agree, RecordOf
  <2> QED  BY <2>1, <2>4
<1>7. ASSUME id # 0 PROVE goal
  <2>1. PICK j \in 1..MAX_WORKERS : RecordOf(st.workers, st.clients, i, j)
    BY <1>7 DEF Agree
  <2>2. /\ st.workers.slots[j].state = "ALIVE" /\ st.workers.slots[j].id = id
        /\ st.workers.slots[j].fd = client.fd
    BY <2>1 DEF RecordOf
  <2> DEFINE dead == [st.workers.slots[j] EXCEPT !.state = "DEAD", !.fd = -1]
  <2>3. /\ w \in RegistryType /\ RegistryOK(w)
        /\ SlotReplaced(st.workers, w, j, dead)
        /\ w.next_worker_id = st.workers.next_worker_id
    BY <1>7, <2>2, DeadSlot
  <2>4. dead.state = "DEAD" /\ dead.last_heartbeat = st.workers.slots[j].last_heartbeat
    <3>1. st.workers.slots[j] \in WorkerType
      BY RegistryShape
    <3> QED  BY <3>1 DEF WorkerType
  <2> HIDE DEF dead, w, cl, id
  <2>   /\ w.slots[j].state = "DEAD"
        /\ w.slots[j].last_heartbeat = st.workers.slots[j].last_heartbeat
        /\ \A k \in 1..MAX_WORKERS : k # j => w.slots[k] = st.workers.slots[k]
    BY <2>3, <2>4 DEF SlotReplaced
  <2>6. LeasesOK(w)
    BY DEF LeasesOK
  <2>7. Agree(w, cl)
    <3>1. ASSUME NEW k \in Slots, cl[k].worker_id # 0
          PROVE  \E n \in 1..MAX_WORKERS : RecordOf(w, cl, k, n)
      <4>1. k # i /\ cl[k] = st.clients[k]
        BY <1>2, <3>1
      <4>2. PICK n \in 1..MAX_WORKERS : RecordOf(st.workers, st.clients, k, n)
        BY <3>1, <4>1 DEF Agree
      <4>3. n # j
        <5>1. st.clients[k].fd # st.clients[i].fd
          BY <4>1 DEF StateOK, ClientsOK
        <5> QED  BY <2>1, <4>2, <5>1 DEF RecordOf
      <4> QED  BY <4>1, <4>2, <4>3 DEF RecordOf
    <3>2. ASSUME NEW n \in 1..MAX_WORKERS, w.slots[n].state = "ALIVE"
          PROVE  \E k \in Slots : cl[k].worker_id # 0 /\ RecordOf(w, cl, k, n)
      <4>1. n # j /\ w.slots[n] = st.workers.slots[n]
        BY <3>2
      <4>2. PICK k \in Slots : st.clients[k].worker_id # 0
                               /\ RecordOf(st.workers, st.clients, k, n)
        BY <3>2, <4>1 DEF Agree
      <4>3. k # i
        <5>1. st.workers.slots[n].id # st.workers.slots[j].id
          BY <2>2, <3>2, <4>1 DEF RegistryOK
        <5> QED  BY <2>1, <4>2, <5>1 DEF RecordOf
      <4> QED  BY <4>1, <4>2, <4>3 DEF RecordOf
    <3> QED  BY <3>1, <3>2 DEF Agree
  <2>8. \A k \in 1..MAX_WORKERS :
          w.slots[k].last_heartbeat = st.workers.slots[k].last_heartbeat
    OBVIOUS
  <2> QED  BY <2>3, <2>6, <2>7, <2>8
<1>8. goal
  BY <1>6, <1>7
<1> HIDE DEF w, cl, u
<1>9. ClosedOK(st, i, w, cl, u, sent)
  BY <1>3, <1>4, <1>8 DEF ClosedOK
<1> QED  BY <1>9 DEF w, cl, u

\* What close_client commits.
LEMMA Closes ==
  ASSUME NEW st, Fields(st), NEW i, NEW d, CloseClient(st, i, d)
  PROVE  LET client == st.clients[i]
             id == client.worker_id
             w  == MarkDead(st.workers, id, client.fd)
             cl == [st.clients EXCEPT ![i] = NoClient]
             u  == [st.up EXCEPT ![client.conn] = <<>>]
             Closed(s) == [sched |-> s, workers |-> w, clients |-> cl, up |-> u]
             lost == WorkerLost(st.sched, id, 0)
         IN  \/ /\ Busy(st.sched, id)
                /\ Published(Closed(lost), d) \/ Failed(Closed(st.sched), lost, w.next_worker_id)
             \/ ~Busy(st.sched, id) /\ Published(Closed(st.sched), d)
<1> DEFINE client == st.clients[i]
           id == client.worker_id
           w  == MarkDead(st.workers, id, client.fd)
           cl == [st.clients EXCEPT ![i] = NoClient]
           u  == [st.up EXCEPT ![client.conn] = <<>>]
           Closed(s) == [sched |-> s, workers |-> w, clients |-> cl, up |-> u]
           lost == WorkerLost(st.sched, id, 0)
<1> DEFINE closed == [st EXCEPT !.workers = MarkDead(@, client.worker_id, client.fd),
                                !.clients[i] = NoClient, !.up[client.conn] = <<>>]
<1>1. closed = Closed(st.sched) /\ [closed EXCEPT !.sched = lost] = Closed(lost)
  <2>1. Replaced(st, w, i, NoClient, client.conn, <<>>)
    BY ClosedFields
  <2>2. closed = Closed(st.sched)
    BY <2>1 DEF Replaced
  <2> HIDE DEF closed, w, cl, u
  <2> QED  BY <2>2
<1>2. closed.workers = w
  <2> HIDE DEF closed, w, cl, u
  <2> QED  BY <1>1
<1>3. ASSUME Busy(st.sched, id)
      PROVE  Published(Closed(lost), d) \/ Failed(Closed(st.sched), lost, w.next_worker_id)
  <2>1. \/ Published([closed EXCEPT !.sched = lost], d)
        \/ Failed(closed, lost, closed.workers.next_worker_id)
    BY <1>3 DEF CloseClient
  <2> HIDE DEF closed, w, cl, u, lost
  <2> QED  BY <1>1, <1>2, <2>1
<1>4. ASSUME ~Busy(st.sched, id)
      PROVE  Published(Closed(st.sched), d)
  <2>1. Published(closed, d)
    BY <1>4 DEF CloseClient
  <2> HIDE DEF closed, w, cl, u, lost
  <2> QED  BY <1>1, <2>1
<1> QED  BY <1>3, <1>4

\* close_client keeps the invariant, whatever else its caller has changed for
\* this connection: the attempt of its worker is settled with it.
LEMMA CloseStep ==
  ASSUME NEW st, StateOK(st, dispatched), NEW i \in Slots, Open(st.clients, i),
         InFlightBut(st.sched, st.clients, dispatched, st.clients[i].worker_id),
         NEW d \in Nat, CloseClient(st, i, d)
  PROVE  Served(st, i) /\ clients'[i].phase = "READING" /\ clients'[i].conn = "none"
<1> DEFINE client == st.clients[i]
           id == client.worker_id
           w  == MarkDead(st.workers, id, client.fd)
           cl == [st.clients EXCEPT ![i] = NoClient]
           u  == [st.up EXCEPT ![client.conn] = <<>>]
           Closed(s) == [sched |-> s, workers |-> w, clients |-> cl, up |-> u]
           lost == WorkerLost(st.sched, id, 0)
<1>   ClosedOK(st, i, w, cl, u, dispatched)
  BY ClosedState
<1>   /\ Fields(st)
      /\ SchedulerOK(st.sched) /\ NotAfter(st.sched, 0)
  BY DEF StateOK, Fields
<1>3. \/ /\ Busy(st.sched, id)
         /\ Published(Closed(lost), d) \/ Failed(Closed(st.sched), lost, w.next_worker_id)
      \/ ~Busy(st.sched, id) /\ Published(Closed(st.sched), d)
  BY Closes
<1> HIDE DEF w, cl, u, lost
<1>4. InFlightBut(st.sched, cl, dispatched, id)
  <2>1. SUFFICES ASSUME NEW k \in DOMAIN st.sched.jobs, IsActive(st.sched.jobs[k]),
                        st.sched.jobs[k].worker_id # id
                 PROVE  InFlight(st.sched.jobs[k], cl, dispatched)
    BY DEF InFlightBut
  <2>2. InFlight(st.sched.jobs[k], st.clients, dispatched)
    BY <2>1 DEF InFlightBut
  <2> QED  BY <2>1, <2>2 DEF InFlight, ClosedOK
<1>5. ASSUME NEW s, SchedulerOK(s), NotAfter(s, 0), DOMAIN st.sched.jobs \subseteq DOMAIN s.jobs
      PROVE  StateOK(Closed(s), dispatched)
  <2>1. AcksKnown(s, cl, dispatched)
    BY <1>5 DEF AcksKnown, ClosedOK
  <2>2. LET c == Closed(s)
        IN  /\ c.sched = s /\ c.workers = w /\ c.clients = cl /\ c.up = u
            /\ c = [sched |-> c.sched, workers |-> c.workers, clients |-> c.clients, up |-> c.up]
    BY StateFields
  <2> HIDE DEF Closed
  <2> QED  BY <1>5, <2>1, <2>2 DEF StateOK, ClosedOK
<1>6. ASSUME NEW s, SettledFrom(Closed(s)), StateOK(Here', dispatched),
             \/ UNCHANGED <<failure, unsynced>> /\ InFlightBut(sched', clients', dispatched, 0)
             \/ failure' = "FATAL" /\ UnsyncedOK',
             \A n \in DOMAIN st.sched.jobs :
               n \in DOMAIN s.jobs
               /\ (s.jobs[n].state = "ASSIGNED" => s.jobs[n] = st.sched.jobs[n])
      PROVE  Served(st, i) /\ clients'[i].phase = "READING" /\ clients'[i].conn = "none"
  <2>1. Closed(s).sched = s /\ Closed(s).workers = w /\ Closed(s).clients = cl
    BY StateFields
  <2>2. NoClient.phase = "READING" /\ NoClient.conn = "none"
    BY DEF NoClient
  <2> HIDE DEF Closed
  <2>3. sched' = s /\ \A k \in Slots : SameClient(cl[k], clients'[k])
    BY <1>6, <2>1 DEF SettledFrom
  <2>4. ASSUME NEW k \in 1..MAX_WORKERS,
               TimedOut(st.workers.slots[k], NOW, HEARTBEAT_TIMEOUT)
        PROVE  workers'.slots[k].last_heartbeat <= st.workers.slots[k].last_heartbeat
    <3>1. NOW - st.workers.slots[k].last_heartbeat <= HEARTBEAT_TIMEOUT
      BY <2>4 DEF TimedOut, StateOK, LeasesOK
    <3> QED  BY <1>6, <2>1, <3>1 DEF SettledFrom, ClosedOK
  <2>5. clients'[i].phase = "READING" /\ clients'[i].conn = "none"
    BY <2>2, <2>3 DEF SameClient, ClosedOK
  <2> QED  BY <1>6, <2>3, <2>4, <2>5 DEF Served, ClosedOK
<1> HIDE DEF Closed
<1>7. CASE Busy(st.sched, id)
  <2>1. PICK n \in DOMAIN st.sched.jobs :
          IsActive(st.sched.jobs[n]) /\ st.sched.jobs[n].worker_id = id
    BY <1>7, BusySlot, SMTT(90)
  <2>2. Outcome(st.sched, lost, n, 0) /\ ~IsActive(lost.jobs[n])
    BY <2>1, AttemptLost DEF lost
  <2>   /\ SchedulerOK(lost) /\ NotAfter(lost, 0) /\ DOMAIN lost.jobs = DOMAIN st.sched.jobs
        /\ \A k \in DOMAIN st.sched.jobs :
             k # n => lost.jobs[k] = st.sched.jobs[k]
        /\ lost.jobs[n].state # "ASSIGNED"
    BY <2>2 DEF Outcome
  <2>4. StateOK(Closed(lost), dispatched) /\ StateOK(Closed(st.sched), dispatched)
    BY <1>5
  <2>5. CASE Published(Closed(lost), d)
    <3>1. InFlightBut(lost, cl, dispatched, 0)
      <4>1. SUFFICES ASSUME NEW k \in DOMAIN lost.jobs, IsActive(lost.jobs[k])
                     PROVE  InFlight(lost.jobs[k], cl, dispatched)
        BY DEF InFlightBut
      <4>2. k # n /\ lost.jobs[k] = st.sched.jobs[k] /\ k \in DOMAIN st.sched.jobs
        BY <2>2, <4>1
      <4>3. st.sched.jobs[k].worker_id # id
        BY <2>1, <4>1, <4>2 DEF SchedulerOK, OwnersOK
      <4> QED  BY <1>4, <4>1, <4>2, <4>3 DEF InFlightBut
    <3>2. InFlightBut(Closed(lost).sched, Closed(lost).clients, dispatched, 0)
      BY <3>1, StateFields DEF Closed
    <3>3. /\ StateOK(Here', dispatched) /\ SettledFrom(Closed(lost))
          /\ UNCHANGED <<failure, unsynced>> /\ InFlightBut(sched', clients', dispatched, 0)
      BY <2>4, <2>5, <3>2, PublishedStep
    <3> QED  BY <1>6, <3>3
  <2>6. CASE Failed(Closed(st.sched), lost, w.next_worker_id)
    <3>1. Closed(st.sched).sched = st.sched
      BY StateFields DEF Closed
    <3>2. w.next_worker_id \in 0..MAX_WORKER_ID
      BY RegistryShape DEF ClosedOK
    <3>3. /\ StateOK(Here', dispatched) /\ SettledFrom(Closed(st.sched))
          /\ failure' = "FATAL" /\ UnsyncedOK'
      BY <2>4, <2>6, <3>1, <3>2, FailedStep
    <3> QED  BY <1>6, <3>3
  <2> QED  BY <1>3, <1>7, <2>5, <2>6
<1>8. CASE ~Busy(st.sched, id)
  <2>1. Published(Closed(st.sched), d) /\ StateOK(Closed(st.sched), dispatched)
    BY <1>3, <1>5, <1>8
  <2>2. InFlightBut(st.sched, cl, dispatched, 0)
    <3>1. SUFFICES ASSUME NEW k \in DOMAIN st.sched.jobs, IsActive(st.sched.jobs[k])
                   PROVE  InFlight(st.sched.jobs[k], cl, dispatched)
      BY DEF InFlightBut
    <3>2. st.sched.jobs[k].worker_id # id
      BY <1>8, <3>1, ActiveOwned, ActiveSlot, SMTT(90)
    <3> QED  BY <1>4, <3>1, <3>2 DEF InFlightBut
  <2>3. InFlightBut(Closed(st.sched).sched, Closed(st.sched).clients, dispatched, 0)
    BY <2>2, StateFields DEF Closed
  <2>4. /\ StateOK(Here', dispatched) /\ SettledFrom(Closed(st.sched))
        /\ UNCHANGED <<failure, unsynced>> /\ InFlightBut(sched', clients', dispatched, 0)
    BY <2>1, <2>3, PublishedStep
  <2> QED  BY <1>6, <2>4
<1> QED  BY <1>7, <1>8

-----------------------------------------------------------------------------
(* Handlers: what they prepare, and what they leave.                       *)

Values(s, w, cl, u) == [sched |-> s, workers |-> w, clients |-> cl, up |-> u]

\* What replacing one slot, or the table and one slot, gives.
SlotSet(st, i, c) ==
  [st EXCEPT !.clients[i] = c]
  = Values(st.sched, st.workers, [st.clients EXCEPT ![i] = c], st.up)

\* The table and the slot do not meet.
LEMMA SlotField ==
  ASSUME NEW st, NEW i, NEW c, Fields(st)
  PROVE  SlotSet(st, i, c)
<1> DEFINE s == st.sched
           w == st.workers
           cl == st.clients
           u == st.up
<1>1. st = [sched |-> s, workers |-> w, clients |-> cl, up |-> u]
  BY DEF Fields
<1> HIDE DEF s, w, cl, u
<1>2. [st EXCEPT !.clients[i] = c] = [sched |-> s, workers |-> w, clients |-> [cl EXCEPT ![i] = c],
                                      up |-> u]
  BY <1>1
<1> QED  BY <1>2 DEF SlotSet, Values, s, w, cl, u

\* Values built from consistent tables and one changed slot are consistent.
LEMMA NewState ==
  ASSUME NEW st, NEW sent, StateOK(st, sent), NEW i \in Slots, Open(st.clients, i),
         NEW c \in ClientType, c.fd = st.clients[i].fd, c.conn = st.clients[i].conn,
         c.phase = "READING" => c.output = NoMessage,
         NEW s, SchedulerOK(s), NotAfter(s, 0), DOMAIN st.sched.jobs \subseteq DOMAIN s.jobs,
         c.output.type = "JOB_SUBMIT_ACK" => c.output.job_id \in DOMAIN s.jobs,
         NEW w \in RegistryType, RegistryOK(w), LeasesOK(w),
         NEW cl, cl = [st.clients EXCEPT ![i] = c], Agree(w, cl),
         NEW u, DOMAIN u = Conns, \A k \in Conns : FramesOK(u[k])
  PROVE  /\ StateOK(Values(s, w, cl, u), sent)
         /\ cl[i] = c /\ (\A k \in Slots : k # i => cl[k] = st.clients[k]) /\ Open(cl, i)
<1>1. ClientsOK(cl) /\ cl[i] = c /\ \A k \in Slots : k # i => cl[k] = st.clients[k]
  BY SlotUpdate, SMTT(90) DEF StateOK
<1>2. AcksKnown(s, cl, sent)
  <2>1. AcksKnown(st.sched, st.clients, sent)
    BY DEF StateOK
  <2> QED  BY <1>1, <2>1 DEF AcksKnown
<1>3. LET v == Values(s, w, cl, u)
      IN  /\ v.sched = s /\ v.workers = w /\ v.clients = cl /\ v.up = u
          /\ v = [sched |-> v.sched, workers |-> v.workers, clients |-> v.clients, up |-> v.up]
  BY StateFields DEF Values
<1>4. StateOK(Values(s, w, cl, u), sent)
  BY <1>1, <1>2, <1>3 DEF StateOK
<1> QED  BY <1>1, <1>4 DEF Open

\* A client whose connection stays serves the same worker: the registry and
\* the slots still agree.
LEMMA AgreeSlot ==
  ASSUME NEW w, NEW cl, NEW n, NEW i \in Slots, Agree(w, cl),
         n[i].fd = cl[i].fd, n[i].worker_id = cl[i].worker_id,
         \A k \in Slots : k # i => n[k] = cl[k]
  PROVE  Agree(w, n)
<1>1. \A k \in Slots : n[k].fd = cl[k].fd /\ n[k].worker_id = cl[k].worker_id
  OBVIOUS
<1>2. \A k \in Slots, j \in 1..MAX_WORKERS : RecordOf(w, n, k, j) <=> RecordOf(w, cl, k, j)
  BY <1>1 DEF RecordOf
<1> QED  BY <1>1, <1>2 DEF Agree

\* Values t prepared for slot i from st: no other slot changed, no job went
\* away or was assigned, and no lease that had run out was renewed.
Follows(st, t, i) ==
  /\ \A k \in Slots : k # i => t.clients[k] = st.clients[k]
  /\ \A n \in DOMAIN st.sched.jobs :
       n \in DOMAIN t.sched.jobs
       /\ (t.sched.jobs[n].state = "ASSIGNED" => t.sched.jobs[n] = st.sched.jobs[n])
  /\ \A k \in 1..MAX_WORKERS :
       TimedOut(st.workers.slots[k], NOW, HEARTBEAT_TIMEOUT) =>
         t.workers.slots[k] = st.workers.slots[k]

\* Serving the prepared values serves the slot.
LEMMA ServedFrom ==
  ASSUME NEW st, NEW t, NEW i \in Slots, Follows(st, t, i), Served(t, i)
  PROVE  Served(st, i)
<1>1. /\ StateOK(Here', dispatched)
      /\ \/ UNCHANGED <<failure, unsynced>> /\ InFlightBut(sched', clients', dispatched, 0)
         \/ failure' = "FATAL" /\ UnsyncedOK'
  BY DEF Served
<1>2. \A k \in Slots : k # i => SameClient(st.clients[k], clients'[k])
  BY DEF Served, Follows
<1>3. \A n \in DOMAIN st.sched.jobs :
        n \in DOMAIN sched'.jobs
        /\ (sched'.jobs[n].state = "ASSIGNED" => sched'.jobs[n] = st.sched.jobs[n])
  BY DEF Served, Follows
<1>4. \A k \in 1..MAX_WORKERS :
        TimedOut(st.workers.slots[k], NOW, HEARTBEAT_TIMEOUT) =>
          workers'.slots[k].last_heartbeat <= st.workers.slots[k].last_heartbeat
  <2>1. ASSUME NEW k \in 1..MAX_WORKERS, TimedOut(st.workers.slots[k], NOW, HEARTBEAT_TIMEOUT)
        PROVE  workers'.slots[k].last_heartbeat <= st.workers.slots[k].last_heartbeat
    <3>1. t.workers.slots[k] = st.workers.slots[k]
      BY <2>1 DEF Follows
    <3> QED  BY <2>1, <3>1 DEF Served
  <2> QED  BY <2>1
<1> QED  BY <1>1, <1>2, <1>3, <1>4 DEF Served

\* Values whose commit was published.
LEMMA PublishedServed ==
  ASSUME NEW st, StateOK(st, dispatched), InFlightBut(st.sched, st.clients, dispatched, 0),
         NEW i \in Slots, NEW d \in Nat, Published(st, d)
  PROVE  Served(st, i) /\ SameClient(st.clients[i], clients'[i])
<1>1. /\ StateOK(Here', dispatched) /\ SettledFrom(st)
      /\ UNCHANGED <<failure, unsynced>> /\ InFlightBut(sched', clients', dispatched, 0)
  BY PublishedStep
<1>2. \A k \in 1..MAX_WORKERS :
        TimedOut(st.workers.slots[k], NOW, HEARTBEAT_TIMEOUT) =>
          NOW - st.workers.slots[k].last_heartbeat <= HEARTBEAT_TIMEOUT
  BY DEF StateOK, LeasesOK, TimedOut
<1> QED  BY <1>1, <1>2 DEF SettledFrom, Served

\* Values whose commit failed.
LEMMA FailedServed ==
  ASSUME NEW st, StateOK(st, dispatched), NEW s, SchedulerOK(s), NotAfter(s, 0),
         DOMAIN st.sched.jobs \subseteq DOMAIN s.jobs, NEW n \in 0..MAX_WORKER_ID,
         Failed(st, s, n), NEW i \in Slots
  PROVE  Served(st, i) /\ SameClient(st.clients[i], clients'[i])
<1>1. /\ StateOK(Here', dispatched) /\ SettledFrom(st)
      /\ failure' = "FATAL" /\ UnsyncedOK'
  BY FailedStep
<1>2. \A k \in 1..MAX_WORKERS :
        TimedOut(st.workers.slots[k], NOW, HEARTBEAT_TIMEOUT) =>
          NOW - st.workers.slots[k].last_heartbeat <= HEARTBEAT_TIMEOUT
  BY DEF StateOK, LeasesOK, TimedOut
<1> QED  BY <1>1, <1>2 DEF SettledFrom, Served

\* A worker is served by one slot.
LEMMA OneSlot ==
  ASSUME NEW st, NEW sent, StateOK(st, sent), NEW i \in Slots, NEW k \in Slots,
         st.clients[i].worker_id # 0, st.clients[k].worker_id = st.clients[i].worker_id
  PROVE  i = k
<1>1. PICK a \in 1..MAX_WORKERS : RecordOf(st.workers, st.clients, i, a)
  BY DEF StateOK, Agree
<1>2. PICK b \in 1..MAX_WORKERS : RecordOf(st.workers, st.clients, k, b)
  BY DEF StateOK, Agree
<1>3. a = b
  BY <1>1, <1>2 DEF StateOK, RegistryOK, RecordOf
<1>4. st.clients[i].fd = st.clients[k].fd
  BY <1>1, <1>2, <1>3 DEF RecordOf
<1>5. Open(st.clients, i)
  BY DEF StateOK, ClientsOK
<1> QED  BY <1>4, <1>5 DEF StateOK, ClientsOK

\* An assignment is no empty buffer.
LEMMA AssignmentType ==
  ASSUME NEW job
  PROVE  Assignment(job).type = "JOB_ASSIGN" /\ Assignment(job) # NoMessage
<1>1. Assignment(job).type = "JOB_ASSIGN" /\ NoMessage.type = "NONE"
  BY DEF Assignment, Carrying, Message, NoMessage
<1> QED  BY <1>1

\* A slot that is being read, between handlers.
Reading(st, i) ==
  /\ StateOK(st, dispatched) /\ InFlightBut(st.sched, st.clients, dispatched, 0)
  /\ Open(st.clients, i) /\ st.clients[i].phase = "READING"

\* The assignment of its worker's attempt was sent in full.
LEMMA ReadingSent ==
  ASSUME NEW st, NEW i \in Slots, Reading(st, i), NEW n \in DOMAIN st.sched.jobs,
         IsActive(st.sched.jobs[n]), st.sched.jobs[n].worker_id = st.clients[i].worker_id
  PROVE  Assignment(st.sched.jobs[n]) \in dispatched
<1>1. StateOK(st, dispatched) /\ SchedulerOK(st.sched)
  BY DEF Reading, StateOK
<1>2. st.sched.jobs[n].worker_id # 0
  BY <1>1, ActiveOwned
<1>3. PICK k \in Slots :
        /\ st.clients[k].worker_id # 0
        /\ st.clients[k].worker_id = st.sched.jobs[n].worker_id
        /\ \/ st.clients[k].output = Assignment(st.sched.jobs[n])
           \/ Assignment(st.sched.jobs[n]) \in dispatched
  BY <1>2 DEF Reading, InFlightBut, InFlight
<1>4. k = i
  BY <1>1, <1>3, OneSlot
<1>5. st.clients[i].output = NoMessage
  BY <1>1 DEF Reading, StateOK, ClientsOK
<1> QED  BY <1>3, <1>4, <1>5, AssignmentType

\* queue_message keeps the invariant, when the message is true and replaces no
\* assignment.
LEMMA QueueStep ==
  ASSUME NEW st, StateOK(st, dispatched), NEW i \in Slots, Open(st.clients, i),
         InFlightBut(st.sched, st.clients, dispatched, st.clients[i].worker_id),
         NEW m \in Replies, m.type = "JOB_SUBMIT_ACK" => m.job_id \in DOMAIN st.sched.jobs,
         \A n \in DOMAIN st.sched.jobs :
           (IsActive(st.sched.jobs[n]) /\ st.sched.jobs[n].worker_id = st.clients[i].worker_id)
             => Assignment(st.sched.jobs[n]) = m \/ Assignment(st.sched.jobs[n]) \in dispatched,
         NEW d \in Nat, QueueMessage(st, i, m, d)
  PROVE  Served(st, i)
<1> DEFINE old == st.clients[i]
           c  == [old EXCEPT !.output = m, !.sent = FALSE, !.phase = "WRITING",
                             !.last_progress = NOW + d, !.since = NOW + d]
           cl == [st.clients EXCEPT ![i] = c]
           t  == Values(st.sched, st.workers, cl, st.up)
<1>   Fields(st) /\ SchedulerOK(st.sched) /\ NotAfter(st.sched, 0) /\ ClientsOK(st.clients)
      /\ Agree(st.workers, st.clients) /\ st.clients \in [Slots -> ClientType]
  BY DEF StateOK, Fields, ClientsOK
<1>2. old \in ClientType /\ NOW + d \in Int
  BY Clock
<1>3. /\ c \in ClientType /\ c.fd = old.fd /\ c.conn = old.conn /\ c.phase = "WRITING"
      /\ c.worker_id = old.worker_id /\ c.output = m
  <2> HIDE DEF old
  <2> DEFINE time == NOW + d
  <2>1. time \in Int
    BY <1>2
  <2> HIDE DEF time, Replies
  <2>2. c \in ClientType
    BY <1>2, <2>1 DEF ClientType, time
  <2> QED  BY <1>2, <2>2 DEF ClientType
<1>4. CASE CloseClient(st, i, d)
  BY <1>4, CloseStep
<1>5. CASE Published(t, d)
  <2> HIDE DEF c
  <2>   cl[i] = c /\ \A k \in Slots : k # i => cl[k] = st.clients[k]
    <3> HIDE DEF ClientType
    <3> QED  OBVIOUS
  <2> HIDE DEF cl
  <2>2. Agree(st.workers, cl)
    BY <1>3, AgreeSlot, SMTT(90)
  <2>3. StateOK(t, dispatched)
    BY <1>3, <2>2, NewState, SMTT(90) DEF StateOK, cl
  <2>4. InFlightBut(st.sched, cl, dispatched, 0)
    <3>1. SUFFICES ASSUME NEW n \in DOMAIN st.sched.jobs, IsActive(st.sched.jobs[n])
                   PROVE  InFlight(st.sched.jobs[n], cl, dispatched)
      BY DEF InFlightBut
    <3>2. CASE st.sched.jobs[n].worker_id = old.worker_id
      <4>1. old.worker_id # 0
        BY <3>1, <3>2, ActiveOwned, SMTT(90)
      <4> QED  BY <1>3, <3>1, <3>2, <4>1 DEF InFlight
    <3>3. CASE st.sched.jobs[n].worker_id # old.worker_id
      BY <3>1, <3>3 DEF InFlightBut, InFlight
    <3> QED  BY <3>2, <3>3
  <2>5. t.sched = st.sched /\ t.clients = cl /\ t.workers = st.workers
    BY StateFields DEF Values
  <2> HIDE DEF t
  <2>6. Served(t, i)
    BY <1>5, <2>3, <2>4, <2>5, PublishedServed
  <2>7. Follows(st, t, i)
    BY <2>5 DEF Follows
  <2> QED  BY <2>6, <2>7, ServedFrom
<1>6. SlotSet(st, i, c)
  BY SlotField
<1> QED  BY <1>4, <1>5, <1>6 DEF QueueMessage, SlotSet

\* A slot whose bookkeeping changes is still being read.
LEMMA ReadSlot ==
  ASSUME NEW st, NEW i \in Slots, Reading(st, i), NEW c \in ClientType,
         c.fd = st.clients[i].fd, c.conn = st.clients[i].conn,
         c.worker_id = st.clients[i].worker_id, c.phase = "READING", c.output = NoMessage,
         NEW u, DOMAIN u = Conns, \A k \in Conns : FramesOK(u[k]),
         NEW cl, cl = [st.clients EXCEPT ![i] = c],
         NEW t, t = Values(st.sched, st.workers, cl, u)
  PROVE  /\ Reading(t, i) /\ Follows(st, t, i)
         /\ t.sched = st.sched /\ t.workers = st.workers /\ t.clients[i] = c /\ t.up = u
<1>   /\ StateOK(st, dispatched) /\ Open(st.clients, i) /\ SchedulerOK(st.sched)
      /\ NotAfter(st.sched, 0) /\ Agree(st.workers, st.clients)
      /\ st.clients \in [Slots -> ClientType] /\ st.clients[i].output = NoMessage
      /\ InFlightBut(st.sched, st.clients, dispatched, 0)
  BY DEF Reading, StateOK, ClientsOK
<1>   cl[i] = c /\ \A k \in Slots : k # i => cl[k] = st.clients[k]
  <2> HIDE DEF ClientType
  <2> QED  OBVIOUS
<1>3. Agree(st.workers, cl)
  BY AgreeSlot, SMTT(90)
<1>4. c.output.type # "JOB_SUBMIT_ACK"
  BY SMTT(90) DEF NoMessage, Message
<1>5. StateOK(t, dispatched) /\ Open(cl, i)
  BY <1>3, <1>4, NewState, SMTT(90) DEF StateOK
<1>6. t.sched = st.sched /\ t.workers = st.workers /\ t.clients = cl /\ t.up = u
  BY StateFields DEF Values
<1>7. InFlightBut(t.sched, t.clients, dispatched, 0)
  <2>1. \A k \in Slots : cl[k].worker_id = st.clients[k].worker_id
                         /\ cl[k].output = st.clients[k].output
    OBVIOUS
  <2> QED  BY <1>6, <2>1, SMTT(90) DEF InFlightBut, InFlight
<1>8. Follows(st, t, i)
  BY <1>6 DEF Follows
<1> QED  BY <1>5, <1>6, <1>7, <1>8 DEF Reading

\* A reply on a connection that was being read.
LEMMA ReplyStep ==
  ASSUME NEW st, NEW i \in Slots, Reading(st, i), NEW m \in Replies,
         m.type = "JOB_SUBMIT_ACK" => m.job_id \in DOMAIN st.sched.jobs,
         NEW d \in Nat, QueueMessage(st, i, m, d)
  PROVE  Served(st, i)
<1>1. /\ StateOK(st, dispatched) /\ Open(st.clients, i)
      /\ InFlightBut(st.sched, st.clients, dispatched, st.clients[i].worker_id)
  <2>1. InFlightBut(st.sched, st.clients, dispatched, 0) /\ SchedulerOK(st.sched)
    BY DEF Reading, StateOK
  <2> QED  BY <2>1, ActiveOwned DEF Reading, InFlightBut
<1>2. \A n \in DOMAIN st.sched.jobs :
        (IsActive(st.sched.jobs[n]) /\ st.sched.jobs[n].worker_id = st.clients[i].worker_id)
          => Assignment(st.sched.jobs[n]) \in dispatched
  BY ReadingSent
<1> QED  BY <1>1, <1>2, QueueStep

\* An open connection is closed, whatever is being sent on it.
LEMMA CloseOpen ==
  ASSUME NEW st, NEW i \in Slots, StateOK(st, dispatched), Open(st.clients, i),
         InFlightBut(st.sched, st.clients, dispatched, 0),
         NEW d \in Nat, CloseClient(st, i, d) \/ Reject(st, i, d)
  PROVE  Served(st, i) /\ clients'[i].phase = "READING"
<1>1. InFlightBut(st.sched, st.clients, dispatched, st.clients[i].worker_id)
  <2>1. SchedulerOK(st.sched)
    BY DEF StateOK
  <2> QED  BY <2>1, ActiveOwned DEF InFlightBut
<1>2. CloseClient(st, i, d)
  BY DEF Reject
<1> QED  BY <1>1, <1>2, CloseStep

\* A query marks its connection as a client's.
LEMMA AskedSlot ==
  ASSUME NEW st, NEW i \in Slots, Reading(st, i)
  PROVE  LET t == [st EXCEPT !.clients[i].job_client = TRUE]
         IN  Reading(t, i) /\ Follows(st, t, i) /\ t.sched = st.sched
<1> DEFINE old == st.clients[i]
           c  == [old EXCEPT !.job_client = TRUE]
           cl == [st.clients EXCEPT ![i] = c]
           t  == Values(st.sched, st.workers, cl, st.up)
<1>1. /\ Fields(st) /\ st.clients \in [Slots -> ClientType] /\ old.output = NoMessage
      /\ old.phase = "READING" /\ DOMAIN st.up = Conns
      /\ \A k \in Conns : FramesOK(st.up[k])
  BY DEF Reading, StateOK, Fields, ClientsOK
<1>2. old \in ClientType
  BY <1>1
<1>3. /\ c \in ClientType /\ c.fd = old.fd /\ c.conn = old.conn /\ c.phase = old.phase
      /\ c.worker_id = old.worker_id /\ c.output = old.output
  <2> HIDE DEF old, Replies
  <2>1. c \in ClientType
    BY <1>2 DEF ClientType
  <2> QED  BY <1>2, <2>1 DEF ClientType
<1>4. SlotSet(st, i, c)
  BY <1>1, SlotField
<1>5. [st EXCEPT !.clients[i].job_client = TRUE] = t
  BY <1>4 DEF SlotSet
<1>6. Reading(t, i) /\ Follows(st, t, i) /\ t.sched = st.sched
  <2> HIDE DEF c, t, cl
  <2> QED  BY <1>1, <1>3, ReadSlot, SMTT(90) DEF t, cl
<1> HIDE DEF t
<1> QED  BY <1>5, <1>6

-----------------------------------------------------------------------------
(* The handlers.                                                           *)

\* A reply to a query, after the query marked its connection.
LEMMA AnswerStep ==
  ASSUME NEW st, NEW i \in Slots, Reading(st, i), NEW m \in Replies,
         m.type # "JOB_SUBMIT_ACK",
         LET t == [st EXCEPT !.clients[i].job_client = TRUE]
         IN  QueueMessage(t, i, m, 0) \/ CloseClient(t, i, 0)
  PROVE  Served(st, i)
<1> DEFINE t == [st EXCEPT !.clients[i].job_client = TRUE]
<1>1. Reading(t, i) /\ Follows(st, t, i)
  BY AskedSlot
<1>2. QueueMessage(t, i, m, 0) \/ CloseClient(t, i, 0)
  OBVIOUS
<1> HIDE DEF t
<1>3. Served(t, i)
  BY <1>1, <1>2, ReplyStep, CloseOpen DEF Reading
<1> QED  BY <1>1, <1>3, ServedFrom

\* The loop's answer to a status request is one of its replies.
LEMMA StatusType ==
  ASSUME NEW s, SchedulerOK(s), NEW id \in Nat
  PROVE  StatusReply(s, id) \in Replies /\ StatusReply(s, id).type # "JOB_SUBMIT_ACK"
<1> DEFINE job == s.jobs[FindSlot(s, id)]
<1>1. CASE Known(s, id)
  <2>1. id \in DOMAIN s.jobs /\ FindSlot(s, id) = id /\ s.jobs[id] \in JobType
    BY <1>1, KnownJob, SlotOfJob DEF Known
  <2>2. job.state \in JobStates /\ job.result \in Results \cup {NoResult}
    BY <2>1 DEF JobType
  <2> DEFINE value == <<job.state, job.result>>
  <2>3. value \in ReplyValues
    BY <2>2 DEF ReplyValues
  <2>4. StatusReply(s, id) = Carrying(Message("JOB_STATUS_RESPONSE", 0, id, 0), value)
    BY <1>1 DEF StatusReply
  <2> HIDE DEF value
  <2>5. "JOB_STATUS_RESPONSE" \in ReplyTypes /\ 0 \in Nat
    BY DEF ReplyTypes
  <2> QED  BY <2>3, <2>4, <2>5, ReplyType, SMTT(90)
<1>2. CASE ~Known(s, id)
  <2>1. StatusReply(s, id) = Message("JOB_STATUS_NOT_FOUND", 0, id, 0)
    BY <1>2 DEF StatusReply
  <2>2. "JOB_STATUS_NOT_FOUND" \in ReplyTypes /\ <<>> \in ReplyValues /\ 0 \in Nat
    BY DEF ReplyTypes, ReplyValues
  <2> QED  BY <2>1, <2>2, ReplyType, SMTT(90)
<1> QED  BY <1>1, <1>2

\* A reply that carries nothing.
LEMMA PlainReply ==
  ASSUME NEW type \in ReplyTypes, NEW w \in Nat, NEW j \in Nat
  PROVE  /\ Message(type, w, j, 0) \in Replies /\ Message(type, w, j, 0).type = type
         /\ Message(type, w, j, 0).job_id = j
<1>1. <<>> \in ReplyValues /\ 0 \in Nat
  BY DEF ReplyValues
<1> QED  BY <1>1, ReplyType, SMTT(90)

\* Queries and PING: one reply, or the connection is closed.
LEMMA QueryStep ==
  ASSUME NEW st, NEW i \in Slots, Reading(st, i), NEW m, RequestOK(m),
         \/ QueueMessage(st, i, Message("PONG", 0, 0, 0), 0)
         \/ HandleStatus(st, i, m)
         \/ QueueListing(st, i, m)
         \/ HandleStats(st, i)
  PROVE  Served(st, i)
<1>   SchedulerOK(st.sched) /\ StateOK(st, dispatched) /\ m.job_id \in Nat /\ 0 \in Nat
  BY DEF Reading, StateOK, RequestOK
<1>2. CASE QueueMessage(st, i, Message("PONG", 0, 0, 0), 0)
  <2>1. "PONG" \in ReplyTypes
    BY DEF ReplyTypes
  <2> DEFINE r == Message("PONG", 0, 0, 0)
  <2>2. r \in Replies /\ r.type = "PONG"
    BY <2>1, PlainReply
  <2>3. QueueMessage(st, i, r, 0)
    BY <1>2
  <2> HIDE DEF r
  <2> QED  BY <2>2, <2>3, ReplyStep
<1>3. CASE HandleStatus(st, i, m)
  <2> DEFINE r == StatusReply(st.sched, m.job_id)
  <2>1. r \in Replies /\ r.type # "JOB_SUBMIT_ACK"
    BY StatusType
  <2>2. QueueMessage([st EXCEPT !.clients[i].job_client = TRUE], i, r, 0)
    BY <1>3 DEF HandleStatus
  <2> HIDE DEF r
  <2> QED  BY <2>1, <2>2, AnswerStep
<1>4. CASE QueueListing(st, i, m)
  <2>1. CASE CloseClient(st, i, 0)
    BY <2>1, CloseOpen DEF Reading
  <2> DEFINE type == IF m.type = "JOBS_REQUEST" THEN "JOBS_RESPONSE" ELSE "WORKERS_RESPONSE"
             r == Message(type, 0, 0, 0)
  <2>2. CASE QueueMessage([st EXCEPT !.clients[i].job_client = TRUE], i, r, 0)
    <3>1. type \in ReplyTypes /\ type # "JOB_SUBMIT_ACK"
      BY DEF ReplyTypes
    <3> HIDE DEF type
    <3>2. r \in Replies /\ r.type # "JOB_SUBMIT_ACK"
      BY <3>1, PlainReply
    <3> HIDE DEF r
    <3> QED  BY <2>2, <3>2, AnswerStep
  <2> QED  BY <1>4, <2>1, <2>2 DEF QueueListing
<1>5. CASE HandleStats(st, i)
  <2> DEFINE r == Message("STATS_RESPONSE", 0, 0, 0)
             t == [st EXCEPT !.clients[i].job_client = TRUE]
  <2>1. "STATS_RESPONSE" \in ReplyTypes
    BY DEF ReplyTypes
  <2>2. r \in Replies /\ r.type = "STATS_RESPONSE"
    BY <2>1, PlainReply
  <2>3. QueueMessage(t, i, r, 0) \/ CloseClient(t, i, 0)
    BY <1>5 DEF HandleStats
  <2> HIDE DEF r
  <2> QED  BY <2>2, <2>3, AnswerStep
<1> QED  BY <1>2, <1>3, <1>4, <1>5

\* Values a with the slots of st and the tables s and w.
Updated(st, a, s, w) ==
  Fields(a) /\ a.sched = s /\ a.workers = w /\ a.clients = st.clients /\ a.up = st.up

\* One table of the values replaced.
LEMMA TableFields ==
  ASSUME NEW st, Fields(st), NEW s, NEW w
  PROVE  /\ Updated(st, [st EXCEPT !.workers = w], st.sched, w)
         /\ Updated(st, [st EXCEPT !.sched = s], s, st.workers)
<1> DEFINE s0 == st.sched
           w0 == st.workers
           cl == st.clients
           u  == st.up
           a  == [st EXCEPT !.workers = w]
           b  == [st EXCEPT !.sched = s]
<1>1. st = [sched |-> s0, workers |-> w0, clients |-> cl, up |-> u]
  BY DEF Fields
<1> HIDE DEF s0, w0, cl, u
<1>2. a = [sched |-> s0, workers |-> w, clients |-> cl, up |-> u]
  BY <1>1
<1>3. b = [sched |-> s, workers |-> w0, clients |-> cl, up |-> u]
  BY <1>1
<1> HIDE DEF a, b
<1>4. Updated(st, a, s0, w)
  BY <1>2, StateFields DEF Updated, Fields, cl, u
<1>5. Updated(st, b, s, w0)
  BY <1>3, StateFields DEF Updated, Fields, cl, u
<1> QED  BY <1>4, <1>5 DEF a, b, s0, w0

\* handle_register: a connection without a worker gets the next identity.
LEMMA RegisterHandled ==
  ASSUME NEW st, NEW i \in Slots, Reading(st, i), NEW d \in Nat, HandleRegister(st, i, d)
  PROVE  Served(st, i)
<1> DEFINE old == st.clients[i]
           fd == old.fd
           id == st.workers.next_worker_id
           w  == Register(st.workers, fd, NOW)
           c  == [old EXCEPT !.worker_id = id]
           cl == [st.clients EXCEPT ![i] = c]
           t  == Values(st.sched, w, cl, st.up)
           m  == Message("WORKER_REGISTER_ACK", id, 0, 0)
<1>   /\ Fields(st) /\ StateOK(st, dispatched) /\ Open(st.clients, i)
      /\ st.workers \in RegistryType /\ RegistryOK(st.workers) /\ LeasesOK(st.workers)
      /\ Agree(st.workers, st.clients) /\ st.clients \in [Slots -> ClientType]
      /\ old.output = NoMessage /\ old.phase = "READING"
      /\ InFlightBut(st.sched, st.clients, dispatched, 0)
      /\ SchedulerOK(st.sched) /\ NotAfter(st.sched, 0)
  BY DEF Reading, StateOK, Fields, ClientsOK
<1>2. old \in ClientType /\ fd \in Nat
  <2>1. old \in ClientType
    OBVIOUS
  <2>2. old.fd \in Int /\ old.fd >= 0
    BY <2>1 DEF Open, ClientType
  <2> QED  BY <2>1, <2>2
<1>3. CASE Reject(st, i, d)
  BY <1>3, CloseOpen
<1>4. ASSUME RegisterOK(st.workers, fd, NOW)
      PROVE  /\ w \in RegistryType /\ RegistryOK(w) /\ id \in 1..MAX_WORKER_ID
             /\ \E k \in 1..MAX_WORKERS :
                  /\ st.workers.slots[k].state # "ALIVE"
                  /\ SlotReplaced(st.workers, w, k,
                       [id |-> id, fd |-> fd, state |-> "ALIVE", last_heartbeat |-> NOW])
             /\ w.next_worker_id \in 0..MAX_WORKER_ID
  <2>1. /\ w \in RegistryType /\ RegistryOK(w) /\ id \in 1..MAX_WORKER_ID
        /\ \E k \in 1..MAX_WORKERS :
             /\ st.workers.slots[k].state # "ALIVE"
             /\ SlotReplaced(st.workers, w, k,
                  [id |-> id, fd |-> fd, state |-> "ALIVE", last_heartbeat |-> NOW])
    BY <1>2, <1>4, Clock, RegisteredSlot
  <2>2. w.next_worker_id \in 0..MAX_WORKER_ID
    <3> HIDE DEF w
    <3> QED  BY <2>1, RegistryShape
  <2> QED  BY <2>1, <2>2
<1>5. CASE RegisterOK(st.workers, fd, NOW) /\ Failed(st, st.sched, w.next_worker_id)
  <2>1. w.next_worker_id \in 0..MAX_WORKER_ID
    BY <1>4, <1>5
  <2> HIDE DEF w
  <2> QED  BY <1>5, <2>1, FailedServed
<1>6. CASE RegisterOK(st.workers, fd, NOW) /\ QueueMessage(t, i, m, d)
  <2>1. PICK k \in 1..MAX_WORKERS :
          /\ st.workers.slots[k].state # "ALIVE"
          /\ SlotReplaced(st.workers, w, k,
               [id |-> id, fd |-> fd, state |-> "ALIVE", last_heartbeat |-> NOW])
    BY <1>4, <1>6
  <2>   w \in RegistryType /\ RegistryOK(w) /\ id \in 1..MAX_WORKER_ID
    BY <1>4, <1>6
  <2> HIDE DEF w, id
  <2>   /\ c \in ClientType /\ c.fd = old.fd /\ c.conn = old.conn /\ c.phase = old.phase
        /\ c.worker_id = id /\ c.output = old.output
    <3> HIDE DEF old, Replies
    <3>1. id \in 0..MAX_WORKER_ID
      OBVIOUS
    <3>2. c \in ClientType
      BY <1>2, <3>1 DEF ClientType
    <3> QED  BY <1>2, <3>2 DEF ClientType
  <2> HIDE DEF c
  <2>   cl[i] = c /\ \A j \in Slots : j # i => cl[j] = st.clients[j]
    <3> HIDE DEF ClientType
    <3> QED  OBVIOUS
  <2>   /\ w.slots[k].state = "ALIVE" /\ w.slots[k].id = id /\ w.slots[k].fd = fd
        /\ w.slots[k].last_heartbeat = NOW
        /\ \A j \in 1..MAX_WORKERS : j # k => w.slots[j] = st.workers.slots[j]
    BY <2>1, SMTT(90) DEF SlotReplaced
  <2>6. old.worker_id = 0
    <3>1. SUFFICES ASSUME old.worker_id # 0 PROVE FALSE
      OBVIOUS
    <3>2. PICK j \in 1..MAX_WORKERS : RecordOf(st.workers, st.clients, i, j)
      BY <3>1 DEF Agree
    <3> QED  BY <1>6, <3>2 DEF RecordOf, RegisterOK
  <2> HIDE DEF cl
  <2>7. Agree(w, cl)
    <3>1. ASSUME NEW j \in Slots, cl[j].worker_id # 0
          PROVE  \E n \in 1..MAX_WORKERS : RecordOf(w, cl, j, n)
      <4>1. CASE j = i
        <5>1. RecordOf(w, cl, j, k)
          BY <4>1 DEF RecordOf
        <5> QED  BY <5>1
      <4>2. CASE j # i
        <5>1. PICK n \in 1..MAX_WORKERS : RecordOf(st.workers, st.clients, j, n)
          BY <3>1, <4>2 DEF Agree
        <5>2. RecordOf(w, cl, j, n)
          BY <2>1, <4>2, <5>1 DEF RecordOf
        <5> QED  BY <5>2
      <4> QED  BY <4>1, <4>2
    <3>2. ASSUME NEW n \in 1..MAX_WORKERS, w.slots[n].state = "ALIVE"
          PROVE  \E j \in Slots : cl[j].worker_id # 0 /\ RecordOf(w, cl, j, n)
      <4>1. CASE n = k
        <5>1. cl[i].worker_id # 0 /\ RecordOf(w, cl, i, n)
          BY <4>1, RegistryConstants, SMTT(90) DEF RecordOf
        <5> QED  BY <5>1
      <4>2. CASE n # k
        <5>1. PICK j \in Slots : st.clients[j].worker_id # 0
                                 /\ RecordOf(st.workers, st.clients, j, n)
          BY <3>2, <4>2 DEF Agree
        <5>2. j # i
          BY <2>6, <5>1
        <5>3. cl[j].worker_id # 0 /\ RecordOf(w, cl, j, n)
          BY <4>2, <5>1, <5>2 DEF RecordOf
        <5> QED  BY <5>3
      <4> QED  BY <4>1, <4>2
    <3> QED  BY <3>1, <3>2 DEF Agree
  <2>8. LeasesOK(w)
    BY Clock, SMTT(90) DEF LeasesOK
  <2>9. StateOK(t, dispatched) /\ Open(cl, i)
    <3>1. c.output.type # "JOB_SUBMIT_ACK"
      BY SMTT(90) DEF NoMessage, Message
    <3> QED  BY <2>7, <2>8, <3>1, NewState, SMTT(90) DEF StateOK, cl
  <2>10. t.sched = st.sched /\ t.workers = w /\ t.clients = cl
    BY StateFields DEF Values
  <2> HIDE DEF t
  <2>11. InFlightBut(t.sched, t.clients, dispatched, 0)
    BY <2>6, <2>10, SMTT(90) DEF InFlightBut, InFlight
  <2>12. Follows(st, t, i)
    BY <2>1, <2>10 DEF Follows, TimedOut
  <2>13. Reading(t, i)
    BY <2>9, <2>10, <2>11 DEF Reading
  <2>14. m \in Replies /\ m.type # "JOB_SUBMIT_ACK"
    <3>1. "WORKER_REGISTER_ACK" \in ReplyTypes /\ id \in Nat /\ 0 \in Nat
      BY SMTT(90) DEF ReplyTypes
    <3> QED  BY <3>1, PlainReply
  <2> HIDE DEF m
  <2>15. Served(t, i)
    BY <1>6, <2>13, <2>14, ReplyStep
  <2> QED  BY <2>12, <2>15, ServedFrom
<1>7. [st EXCEPT !.workers = w, !.clients[i].worker_id = id] = t
  <2> DEFINE a == [st EXCEPT !.workers = w]
  <2> HIDE DEF w
  <2>1. Updated(st, a, st.sched, w)
    BY TableFields
  <2> HIDE DEF a
  <2>2. SlotSet(a, i, c)
    BY <2>1, SlotField DEF Updated
  <2> HIDE DEF c
  <2>3. [a EXCEPT !.clients[i] = c] = t
    BY <2>1, <2>2 DEF SlotSet, Values, Updated
  <2>4. [a EXCEPT !.clients[i].worker_id = id] = [a EXCEPT !.clients[i] = c]
    BY <2>1 DEF c, Updated
  <2> QED  BY <2>3, <2>4 DEF a
<1> HIDE DEF t
<1> QED  BY <1>3, <1>5, <1>6, <1>7 DEF HandleRegister

\* ResetInput keeps a connection that is being read what it is.
LEMMA ResetSlot ==
  ASSUME NEW st, NEW i \in Slots, Reading(st, i)
  PROVE  LET old == st.clients[i]
             c   == ResetInput(old)
         IN  /\ c \in ClientType /\ c.fd = old.fd /\ c.conn = old.conn /\ c.phase = "READING"
             /\ c.worker_id = old.worker_id /\ c.output = NoMessage
<1> DEFINE old == st.clients[i]
           c   == ResetInput(old)
<1>1. old \in ClientType /\ old.output = NoMessage
  BY DEF Reading, StateOK, ClientsOK
<1> HIDE DEF old, Replies
<1>2. c \in ClientType
  BY <1>1 DEF ClientType, ResetInput
<1>3. /\ c.fd = old.fd /\ c.conn = old.conn /\ c.phase = "READING"
      /\ c.worker_id = old.worker_id /\ c.output = old.output
  BY <1>1 DEF ClientType, ResetInput
<1> HIDE DEF c
<1> QED  BY <1>1, <1>2, <1>3 DEF c, old

\* handle_heartbeat: the lease of a worker whose lease has not run out is
\* renewed.
LEMMA HeartbeatHandled ==
  ASSUME NEW st, NEW i \in Slots, Reading(st, i), NEW m, NEW d \in Nat,
         HandleHeartbeat(st, i, m, d),
         \A k \in 1..MAX_WORKERS :
           RecordOf(st.workers, st.clients, i, k) =>
             ~TimedOut(st.workers.slots[k], NOW, HEARTBEAT_TIMEOUT)
  PROVE  Served(st, i)
<1> DEFINE old == st.clients[i]
           id == m.worker_id
           w  == Heartbeat(st.workers, id, NOW)
           c  == ResetInput(old)
           cl == [st.clients EXCEPT ![i] = c]
           t  == Values(st.sched, w, cl, st.up)
<1>   /\ Fields(st) /\ StateOK(st, dispatched) /\ Open(st.clients, i)
      /\ st.workers \in RegistryType /\ RegistryOK(st.workers) /\ LeasesOK(st.workers)
      /\ Agree(st.workers, st.clients) /\ st.clients \in [Slots -> ClientType]
      /\ old.output = NoMessage
      /\ InFlightBut(st.sched, st.clients, dispatched, 0)
      /\ SchedulerOK(st.sched) /\ NotAfter(st.sched, 0)
  BY DEF Reading, StateOK, Fields, ClientsOK
<1>2. CASE Reject(st, i, d)
  BY <1>2, CloseOpen
<1>3. CASE HeartbeatFits(st, i, m) /\ Published(t, 0)
  <2>   id = old.worker_id /\ LiveConnection(st.workers, id, old.fd) /\ id # 0
    BY <1>3 DEF HeartbeatFits, HeartbeatOK, LiveConnection, Alive
  <2>   PICK k \in 1..MAX_WORKERS :
          /\ st.workers.slots[k].state = "ALIVE" /\ st.workers.slots[k].id = id
          /\ SlotReplaced(st.workers, w, k,
                          [st.workers.slots[k] EXCEPT !.last_heartbeat = NOW])
    BY Clock, HeartbeatSlot
  <2>3. w \in RegistryType /\ RegistryOK(w)
    BY Clock, HeartbeatSlot
  <2> DEFINE record == [st.workers.slots[k] EXCEPT !.last_heartbeat = NOW]
  <2>4. /\ record.state = "ALIVE" /\ record.id = st.workers.slots[k].id
        /\ record.fd = st.workers.slots[k].fd /\ record.last_heartbeat = NOW
    <3>1. st.workers.slots[k] \in WorkerType
      BY RegistryShape
    <3> QED  BY <3>1 DEF WorkerType
  <2> HIDE DEF record, w
  <2>   /\ w.slots[k].state = "ALIVE" /\ w.slots[k].id = st.workers.slots[k].id
        /\ w.slots[k].fd = st.workers.slots[k].fd /\ w.slots[k].last_heartbeat = NOW
        /\ \A j \in 1..MAX_WORKERS : j # k => w.slots[j] = st.workers.slots[j]
    BY <2>4 DEF SlotReplaced, record
  <2>   /\ c \in ClientType /\ c.fd = old.fd /\ c.conn = old.conn /\ c.phase = "READING"
        /\ c.worker_id = old.worker_id /\ c.output = NoMessage
    BY ResetSlot
  <2> HIDE DEF c
  <2>7. cl[i] = c /\ \A j \in Slots : j # i => cl[j] = st.clients[j]
    <3> HIDE DEF ClientType
    <3> QED  OBVIOUS
  <2> HIDE DEF cl
  <2>8. Agree(w, cl)
    <3>1. Agree(st.workers, cl)
      BY <2>7, AgreeSlot, SMTT(90)
    <3>2. \A j \in Slots, n \in 1..MAX_WORKERS :
            RecordOf(w, cl, j, n) <=> RecordOf(st.workers, cl, j, n)
      BY DEF RecordOf
    <3>3. \A n \in 1..MAX_WORKERS :
            w.slots[n].state = "ALIVE" <=> st.workers.slots[n].state = "ALIVE"
      OBVIOUS
    <3> QED  BY <3>1, <3>2, <3>3 DEF Agree
  <2>9. LeasesOK(w)
    BY Clock DEF LeasesOK
  <2>10. StateOK(t, dispatched)
    <3>1. c.output.type # "JOB_SUBMIT_ACK"
      BY DEF NoMessage, Message
    <3> QED  BY <2>3, <2>8, <2>9, <3>1, NewState, SMTT(90) DEF StateOK, cl
  <2>11. t.sched = st.sched /\ t.workers = w /\ t.clients = cl
    BY StateFields DEF Values
  <2> HIDE DEF t
  <2>12. InFlightBut(t.sched, t.clients, dispatched, 0)
    BY <2>7, <2>11, SMTT(90) DEF InFlightBut, InFlight
  <2>13. RecordOf(st.workers, st.clients, i, k)
    <3>1. PICK n \in 1..MAX_WORKERS : RecordOf(st.workers, st.clients, i, n)
      BY DEF Agree
    <3>2. n = k
      BY <3>1 DEF RegistryOK, RecordOf
    <3> QED  BY <3>1, <3>2
  <2>14. Follows(st, t, i)
    BY <2>7, <2>11, <2>13 DEF Follows
  <2>15. Served(t, i)
    BY <1>3, <2>10, <2>12, PublishedServed
  <2> QED  BY <2>14, <2>15, ServedFrom
<1>4. [st EXCEPT !.workers = w, !.clients[i] = c] = t
  <2> DEFINE a == [st EXCEPT !.workers = w]
  <2> HIDE DEF w, c
  <2>1. Updated(st, a, st.sched, w)
    BY TableFields
  <2> HIDE DEF a
  <2>2. SlotSet(a, i, c)
    BY <2>1, SlotField DEF Updated
  <2>3. [a EXCEPT !.clients[i] = c] = t
    BY <2>1, <2>2 DEF SlotSet, Values, Updated
  <2> QED  BY <2>3 DEF a
<1>5. [st EXCEPT !.workers = w, !.clients[i] = ResetInput(@)] = t
  <2> DEFINE a == [st EXCEPT !.workers = w]
  <2> HIDE DEF w
  <2>1. a.clients = st.clients
    BY TableFields DEF Updated
  <2> HIDE DEF a
  <2>2. [a EXCEPT !.clients[i] = ResetInput(@)] = [a EXCEPT !.clients[i] = c]
    BY <2>1
  <2> HIDE DEF c, t
  <2>3. [a EXCEPT !.clients[i] = c] = t
    BY <1>4 DEF a
  <2> QED  BY <2>2, <2>3 DEF a
<1> HIDE DEF t
<1> QED  BY <1>2, <1>3, <1>5 DEF HandleHeartbeat

\* A commit that changes the job table, with the slot it is for.  Every active
\* attempt was active before, with the same assignment.
LEMMA TableChanged ==
  ASSUME NEW st, NEW i \in Slots, Reading(st, i), NEW s, SchedulerOK(s), NotAfter(s, 0),
         DOMAIN st.sched.jobs \subseteq DOMAIN s.jobs,
         \A n \in DOMAIN st.sched.jobs :
           s.jobs[n].state = "ASSIGNED" => s.jobs[n] = st.sched.jobs[n],
         \A n \in DOMAIN s.jobs : IsActive(s.jobs[n]) =>
           /\ n \in DOMAIN st.sched.jobs /\ IsActive(st.sched.jobs[n])
           /\ s.jobs[n].worker_id = st.sched.jobs[n].worker_id
           /\ Assignment(s.jobs[n]) = Assignment(st.sched.jobs[n]),
         NEW c \in ClientType,
         c.fd = st.clients[i].fd, c.conn = st.clients[i].conn,
         c.worker_id = st.clients[i].worker_id, c.phase = "READING", c.output = NoMessage,
         NEW t, t = Values(s, st.workers, [st.clients EXCEPT ![i] = c], st.up)
  PROVE  Reading(t, i) /\ Follows(st, t, i) /\ t.sched = s
<1> DEFINE cl == [st.clients EXCEPT ![i] = c]
<1>   /\ StateOK(st, dispatched) /\ Open(st.clients, i)
      /\ st.workers \in RegistryType /\ RegistryOK(st.workers) /\ LeasesOK(st.workers)
      /\ Agree(st.workers, st.clients) /\ st.clients \in [Slots -> ClientType]
      /\ st.clients[i].output = NoMessage /\ SchedulerOK(st.sched)
      /\ InFlightBut(st.sched, st.clients, dispatched, 0)
  BY DEF Reading, StateOK, ClientsOK
<1>   cl[i] = c /\ \A j \in Slots : j # i => cl[j] = st.clients[j]
  <2> HIDE DEF ClientType
  <2> QED  OBVIOUS
<1>3. t = Values(s, st.workers, cl, st.up)
  OBVIOUS
<1> HIDE DEF cl
<1>4. Agree(st.workers, cl)
  BY AgreeSlot, SMTT(90)
<1>5. StateOK(t, dispatched) /\ Open(cl, i)
  <2>1. c.output.type # "JOB_SUBMIT_ACK"
    BY SMTT(90) DEF NoMessage, Message
  <2> QED  BY <1>3, <1>4, <2>1, NewState, SMTT(90) DEF StateOK, cl
<1>6. t.sched = s /\ t.workers = st.workers /\ t.clients = cl
  BY <1>3, StateFields, SMTT(90) DEF Values
<1>7. InFlightBut(t.sched, t.clients, dispatched, 0)
  <2>1. SUFFICES ASSUME NEW n \in DOMAIN s.jobs, IsActive(s.jobs[n])
                 PROVE  InFlight(s.jobs[n], cl, dispatched)
    BY <1>6 DEF InFlightBut
  <2>2. /\ n \in DOMAIN st.sched.jobs /\ IsActive(st.sched.jobs[n])
        /\ s.jobs[n].worker_id = st.sched.jobs[n].worker_id
        /\ Assignment(s.jobs[n]) = Assignment(st.sched.jobs[n])
    BY <2>1
  <2>3. InFlight(st.sched.jobs[n], st.clients, dispatched)
    BY <2>2, ActiveOwned, SMTT(90) DEF InFlightBut
  <2>4. \A k \in Slots : cl[k].worker_id = st.clients[k].worker_id
                         /\ cl[k].output = st.clients[k].output
    OBVIOUS
  <2> QED  BY <2>2, <2>3, <2>4 DEF InFlight
<1>8. Follows(st, t, i)
  BY <1>6 DEF Follows
<1> QED  BY <1>5, <1>6, <1>7, <1>8 DEF Reading

\* handle_submit: the job is committed, then acknowledged.
LEMMA SubmitHandled ==
  ASSUME NEW st, NEW i \in Slots, Reading(st, i), NEW m, m.type = "JOB_SUBMIT", RequestOK(m),
         NEW d \in Nat, HandleSubmit(st, i, m, d)
  PROVE  Served(st, i)
<1> DEFINE old == st.clients[i]
           s  == Submit(st.sched, m.value[1], m.value[2], 0)
           id == st.sched.next_job_id
           c  == [old EXCEPT !.job_client = TRUE]
           t  == Values(s, st.workers, [st.clients EXCEPT ![i] = c], st.up)
           r  == Message("JOB_SUBMIT_ACK", 0, id, 0)
<1>   /\ Fields(st) /\ StateOK(st, dispatched) /\ Open(st.clients, i)
      /\ st.clients \in [Slots -> ClientType] /\ old.output = NoMessage
      /\ old.phase = "READING" /\ SchedulerOK(st.sched) /\ NotAfter(st.sched, 0)
      /\ InFlightBut(st.sched, st.clients, dispatched, 0)
      /\ st.workers.next_worker_id \in 0..MAX_WORKER_ID
  BY RegistryShape DEF Reading, StateOK, Fields, ClientsOK
<1>2. CASE Reject(st, i, d)
  BY <1>2, CloseOpen
<1>3. ASSUME SubmitAdmitted(st.sched, 0)
      PROVE  /\ SchedulerOK(s) /\ NotAfter(s, 0) /\ id \in DOMAIN s.jobs /\ id \in Nat
             /\ DOMAIN s.jobs = 1..id
             /\ \A n \in DOMAIN s.jobs : n # id => n \in DOMAIN st.sched.jobs
             /\ \A n \in DOMAIN st.sched.jobs : n \in DOMAIN s.jobs /\ s.jobs[n] = st.sched.jobs[n]
             /\ ~IsActive(s.jobs[id])
  <2>1. m.value[1] \in Tasks /\ m.value[2] \in 0..MAX_RETRIES
    BY DEF RequestOK
  <2> DEFINE task == m.value[1]
             n == m.value[2]
  <2>   /\ id = Len(st.sched.jobs) + 1 /\ id \in DOMAIN s.jobs /\ id \in 1..MAX_JOB_ID
        /\ SchedulerOK(s) /\ DOMAIN s.jobs = 1..id
        /\ s.jobs[id] = JobInit(id, task, n, 0)
        /\ \A k \in DOMAIN st.sched.jobs : k # id /\ s.jobs[k] = st.sched.jobs[k]
    BY <1>3, <2>1, SubmitStep, SMTT(90)
  <2>3. DOMAIN st.sched.jobs = 1..Len(st.sched.jobs) /\ Len(st.sched.jobs) \in Nat
    BY SMTT(90) DEF SchedulerOK, SchedulerType
  <2>4. s.jobs[id].updated_at = 0 /\ ~IsActive(s.jobs[id])
    <3>1. LET job == JobInit(id, task, n, 0) IN job.updated_at = 0 /\ job.state = "QUEUED"
      BY DEF JobInit
    <3> QED  BY <3>1 DEF IsActive
  <2> HIDE DEF s, id
  <2>5. \A k \in DOMAIN s.jobs : k # id => k \in DOMAIN st.sched.jobs
    BY <2>3, SMTT(90)
  <2>6. NotAfter(s, 0)
    BY <2>4, <2>5 DEF NotAfter
  <2> QED  BY <2>3, <2>4, <2>5, <2>6, SMTT(90)
<1>4. CASE SubmitAdmitted(st.sched, 0) /\ Failed(st, s, st.workers.next_worker_id)
  <2>1. SchedulerOK(s) /\ NotAfter(s, 0) /\ DOMAIN st.sched.jobs \subseteq DOMAIN s.jobs
    BY <1>3, <1>4
  <2> HIDE DEF s
  <2> QED  BY <1>4, <2>1, FailedServed
<1>5. CASE SubmitAdmitted(st.sched, 0) /\ QueueMessage(t, i, r, d)
  <2>1. /\ SchedulerOK(s) /\ NotAfter(s, 0) /\ id \in DOMAIN s.jobs /\ id \in Nat
        /\ \A n \in DOMAIN s.jobs : n # id => n \in DOMAIN st.sched.jobs
        /\ \A n \in DOMAIN st.sched.jobs : n \in DOMAIN s.jobs /\ s.jobs[n] = st.sched.jobs[n]
        /\ ~IsActive(s.jobs[id])
    BY <1>3, <1>5
  <2>2. old \in ClientType
    OBVIOUS
  <2>3. /\ c \in ClientType /\ c.fd = old.fd /\ c.conn = old.conn /\ c.phase = "READING"
        /\ c.worker_id = old.worker_id /\ c.output = NoMessage
    <3> HIDE DEF old, Replies
    <3>1. c \in ClientType
      BY <2>2 DEF ClientType
    <3> QED  BY <2>2, <3>1 DEF ClientType
  <2> HIDE DEF s, c, id
  <2>4. Reading(t, i) /\ Follows(st, t, i) /\ t.sched = s
    BY <2>1, <2>3, TableChanged, SMTT(90)
  <2> HIDE DEF t
  <2>5. r \in Replies /\ r.job_id = id
    <3>1. "JOB_SUBMIT_ACK" \in ReplyTypes /\ 0 \in Nat
      BY DEF ReplyTypes
    <3> QED  BY <2>1, <3>1, PlainReply, SMTT(90)
  <2> HIDE DEF r
  <2>6. Served(t, i)
    BY <1>5, <2>1, <2>4, <2>5, ReplyStep
  <2> QED  BY <2>4, <2>6, ServedFrom
<1>6. [st EXCEPT !.sched = s, !.clients[i].job_client = TRUE] = t
  <2> DEFINE a == [st EXCEPT !.sched = s]
  <2> HIDE DEF s
  <2>1. Updated(st, a, s, st.workers)
    BY TableFields
  <2> HIDE DEF a
  <2>2. SlotSet(a, i, c)
    BY <2>1, SlotField DEF Updated
  <2> HIDE DEF c
  <2>3. [a EXCEPT !.clients[i] = c] = t
    BY <2>1, <2>2 DEF SlotSet, Values, Updated
  <2>4. [a EXCEPT !.clients[i].job_client = TRUE] = [a EXCEPT !.clients[i] = c]
    BY <2>1 DEF c, Updated
  <2> QED  BY <2>3, <2>4 DEF a
<1> HIDE DEF t
<1> QED  BY <1>2, <1>4, <1>5, <1>6 DEF HandleSubmit

\* handle_report: an accepted report is committed, any other closes.
LEMMA ReportHandled ==
  ASSUME NEW st, NEW i \in Slots, Reading(st, i), NEW m, RequestOK(m),
         NEW d \in Nat, HandleReport(st, i, m, d)
  PROVE  Served(st, i)
<1> DEFINE id == m.job_id
           s  == Report(st.sched, ReportOf(m), 0)
           c  == ResetInput(st.clients[i])
           t  == Values(s, st.workers, [st.clients EXCEPT ![i] = c], st.up)
<1>   /\ Fields(st) /\ StateOK(st, dispatched) /\ Open(st.clients, i)
      /\ SchedulerOK(st.sched) /\ NotAfter(st.sched, 0)
      /\ InFlightBut(st.sched, st.clients, dispatched, 0)
      /\ st.workers.next_worker_id \in 0..MAX_WORKER_ID
  BY RegistryShape DEF Reading, StateOK, Fields
<1>2. CASE Reject(st, i, d)
  BY <1>2, CloseOpen
<1>3. ASSUME ReportFits(st, i, m)
      PROVE  /\ id \in DOMAIN st.sched.jobs /\ IsActive(st.sched.jobs[id])
             /\ Outcome(st.sched, s, id, 0)
  <2>1. ReportAccepted(st.sched, st.clients[i].worker_id, ReportOf(m), 0)
    BY <1>3 DEF ReportFits
  <2>2. /\ ReportOf(m).job_id = id /\ id \in Nat /\ ReportOf(m).failure = "TASK"
        /\ ReportOf(m).type = "JOB_COMPLETED" => ReportOf(m).result \in Results
    BY DEF ReportOf, RequestOK
  <2> QED  BY <2>1, <2>2, AttemptReported
<1>4. CASE ReportFits(st, i, m) /\ Failed(st, s, st.workers.next_worker_id)
  <2>1. SchedulerOK(s) /\ NotAfter(s, 0) /\ DOMAIN st.sched.jobs = DOMAIN s.jobs
    BY <1>3, <1>4 DEF Outcome
  <2> HIDE DEF s
  <2> QED  BY <1>4, <2>1, FailedServed
<1>5. CASE ReportFits(st, i, m) /\ Published(t, d)
  <2>1. /\ id \in DOMAIN st.sched.jobs /\ IsActive(st.sched.jobs[id])
        /\ SchedulerOK(s) /\ NotAfter(s, 0) /\ DOMAIN s.jobs = DOMAIN st.sched.jobs
        /\ \A k \in DOMAIN st.sched.jobs : k # id => s.jobs[k] = st.sched.jobs[k]
        /\ s.jobs[id].state # "ASSIGNED"
        /\ IsActive(s.jobs[id]) => SameAttempt(st.sched.jobs[id], s.jobs[id])
    BY <1>3, <1>5 DEF Outcome
  <2>2. /\ c \in ClientType /\ c.fd = st.clients[i].fd /\ c.conn = st.clients[i].conn
        /\ c.phase = "READING" /\ c.worker_id = st.clients[i].worker_id
        /\ c.output = NoMessage
    BY ResetSlot
  <2> HIDE DEF s, c, id
  <2>3. \A n \in DOMAIN s.jobs : IsActive(s.jobs[n]) =>
          /\ n \in DOMAIN st.sched.jobs /\ IsActive(st.sched.jobs[n])
          /\ s.jobs[n].worker_id = st.sched.jobs[n].worker_id
          /\ Assignment(s.jobs[n]) = Assignment(st.sched.jobs[n])
    BY <2>1 DEF SameAttempt, Assignment
  <2>4. \A n \in DOMAIN st.sched.jobs :
          s.jobs[n].state = "ASSIGNED" => s.jobs[n] = st.sched.jobs[n]
    BY <2>1
  <2>5. Reading(t, i) /\ Follows(st, t, i)
    BY <2>1, <2>2, <2>3, <2>4, TableChanged
  <2> HIDE DEF t
  <2>6. Served(t, i)
    BY <1>5, <2>5, PublishedServed DEF Reading
  <2> QED  BY <2>5, <2>6, ServedFrom
<1>6. [st EXCEPT !.sched = s, !.clients[i] = ResetInput(@)] = t
  <2> DEFINE a == [st EXCEPT !.sched = s]
  <2> HIDE DEF s
  <2>1. Updated(st, a, s, st.workers)
    BY TableFields
  <2> HIDE DEF a
  <2>2. SlotSet(a, i, c)
    BY <2>1, SlotField DEF Updated
  <2>3. [a EXCEPT !.clients[i] = c] = t
    BY <2>1, <2>2 DEF SlotSet, Values, Updated
  <2>4. [a EXCEPT !.clients[i] = ResetInput(@)] = [a EXCEPT !.clients[i] = c]
    BY <2>1 DEF Updated
  <2> QED  BY <2>3, <2>4 DEF a
<1> HIDE DEF t
<1> QED  BY <1>2, <1>4, <1>5, <1>6 DEF HandleReport

\* Every handler keeps the invariant.
LEMMA MessageHandled ==
  ASSUME NEW st, NEW i \in Slots, Reading(st, i), NEW m, RequestOK(m),
         NEW d \in Nat, HandleMessage(st, i, m, d),
         \A k \in 1..MAX_WORKERS :
           RecordOf(st.workers, st.clients, i, k) =>
             ~TimedOut(st.workers.slots[k], NOW, HEARTBEAT_TIMEOUT)
  PROVE  Served(st, i)
<1>1. CASE \/ QueueMessage(st, i, Message("PONG", 0, 0, 0), 0)
           \/ HandleStatus(st, i, m)
           \/ QueueListing(st, i, m)
           \/ HandleStats(st, i)
  BY <1>1, QueryStep
<1>2. CASE HandleRegister(st, i, d)
  BY <1>2, RegisterHandled
<1>3. CASE HandleHeartbeat(st, i, m, d)
  BY <1>3, HeartbeatHandled
<1>4. CASE m.type = "JOB_SUBMIT" /\ HandleSubmit(st, i, m, d)
  BY <1>4, SubmitHandled
<1>5. CASE HandleReport(st, i, m, d)
  BY <1>5, ReportHandled
<1> QED  BY <1>1, <1>2, <1>3, <1>4, <1>5 DEF HandleMessage

-----------------------------------------------------------------------------
(* How the operations of the scheduler change the job table.               *)

\* A change without a report asks for no message.
LEMMA UnreportedEvolves ==
  ASSUME NEW s, NEW t, NEW m, Unreported(s, t)
  PROVE  Evolves(s, t, m)
BY DEF Unreported, Evolves, Told

\* The loss of a worker.
LEMMA LostEvolves ==
  ASSUME NEW s, SchedulerOK(s), NotAfter(s, 0), NEW w, Busy(s, w)
  PROVE  LET t == WorkerLost(s, w, 0)
         IN  /\ SchedulerOK(t) /\ Unreported(s, t)
             /\ \A k \in DOMAIN s.jobs :
                  IsActive(s.jobs[k]) /\ s.jobs[k].worker_id # w => t.jobs[k] = s.jobs[k]
<1> DEFINE t == WorkerLost(s, w, 0)
<1>1. PICK n \in DOMAIN s.jobs : IsActive(s.jobs[n]) /\ s.jobs[n].worker_id = w
  BY BusySlot
<1>2. Outcome(s, t, n, 0) /\ Unreported(s, t)
  BY <1>1, AttemptLost
<1> HIDE DEF t
<1>3. SchedulerOK(t) /\ \A k \in DOMAIN s.jobs : k # n => t.jobs[k] = s.jobs[k]
  BY <1>2 DEF Outcome
<1> QED  BY <1>1, <1>2, <1>3 DEF t

\* A submission that is admitted.
LEMMA SubmitEvolves ==
  ASSUME NEW s, SchedulerOK(s), NotAfter(s, 0), NEW m, m.type = "JOB_SUBMIT", RequestOK(m),
         SubmitAdmitted(s, 0)
  PROVE  LET t  == Submit(s, m.value[1], m.value[2], 0)
             id == s.next_job_id
         IN  /\ SchedulerOK(t) /\ NotAfter(t, 0) /\ Evolves(s, t, m)
             /\ id \in DOMAIN t.jobs /\ id \notin DOMAIN s.jobs /\ id \in Nat
             /\ \A k \in DOMAIN s.jobs : t.jobs[k] = s.jobs[k]
<1> DEFINE t  == Submit(s, m.value[1], m.value[2], 0)
           id == s.next_job_id
<1>1. m.value[1] \in Tasks /\ m.value[2] \in 0..MAX_RETRIES
  BY DEF RequestOK
<1>2. /\ id = Len(s.jobs) + 1 /\ id \in DOMAIN t.jobs /\ id \in 1..MAX_JOB_ID
      /\ SchedulerOK(t) /\ DOMAIN t.jobs = 1..id
      /\ t.jobs[id] = JobInit(id, m.value[1], m.value[2], 0)
      /\ \A k \in DOMAIN s.jobs : k # id /\ t.jobs[k] = s.jobs[k]
  BY <1>1, SubmitStep, SMTT(90)
<1>3. DOMAIN s.jobs = 1..Len(s.jobs) /\ Len(s.jobs) \in Nat
  BY SMTT(90) DEF SchedulerOK, SchedulerType
<1>4. Submitted(t.jobs[id], m)
  <2> HIDE DEF t
  <2> QED  BY <1>2, SMTT(90) DEF JobInit, Submitted
<1>5. Unreported(s, s)
  BY NothingReported
<1> HIDE DEF t, id
<1>6. \A k \in DOMAIN t.jobs : k \notin DOMAIN s.jobs => k = id
  BY <1>2, <1>3
<1>7. DOMAIN s.jobs \subseteq DOMAIN t.jobs
  BY <1>2, <1>3
<1>8. Evolves(s, t, m)
  BY <1>2, <1>4, <1>5, <1>6, <1>7 DEF Evolves, Unreported, Grows, Told
<1>9. NotAfter(t, 0)
  <2>1. t.jobs[id].updated_at = 0
    BY <1>2 DEF JobInit
  <2> QED  BY <1>2, <1>6, <2>1 DEF NotAfter
<1> QED  BY <1>2, <1>8, <1>9, SMTT(90) DEF t, id

\* The report m of worker w, on the attempt it has, makes table t of table s.
ReportOfLive(s, t, w, m) ==
  LET old == s.jobs[m.job_id]
      job == t.jobs[m.job_id]
  IN  /\ SchedulerOK(t) /\ Evolves(s, t, m)
      /\ m.job_id \in DOMAIN s.jobs /\ old.worker_id = w /\ m.worker_id = w
      /\ old.attempt = m.attempt /\ IsActive(old)
      /\ m.type = "JOB_STARTED" =>
           /\ old.state = "ASSIGNED" /\ job.state = "RUNNING"
           /\ job.worker_id = old.worker_id /\ job.attempt = old.attempt
      /\ \A k \in DOMAIN s.jobs : k # m.job_id => t.jobs[k] = s.jobs[k]

\* A report that fits: it concerns the attempt it names, which it starts or
\* ends, and no other.
LEMMA ReportEvolves ==
  ASSUME NEW st, SchedulerOK(st.sched), NotAfter(st.sched, 0), NEW i, NEW m, RequestOK(m),
         ReportFits(st, i, m)
  PROVE  ReportOfLive(st.sched, Report(st.sched, ReportOf(m), 0), st.clients[i].worker_id, m)
<1> DEFINE s   == st.sched
           r   == ReportOf(m)
           t   == Report(s, r, 0)
           id  == m.job_id
           w   == st.clients[i].worker_id
           old == s.jobs[id]
           job == t.jobs[id]
<1>1. /\ r.job_id = id /\ id \in Nat /\ r.failure = "TASK" /\ r.type = m.type
      /\ r.worker_id = m.worker_id /\ r.attempt = m.attempt
      /\ r.type = "JOB_COMPLETED" => r.result \in Results /\ r.result = m.value[1]
  BY DEF ReportOf, RequestOK
<1>2. ReportAccepted(s, w, r, 0)
  BY DEF ReportFits
<1> HIDE DEF r
<1>3. /\ id \in DOMAIN s.jobs /\ IsActive(old) /\ Outcome(s, t, id, 0)
  BY <1>1, <1>2, AttemptReported
<1>4. old \in JobType /\ FindSlot(s, id) = id
  <2> HIDE DEF id
  <2> QED  BY <1>3, SlotOfJob
<1>5. \/ r.type = "JOB_STARTED" /\ JobStartOK(old, w, r.attempt, 0)
      \/ r.type = "JOB_COMPLETED" /\ JobCompleteOK(old, w, r.attempt, 0)
      \/ r.type = "JOB_FAILED" /\ JobFailOK(old, w, r.attempt, "TASK", 0)
  BY <1>1, <1>2, <1>4 DEF ReportAccepted
<1>6. old.worker_id = w /\ old.attempt = r.attempt /\ r.worker_id = w
      /\ (r.type = "JOB_STARTED" => old.state = "ASSIGNED")
  BY <1>2, <1>5 DEF ReportAccepted, JobStartOK, JobCompleteOK, JobFailOK, CheckAttempt, CheckTransition, CanTransition
<1>7. job = Reported(old, r, 0)
  <2>1. t = Publish(s, id, Reported(old, r, 0))
    BY <1>1, <1>4 DEF Report
  <2>2. s.jobs \in Seq(JobType) /\ t.jobs = [s.jobs EXCEPT ![id] = Reported(old, r, 0)]
    BY <2>1 DEF Publish, SchedulerOK, SchedulerType
  <2> HIDE DEF t, id, old
  <2> QED  BY <1>3, <2>2
<1> HIDE DEF t, old, job, id, s, w
<1>8. /\ JobGrows(old, job) /\ job.attempt = old.attempt
      /\ Completes(old, job) => r.type = "JOB_COMPLETED" /\ job.result = r.result
      /\ Fails(old, job) => r.type = "JOB_FAILED"
      /\ r.type = "JOB_STARTED" => job.state = "RUNNING" /\ job.worker_id = old.worker_id
  <2>1. CASE r.type = "JOB_STARTED"
    <3>1. job = JobStart(old, 0)
      BY <1>7, <2>1 DEF Reported
    <3> QED  BY <1>3, <1>4, <2>1, <3>1, StartGrows DEF SameAttempt
  <2>2. CASE r.type = "JOB_COMPLETED"
    <3>1. job = JobComplete(old, r.result, 0)
      BY <1>7, <2>2 DEF Reported
    <3> QED  BY <1>3, <1>4, <2>2, <3>1, CompleteGrows, SMTT(90)
  <2>3. CASE r.type = "JOB_FAILED"
    <3>1. job = JobFail(old, "TASK", 0)
      BY <1>7, <2>3 DEF Reported
    <3> QED  BY <1>3, <1>4, <2>3, <3>1, FailureGrows, SMTT(90)
  <2> QED  BY <1>5, <2>1, <2>2, <2>3
<1>9. /\ SchedulerOK(t) /\ DOMAIN t.jobs = DOMAIN s.jobs
      /\ \A k \in DOMAIN s.jobs : k # id => t.jobs[k] = s.jobs[k]
  BY <1>3 DEF Outcome
<1>10. Evolves(s, t, m)
  <2>1. Unreported(s, s)
    BY NothingReported DEF s
  <2>2. Told(id, old, job, m)
    BY <1>1, <1>6, <1>8 DEF Told, id
  <2> QED  BY <1>8, <1>9, <2>1, <2>2 DEF Evolves, Unreported, Grows, Told, old, job
<1>11. ReportOfLive(s, t, w, m)
  BY <1>1, <1>3, <1>6, <1>8, <1>9, <1>10 DEF ReportOfLive, old, job, id
<1> QED  BY <1>11 DEF t, s, w, r

\* A change that a loss follows asks for the same message.
LEMMA EvolvesLost ==
  ASSUME NEW s, NEW t, NEW u, NEW m, SchedulerOK(s), SchedulerOK(t), SchedulerOK(u),
         Evolves(s, t, m), Unreported(t, u)
  PROVE  Evolves(s, u, m)
<1>1. ASSUME NEW x, SchedulerOK(x), NEW k \in DOMAIN x.jobs  PROVE x.jobs[k].attempt \in Nat
  BY <1>1, SlotOfJob DEF JobType
<1>2. ASSUME NEW k \in DOMAIN s.jobs
      PROVE  /\ k \in DOMAIN t.jobs /\ k \in DOMAIN u.jobs
             /\ JobGrows(s.jobs[k], u.jobs[k]) /\ Told(k, s.jobs[k], u.jobs[k], m)
  <2>1. k \in DOMAIN t.jobs /\ k \in DOMAIN u.jobs
    BY DEF Evolves, Grows, Unreported
  <2> DEFINE a == s.jobs[k]
             b == t.jobs[k]
             c == u.jobs[k]
  <2>2. /\ JobGrows(a, b) /\ JobGrows(b, c) /\ Told(k, a, b, m)
        /\ ~Completes(b, c) /\ ~Fails(b, c)
    BY <2>1 DEF Evolves, Grows, Unreported
  <2>3. a.attempt \in Nat /\ b.attempt \in Nat /\ c.attempt \in Nat
    BY <1>1, <2>1
  <2> HIDE DEF a, b, c
  <2>4. JobGrows(a, c)
    BY <2>2, <2>3 DEF JobGrows
  <2>5. Told(k, a, c, m)
    BY <2>2 DEF JobGrows, Told, Completes, Fails, Ended
  <2> QED  BY <2>1, <2>4, <2>5 DEF a, c
<1>3. ASSUME NEW k \in DOMAIN u.jobs \ DOMAIN s.jobs
      PROVE  k \in DOMAIN t.jobs /\ Submitted(u.jobs[k], m)
  <2>1. k \in DOMAIN t.jobs
    BY <1>3 DEF Unreported
  <2> DEFINE b == t.jobs[k]
             c == u.jobs[k]
  <2>2. /\ JobGrows(b, c) /\ Submitted(b, m) /\ ~Completes(b, c) /\ ~Fails(b, c)
    BY <1>3, <2>1 DEF Evolves, Grows, Unreported
  <2> HIDE DEF b, c
  <2>3. Submitted(c, m)
    BY <2>2 DEF JobGrows, Submitted, Completes, Fails
  <2> QED  BY <2>1, <2>3 DEF c
<1>4. DOMAIN s.jobs \subseteq DOMAIN u.jobs
  BY <1>2
<1> QED  BY <1>2, <1>3, <1>4 DEF Evolves, Grows

-----------------------------------------------------------------------------
(* What a turn of slot i does to the slots, the connections and the table. *)

\* Values prepared for slot i, whose connection stays the same.
Prepared(st, i) ==
  /\ Fields(st) /\ st.clients \in [Slots -> ClientType]
  /\ SchedulerOK(st.sched) /\ NotAfter(st.sched, 0)
  /\ \A k \in Slots : k # i => st.clients[k] = clients[k]
  /\ st.clients[i].fd = clients[i].fd /\ st.clients[i].conn = clients[i].conn

\* The attempt of worker w is lost, with a commit of its own, and no other.
Loses(s, t, w) ==
  /\ SchedulerOK(t) /\ Unreported(s, t)
  /\ \A k \in DOMAIN s.jobs :
       IsActive(s.jobs[k]) /\ s.jobs[k].worker_id # w => t.jobs[k] = s.jobs[k]

Lost(s, w) ==
  \/ UNCHANGED <<failure, unsynced>> /\ Loses(s, sched', w)
  \/ /\ failure' = "FATAL" /\ sched' = s
     /\ \A k \in DOMAIN unsynced' : Loses(s, unsynced'[k].sched, w)

\* The connection of slot i, which serves w, is closed.
Shut(u, i, s, w) ==
  /\ Rest(i) /\ SameClient(NoClient, clients'[i])
  /\ server' = [server EXCEPT ![clients[i].conn] = "closed"]
  /\ up' = [u EXCEPT ![clients[i].conn] = <<>>]
  /\ Lost(s, w)

\* It stays open, and r is what is to be sent on it.
Stays(u, i, s, w, j, r) ==
  /\ Rest(i)
  /\ clients'[i].fd = clients[i].fd /\ clients'[i].conn = clients[i].conn
  /\ clients'[i].worker_id = w /\ clients'[i].job_client = j /\ clients'[i].output = r
  /\ UNCHANGED <<server, failure, unsynced>>
  /\ up' = u /\ sched' = s

\* The commit of table s failed.
Doubt(u, i, s) ==
  /\ Rest(i)
  /\ clients'[i].fd = clients[i].fd /\ clients'[i].conn = clients[i].conn
  /\ clients'[i].worker_id = clients[i].worker_id
  /\ clients'[i].output = clients[i].output
  /\ UNCHANGED server /\ up' = u /\ sched' = sched
  /\ failure' = "FATAL" /\ \A k \in DOMAIN unsynced' : unsynced'[k].sched = s

\* Settle leaves the prepared slots, but for times.
LEMMA SettledSlots ==
  ASSUME NEW st, NEW i \in Slots, st.clients \in [Slots -> ClientType], NEW d \in Nat,
         Settle(st, d), \A k \in Slots : k # i => st.clients[k] = clients[k]
  PROVE  Rest(i) /\ SameClient(st.clients[i], clients'[i])
<1>1. \A k \in Slots : SameClient(st.clients[k], clients'[k])
  BY AgedSlot DEF Settle
<1> QED  BY <1>1 DEF Rest

\* A commit that leaves the connection of slot i open.
LEMMA Staying ==
  ASSUME NEW i \in Slots, NEW st, Prepared(st, i), NEW c \in ClientType,
         c.fd = clients[i].fd, c.conn = clients[i].conn, NEW s, NEW w, NEW u, NEW d \in Nat,
         Published(Values(s, w, [st.clients EXCEPT ![i] = c], u), d), UNCHANGED server
  PROVE  Stays(u, i, s, c.worker_id, c.job_client, c.output)
<1> DEFINE cl == [st.clients EXCEPT ![i] = c]
           t  == Values(s, w, cl, u)
<1>1. t.sched = s /\ t.clients = cl /\ t.up = u
  BY StateFields DEF Values
<1>2. cl \in [Slots -> ClientType] /\ cl[i] = c /\ \A k \in Slots : k # i => cl[k] = clients[k]
  <2>1. st.clients \in [Slots -> ClientType] /\ \A k \in Slots : k # i => st.clients[k] = clients[k]
    BY DEF Prepared
  <2> HIDE DEF ClientType
  <2> QED  BY <2>1
<1> HIDE DEF cl, t
<1>3. Settle(t, d) /\ UNCHANGED <<failure, unsynced>>
  BY DEF t, cl, Published
<1>4. Rest(i) /\ SameClient(c, clients'[i])
  BY <1>1, <1>2, <1>3, SettledSlots
<1> QED  BY <1>1, <1>3, <1>4 DEF Stays, SameClient, Settle

\* close_client.
LEMMA Closing ==
  ASSUME NEW st, NEW i \in Slots, Prepared(st, i), NEW d \in Nat, CloseClient(st, i, d)
  PROVE  Shut(st.up, i, st.sched, st.clients[i].worker_id)
<1> DEFINE id == st.clients[i].worker_id
           w  == MarkDead(st.workers, id, st.clients[i].fd)
           cl == [st.clients EXCEPT ![i] = NoClient]
           u  == [st.up EXCEPT ![clients[i].conn] = <<>>]
           lost == WorkerLost(st.sched, id, 0)
           Closed(s) == [sched |-> s, workers |-> w, clients |-> cl, up |-> u]
<1>1. /\ Fields(st) /\ st.clients \in [Slots -> ClientType] /\ st.clients[i].conn = clients[i].conn
      /\ SchedulerOK(st.sched) /\ NotAfter(st.sched, 0)
      /\ \A k \in Slots : k # i => st.clients[k] = clients[k]
  BY DEF Prepared
<1>2. server' = [server EXCEPT ![clients[i].conn] = "closed"]
  BY <1>1 DEF CloseClient
<1>3. \/ /\ Busy(st.sched, id)
         /\ Published(Closed(lost), d) \/ Failed(Closed(st.sched), lost, w.next_worker_id)
      \/ ~Busy(st.sched, id) /\ Published(Closed(st.sched), d)
  BY <1>1, Closes
<1>4. cl \in [Slots -> ClientType] /\ cl[i] = NoClient /\ \A k \in Slots : k # i => cl[k] = clients[k]
  <2>1. NoClient \in ClientType
    BY ClosedSlotType
  <2> HIDE DEF ClientType, NoClient
  <2> QED  BY <1>1, <2>1
<1>5. ASSUME NEW s, NEW e \in Nat, Settle(Closed(s), e)
      PROVE  Rest(i) /\ SameClient(NoClient, clients'[i]) /\ up' = u /\ sched' = s
  <2>1. Closed(s).sched = s /\ Closed(s).clients = cl /\ Closed(s).up = u
    BY StateFields
  <2> DEFINE t == Closed(s)
  <2>2. Settle(t, e) /\ t.sched = s /\ t.clients = cl /\ t.up = u
    BY <1>5, <2>1
  <2> HIDE DEF t, cl, u
  <2> QED  BY <1>4, <2>2, SettledSlots DEF Settle
<1> HIDE DEF w, cl, u, Closed
<1>6. Busy(st.sched, id) => Loses(st.sched, lost, id)
  BY <1>1, LostEvolves DEF Loses
<1>7. Loses(st.sched, st.sched, id)
  BY <1>1, NothingReported DEF Loses
<1>8. CASE Busy(st.sched, id) /\ Published(Closed(lost), d)
  BY <1>2, <1>5, <1>6, <1>8 DEF Published, Shut, Lost, u
<1>9. CASE Busy(st.sched, id) /\ Failed(Closed(st.sched), lost, w.next_worker_id)
  <2>1. \A k \in DOMAIN unsynced' : unsynced'[k].sched = lost
    <3> HIDE DEF lost
    <3> QED  BY <1>9 DEF Failed
  <2> QED  BY <1>2, <1>5, <1>6, <1>9, <2>1 DEF Failed, Shut, Lost, u
<1>10. CASE Published(Closed(st.sched), d)
  BY <1>2, <1>5, <1>7, <1>10 DEF Published, Shut, Lost, u
<1> QED  BY <1>3, <1>8, <1>9, <1>10

\* queue_message.
LEMMA Queueing ==
  ASSUME NEW st, NEW i \in Slots, Prepared(st, i), NEW d \in Nat, NEW m \in Replies,
         QueueMessage(st, i, m, d)
  PROVE  LET w == st.clients[i].worker_id
         IN  \/ Stays(st.up, i, st.sched, w, st.clients[i].job_client, m)
             \/ Shut(st.up, i, st.sched, w)
<1> DEFINE old == st.clients[i]
           c  == [old EXCEPT !.output = m, !.sent = FALSE, !.phase = "WRITING",
                             !.last_progress = NOW + d, !.since = NOW + d]
<1>1. Fields(st) /\ old \in ClientType /\ old.fd = clients[i].fd /\ old.conn = clients[i].conn
  BY DEF Prepared
<1>2. /\ c \in ClientType /\ c.fd = old.fd /\ c.conn = old.conn
      /\ c.worker_id = old.worker_id /\ c.output = m /\ c.job_client = old.job_client
  <2> DEFINE time == NOW + d
  <2>1. time \in Int
    BY Clock
  <2> HIDE DEF time, Replies, old
  <2>2. c \in ClientType
    BY <1>1, <2>1 DEF ClientType, time
  <2> QED  BY <1>1, <2>2 DEF ClientType
<1>3. CASE CloseClient(st, i, d)
  BY <1>3, Closing
<1>4. CASE Published([st EXCEPT !.clients[i] = c], d) /\ UNCHANGED server
  <2>1. [st EXCEPT !.clients[i] = c]
        = Values(st.sched, st.workers, [st.clients EXCEPT ![i] = c], st.up)
    BY <1>1, SlotField DEF SlotSet
  <2> HIDE DEF c
  <2> QED  BY <1>1, <1>2, <1>4, <2>1, Staying, SMTT(90)
<1> QED  BY <1>3, <1>4 DEF QueueMessage

\* A commit that fails.
LEMMA Failing ==
  ASSUME NEW st, NEW i \in Slots, Prepared(st, i), st.sched = sched,
         st.clients[i].worker_id = clients[i].worker_id,
         st.clients[i].output = clients[i].output,
         NEW s, NEW n, Failed(st, s, n), UNCHANGED server
  PROVE  Doubt(st.up, i, s)
<1>1. Settle(st, 0) /\ failure' = "FATAL" /\ \A k \in DOMAIN unsynced' : unsynced'[k].sched = s
  BY DEF Failed
<1>2. Rest(i) /\ SameClient(st.clients[i], clients'[i])
  BY <1>1, SettledSlots DEF Prepared
<1> QED  BY <1>1, <1>2 DEF Prepared, Doubt, Settle, SameClient

-----------------------------------------------------------------------------
(* What a message makes of the table, and how it is answered.              *)

\* Message m, read on slot i, makes the table s, serves worker w from then on
\* and is answered by r.
Answer(i, m, s, w, j, r) ==
  /\ SchedulerOK(s) /\ Evolves(sched, s, m)
  /\ r \in Replies /\ FrameTrue(r, s) /\ r.type # "JOB_ASSIGN"
  /\ r.type = "JOB_STATUS_NOT_FOUND" => r.job_id \notin DOMAIN s.jobs
  /\ r.type = "JOB_STATUS_RESPONSE" =>
       r.value = <<s.jobs[r.job_id].state, s.jobs[r.job_id].result>>
  /\ r.type = "JOB_SUBMIT_ACK" =>
       m.type = "JOB_SUBMIT" /\ r.job_id \in DOMAIN s.jobs \ DOMAIN sched.jobs
  /\ \A k \in DOMAIN sched.jobs :
       s.jobs[k] # sched.jobs[k] => m.type \in ReportTypes /\ k = m.job_id
  /\ IF m.type = "WORKER_REGISTER"
     THEN /\ w # 0 /\ j = clients[i].job_client /\ r = Message("WORKER_REGISTER_ACK", w, 0, 0)
          /\ \A k \in Slots : clients[k].worker_id # w
     ELSE w = clients[i].worker_id
  /\ m.type \in {"HEARTBEAT"} \cup ReportTypes =>
       j = clients[i].job_client /\ r = NoMessage
  /\ m.type \in ReportTypes =>
       LET old == sched.jobs[m.job_id]
           job == s.jobs[m.job_id]
       IN /\ m.job_id \in DOMAIN sched.jobs /\ IsActive(old)
          /\ old.worker_id = w /\ m.worker_id = w /\ old.attempt = m.attempt
          /\ m.type = "JOB_STARTED" =>
               /\ old.state = "ASSIGNED" /\ job.state = "RUNNING"
               /\ job.worker_id = old.worker_id /\ job.attempt = old.attempt

\* The handler's steps: an answer, a connection that is closed with or without
\* it, a commit that fails.
Handled(u, i, m) ==
  \/ Shut(u, i, sched, clients[i].worker_id)
  \/ \E s, w, j, r : /\ Stays(u, i, s, w, j, r) \/ Shut(u, i, s, w) \/ Doubt(u, i, s)
                     /\ Answer(i, m, s, w, j, r)

\* The values with which a handler starts: slot i has been read.
Arrived(st, i) ==
  /\ Prepared(st, i) /\ Reading(st, i) /\ st.sched = sched
  /\ st.clients[i].worker_id = clients[i].worker_id
  /\ st.clients[i].job_client = clients[i].job_client
  /\ st.clients[i].output = clients[i].output

\* Values with another table and slot are prepared for it too.
LEMMA PreparedSlot ==
  ASSUME NEW i \in Slots, NEW st, Prepared(st, i), NEW c \in ClientType,
         c.fd = clients[i].fd, c.conn = clients[i].conn,
         NEW s, SchedulerOK(s), NotAfter(s, 0), NEW w, NEW u
  PROVE  LET t == Values(s, w, [st.clients EXCEPT ![i] = c], u)
         IN  /\ Prepared(t, i) /\ t.sched = s /\ t.workers = w /\ t.up = u /\ t.clients[i] = c
<1> DEFINE cl == [st.clients EXCEPT ![i] = c]
           t  == Values(s, w, cl, u)
<1>1. t.sched = s /\ t.clients = cl /\ t.up = u /\ t.workers = w /\ Fields(t)
  BY StateFields DEF Values, Fields
<1>2. cl \in [Slots -> ClientType] /\ cl[i] = c /\ \A k \in Slots : k # i => cl[k] = clients[k]
  <2>1. st.clients \in [Slots -> ClientType] /\ \A k \in Slots : k # i => st.clients[k] = clients[k]
    BY DEF Prepared
  <2> HIDE DEF ClientType
  <2> QED  BY <2>1
<1> HIDE DEF t, cl
<1>3. Prepared(t, i)
  BY <1>1, <1>2 DEF Prepared
<1> QED  BY <1>1, <1>2, <1>3 DEF t, cl

\* A reply to a message that changes no job.
LEMMA PlainAnswer ==
  ASSUME NEW i, NEW m, NEW j, NEW r \in Replies, SchedulerOK(sched),
         r.type \in {"PONG", "JOBS_RESPONSE", "WORKERS_RESPONSE", "STATS_RESPONSE"},
         r.job_id = 0, m.type \notin {"WORKER_REGISTER", "HEARTBEAT"} \cup ReportTypes
  PROVE  Answer(i, m, sched, clients[i].worker_id, j, r)
<1>1. Evolves(sched, sched, m)
  BY NothingReported, UnreportedEvolves
<1>2. FrameTrue(r, sched)
  BY DEF FrameTrue
<1> HIDE DEF Replies
<1> QED  BY <1>1, <1>2 DEF Answer, ReportTypes

\* The values after a query has marked its connection.
LEMMA Asking ==
  ASSUME NEW i \in Slots, NEW st, Arrived(st, i)
  PROVE  LET t == [st EXCEPT !.clients[i].job_client = TRUE]
         IN  /\ Prepared(t, i) /\ t.sched = sched /\ t.up = st.up
             /\ t.clients[i].worker_id = clients[i].worker_id
             /\ t.clients[i].job_client = TRUE
<1> DEFINE old == st.clients[i]
           c  == [old EXCEPT !.job_client = TRUE]
           t  == Values(st.sched, st.workers, [st.clients EXCEPT ![i] = c], st.up)
<1>1. /\ Fields(st) /\ old \in ClientType /\ old.fd = clients[i].fd /\ old.conn = clients[i].conn
      /\ old.worker_id = clients[i].worker_id /\ st.sched = sched /\ Prepared(st, i)
      /\ SchedulerOK(st.sched) /\ NotAfter(st.sched, 0)
  BY DEF Arrived, Prepared
<1>2. /\ c \in ClientType /\ c.fd = old.fd /\ c.conn = old.conn
      /\ c.worker_id = old.worker_id /\ c.job_client = TRUE
  <2> HIDE DEF old, Replies
  <2>1. c \in ClientType
    BY <1>1 DEF ClientType
  <2> QED  BY <1>1, <2>1 DEF ClientType
<1>3. [st EXCEPT !.clients[i].job_client = TRUE] = t
  BY <1>1, SlotField DEF SlotSet
<1> HIDE DEF c
<1>4. Prepared(t, i) /\ t.sched = st.sched /\ t.up = st.up /\ t.clients[i] = c
  BY <1>1, <1>2, PreparedSlot, SMTT(90)
<1> HIDE DEF t
<1> QED  BY <1>1, <1>2, <1>3, <1>4

\* A query is answered, or its connection closed.
LEMMA AnswerHandled ==
  ASSUME NEW i \in Slots, NEW st, Arrived(st, i), NEW m, NEW r \in Replies,
         Answer(i, m, sched, clients[i].worker_id, TRUE, r),
         LET t == [st EXCEPT !.clients[i].job_client = TRUE]
         IN  QueueMessage(t, i, r, 0) \/ CloseClient(t, i, 0)
  PROVE  Handled(st.up, i, m)
<1> DEFINE t == [st EXCEPT !.clients[i].job_client = TRUE]
           w == clients[i].worker_id
<1>1. /\ Prepared(t, i) /\ t.sched = sched /\ t.up = st.up
      /\ t.clients[i].worker_id = w /\ t.clients[i].job_client = TRUE
  BY Asking
<1>2. QueueMessage(t, i, r, 0) \/ CloseClient(t, i, 0)
  OBVIOUS
<1> HIDE DEF t
<1>3. Stays(st.up, i, sched, w, TRUE, r) \/ Shut(st.up, i, sched, w)
  BY <1>1, <1>2, Queueing, Closing
<1> QED  BY <1>3 DEF Handled

\* The status of a job, as the table has it.
LEMMA StatusAnswer ==
  ASSUME NEW i, SchedulerOK(sched), NEW m, m.type = "JOB_STATUS_REQUEST", RequestOK(m)
  PROVE  LET r == StatusReply(sched, m.job_id)
         IN  r \in Replies /\ Answer(i, m, sched, clients[i].worker_id, TRUE, r)
<1> DEFINE id == m.job_id
           r == StatusReply(sched, id)
<1>1. Evolves(sched, sched, m)
  BY NothingReported, UnreportedEvolves
<1>2. id \in Nat /\ r \in Replies
  BY StatusType DEF RequestOK
<1>3. CASE Known(sched, id)
  <2>1. id \in DOMAIN sched.jobs /\ FindSlot(sched, id) = id
    BY <1>3, KnownJob, SlotOfJob DEF Known
  <2> DEFINE job == sched.jobs[id]
  <2>2. r = Carrying(Message("JOB_STATUS_RESPONSE", 0, id, 0), <<job.state, job.result>>)
    BY <1>3, <2>1 DEF StatusReply
  <2>3. /\ r.type = "JOB_STATUS_RESPONSE" /\ r.job_id = id
        /\ r.value = <<sched.jobs[id].state, sched.jobs[id].result>>
    BY <2>2 DEF Carrying, Message
  <2> HIDE DEF r, Replies
  <2>4. FrameTrue(r, sched)
    BY <2>1, <2>3 DEF FrameTrue
  <2> QED  BY <1>1, <1>2, <2>1, <2>3, <2>4 DEF Answer, ReportTypes, r
<1>4. CASE ~Known(sched, id)
  <2>1. id \notin DOMAIN sched.jobs
    BY <1>4, SlotOfJob DEF Known, SlotsOf
  <2>2. r.type = "JOB_STATUS_NOT_FOUND" /\ r.job_id = id
    BY <1>4 DEF StatusReply, Message
  <2> HIDE DEF r, Replies
  <2>4. FrameTrue(r, sched)
    BY <2>1, <2>2 DEF FrameTrue
  <2> QED  BY <1>1, <1>2, <2>1, <2>2, <2>4 DEF Answer, ReportTypes, r
<1> QED  BY <1>3, <1>4

\* Queries and PING.
LEMMA QueryHandled ==
  ASSUME NEW i \in Slots, NEW st, Arrived(st, i), NEW m, RequestOK(m),
         \/ m.type = "PING" /\ QueueMessage(st, i, Message("PONG", 0, 0, 0), 0)
         \/ m.type = "JOB_STATUS_REQUEST" /\ HandleStatus(st, i, m)
         \/ m.type \in {"JOBS_REQUEST", "WORKERS_REQUEST"} /\ QueueListing(st, i, m)
         \/ m.type = "STATS_REQUEST" /\ HandleStats(st, i)
  PROVE  Handled(st.up, i, m)
<1> DEFINE w == clients[i].worker_id
<1>1. SchedulerOK(sched) /\ Prepared(st, i) /\ st.sched = sched /\ st.clients[i].worker_id = w
      /\ 0 \in Nat
  BY DEF Arrived, Prepared
<1>2. CASE m.type = "PING" /\ QueueMessage(st, i, Message("PONG", 0, 0, 0), 0)
  <2> DEFINE r == Message("PONG", 0, 0, 0)
             j == st.clients[i].job_client
  <2>1. r \in Replies /\ r.type = "PONG" /\ r.job_id = 0
    BY <1>1, PlainReply, SMTT(90) DEF ReplyTypes
  <2>2. QueueMessage(st, i, r, 0)
    BY <1>2
  <2> HIDE DEF r
  <2>3. Stays(st.up, i, sched, w, j, r) \/ Shut(st.up, i, sched, w)
    BY <1>1, <2>1, <2>2, Queueing
  <2>4. Answer(i, m, sched, w, j, r)
    BY <1>1, <1>2, <2>1, PlainAnswer DEF ReportTypes
  <2> QED  BY <2>3, <2>4 DEF Handled
<1>3. CASE m.type = "JOB_STATUS_REQUEST" /\ HandleStatus(st, i, m)
  <2> DEFINE r == StatusReply(sched, m.job_id)
  <2>1. r \in Replies /\ Answer(i, m, sched, w, TRUE, r)
    BY <1>1, <1>3, StatusAnswer
  <2>2. QueueMessage([st EXCEPT !.clients[i].job_client = TRUE], i, r, 0)
    BY <1>1, <1>3 DEF HandleStatus
  <2> HIDE DEF r
  <2> QED  BY <2>1, <2>2, AnswerHandled
<1>4. CASE m.type \in {"JOBS_REQUEST", "WORKERS_REQUEST"} /\ QueueListing(st, i, m)
  <2>1. CASE CloseClient(st, i, 0)
    BY <1>1, <2>1, Closing DEF Handled
  <2> DEFINE type == IF m.type = "JOBS_REQUEST" THEN "JOBS_RESPONSE" ELSE "WORKERS_RESPONSE"
             r == Message(type, 0, 0, 0)
  <2>2. CASE QueueMessage([st EXCEPT !.clients[i].job_client = TRUE], i, r, 0)
    <3>1. type \in ReplyTypes /\ type \in {"JOBS_RESPONSE", "WORKERS_RESPONSE"}
      BY DEF ReplyTypes
    <3> HIDE DEF type
    <3>2. r \in Replies /\ r.type = type /\ r.job_id = 0
      BY <1>1, <3>1, PlainReply
    <3> HIDE DEF r
    <3>3. Answer(i, m, sched, w, TRUE, r)
      BY <1>1, <1>4, <3>1, <3>2, PlainAnswer DEF ReportTypes
    <3> QED  BY <2>2, <3>2, <3>3, AnswerHandled
  <2> QED  BY <1>4, <2>1, <2>2 DEF QueueListing
<1>5. CASE m.type = "STATS_REQUEST" /\ HandleStats(st, i)
  <2> DEFINE r == Message("STATS_RESPONSE", 0, 0, 0)
             t == [st EXCEPT !.clients[i].job_client = TRUE]
  <2>1. r \in Replies /\ r.type = "STATS_RESPONSE" /\ r.job_id = 0
    BY <1>1, PlainReply DEF ReplyTypes
  <2>2. QueueMessage(t, i, r, 0) \/ CloseClient(t, i, 0)
    BY <1>5 DEF HandleStats
  <2> HIDE DEF r
  <2>3. Answer(i, m, sched, w, TRUE, r)
    BY <1>1, <1>5, <2>1, PlainAnswer DEF ReportTypes
  <2> QED  BY <2>1, <2>2, <2>3, AnswerHandled
<1> QED  BY <1>2, <1>3, <1>4, <1>5

\* handle_register.
LEMMA RegistrationHandled ==
  ASSUME NEW i \in Slots, NEW st, Arrived(st, i), st.workers = workers,
         Agree(workers, clients), NEW m, m.type = "WORKER_REGISTER", NEW d \in Nat,
         HandleRegister(st, i, d)
  PROVE  Handled(st.up, i, m)
<1> DEFINE old == st.clients[i]
           fd == old.fd
           id == st.workers.next_worker_id
           w  == Register(st.workers, fd, NOW)
           c  == [old EXCEPT !.worker_id = id]
           t  == Values(st.sched, w, [st.clients EXCEPT ![i] = c], st.up)
           r  == Message("WORKER_REGISTER_ACK", id, 0, 0)
<1>1. /\ Fields(st) /\ old \in ClientType /\ old.fd = clients[i].fd /\ old.conn = clients[i].conn
      /\ old.worker_id = clients[i].worker_id /\ old.job_client = clients[i].job_client
      /\ st.sched = sched /\ Prepared(st, i) /\ SchedulerOK(sched) /\ NotAfter(sched, 0)
      /\ st.workers \in RegistryType /\ RegistryOK(st.workers) /\ Open(st.clients, i)
  BY DEF Arrived, Prepared, Reading, StateOK
<1>2. fd \in Nat
  BY <1>1, SMTT(90) DEF Open, ClientType
<1>3. CASE Reject(st, i, d)
  BY <1>1, <1>3, Closing DEF Reject, Handled
<1>4. ASSUME RegisterOK(st.workers, fd, NOW)
      PROVE  id \in 1..MAX_WORKER_ID /\ Answer(i, m, sched, id, clients[i].job_client, r)
  <2>1. /\ id \in 1..MAX_WORKER_ID
        /\ \A k \in 1..MAX_WORKERS : st.workers.slots[k].state = "ALIVE" => st.workers.slots[k].id # id
    BY <1>1, <1>2, <1>4, Clock, RegisteredSlot
  <2>2. \A k \in Slots : clients[k].worker_id # id
    <3>1. SUFFICES ASSUME NEW k \in Slots, clients[k].worker_id = id PROVE FALSE
      OBVIOUS
    <3>2. clients[k].worker_id # 0
      BY <2>1, <3>1
    <3>3. PICK n \in 1..MAX_WORKERS : RecordOf(workers, clients, k, n)
      BY <3>2 DEF Agree
    <3> QED  BY <2>1, <3>1, <3>3 DEF RecordOf
  <2>3. r \in Replies /\ r.type = "WORKER_REGISTER_ACK" /\ r.job_id = 0
    BY <2>1, PlainReply, SMTT(90) DEF ReplyTypes
  <2>4. Evolves(sched, sched, m)
    BY <1>1, NothingReported, UnreportedEvolves
  <2> HIDE DEF id, Replies
  <2>5. id # 0
    BY <2>1
  <2>6. FrameTrue(r, sched)
    <3> HIDE DEF r
    <3> QED  BY <2>3 DEF FrameTrue
  <2> DEFINE a == r
  <2>7. a = r
    OBVIOUS
  <2> HIDE DEF a
  <2>8. Answer(i, m, sched, id, clients[i].job_client, a)
    BY <1>1, <2>2, <2>3, <2>4, <2>5, <2>6, <2>7 DEF Answer, ReportTypes
  <2> QED  BY <2>1, <2>7, <2>8
<1>5. CASE RegisterOK(st.workers, fd, NOW) /\ Failed(st, st.sched, w.next_worker_id)
           /\ UNCHANGED server
  <2>1. Doubt(st.up, i, sched)
    <3> HIDE DEF w
    <3> QED  BY <1>1, <1>5, Failing DEF Arrived
  <2> QED  BY <1>4, <1>5, <2>1 DEF Handled
<1>6. CASE RegisterOK(st.workers, fd, NOW) /\ QueueMessage(t, i, r, d)
  <2>1. id \in 1..MAX_WORKER_ID /\ Answer(i, m, sched, id, clients[i].job_client, r)
    BY <1>4, <1>6
  <2>2. r \in Replies
    BY <2>1 DEF Answer
  <2> HIDE DEF w, id
  <2>3. /\ c \in ClientType /\ c.fd = old.fd /\ c.conn = old.conn
        /\ c.worker_id = id /\ c.job_client = old.job_client
    <3> HIDE DEF old, Replies
    <3>1. id \in 0..MAX_WORKER_ID
      BY <2>1
    <3>2. c \in ClientType
      BY <1>1, <3>1 DEF ClientType
    <3> QED  BY <1>1, <3>2 DEF ClientType
  <2> HIDE DEF c
  <2>4. Prepared(t, i) /\ t.sched = st.sched /\ t.up = st.up /\ t.clients[i] = c
    BY <1>1, <2>3, PreparedSlot, SMTT(90)
  <2> HIDE DEF t, r
  <2>5. Stays(st.up, i, sched, id, clients[i].job_client, r) \/ Shut(st.up, i, sched, id)
    BY <1>1, <1>6, <2>2, <2>3, <2>4, Queueing
  <2> QED  BY <2>1, <2>5 DEF Handled
<1>7. [st EXCEPT !.workers = w, !.clients[i].worker_id = id] = t
  <2> DEFINE a == [st EXCEPT !.workers = w]
  <2> HIDE DEF w
  <2>1. Updated(st, a, st.sched, w)
    BY <1>1, TableFields
  <2> HIDE DEF a
  <2>2. SlotSet(a, i, c)
    BY <2>1, SlotField DEF Updated
  <2> HIDE DEF c
  <2>3. [a EXCEPT !.clients[i] = c] = t
    BY <2>1, <2>2 DEF SlotSet, Values, Updated
  <2>4. [a EXCEPT !.clients[i].worker_id = id] = [a EXCEPT !.clients[i] = c]
    BY <2>1 DEF c, Updated
  <2> QED  BY <2>3, <2>4 DEF a
<1> HIDE DEF t
<1> QED  BY <1>3, <1>5, <1>6, <1>7 DEF HandleRegister

\* A slot whose frame was handled without a reply.
LEMMA ResetKept ==
  ASSUME NEW i \in Slots, NEW st, Arrived(st, i)
  PROVE  LET c == ResetInput(st.clients[i])
         IN  /\ c \in ClientType /\ c.fd = clients[i].fd /\ c.conn = clients[i].conn
             /\ c.worker_id = clients[i].worker_id /\ c.job_client = clients[i].job_client
             /\ c.output = NoMessage
<1> DEFINE old == st.clients[i]
           c   == ResetInput(old)
<1>1. /\ c \in ClientType /\ c.fd = old.fd /\ c.conn = old.conn
      /\ c.worker_id = old.worker_id /\ c.output = NoMessage
  BY ResetSlot DEF Arrived
<1>2. /\ old \in ClientType /\ old.fd = clients[i].fd /\ old.conn = clients[i].conn
      /\ old.worker_id = clients[i].worker_id /\ old.job_client = clients[i].job_client
  BY DEF Arrived, Prepared
<1>3. c.job_client = old.job_client
  <2> HIDE DEF old, Replies
  <2> QED  BY <1>2 DEF ClientType, ResetInput
<1> HIDE DEF c, old
<1> QED  BY <1>1, <1>2, <1>3 DEF c, old

\* handle_heartbeat.
LEMMA BeatHandled ==
  ASSUME NEW i \in Slots, NEW st, Arrived(st, i), NEW m, m.type = "HEARTBEAT", NEW d \in Nat,
         HandleHeartbeat(st, i, m, d)
  PROVE  Handled(st.up, i, m)
<1> DEFINE w == Heartbeat(st.workers, m.worker_id, NOW)
           c == ResetInput(st.clients[i])
           t == Values(st.sched, w, [st.clients EXCEPT ![i] = c], st.up)
<1>1. /\ Fields(st) /\ st.sched = sched /\ Prepared(st, i) /\ SchedulerOK(sched)
      /\ st.clients[i].worker_id = clients[i].worker_id
  BY DEF Arrived, Prepared
<1>2. /\ c \in ClientType /\ c.fd = clients[i].fd /\ c.conn = clients[i].conn
      /\ c.worker_id = clients[i].worker_id /\ c.job_client = clients[i].job_client
      /\ c.output = NoMessage
  BY ResetKept
<1>3. CASE Reject(st, i, d)
  BY <1>1, <1>3, Closing DEF Reject, Handled
<1>4. CASE Published(t, 0) /\ UNCHANGED server
  <2> HIDE DEF w, c
  <2>1. Stays(st.up, i, sched, clients[i].worker_id, clients[i].job_client, NoMessage)
    BY <1>1, <1>2, <1>4, Staying
  <2>2. Evolves(sched, sched, m)
    BY <1>1, NothingReported, UnreportedEvolves
  <2>3. NoMessage \in Replies /\ NoMessage.type = "NONE" /\ NoMessage.job_id = 0
    BY PlainReply, SMTT(90) DEF NoMessage, ReplyTypes
  <2> HIDE DEF NoMessage, Replies
  <2>4. Answer(i, m, sched, clients[i].worker_id, clients[i].job_client, NoMessage)
    BY <1>1, <2>2, <2>3 DEF Answer, FrameTrue, ReportTypes
  <2> QED  BY <2>1, <2>4 DEF Handled
<1>5. [st EXCEPT !.workers = Heartbeat(@, m.worker_id, NOW), !.clients[i] = ResetInput(@)] = t
  <2> DEFINE a == [st EXCEPT !.workers = w]
  <2>1. Updated(st, a, st.sched, w)
    BY <1>1, TableFields
  <2>2. [st EXCEPT !.workers = Heartbeat(@, m.worker_id, NOW)] = a
    BY <1>1 DEF Fields
  <2> HIDE DEF a, w
  <2>3. SlotSet(a, i, c)
    BY <2>1, SlotField DEF Updated
  <2>4. [a EXCEPT !.clients[i] = c] = t
    BY <2>1, <2>3 DEF SlotSet, Values, Updated
  <2>5. [a EXCEPT !.clients[i] = ResetInput(@)] = [a EXCEPT !.clients[i] = c]
    BY <2>1 DEF Updated
  <2> QED  BY <2>2, <2>4, <2>5
<1> HIDE DEF t
<1> QED  BY <1>3, <1>4, <1>5 DEF HandleHeartbeat

\* handle_submit.
LEMMA SubmissionHandled ==
  ASSUME NEW i \in Slots, NEW st, Arrived(st, i), NEW m, m.type = "JOB_SUBMIT", RequestOK(m),
         NEW d \in Nat, HandleSubmit(st, i, m, d)
  PROVE  Handled(st.up, i, m)
<1> DEFINE old == st.clients[i]
           s  == Submit(st.sched, m.value[1], m.value[2], 0)
           id == st.sched.next_job_id
           c  == [old EXCEPT !.job_client = TRUE]
           t  == Values(s, st.workers, [st.clients EXCEPT ![i] = c], st.up)
           r  == Message("JOB_SUBMIT_ACK", 0, id, 0)
           w  == clients[i].worker_id
<1>1. /\ Fields(st) /\ old \in ClientType /\ old.fd = clients[i].fd /\ old.conn = clients[i].conn
      /\ old.worker_id = clients[i].worker_id /\ st.sched = sched /\ Prepared(st, i)
      /\ SchedulerOK(sched) /\ NotAfter(sched, 0)
      /\ old.output = clients[i].output
  BY DEF Arrived, Prepared
<1>2. CASE Reject(st, i, d)
  BY <1>1, <1>2, Closing DEF Reject, Handled
<1>3. ASSUME SubmitAdmitted(st.sched, 0)
      PROVE  SchedulerOK(s) /\ NotAfter(s, 0) /\ Answer(i, m, s, w, TRUE, r) /\ r \in Replies
  <2>1. /\ SchedulerOK(s) /\ NotAfter(s, 0) /\ Evolves(sched, s, m)
        /\ id \in DOMAIN s.jobs /\ id \notin DOMAIN sched.jobs /\ id \in Nat
        /\ \A k \in DOMAIN sched.jobs : s.jobs[k] = sched.jobs[k]
    BY <1>1, <1>3, SubmitEvolves, SMTT(90)
  <2>2. r \in Replies /\ r.type = "JOB_SUBMIT_ACK" /\ r.job_id = id
    BY <2>1, PlainReply, SMTT(90) DEF ReplyTypes
  <2> HIDE DEF r, s, id, Replies
  <2>3. FrameTrue(r, s)
    BY <2>1, <2>2 DEF FrameTrue
  <2> QED  BY <2>1, <2>2, <2>3 DEF Answer, ReportTypes
<1>4. CASE SubmitAdmitted(st.sched, 0) /\ Failed(st, s, st.workers.next_worker_id)
           /\ UNCHANGED server
  <2>1. Answer(i, m, s, w, TRUE, r)
    BY <1>3, <1>4
  <2> HIDE DEF s
  <2>2. Doubt(st.up, i, s)
    BY <1>1, <1>4, Failing
  <2> QED  BY <2>1, <2>2 DEF Handled
<1>5. CASE SubmitAdmitted(st.sched, 0) /\ QueueMessage(t, i, r, d)
  <2>1. SchedulerOK(s) /\ NotAfter(s, 0) /\ Answer(i, m, s, w, TRUE, r) /\ r \in Replies
    BY <1>3, <1>5
  <2>2. /\ c \in ClientType /\ c.fd = old.fd /\ c.conn = old.conn
        /\ c.worker_id = old.worker_id /\ c.job_client = TRUE
    <3> HIDE DEF old, Replies
    <3>1. c \in ClientType
      BY <1>1 DEF ClientType
    <3> QED  BY <1>1, <3>1 DEF ClientType
  <2> HIDE DEF s, c, id
  <2>3. Prepared(t, i) /\ t.sched = s /\ t.up = st.up /\ t.clients[i] = c
    BY <1>1, <2>1, <2>2, PreparedSlot, SMTT(90)
  <2> HIDE DEF t, r
  <2>4. Stays(st.up, i, s, w, TRUE, r) \/ Shut(st.up, i, s, w)
    BY <1>1, <1>5, <2>1, <2>2, <2>3, Queueing
  <2> QED  BY <2>1, <2>4 DEF Handled
<1>6. [st EXCEPT !.sched = s, !.clients[i].job_client = TRUE] = t
  <2> DEFINE a == [st EXCEPT !.sched = s]
  <2> HIDE DEF s
  <2>1. Updated(st, a, s, st.workers)
    BY <1>1, TableFields
  <2> HIDE DEF a
  <2>2. SlotSet(a, i, c)
    BY <2>1, SlotField DEF Updated
  <2> HIDE DEF c
  <2>3. [a EXCEPT !.clients[i] = c] = t
    BY <2>1, <2>2 DEF SlotSet, Values, Updated
  <2>4. [a EXCEPT !.clients[i].job_client = TRUE] = [a EXCEPT !.clients[i] = c]
    BY <2>1 DEF c, Updated
  <2> QED  BY <2>3, <2>4 DEF a
<1> HIDE DEF t
<1> QED  BY <1>2, <1>4, <1>5, <1>6 DEF HandleSubmit

\* handle_report.
LEMMA OutcomeHandled ==
  ASSUME NEW i \in Slots, NEW st, Arrived(st, i), NEW m, m.type \in ReportTypes, RequestOK(m),
         NEW d \in Nat, HandleReport(st, i, m, d)
  PROVE  Handled(st.up, i, m)
<1> DEFINE s == Report(sched, ReportOf(m), 0)
           c == ResetInput(st.clients[i])
           t == Values(s, st.workers, [st.clients EXCEPT ![i] = c], st.up)
           w == clients[i].worker_id
           j == clients[i].job_client
<1>1. /\ Fields(st) /\ st.sched = sched /\ Prepared(st, i) /\ SchedulerOK(sched)
      /\ NotAfter(sched, 0) /\ st.clients[i].worker_id = w
      /\ st.clients[i].output = clients[i].output
  BY DEF Arrived, Prepared
<1>2. CASE Reject(st, i, d)
  BY <1>1, <1>2, Closing DEF Reject, Handled
<1>3. ASSUME ReportFits(st, i, m)
      PROVE  Answer(i, m, s, w, j, NoMessage)
  <2>1. ReportOfLive(sched, s, w, m)
    BY <1>1, <1>3, ReportEvolves
  <2>2. NoMessage \in Replies /\ NoMessage.type = "NONE" /\ NoMessage.job_id = 0
    BY PlainReply, SMTT(90) DEF NoMessage, ReplyTypes
  <2> HIDE DEF NoMessage, Replies, s, c, t
  <2> QED  BY <2>1, <2>2 DEF ReportOfLive, Answer, FrameTrue, ReportTypes
<1>4. CASE ReportFits(st, i, m) /\ Failed(st, s, st.workers.next_worker_id) /\ UNCHANGED server
  <2>1. Answer(i, m, s, w, j, NoMessage)
    BY <1>3, <1>4
  <2> HIDE DEF s
  <2>2. Doubt(st.up, i, s)
    BY <1>1, <1>4, Failing
  <2> QED  BY <2>1, <2>2 DEF Handled
<1>5. CASE ReportFits(st, i, m) /\ Published(t, d) /\ UNCHANGED server
  <2>1. Answer(i, m, s, w, j, NoMessage)
    BY <1>3, <1>5
  <2>2. /\ c \in ClientType /\ c.fd = clients[i].fd /\ c.conn = clients[i].conn
        /\ c.worker_id = w /\ c.job_client = j /\ c.output = NoMessage
    BY ResetKept
  <2> HIDE DEF s, c
  <2>3. Stays(st.up, i, s, w, j, NoMessage)
    BY <1>1, <1>5, <2>2, Staying
  <2> QED  BY <2>1, <2>3 DEF Handled
<1>6. [st EXCEPT !.sched = s, !.clients[i] = ResetInput(@)] = t
  <2> DEFINE a == [st EXCEPT !.sched = s]
  <2> HIDE DEF s
  <2>1. Updated(st, a, s, st.workers)
    BY <1>1, TableFields
  <2> HIDE DEF a
  <2>2. SlotSet(a, i, c)
    BY <2>1, SlotField DEF Updated
  <2>3. [a EXCEPT !.clients[i] = c] = t
    BY <2>1, <2>2 DEF SlotSet, Values, Updated
  <2>4. [a EXCEPT !.clients[i] = ResetInput(@)] = [a EXCEPT !.clients[i] = c]
    BY <2>1 DEF Updated
  <2> QED  BY <2>3, <2>4 DEF a
<1> HIDE DEF t
<1> QED  BY <1>1, <1>2, <1>4, <1>5, <1>6 DEF HandleReport

\* Every message.
LEMMA FrameHandled ==
  ASSUME NEW i \in Slots, NEW st, Arrived(st, i), st.workers = workers,
         Agree(workers, clients), NEW m, RequestOK(m), NEW d \in Nat, HandleMessage(st, i, m, d)
  PROVE  Handled(st.up, i, m)
BY QueryHandled, RegistrationHandled, BeatHandled, SubmissionHandled, OutcomeHandled
   DEF HandleMessage
=============================================================================
