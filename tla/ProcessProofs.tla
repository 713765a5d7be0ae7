---------------------------- MODULE ProcessProofs ---------------------------
(***************************************************************************)
(* What a step of a worker or of a client does, as the rest of the         *)
(* cluster sees it: what it sends and takes from its connection, and what  *)
(* becomes of the assignment or the request it is at; and what the effects *)
(* of LoopEffects leave to them.  ClusterBase, and that answers agree, hold *)
(* after each of these steps.                                              *)
(***************************************************************************)
EXTENDS ClusterInvariant, TLAPS

USE ZenonT(20), SMTT(30), SMTT(60)

-----------------------------------------------------------------------------
(* The coordinator, as its processes find it.                              *)

\* A job of the table, by its number.
LEMMA JobFields ==
  ASSUME NEW s, SchedulerOK(s), NEW id \in DOMAIN s.jobs
  PROVE  /\ id \in 1..Len(s.jobs) /\ s.jobs[id] \in JobType
         /\ s.jobs[id].id = id /\ JobOK(s.jobs[id])
BY DEF SchedulerOK, SchedulerType, TableOK

\* A table that does not change.
LEMMA SameTable ==
  ASSUME NEW s, SchedulerOK(s)
  PROVE  Unreported(s, s)
<1>1. \A k \in DOMAIN s.jobs : s.jobs[k].attempt \in Nat
  BY JobFields DEF JobType
<1> QED  BY <1>1 DEF Unreported, Grows, JobGrows, Completes, Fails

\* A closed slot.
LEMMA EmptySlot ==
  NoClient.fd = -1 /\ NoClient.worker_id = 0 /\ NoClient.output = NoMessage
<1> HIDE DEF NoMessage, NOW
<1> QED  BY DEF NoClient

\* The published values.
LEMMA InPlace ==
  /\ Here.sched = sched /\ Here.workers = workers /\ Here.clients = clients /\ Here.up = up
  /\ Here = [sched |-> Here.sched, workers |-> Here.workers,
             clients |-> Here.clients, up |-> Here.up]
BY DEF Here

\* The same in the next state.
LEMMA NextInPlace ==
  /\ Here'.sched = sched' /\ Here'.workers = workers' /\ Here'.clients = clients'
  /\ Here'.up = up'
  /\ Here' = [sched |-> Here'.sched, workers |-> Here'.workers,
              clients |-> Here'.clients, up |-> Here'.up]
BY DEF Here

\* A connection with nothing on its way to the coordinator.
LEMMA FewestFrames == FramesOK(<<>>)
BY DEF FramesOK

\* One more request on its way to the coordinator.
LEMMA MoreFrames ==
  ASSUME NEW q, FramesOK(q), NEW m, RequestOK(m)
  PROVE  FramesOK(Append(q, m))
<1> DEFINE S == {q[n] : n \in DOMAIN q} \cup {m}
           r == Append(q, m)
<1>1. q \in Seq({q[n] : n \in DOMAIN q})
  BY DEF FramesOK
<1>2. q \in Seq(S) /\ m \in S
  BY <1>1
<1> HIDE DEF S
<1>3. r \in Seq(S) /\ \A n \in DOMAIN r : (n \in DOMAIN q /\ r[n] = q[n]) \/ r[n] = m
  BY <1>2
<1> HIDE DEF r
<1>4. r \in Seq({r[n] : n \in DOMAIN r})
  BY <1>3
<1>5. \A n \in DOMAIN r : RequestOK(r[n])
  BY <1>3 DEF FramesOK
<1> QED  BY <1>4, <1>5 DEF FramesOK, r

-----------------------------------------------------------------------------
(* Frames and queues.                                                      *)

\* A frame that is true of a table is true of what the table grows into.
LEMMA FrameStays ==
  ASSUME NEW s, NEW t, SchedulerOK(s), SchedulerOK(t), Grows(s, t), NEW f \in Replies,
         FrameTrue(f, s)
  PROVE  FrameTrue(f, t)
<1>1. f.attempt \in Nat
  BY DEF Replies
<1>2. CASE f.job_id \in DOMAIN s.jobs
  <2> DEFINE a == s.jobs[f.job_id]
             b == t.jobs[f.job_id]
  <2>1. f.job_id \in DOMAIN t.jobs /\ JobGrows(a, b)
    BY <1>2 DEF Grows
  <2>2. a.attempt \in Nat /\ b.attempt \in Nat
    BY <1>2, <2>1, JobFields DEF JobType
  <2> HIDE DEF a, b
  <2>3. FrameTrue(f, s) => FrameTrue(f, t)
    BY <1>1, <1>2, <2>1, <2>2 DEF FrameTrue, JobGrows, Ended, a, b
  <2> QED  BY <2>3
<1>3. CASE f.job_id \notin DOMAIN s.jobs
  BY <1>3 DEF FrameTrue
<1> QED  BY <1>2, <1>3

\* A frame is added to a queue.
LEMMA AddedFrame ==
  ASSUME NEW S, NEW q \in Seq(S), NEW f \in S
  PROVE  LET t == Append(q, f)
         IN  /\ t \in Seq(S) /\ Len(t) = Len(q) + 1 /\ t # <<>> /\ t[Len(q) + 1] = f
             /\ \A n \in DOMAIN q : n \in DOMAIN t /\ t[n] = q[n]
             /\ \A n \in DOMAIN t : n \in DOMAIN q \/ n = Len(q) + 1
             /\ Len(q) + 1 \in DOMAIN t
OBVIOUS

\* The first frame of a queue is taken.
LEMMA RemovedFrame ==
  ASSUME NEW S, NEW q \in Seq(S), q # <<>>
  PROVE  LET t == Tail(q)
         IN  /\ t \in Seq(S) /\ Len(t) = Len(q) - 1 /\ 1 \in DOMAIN q /\ Head(q) = q[1]
             /\ Head(q) \in S
             /\ \A n \in DOMAIN t : n + 1 \in DOMAIN q /\ t[n] = q[n + 1]
OBVIOUS

\* A queue without frames.
LEMMA NoFrame ==
  ASSUME NEW S, NEW q \in Seq(S), Len(q) = 0
  PROVE  q = <<>>
OBVIOUS

\* What every place holds is a frame.
LEMMA FrameTypes ==
  ASSUME clients \in [Slots -> ClientType], ProcessesTyped, ConnectionsOK
  PROVE  /\ \A i \in Slots : clients[i].output \in Replies
         /\ \A c \in Conns : down[c] \in Seq(Replies) /\ \A n \in DOMAIN down[c] : down[c][n] \in Replies
         /\ \A c \in Workers : proc[c] \in ProcessType /\ proc[c].assignment \in Replies
         /\ \A c \in Clients : /\ cli[c] \in RunType /\ cli[c].reply \in Replies
                               /\ \A m \in told[c] : m \in Replies
<1> HIDE DEF Replies
<1>1. \A i \in Slots : clients[i].output \in Replies
  BY DEF ClientType
<1>2. \A c \in Conns : down[c] \in Seq(Replies) /\ \A n \in DOMAIN down[c] : down[c][n] \in Replies
  BY SMTT(90) DEF ConnectionsOK
<1>3. \A c \in Workers : proc[c] \in ProcessType
  <2> HIDE DEF ProcessType
  <2> QED  BY DEF ProcessesTyped
<1>4. \A c \in Clients : cli[c] \in RunType /\ \A m \in told[c] : m \in Replies
  <2> HIDE DEF RunType
  <2> QED  BY DEF ProcessesTyped
<1>5. \A c \in Workers : proc[c].assignment \in Replies
  BY <1>3 DEF ProcessType
<1>6. \A c \in Clients : cli[c].reply \in Replies
  BY <1>4 DEF RunType
<1> QED  BY <1>1, <1>2, <1>3, <1>4, <1>5, <1>6

-----------------------------------------------------------------------------
(* Where frames go in a step of the coordinator or another peer.           *)

\* The frames of the coordinator are those of before, or new for message m on
\* slot i; one may move from this slot to its connection.  What the processes
\* have sent is taken or lost.
Flows(i, m) ==
  /\ Grows(sched, sched')
  /\ \A k \in Slots :
       \/ clients'[k].output = clients[k].output /\ clients'[k].conn = clients[k].conn
       \/ clients'[k].output = NoMessage
       \/ k = i /\ clients'[k].conn = clients[k].conn /\ New(m, clients'[k].output)
  /\ \A c \in Conns :
       /\ \A n \in DOMAIN down[c] : n \in DOMAIN down'[c] /\ down'[c][n] = down[c][n]
       /\ \A n \in DOMAIN down'[c] \ DOMAIN down[c] :
            /\ c = clients[i].conn /\ n = Len(down[c]) + 1
            /\ down'[c][n] = clients[i].output /\ clients'[i].output = NoMessage
  /\ \A c \in Processes : \A n \in DOMAIN up'[c] : \E k \in DOMAIN up[c] : up'[c][n] = up[c][k]

\* The processes do nothing but grow older.
SameProcess(p, q) ==
  /\ q.phase = p.phase /\ q.worker_id = p.worker_id
  /\ q.reason = p.reason /\ q.out = p.out /\ q.received = p.received
  /\ q.assignment = p.assignment /\ q.thread = p.thread /\ q.cancel = p.cancel
  /\ q.status = p.status /\ q.result = p.result

SameRun(r, s) ==
  /\ s.phase = r.phase /\ s.request = r.request /\ s.received = r.received
  /\ s.code = r.code /\ s.reply = r.reply

Idles ==
  /\ proc' \in [Workers -> ProcessType] /\ cli' \in [Clients -> RunType]
  /\ \A c \in Workers : SameProcess(proc[c], proc'[c])
  /\ \A c \in Clients : SameRun(cli[c], cli'[c])
  /\ UNCHANGED <<who, ran, told>>

\* The slot that is served.
LEMMA ServesFlows ==
  ASSUME clients \in [Slots -> ClientType], ConnectionsOK, DOMAIN up = Conns,
         \A c \in Conns : FramesOK(up[c]), NEW i \in Slots, Open(clients, i),
         clients[i].conn \in Conns, NEW m, Serves(i, m)
  PROVE  Flows(i, m)
<1> DEFINE c == clients[i].conn
<1>1. Grows(sched, sched')
  BY DEF Serves, Changes, Evolves
<1>2. NoClient.output = NoMessage
  BY EmptySlot
<1>3. \A k \in Slots :
        \/ clients'[k].output = clients[k].output /\ clients'[k].conn = clients[k].conn
        \/ clients'[k].output = NoMessage
        \/ k = i /\ clients'[k].conn = clients[k].conn /\ New(m, clients'[k].output)
  <2> HIDE DEF NoClient, NoMessage
  <2> QED  BY <1>2 DEF Serves, Rest, SameClient, Dropped, Continues
<1>4. /\ down \in [Conns -> Seq(Replies)] /\ clients[i].output \in Replies
  <2> HIDE DEF Replies
  <2> QED  BY DEF ConnectionsOK, ClientType
<1>5. ASSUME NEW b \in Conns
      PROVE  /\ \A n \in DOMAIN down[b] : n \in DOMAIN down'[b] /\ down'[b][n] = down[b][n]
             /\ \A n \in DOMAIN down'[b] \ DOMAIN down[b] :
                  /\ b = clients[i].conn /\ n = Len(down[b]) + 1
                  /\ down'[b][n] = clients[i].output /\ clients'[i].output = NoMessage
  <2>1. CASE down' = down
    BY <2>1
  <2>2. CASE /\ down' = [down EXCEPT ![c] = Append(down[c], clients[i].output)]
             /\ clients'[i].output = NoMessage
    <3> HIDE DEF Replies, NoMessage
    <3> DEFINE t == Append(down[c], clients[i].output)
    <3>1. /\ t[Len(down[c]) + 1] = clients[i].output
          /\ \A n \in DOMAIN down[c] : n \in DOMAIN t /\ t[n] = down[c][n]
          /\ \A n \in DOMAIN t : n \in DOMAIN down[c] \/ n = Len(down[c]) + 1
      BY <1>4, AddedFrame, SMTT(90)
    <3> HIDE DEF t
    <3>2. down'[b] = IF b = c THEN t ELSE down[b]
      BY <1>4, <2>2 DEF t
    <3> QED  BY <2>2, <3>1, <3>2
  <2> QED  BY <2>1, <2>2 DEF Serves, Dropped, Continues
<1>6. ASSUME NEW b \in Conns, NEW n \in DOMAIN up'[b]
      PROVE  \E k \in DOMAIN up[b] : up'[b][n] = up[b][k]
  <2>1. CASE up' = up
    BY <1>6, <2>1
  <2>2. CASE up' = [up EXCEPT ![c] = <<>>]
    BY <1>6, <2>2
  <2>3. CASE up[c] # <<>> /\ up' = [up EXCEPT ![c] = Tail(up[c])]
    <3> DEFINE q == up[c]
               t == Tail(q)
               S == {q[k] : k \in DOMAIN q}
    <3>1. q \in Seq(S)
      BY DEF FramesOK
    <3> HIDE DEF S
    <3>2. \A k \in DOMAIN t : k + 1 \in DOMAIN q /\ t[k] = q[k + 1]
      BY <2>3, <3>1, RemovedFrame
    <3> HIDE DEF t, q
    <3>3. up'[b] = IF b = c THEN t ELSE up[b]
      BY <2>3 DEF t, q
    <3> QED  BY <1>6, <3>2, <3>3 DEF q
  <2> QED  BY <2>1, <2>2, <2>3 DEF Serves, Dropped, Continues, Takes
<1>7. Processes \subseteq Conns
  BY CoordinatorConstants
<1> QED  BY <1>1, <1>3, <1>5, <1>6, <1>7 DEF Flows

\* It is the slot of its connection, which is open or closed then.
LEMMA ServesConnections ==
  ASSUME clients \in [Slots -> ClientType], ConnectionsOK, DOMAIN up = Conns, NEW i \in Slots,
         Open(clients, i), clients[i].conn \in Conns, NEW m, Serves(i, m)
  PROVE  ConnectionsOK'
<1> DEFINE c == clients[i].conn
<1>1. /\ peer \in [Conns -> {"idle", "open", "closed"}]
      /\ server \in [Conns -> {"none", "backlog", "open", "closed"}]
      /\ down \in [Conns -> Seq(Replies)] /\ clients[i].output \in Replies
      /\ server[c] = "open" /\ peer[c] # "idle"
  <2> HIDE DEF Replies
  <2> QED  BY DEF ConnectionsOK, ClientType
<1>2. peer' = peer /\ \A k \in Slots : k # i => SameClient(clients[k], clients'[k])
  BY DEF Serves, Rest
<1>3. /\ \A b \in Conns : b # c => up'[b] = up[b]
      /\ \A b \in Conns : b # c => down'[b] = down[b]
      /\ down' \in [Conns -> Seq(Replies)]
  <2> HIDE DEF Replies, NoMessage
  <2>1. Append(down[c], clients[i].output) \in Seq(Replies)
    BY <1>1, AddedFrame, SMTT(90)
  <2>2. down' \in [Conns -> Seq(Replies)] /\ \A b \in Conns : b # c => down'[b] = down[b]
    BY <1>1, <2>1 DEF Serves, Dropped, Continues
  <2>3. \A b \in Conns : b # c => up'[b] = up[b]
    BY DEF Serves, Dropped, Continues, Takes
  <2> QED  BY <2>2, <2>3
<1>4. \A b \in Conns : peer'[b] = "idle" => server[b] = "none" /\ up'[b] = <<>> /\ down'[b] = <<>>
  BY <1>1, <1>2, <1>3 DEF ConnectionsOK
<1>5. ASSUME NEW k \in Slots, k # i
      PROVE  /\ Open(clients, k) => server[clients[k].conn] = "open" /\ clients[k].conn # c
             /\ ~Open(clients, k) => clients[k].conn = "none" /\ clients[k].output = NoMessage
             /\ (Open(clients', k) <=> Open(clients, k)) /\ clients'[k].conn = clients[k].conn
             /\ clients'[k].output = clients[k].output
  BY <1>2, <1>5 DEF ConnectionsOK, SameClient, Open
<1>6. ASSUME Dropped(i, m)
      PROVE  ConnectionsOK'
  <2>1. NoClient.fd = -1 /\ NoClient.conn = "none" /\ NoClient.output = NoMessage
    BY EmptySlot DEF NoClient
  <2>2. ~Open(clients', i) /\ clients'[i].conn = "none" /\ clients'[i].output = NoMessage
    BY <1>6, <2>1 DEF Dropped, SameClient, Open
  <2>3. /\ server' \in [Conns -> {"none", "backlog", "open", "closed"}]
        /\ \A b \in Conns : b # c => server'[b] = server[b]
    BY <1>1, <1>6 DEF Dropped
  <2>4. \A b \in Conns : peer'[b] = "idle" => server'[b] = "none"
    BY <1>1, <1>2, <1>4, <2>3
  <2> HIDE DEF Replies
  <2>5. \A k \in Slots : IF Open(clients', k) THEN server'[clients'[k].conn] = "open"
                         ELSE clients'[k].conn = "none" /\ clients'[k].output = NoMessage
    <3> TAKE k \in Slots
    <3>1. CASE k # i /\ Open(clients, k)
      BY <1>5, <1>6, <3>1, SMTT(90) DEF Dropped
    <3> QED  BY <1>5, <2>2, <3>1
  <2>6. \A k, n \in Slots : Open(clients', k) /\ Open(clients', n)
                            /\ clients'[k].conn = clients'[n].conn => k = n
    BY <1>5, <2>2 DEF ConnectionsOK
  <2> QED  BY <1>1, <1>2, <1>3, <1>4, <2>3, <2>4, <2>5, <2>6 DEF ConnectionsOK
<1>7. ASSUME Continues(i, m)
      PROVE  ConnectionsOK'
  <2>1. server' = server /\ (Open(clients', i) <=> Open(clients, i)) /\ clients'[i].conn = c
    BY <1>7 DEF Continues, Open
  <2>2. \A k \in Slots : IF Open(clients', k) THEN server'[clients'[k].conn] = "open"
                         ELSE clients'[k].conn = "none" /\ clients'[k].output = NoMessage
    BY <1>1, <1>5, <2>1
  <2>3. \A k, n \in Slots : Open(clients', k) /\ Open(clients', n)
                            /\ clients'[k].conn = clients'[n].conn => k = n
    BY <1>5, <2>1, SMTT(90) DEF ConnectionsOK
  <2> HIDE DEF Replies
  <2> QED  BY <1>1, <1>2, <1>3, <1>4, <2>1, <2>2, <2>3 DEF ConnectionsOK
<1> QED  BY <1>6, <1>7 DEF Serves

\* Nothing moves.
LEMMA RestsFlows ==
  ASSUME ConnectionsOK, Rests, NEW i
  PROVE  Flows(i, NoMessage) /\ ConnectionsOK'
<1>1. \A k \in Slots : clients'[k].output = clients[k].output /\ clients'[k].conn = clients[k].conn
                       /\ (Open(clients', k) <=> Open(clients, k))
  BY DEF Rests, SameClient, Open
<1>2. peer' = peer /\ server' = server /\ up' = up /\ down' = down /\ Grows(sched, sched')
  BY DEF Rests, Evolves
<1> HIDE DEF Replies, NoMessage
<1>3. ConnectionsOK'
  BY <1>1, <1>2 DEF ConnectionsOK
<1> QED  BY <1>1, <1>2, <1>3 DEF Flows

\* A connection that is accepted carries no frame.
LEMMA EntersFlows ==
  ASSUME ConnectionsOK, DOMAIN up = Conns, NEW c \in Conns, Enters(c), SchedulerOK(sched), NEW i
  PROVE  Flows(i, NoMessage) /\ ConnectionsOK'
<1>1. Grows(sched, sched')
  BY SameTable DEF Enters, Unreported
<1>2. /\ server[c] = "backlog" /\ peer[c] # "idle" /\ peer' = peer /\ down' = down
      /\ peer \in [Conns -> {"idle", "open", "closed"}]
      /\ server \in [Conns -> {"none", "backlog", "open", "closed"}]
      /\ down \in [Conns -> Seq(Replies)]
  <2> HIDE DEF Replies
  <2> QED  BY DEF Enters, ConnectionsOK
<1>3. /\ server' \in [Conns -> {"none", "backlog", "open", "closed"}]
      /\ \A b \in Conns : b # c => server'[b] = server[b] /\ up'[b] = up[b]
      /\ up'[c] = up[c] \/ up'[c] = <<>>
  BY <1>2 DEF Enters
<1>4. \A b \in Conns : peer'[b] = "idle" => server'[b] = "none" /\ up'[b] = <<>> /\ down'[b] = <<>>
  BY <1>2, <1>3 DEF ConnectionsOK
<1>5. \A k \in Slots : Open(clients, k) => clients[k].conn # c /\ server[clients[k].conn] = "open"
  BY <1>2 DEF ConnectionsOK
<1>6. \A b \in Processes : \A n \in DOMAIN up'[b] : \E k \in DOMAIN up[b] : up'[b][n] = up[b][k]
  BY <1>3, CoordinatorConstants, SMTT(90)
<1>7. ASSUME clients' = clients, server' = [server EXCEPT ![c] = "closed"]
      PROVE  Flows(i, NoMessage) /\ ConnectionsOK'
  <2> HIDE DEF NoMessage
  <2>1. Flows(i, NoMessage)
    BY <1>1, <1>2, <1>6, <1>7 DEF Flows
  <2>2. \A k \in Slots : IF Open(clients', k) THEN server'[clients'[k].conn] = "open"
                         ELSE clients'[k].conn = "none" /\ clients'[k].output = NoMessage
    BY <1>2, <1>5, <1>7, SMTT(90) DEF ConnectionsOK
  <2> HIDE DEF Replies
  <2> QED  BY <1>2, <1>3, <1>4, <1>7, <2>1, <2>2 DEF ConnectionsOK
<1>8. ASSUME NEW j \in Slots, ~Open(clients, j), \A k \in Slots : k # j => clients'[k] = clients[k],
             clients'[j].fd >= 0, clients'[j].conn = c, clients'[j].output = NoMessage,
             server' = [server EXCEPT ![c] = "open"]
      PROVE  Flows(i, NoMessage) /\ ConnectionsOK'
  <2> HIDE DEF NoMessage
  <2>1. Flows(i, NoMessage)
    BY <1>1, <1>2, <1>6, <1>8 DEF Flows
  <2>2. Open(clients', j) /\ server'[c] = "open"
        /\ \A k \in Slots : k # j => (Open(clients', k) <=> Open(clients, k))
    BY <1>2, <1>8 DEF Open
  <2>3. \A k \in Slots : IF Open(clients', k) THEN server'[clients'[k].conn] = "open"
                         ELSE clients'[k].conn = "none" /\ clients'[k].output = NoMessage
    BY <1>2, <1>5, <1>8, <2>2, SMTT(90) DEF ConnectionsOK
  <2>4. \A k, n \in Slots : Open(clients', k) /\ Open(clients', n)
                            /\ clients'[k].conn = clients'[n].conn => k = n
    BY <1>5, <1>8, <2>2 DEF ConnectionsOK
  <2> HIDE DEF Replies
  <2> QED  BY <1>2, <1>3, <1>4, <2>1, <2>3, <2>4 DEF ConnectionsOK
<1> QED  BY <1>7, <1>8 DEF Enters

\* A coordinator that exits sends nothing, and loses what it was about to send.
LEMMA EndsFlows ==
  ASSUME ConnectionsOK, UnsyncedGrows, SchedulerOK(sched), Ends, NEW i
  PROVE  Flows(i, NoMessage) /\ ConnectionsOK'
<1>1. Grows(sched, sched')
  BY SameTable DEF Ends, Unreported, UnsyncedGrows
<1>2. NoClient.fd = -1 /\ NoClient.conn = "none" /\ NoClient.output = NoMessage
  BY EmptySlot DEF NoClient
<1>3. \A k \in Slots : ~Open(clients', k) /\ clients'[k].conn = "none"
                       /\ clients'[k].output = NoMessage
  BY <1>2 DEF Ends, Open
<1> HIDE DEF NoMessage, Replies
<1>4. \A c \in Processes : up'[c] = <<>>
  BY CoordinatorConstants DEF Ends
<1>5. Flows(i, NoMessage)
  BY <1>1, <1>3, <1>4, SMTT(90) DEF Flows, Ends
<1>6. /\ server' \in [Conns -> {"none", "backlog", "open", "closed"}]
      /\ \A c \in Conns : server[c] = "none" => server'[c] = "none"
      /\ \A c \in Conns : up'[c] = <<>>
  BY DEF ConnectionsOK, Ends
<1>7. ConnectionsOK'
  BY <1>3, <1>6 DEF ConnectionsOK, Ends
<1> QED  BY <1>5, <1>7

\* A peer that is no process connects, sends or leaves.
LEMMA PeerFlows ==
  ASSUME ConnectionsOK, DOMAIN up = Conns, NEW c \in Conns \ Processes, PeerStep(c),
         SchedulerOK(sched), NEW i
  PROVE  /\ Flows(i, NoMessage) /\ ConnectionsOK' /\ UNCHANGED <<sched, failure, unsynced>>
<1>1. /\ UNCHANGED <<sched, failure, unsynced, clients, down>>
      /\ \A b \in Conns : b # c => up'[b] = up[b]
      /\ \/ /\ peer[c] = "idle" /\ peer' = [peer EXCEPT ![c] = "open"]
            /\ server' = [server EXCEPT ![c] = "backlog"]
         \/ peer[c] = "open" /\ peer' = peer /\ server' = server
         \/ peer[c] = "open" /\ peer' = [peer EXCEPT ![c] = "closed"] /\ server' = server
  BY DEF PeerStep, Connect, Send, CanSend, Disconnect, store
<1>2. Grows(sched, sched')
  BY <1>1, SameTable DEF Unreported
<1>3. /\ peer \in [Conns -> {"idle", "open", "closed"}]
      /\ server \in [Conns -> {"none", "backlog", "open", "closed"}]
  BY DEF ConnectionsOK
<1>4. /\ peer' \in [Conns -> {"idle", "open", "closed"}] /\ peer'[c] # "idle"
      /\ server' \in [Conns -> {"none", "backlog", "open", "closed"}]
      /\ \A b \in Conns : b # c => peer'[b] = peer[b] /\ server'[b] = server[b]
  BY <1>1, <1>3
<1>5. \A k \in Slots : Open(clients, k) => server'[clients[k].conn] = "open"
  <2> SUFFICES ASSUME NEW k \in Slots, Open(clients, k) PROVE server'[clients[k].conn] = "open"
    OBVIOUS
  <2>1. server[clients[k].conn] = "open" /\ (clients[k].conn = c => server[c] = "open")
    BY DEF ConnectionsOK
  <2>2. CASE server' = server
    BY <2>1, <2>2
  <2>3. CASE peer[c] = "idle" /\ server' = [server EXCEPT ![c] = "backlog"]
    <3>1. server[c] = "none"
      BY <2>3 DEF ConnectionsOK
    <3> QED  BY <1>3, <2>1, <2>3, <3>1, SMTT(90)
  <2> QED  BY <1>1, <2>2, <2>3
<1> HIDE DEF NoMessage, Replies
<1>6. Flows(i, NoMessage)
  <2>1. \A b \in Processes : up'[b] = up[b]
    BY <1>1, CoordinatorConstants
  <2> QED  BY <1>1, <1>2, <2>1 DEF Flows
<1>7. ConnectionsOK'
  BY <1>1, <1>4, <1>5 DEF ConnectionsOK
<1> QED  BY <1>1, <1>6, <1>7

-----------------------------------------------------------------------------
(* What these steps leave to the processes.                                *)

\* A worker that has grown older, and its frames.
LEMMA OlderWorker ==
  ASSUME NEW p, NEW q, NEW d, NEW e, SameProcess(p, q), Works(p, d),
         d # <<>> => e # <<>> /\ Head(e) = Head(d)
  PROVE  Works(q, e)
<1>1. /\ q.phase = p.phase /\ q.worker_id = p.worker_id /\ q.out = p.out
      /\ q.received = p.received /\ q.assignment = p.assignment /\ q.thread = p.thread
      /\ q.cancel = p.cancel /\ q.status = p.status /\ q.result = p.result
  BY DEF SameProcess
<1>2. W!Terminal(q) = W!Terminal(p) /\ W!Identity(q, "JOB_STARTED") = W!Identity(p, "JOB_STARTED")
  BY <1>1 DEF W!Terminal, W!Identity
<1>3. EndOf(p) => EndOf(q)
  BY <1>1 DEF EndOf
<1> HIDE DEF NoMessage, Message
<1> QED  BY <1>1, <1>2, <1>3 DEF Works

\* A run that has grown older, and what it has sent.
LEMMA OlderRun ==
  ASSUME NEW r, NEW s, NEW q, NEW t, SameRun(r, s), Runs(r, q),
         \A n \in DOMAIN t : \E k \in DOMAIN q : t[n] = q[k]
  PROVE  Runs(s, t)
<1>1. /\ s.phase = r.phase /\ s.request = r.request /\ s.code = r.code /\ s.reply = r.reply
  BY DEF SameRun
<1> HIDE DEF NoMessage
<1> QED  BY <1>1 DEF Runs

\* Time passes for the processes.
LEMMA AgesIdles ==
  ASSUME ProcessesTyped, NEW d \in Nat, Ages(d)
  PROVE  Idles
<1>1. ASSUME NEW c \in Workers
      PROVE  proc'[c] \in ProcessType /\ SameProcess(proc[c], proc'[c])
  <2> DEFINE p == proc[c]
             t == W!Left(p.timer, d)
             b == W!Left(p.beat, d)
             f == IF p.frame < 0 THEN p.frame ELSE W!Left(p.frame, d)
  <2>1. proc'[c] = [p EXCEPT !.timer = t, !.beat = b, !.frame = f]
    BY DEF Ages, W!Aged
  <2>2. p \in ProcessType
    <3> HIDE DEF ProcessType
    <3> QED  BY DEF ProcessesTyped
  <2>3. t \in Nat /\ b \in Nat /\ f \in Int
    <3>1. p.timer \in Nat /\ p.beat \in Nat /\ p.frame \in Int
      BY <2>2 DEF ProcessType
    <3> HIDE DEF p
    <3> QED  BY <3>1 DEF W!Left
  <2> HIDE DEF p, t, b, f, Replies
  <2> QED  BY <2>1, <2>2, <2>3 DEF ProcessType, SameProcess, p
<1>2. ASSUME NEW c \in Clients
      PROVE  cli'[c] \in RunType /\ SameRun(cli[c], cli'[c])
  <2> DEFINE r == cli[c]
             t == C!Left(r.timer, d)
  <2>1. cli'[c] = [r EXCEPT !.timer = t]
    BY DEF Ages, C!Aged
  <2>2. r \in RunType
    <3> HIDE DEF RunType
    <3> QED  BY DEF ProcessesTyped
  <2>3. t \in Nat
    <3>1. r.timer \in Nat
      BY <2>2 DEF RunType
    <3> HIDE DEF r
    <3> QED  BY <3>1 DEF C!Left
  <2> HIDE DEF r, t, Replies, Asked
  <2> QED  BY <2>1, <2>2, <2>3 DEF RunType, SameRun, r
<1>3. DOMAIN proc' = Workers /\ proc' = [c \in Workers |-> proc'[c]]
      /\ DOMAIN cli' = Clients /\ cli' = [c \in Clients |-> cli'[c]]
  BY DEF Ages, W!Aged, C!Aged
<1> HIDE DEF ProcessType, RunType
<1>4. proc' \in [Workers -> ProcessType] /\ cli' \in [Clients -> RunType]
  BY <1>1, <1>2, <1>3
<1> QED  BY <1>1, <1>2, <1>4 DEF Idles, Ages

\* A step that leaves the processes alone.
LEMMA StandIdles ==
  ASSUME ProcessesTyped, UNCHANGED <<proc, cli, who, ran, told>>
  PROVE  Idles
<1> HIDE DEF ProcessType, RunType
<1> QED  BY DEF Idles, ProcessesTyped, SameProcess, SameRun

\* What the frames say stays true.
LEMMA FlowsFrames ==
  ASSUME SchedulerOK(sched), SchedulerOK(sched'), clients \in [Slots -> ClientType], ProcessesTyped,
         ConnectionsOK, FramesTrue, Idles, NEW i \in Slots, NEW m, Flows(i, m)
  PROVE  FramesTrue'
<1>1. Grows(sched, sched')
  BY DEF Flows
<1>2. \A f \in Replies : FrameTrue(f, sched) => FrameTrue(f, sched')
  BY <1>1, FrameStays
<1>3. FrameTrue(NoMessage, sched')
  BY DEF NoMessage, Message, FrameTrue
<1>4. /\ \A k \in Slots : clients[k].output \in Replies
      /\ \A c \in Conns : \A n \in DOMAIN down[c] : down[c][n] \in Replies
      /\ \A c \in Workers : proc[c].assignment \in Replies
      /\ \A c \in Clients : cli[c].reply \in Replies /\ \A f \in told[c] : f \in Replies
  BY FrameTypes
<1> HIDE DEF Replies, NoMessage
<1>5. \A k \in Slots : FrameTrue(clients'[k].output, sched')
  BY <1>2, <1>3, <1>4 DEF Flows, FramesTrue, New
<1>6. \A c \in Conns : \A n \in DOMAIN down'[c] : FrameTrue(down'[c][n], sched')
  <2> SUFFICES ASSUME NEW c \in Conns, NEW n \in DOMAIN down'[c]
               PROVE  FrameTrue(down'[c][n], sched')
    OBVIOUS
  <2>1. CASE n \in DOMAIN down[c]
    BY <1>2, <1>4, <2>1 DEF Flows, FramesTrue
  <2>2. CASE n \notin DOMAIN down[c]
    <3>1. down'[c][n] = clients[i].output
      BY <2>2 DEF Flows
    <3> QED  BY <1>2, <1>4, <3>1 DEF FramesTrue
  <2> QED  BY <2>1, <2>2
<1>7. \A c \in Workers : FrameTrue(proc'[c].assignment, sched')
  BY <1>2, <1>4 DEF Idles, SameProcess, FramesTrue
<1>8. \A c \in Clients : FrameTrue(cli'[c].reply, sched')
  BY <1>2, <1>4 DEF Idles, SameRun, FramesTrue
<1>9. \A c \in Clients : \A f \in told'[c] : FrameTrue(f, sched')
  BY <1>2, <1>4 DEF Idles, FramesTrue
<1> QED  BY <1>5, <1>6, <1>7, <1>8, <1>9 DEF FramesTrue

\* Such a step keeps the base.
LEMMA FlowsBase ==
  ASSUME ClusterBase, CoordinatorInv', ConnectionsOK', UnsyncedGrows', Idles,
         NEW i \in Slots, NEW m, Flows(i, m)
  PROVE  ClusterBase'
<1>1. /\ SchedulerOK(sched) /\ clients \in [Slots -> ClientType]
  BY InPlace DEF ClusterBase, CoordinatorInv, StateOK, ClientsOK
<1>2. SchedulerOK(sched')
  BY NextInPlace DEF CoordinatorInv, StateOK
<1>3. FramesTrue'
  BY <1>1, <1>2, FlowsFrames DEF ClusterBase
<1>4. ProcessesTyped'
  <2> HIDE DEF ProcessType, RunType, Replies
  <2> QED  BY DEF ClusterBase, ProcessesTyped, Idles
<1>5. Workers \subseteq Processes /\ Clients \subseteq Processes /\ Processes \subseteq Conns
  BY ClusterConstants, CoordinatorConstants
<1>6. ASSUME NEW c \in Workers
      PROVE  WorkerOK(c)'
  <2>1. Works(proc[c], down[c]) /\ SameProcess(proc[c], proc'[c]) /\ c \in Conns
    BY <1>5 DEF ClusterBase, WorkerOK, Idles
  <2>2. down[c] \in Seq(Replies) /\ down'[c] \in Seq(Replies)
    <3> HIDE DEF Replies
    <3> QED  BY <2>1 DEF ClusterBase, ConnectionsOK
  <2>3. \A n \in DOMAIN down[c] : n \in DOMAIN down'[c] /\ down'[c][n] = down[c][n]
    BY <2>1 DEF Flows
  <2>4. down[c] # <<>> => down'[c] # <<>> /\ Head(down'[c]) = Head(down[c])
    <3> HIDE DEF Replies
    <3>1. down[c] # <<>> => 1 \in DOMAIN down[c] /\ Head(down[c]) = down[c][1]
      BY <2>2, RemovedFrame
    <3>2. 1 \in DOMAIN down'[c] => down'[c] # <<>> /\ Head(down'[c]) = down'[c][1]
      BY <2>2, RemovedFrame, SMTT(90)
    <3> QED  BY <2>3, <3>1, <3>2
  <2>5. Works(proc'[c], down'[c])
    BY <2>1, <2>4, OlderWorker
  <2> QED  BY <2>5 DEF WorkerOK
<1>7. ASSUME NEW c \in Clients
      PROVE  ClientOK(c)'
  <2>1. Runs(cli[c], up[c]) /\ SameRun(cli[c], cli'[c])
    BY DEF ClusterBase, ClientOK, Idles
  <2>2. \A n \in DOMAIN up'[c] : \E k \in DOMAIN up[c] : up'[c][n] = up[c][k]
    BY <1>5 DEF Flows
  <2>3. Runs(cli'[c], up'[c])
    BY <2>1, <2>2, OlderRun, SMTT(90)
  <2> QED  BY <2>3 DEF ClientOK
<1> QED  BY <1>3, <1>4, <1>6, <1>7 DEF ClusterBase

-----------------------------------------------------------------------------
(* The steps of the coordinator and of other peers together.               *)

Elsewhere == Serve \/ Time \/ Stops \/ Restarts \/ OtherStep \/ UNCHANGED vars

\* One of these happens.
Turns ==
  \/ Rests
  \/ /\ failure = "NONE" /\ unsynced = <<>>
     /\ \E i \in Slots : \E m : Open(clients, i) /\ Serves(i, m)
  \/ \E c \in Conns : Enters(c)
  \/ Ends
  \/ \E c \in (Conns \cap who) \ Processes : PeerStep(c)

\* Each effect of the coordinator or another peer moves frames as Flows says.
LEMMA TurnsFlow ==
  ASSUME ClusterBase, Turns
  PROVE  ConnectionsOK' /\ UnsyncedGrows' /\ \E i \in Slots : \E m : Flows(i, m)
<1>1. /\ SchedulerOK(sched) /\ clients \in [Slots -> ClientType] /\ DOMAIN up = Conns
      /\ \A c \in Conns : FramesOK(up[c])
      /\ \A i \in Slots : Open(clients, i) => clients[i].conn \in Conns
      /\ ConnectionsOK /\ UnsyncedGrows
  BY InPlace DEF ClusterBase, CoordinatorInv, StateOK, ClientsOK
<1>2. 1 \in Slots
  BY CoordinatorConstants DEF Slots
<1>3. CASE Rests
  <2>1. UnsyncedGrows'
    BY <1>1, <1>3 DEF Rests, UnsyncedGrows
  <2> QED  BY <1>1, <1>2, <1>3, <2>1, RestsFlows
<1>4. ASSUME unsynced = <<>>, NEW i \in Slots, NEW m, Open(clients, i), Serves(i, m)
      PROVE  ConnectionsOK' /\ UnsyncedGrows' /\ Flows(i, m)
  <2>1. UnsyncedGrows'
    BY <1>4 DEF Serves, Changes, UnsyncedGrows
  <2> QED  BY <1>1, <1>4, <2>1, ServesConnections, ServesFlows
<1>5. ASSUME NEW c \in Conns, Enters(c)
      PROVE  ConnectionsOK' /\ UnsyncedGrows' /\ \E i \in Slots : \E m : Flows(i, m)
  <2>1. UnsyncedGrows'
    BY <1>1, <1>5 DEF Enters, UnsyncedGrows
  <2> QED  BY <1>1, <1>2, <1>5, <2>1, EntersFlows
<1>6. CASE Ends
  <2>1. UnsyncedGrows'
    BY <1>6 DEF Ends, UnsyncedGrows
  <2> QED  BY <1>1, <1>2, <1>6, <2>1, EndsFlows
<1>7. ASSUME NEW c \in Conns \ Processes, PeerStep(c)
      PROVE  ConnectionsOK' /\ UnsyncedGrows' /\ \E i \in Slots : \E m : Flows(i, m)
  <2>1. UNCHANGED <<sched, failure, unsynced>> /\ ConnectionsOK' /\ Flows(1, NoMessage)
    BY <1>1, <1>7, PeerFlows
  <2>2. UnsyncedGrows'
    BY <1>1, <2>1 DEF UnsyncedGrows
  <2> QED  BY <1>2, <2>1, <2>2
<1> QED  BY <1>3, <1>4, <1>5, <1>6, <1>7 DEF Turns

-----------------------------------------------------------------------------
(* What a process does with its connection.                                *)

Opens(c) ==
  /\ peer[c] = "idle" /\ peer' = [peer EXCEPT ![c] = "open"]
  /\ server' = [server EXCEPT ![c] = "backlog"] /\ UNCHANGED <<up, down>>

Sends(c, m) ==
  /\ server[c] \in {"backlog", "open"} /\ up' = [up EXCEPT ![c] = Append(up[c], m)]
  /\ UNCHANGED <<peer, server, down>>

Reads(c) ==
  /\ down[c] # <<>> /\ down' = [down EXCEPT ![c] = Tail(down[c])]
  /\ UNCHANGED <<peer, server, up>>

Hangs(c) ==
  /\ peer' = [peer EXCEPT ![c] = "closed"] /\ down' = [down EXCEPT ![c] = <<>>]
  /\ UNCHANGED server /\ up' \in {up, [up EXCEPT ![c] = <<>>]}

\* Set ms holds what it may send.
Uses(c, ms) ==
  Opens(c) \/ Reads(c) \/ Hangs(c) \/ UNCHANGED network \/ \E m \in ms : Sends(c, m)

\* What the coordinator relies on stays.
LEMMA UsesConnection ==
  ASSUME CoordinatorInv, ConnectionsOK, NEW c \in Conns, NEW ms, Uses(c, ms),
         \A m \in ms : RequestOK(m),
         UNCHANGED <<store, clients, loop, dispatched, restarts>>
  PROVE  /\ CoordinatorInv' /\ ConnectionsOK'
         /\ \A b \in Conns : /\ b # c => up'[b] = up[b] /\ down'[b] = down[b]
                             /\ down'[b] \in Seq(Replies)
                             /\ \A n \in DOMAIN down'[b] : \E k \in DOMAIN down[b] :
                                  down'[b][n] = down[b][k]
<1>1. /\ peer \in [Conns -> {"idle", "open", "closed"}]
      /\ server \in [Conns -> {"none", "backlog", "open", "closed"}]
      /\ down \in [Conns -> Seq(Replies)] /\ DOMAIN up = Conns
      /\ \A b \in Conns : FramesOK(up[b])
      /\ \A b \in Conns : peer[b] = "idle" => server[b] = "none" /\ up[b] = <<>> /\ down[b] = <<>>
  <2> HIDE DEF Replies
  <2> QED  BY InPlace DEF ConnectionsOK, CoordinatorInv, StateOK
<1>2. /\ DOMAIN up' = Conns /\ \A b \in Conns : FramesOK(up'[b]) /\ (b # c => up'[b] = up[b])
      /\ (up'[c] = up[c] \/ up'[c] = <<>> \/ (server[c] # "none" /\ peer' = peer))
  <2>1. ASSUME NEW m \in ms, Sends(c, m)
        PROVE  /\ DOMAIN up' = Conns /\ \A b \in Conns : FramesOK(up'[b]) /\ (b # c => up'[b] = up[b])
               /\ server[c] # "none" /\ peer' = peer
    <3>1. FramesOK(Append(up[c], m))
      BY <1>1, <2>1, MoreFrames
    <3>2. up' = [up EXCEPT ![c] = Append(up[c], m)] /\ server[c] # "none" /\ peer' = peer
      BY <2>1 DEF Sends
    <3> HIDE DEF FramesOK
    <3> QED  BY <1>1, <3>1, <3>2
  <2>2. CASE up' = [up EXCEPT ![c] = <<>>]
    <3>1. FramesOK(<<>>)
      BY FewestFrames
    <3> HIDE DEF FramesOK
    <3> QED  BY <1>1, <2>2, <3>1
  <2>3. CASE up' = up
    <3> HIDE DEF FramesOK
    <3> QED  BY <1>1, <2>3
  <2> QED  BY <2>1, <2>2, <2>3 DEF Uses, Opens, Reads, Hangs, network
<1>3. CoordinatorInv'
  <2>1. /\ sched' = sched /\ workers' = workers /\ clients' = clients
        /\ dispatched' = dispatched /\ UNCHANGED <<failure, unsynced, phase, index, seen>>
    BY DEF store, loop
  <2>2. StateOK(Here', dispatched')
    BY <1>2, <2>1, InPlace, NextInPlace DEF CoordinatorInv, StateOK
  <2>3. UnsyncedOK'
    BY <2>1 DEF CoordinatorInv, UnsyncedOK
  <2> QED  BY <2>1, <2>2, <2>3 DEF CoordinatorInv
<1>4. /\ down' \in [Conns -> Seq(Replies)] /\ \A b \in Conns : b # c => down'[b] = down[b]
      /\ \A n \in DOMAIN down'[c] : \E k \in DOMAIN down[c] : down'[c][n] = down[c][k]
      /\ (down[c] = <<>> => down'[c] = <<>>)
  <2> HIDE DEF Replies
  <2>1. CASE Reads(c)
    <3> DEFINE t == Tail(down[c])
    <3>1. t \in Seq(Replies) /\ \A n \in DOMAIN t : n + 1 \in DOMAIN down[c] /\ t[n] = down[c][n + 1]
      BY <1>1, <2>1, RemovedFrame, SMTT(90) DEF Reads
    <3> HIDE DEF t
    <3>2. down' = [down EXCEPT ![c] = t]
      BY <2>1 DEF Reads, t
    <3> QED  BY <1>1, <2>1, <3>1, <3>2 DEF Reads
  <2>2. CASE down' = [down EXCEPT ![c] = <<>>]
    BY <1>1, <2>2, SMTT(90)
  <2>3. CASE down' = down
    BY <1>1, <2>3
  <2> QED  BY <2>1, <2>2, <2>3 DEF Uses, Opens, Sends, Hangs, network
<1>5. /\ peer' \in [Conns -> {"idle", "open", "closed"}]
      /\ server' \in [Conns -> {"none", "backlog", "open", "closed"}]
      /\ \A b \in Conns : b # c => peer'[b] = peer[b] /\ server'[b] = server[b]
      /\ peer'[c] = "idle" => peer[c] = "idle" /\ server'[c] = server[c]
      /\ server[c] = "open" => server'[c] = "open"
  BY <1>1 DEF Uses, Opens, Sends, Reads, Hangs, network
<1>6. ConnectionsOK'
  <2> HIDE DEF Replies
  <2>1. \A b \in Conns : peer'[b] = "idle" => server'[b] = "none" /\ up'[b] = <<>> /\ down'[b] = <<>>
    BY <1>1, <1>2, <1>4, <1>5
  <2>2. \A i \in Slots : IF Open(clients, i) THEN server'[clients[i].conn] = "open"
                         ELSE clients[i].conn = "none" /\ clients[i].output = NoMessage
    <3> TAKE i \in Slots
    <3>1. Open(clients, i) => clients[i].conn \in Conns
      BY InPlace DEF CoordinatorInv, StateOK, ClientsOK
    <3> HIDE DEF NoMessage
    <3> QED  BY <1>5, <3>1 DEF ConnectionsOK
  <2> QED  BY <1>4, <1>5, <2>1, <2>2 DEF ConnectionsOK
<1> HIDE DEF Replies
<1> QED  BY <1>2, <1>3, <1>4, <1>6, SMTT(90)

\* So do the frames on their way to a process.
LEMMA UsesFrames ==
  ASSUME ClusterBase, NEW c \in Conns,
         \A b \in Conns : \A n \in DOMAIN down'[b] : \E k \in DOMAIN down[b] : down'[b][n] = down[b][k],
         UNCHANGED <<sched, clients>>,
         \A b \in Workers : FrameTrue(proc'[b].assignment, sched),
         \A b \in Clients : FrameTrue(cli'[b].reply, sched),
         \A b \in Clients : \A f \in told'[b] : FrameTrue(f, sched)
  PROVE  FramesTrue'
<1>1. \A b \in Conns : \A n \in DOMAIN down'[b] : FrameTrue(down'[b][n], sched)
  BY DEF ClusterBase, FramesTrue
<1> QED  BY <1>1 DEF FramesTrue, ClusterBase

-----------------------------------------------------------------------------
(* The steps of a worker.                                                  *)

Sending(p) == IF p.phase = "send" THEN {p.out} ELSE {}

\* Worker c takes a step: its assignment comes from the connection, what is
\* started was taken before, and what it concludes was decided.
Moves(c) ==
  LET p == proc[c]
      q == proc'[c]
  IN /\ \A b \in Workers : b # c => proc'[b] = proc[b]
     /\ q \in ProcessType /\ Works(q, down'[c])
     /\ Uses(c, Sending(p))
     /\ \/ q.assignment \in {p.assignment, NoMessage}
        \/ down[c] # <<>> /\ q.assignment = Head(down[c])
     /\ \/ Taken(q) = NoMessage
        \/ Taken(q) = Taken(p) /\ down' = down
        \/ Reads(c) /\ Taken(q) = Head(down[c])
     /\ Starts(c) => /\ Taken(p) = p.assignment /\ q.assignment = p.assignment
                     /\ Taken(q) = NoMessage /\ p.assignment.type = "JOB_ASSIGN"
     /\ Decides(c) => q.assignment = p.assignment /\ p.assignment.type = "JOB_ASSIGN"
     /\ Concluded(q) => /\ q.assignment = p.assignment
                        /\ Decides(c) \/ (q.status = p.status /\ Concluded(p))

\* What is known of it before.
Ready(c) ==
  /\ proc \in [Workers -> ProcessType] /\ Works(proc[c], down[c])
  /\ down[c] \in Seq(Replies) /\ DOMAIN down = Conns /\ c \in Conns
  /\ FrameTrue(proc[c].assignment, sched) /\ SchedulerOK(sched)

\* ClusterBase has what the steps of a worker need.
LEMMA WorkerReady ==
  ASSUME ClusterBase, NEW c \in Workers
  PROVE  Ready(c)
<1>1. c \in Conns
  BY ClusterConstants, CoordinatorConstants
<1>2. SchedulerOK(sched)
  BY InPlace DEF ClusterBase, CoordinatorInv, StateOK
<1> HIDE DEF ProcessType, Replies
<1> QED  BY <1>1, <1>2 DEF ClusterBase, ProcessesTyped, ConnectionsOK, FramesTrue, WorkerOK, Ready

\* Its task and its assignment are left alone.
Keeps(p, q) ==
  /\ q.assignment = p.assignment /\ q.thread = p.thread /\ q.cancel = p.cancel
  /\ q.status = p.status /\ q.result = p.result

\* A step to a place where nothing is being sent.
LEMMA QuietMove ==
  ASSUME NEW c \in Workers, Ready(c), NEW q \in ProcessType, proc' = [proc EXCEPT ![c] = q],
         Keeps(proc[c], q), proc[c].phase # "join", q.phase \in {"leave", "exited", "ack", "top", "wait"},
         q.phase \in {"top", "wait"} /\ q.received = "header" =>
           down'[c] # <<>> /\ Head(down'[c]).type = "JOB_ASSIGN",
         Uses(c, Sending(proc[c]))
  PROVE  Moves(c)
<1> DEFINE p == proc[c]
<1>1. Works(p, down[c]) /\ proc'[c] = q /\ \A b \in Workers : b # c => proc'[b] = proc[b]
  <2> HIDE DEF ProcessType
  <2> QED  BY DEF Ready
<1> HIDE DEF p
<1>2. /\ q.assignment = p.assignment /\ q.thread = p.thread /\ q.cancel = p.cancel
      /\ q.status = p.status /\ q.result = p.result
      /\ (EndOf(p) => EndOf(q))
  BY DEF Keeps, EndOf, p
<1>3. Works(q, down'[c])
  <2> HIDE DEF NoMessage, Message
  <2> QED  BY <1>1, <1>2 DEF Works, p
<1>4. /\ Taken(q) = NoMessage /\ ~Starts(c) /\ ~Decides(c) /\ (Concluded(q) => Concluded(p))
  <2> HIDE DEF NoMessage
  <2> QED  BY <1>1, <1>2 DEF Taken, Starts, Decides, Concluded, p
<1> HIDE DEF NoMessage, ProcessType, Uses, Sending
<1> QED  BY <1>1, <1>2, <1>3, <1>4 DEF Moves, p

\* Registration and heartbeats.
LEMMA CallMove ==
  ASSUME NEW c \in Workers, Ready(c), NEW q \in ProcessType, proc' = [proc EXCEPT ![c] = q],
         Keeps(proc[c], q), proc[c].phase \in {"start", "wait"}, q.phase = "send",
         q.out \in {Message("WORKER_REGISTER", 0, 0, 0), Message("HEARTBEAT", q.worker_id, 0, 0)},
         q.received = proc[c].received, down' = down, Uses(c, Sending(proc[c]))
  PROVE  Moves(c)
<1> DEFINE p == proc[c]
<1>1. Works(p, down[c]) /\ proc'[c] = q /\ \A b \in Workers : b # c => proc'[b] = proc[b]
  <2> HIDE DEF ProcessType
  <2> QED  BY DEF Ready
<1> HIDE DEF p
<1>2. /\ q.assignment = p.assignment /\ q.thread = p.thread /\ q.cancel = p.cancel
      /\ q.status = p.status /\ q.result = p.result /\ q.received = p.received
      /\ (EndOf(p) => EndOf(q))
  BY DEF Keeps, EndOf, p
<1>3. q.out.type \in {"WORKER_REGISTER", "HEARTBEAT"}
  BY DEF Message
<1>4. Works(q, down'[c])
  <2> HIDE DEF NoMessage, Message
  <2> QED  BY <1>1, <1>2 DEF Works, p
<1>5. /\ Taken(q) = NoMessage /\ ~Starts(c) /\ ~Decides(c) /\ (Concluded(q) => Concluded(p))
  <2> HIDE DEF NoMessage
  <2> QED  BY <1>1, <1>2, <1>3 DEF Taken, Starts, Decides, Concluded, p
<1> HIDE DEF NoMessage, ProcessType, Uses, Sending
<1> QED  BY <1>1, <1>2, <1>4, <1>5 DEF Moves, p

\* The process with some fields replaced.
LEMMA ProcessFields ==
  ASSUME NEW c \in Workers, Ready(c)
  PROVE  LET p == proc[c]
         IN /\ p \in ProcessType /\ p.worker_id \in Nat /\ p.assignment \in Replies
            /\ p.assignment.job_id \in Nat /\ p.assignment.attempt \in Nat
            /\ p.phase \in {"start", "send", "ack", "top", "wait", "begin", "leave", "join", "exited"}
            /\ p.result \in Tasks \cup {"none"} /\ p.frame \in Int /\ p.out \in WorkerFrames
<1> DEFINE p == proc[c]
<1>1. p \in ProcessType
  <2> HIDE DEF ProcessType
  <2> QED  BY DEF Ready
<1> HIDE DEF p
<1>2. p.assignment \in Replies
  <2> HIDE DEF Replies, WorkerFrames
  <2> QED  BY <1>1 DEF ProcessType
<1>3. p.assignment.job_id \in Nat /\ p.assignment.attempt \in Nat
  BY <1>2 DEF Replies
<1>4. /\ p.worker_id \in Nat /\ p.result \in Tasks \cup {"none"} /\ p.frame \in Int
      /\ p.phase \in {"start", "send", "ack", "top", "wait", "begin", "leave", "join", "exited"}
      /\ p.out \in WorkerFrames
  <2> HIDE DEF Replies, WorkerFrames
  <2> QED  BY <1>1 DEF ProcessType
<1> QED  BY <1>1, <1>2, <1>3, <1>4 DEF p

\* A worker gives up its connection.
LEMMA LeaveMove ==
  ASSUME NEW c \in Workers, Ready(c), NEW why \in {"stop", "error", "refused"},
         proc' = [proc EXCEPT ![c] = W!Leave(proc[c], why)], proc[c].phase # "join",
         Uses(c, Sending(proc[c]))
  PROVE  Moves(c)
<1> DEFINE p == proc[c]
           q == W!Leave(p, why)
<1>1. p \in ProcessType
  BY ProcessFields
<1> HIDE DEF p
<1>2. q \in ProcessType /\ Keeps(p, q) /\ q.phase = "leave"
  <2> HIDE DEF Replies, WorkerFrames
  <2> QED  BY <1>1 DEF W!Leave, ProcessType, Keeps
<1> HIDE DEF q
<1> QED  BY <1>2, QuietMove DEF p, q

\* It connects, and registers.
LEMMA ConnectMoves ==
  ASSUME NEW c \in Workers, Ready(c), W!Connect(c)
  PROVE  Moves(c)
<1> DEFINE p == proc[c]
           q == W!StartSend(p, Message("WORKER_REGISTER", 0, 0, 0))
<1>1. Opens(c) /\ p.phase = "start" /\ down' = down
  BY DEF W!Connect, Opens
<1>2. Uses(c, Sending(p))
  BY <1>1 DEF Uses
<1>3. CASE proc' = [proc EXCEPT ![c] = W!Leave(p, "stop")]
  BY <1>1, <1>2, <1>3, LeaveMove
<1>4. CASE proc' = [proc EXCEPT ![c] = q]
  <2>1. p \in ProcessType
    BY ProcessFields
  <2>2. Message("WORKER_REGISTER", 0, 0, 0) \in WorkerFrames /\ IO_TIMEOUT \in Nat
    BY CoordinatorConstants DEF Message, WorkerFrames
  <2> HIDE DEF p
  <2>3. /\ q \in ProcessType /\ Keeps(p, q) /\ q.phase = "send" /\ q.received = p.received
        /\ q.out = Message("WORKER_REGISTER", 0, 0, 0)
    <3> HIDE DEF Replies, WorkerFrames, Message
    <3> QED  BY <2>1, <2>2 DEF W!StartSend, ProcessType, Keeps
  <2> HIDE DEF q
  <2> QED  BY <1>1, <1>2, <1>4, <2>3, CallMove DEF p
<1> QED  BY <1>3, <1>4 DEF W!Connect, W!Set, W!Message, Message

\* It waits for the answer to its registration.
LEMMA ReceiveAckMoves ==
  ASSUME NEW c \in Workers, Ready(c), NEW arriving, W!ReceiveAck(c, arriving)
  PROVE  Moves(c)
<1> DEFINE p == proc[c]
           m == Head(down[c])
<1>1. p.phase = "ack" /\ UNCHANGED <<peer, server, up>> /\ p \in ProcessType
  BY ProcessFields DEF W!ReceiveAck
<1>2. ASSUME UNCHANGED down  PROVE Uses(c, Sending(p))
  BY <1>1, <1>2 DEF Uses, network
<1>3. ASSUME NEW why \in {"stop", "error", "refused"},
             proc' = [proc EXCEPT ![c] = W!Leave(p, why)], UNCHANGED down
      PROVE  Moves(c)
  BY <1>1, <1>2, <1>3, LeaveMove
<1>4. ASSUME NEW r \in {"part", "header"}, proc' = [proc EXCEPT ![c] = [p EXCEPT !.received = r]],
             UNCHANGED down
      PROVE  Moves(c)
  <2> DEFINE q == [p EXCEPT !.received = r]
  <2>1. Uses(c, Sending(p)) /\ proc' = [proc EXCEPT ![c] = q]
    BY <1>2, <1>4
  <2> HIDE DEF p
  <2>2. q \in ProcessType /\ Keeps(p, q) /\ q.phase = "ack"
    <3> HIDE DEF Replies, WorkerFrames
    <3> QED  BY <1>1 DEF ProcessType, Keeps
  <2> HIDE DEF q
  <2> QED  BY <1>1, <2>1, <2>2, QuietMove DEF p
<1>5. CASE /\ down[c] # <<>> /\ down' = [down EXCEPT ![c] = Tail(@)]
           /\ proc' = [proc EXCEPT ![c] =
                [p EXCEPT !.phase = "top", !.worker_id = m.worker_id, !.received = "nothing",
                          !.timer = 0, !.beat = HEARTBEAT_INTERVAL]]
  <2> DEFINE q == [p EXCEPT !.phase = "top", !.worker_id = m.worker_id, !.received = "nothing",
                            !.timer = 0, !.beat = HEARTBEAT_INTERVAL]
  <2>1. Uses(c, Sending(p)) /\ proc' = [proc EXCEPT ![c] = q]
    BY <1>1, <1>5 DEF Uses, Reads
  <2>2. m \in Replies
    <3> HIDE DEF Replies
    <3> QED  BY <1>5, RemovedFrame DEF Ready
  <2>3. m.worker_id \in Nat /\ HEARTBEAT_INTERVAL \in Nat
    BY <2>2, ClusterConstants DEF Replies
  <2> HIDE DEF p, m
  <2>4. q \in ProcessType /\ Keeps(p, q) /\ q.phase = "top" /\ q.received = "nothing"
    <3> HIDE DEF Replies, WorkerFrames
    <3> QED  BY <1>1, <2>3 DEF ProcessType, Keeps
  <2> HIDE DEF q
  <2> QED  BY <1>1, <2>1, <2>4, QuietMove DEF p
<1>6. \/ /\ \/ proc' = [proc EXCEPT ![c] = W!Leave(p, "stop")]
            \/ proc' = [proc EXCEPT ![c] = W!Leave(p, "error")]
            \/ proc' = [proc EXCEPT ![c] = W!Leave(p, "refused")]
            \/ proc' = [proc EXCEPT ![c] = [p EXCEPT !.received = "part"]]
            \/ proc' = [proc EXCEPT ![c] = [p EXCEPT !.received = "header"]]
         /\ UNCHANGED down
      \/ /\ down[c] # <<>> /\ down' = [down EXCEPT ![c] = Tail(@)]
         /\ proc' = [proc EXCEPT ![c] =
              [p EXCEPT !.phase = "top", !.worker_id = m.worker_id, !.received = "nothing",
                        !.timer = 0, !.beat = HEARTBEAT_INTERVAL]]
  BY DEF W!ReceiveAck, W!Set
<1> QED  BY <1>3, <1>4, <1>5, <1>6

\* It sends a frame.
LEMMA SendMoves ==
  ASSUME NEW c \in Workers, Ready(c), W!SendAll(c)
  PROVE  Moves(c)
<1> DEFINE p == proc[c]
           q == W!Sent(p)
<1>1. /\ p.phase = "send" /\ UNCHANGED <<peer, server, down>> /\ p \in ProcessType
      /\ Works(p, down[c])
  BY ProcessFields DEF W!SendAll, Ready
<1>2. CASE proc' = [proc EXCEPT ![c] = W!Leave(p, "error")] /\ UNCHANGED up
  <2>1. Uses(c, Sending(p))
    BY <1>1, <1>2 DEF Uses, network
  <2> QED  BY <1>1, <1>2, <2>1, LeaveMove
<1>3. CASE /\ proc' = [proc EXCEPT ![c] = q]
           /\ up' = IF W!Connected(c) THEN [up EXCEPT ![c] = Append(@, p.out)] ELSE up
  <2>1. Uses(c, Sending(p))
    <3>1. p.out \in Sending(p)
      BY <1>1 DEF Sending
    <3>2. CASE W!Connected(c)
      <4>1. Sends(c, p.out)
        BY <1>1, <1>3, <3>2 DEF Sends, W!Connected
      <4> QED  BY <3>1, <4>1 DEF Uses
    <3>3. CASE ~W!Connected(c)
      BY <1>1, <1>3, <3>3 DEF Uses, network
    <3> QED  BY <3>2, <3>3
  <2>2. /\ NoMessage \in WorkerFrames /\ NoMessage \in Replies
        /\ IO_TIMEOUT \in Nat /\ HEARTBEAT_INTERVAL \in Nat
    BY CoordinatorConstants, ClusterConstants
       DEF NoMessage, Message, WorkerFrames, Replies, ReplyTypes, ReplyValues
  <2>3. \/ p.out.type \in {"WORKER_REGISTER", "HEARTBEAT"}
        \/ /\ p.assignment.type = "JOB_ASSIGN" /\ p.thread = "none"
           /\ p.out.type \in {"JOB_STARTED", "JOB_COMPLETED", "JOB_FAILED"}
    <3>1. W!Terminal(p).type \in {"JOB_COMPLETED", "JOB_FAILED"}
      BY DEF W!Terminal, W!Carrying, W!Identity, W!Message
    <3>2. W!Identity(p, "JOB_STARTED").type = "JOB_STARTED"
      BY DEF W!Identity, W!Message
    <3>3. /\ Message("WORKER_REGISTER", 0, 0, 0).type = "WORKER_REGISTER"
          /\ Message("HEARTBEAT", p.worker_id, 0, 0).type = "HEARTBEAT"
      BY DEF Message
    <3> HIDE DEF NoMessage, Message, p
    <3> QED  BY <1>1, <3>1, <3>2, <3>3 DEF Works
  <2>4. p.received = "header" => down'[c] # <<>> /\ Head(down'[c]).type = "JOB_ASSIGN"
    BY <1>1 DEF Works
  <2>5. ~p.cancel
    BY <1>1 DEF Works
  <2> HIDE DEF p
  <2>6. CASE p.out.type = "WORKER_REGISTER"
    <3>1. q \in ProcessType /\ Keeps(p, q) /\ q.phase = "ack"
      <4> HIDE DEF Replies, WorkerFrames, NoMessage
      <4> QED  BY <1>1, <2>2, <2>6 DEF W!Sent, W!NoMessage, NoMessage, W!Message, Message, ProcessType, Keeps
    <3> HIDE DEF q
    <3> QED  BY <1>1, <1>3, <2>1, <3>1, QuietMove DEF p
  <2>7. CASE p.out.type = "HEARTBEAT"
    <3>1. q \in ProcessType /\ Keeps(p, q) /\ q.phase = "top" /\ q.received = p.received
      <4> HIDE DEF Replies, WorkerFrames
      <4> QED  BY <1>1, <2>2, <2>7 DEF W!Sent, W!NoMessage, NoMessage, W!Message, Message, ProcessType, Keeps
    <3> HIDE DEF q
    <3> QED  BY <1>1, <1>3, <2>1, <2>4, <3>1, QuietMove DEF p
  <2>8. CASE p.out.type \in {"JOB_STARTED", "JOB_COMPLETED", "JOB_FAILED"}
    <3>1. /\ q \in ProcessType /\ q.thread = p.thread /\ q.cancel = p.cancel /\ q.status = p.status
          /\ q.received = p.received
          /\ IF p.out.type = "JOB_STARTED" THEN q.phase = "begin" /\ q.assignment = p.assignment
             ELSE q.phase = "top" /\ q.assignment = NoMessage
      <4> HIDE DEF Replies, WorkerFrames
      <4> QED  BY <1>1, <2>2, <2>8 DEF W!Sent, W!NoMessage, NoMessage, W!Message, Message, ProcessType
    <3> HIDE DEF q
    <3>2. proc'[c] = q /\ \A b \in Workers : b # c => proc'[b] = proc[b]
      <4> HIDE DEF ProcessType
      <4> QED  BY <1>3 DEF Ready
    <3> HIDE DEF NoMessage
    <3>3. Works(q, down'[c])
      BY <2>3, <2>4, <2>5, <2>8, <3>1 DEF Works
    <3>4. \/ Taken(q) = NoMessage
          \/ Taken(q) = Taken(p) /\ down' = down
      BY <1>1, <2>8, <3>1 DEF Taken
    <3>5. ~Starts(c) /\ ~Decides(c) /\ ~Concluded(q)
      BY <1>1, <2>3, <2>8, <3>1, <3>2 DEF Starts, Decides, Concluded, p
    <3>6. q.assignment \in {p.assignment, NoMessage}
      BY <3>1
    <3> HIDE DEF ProcessType, Uses, Sending
    <3> QED  BY <2>1, <3>1, <3>2, <3>3, <3>4, <3>5, <3>6 DEF Moves, p
  <2> QED  BY <2>3, <2>6, <2>7, <2>8
<1> QED  BY <1>2, <1>3 DEF W!SendAll, W!Set

\* What a report says.
LEMMA ReportFields ==
  ASSUME NEW p \in ProcessType
  PROVE  /\ W!Terminal(p) \in WorkerFrames /\ W!Identity(p, "JOB_STARTED") \in WorkerFrames
         /\ W!Terminal(p).type = IF p.status = "OK" THEN "JOB_COMPLETED" ELSE "JOB_FAILED"
         /\ W!Terminal(p).job_id = p.assignment.job_id /\ W!Terminal(p).attempt = p.assignment.attempt
         /\ p.status = "OK" => W!Terminal(p).value = <<p.result>>
         /\ W!Identity(p, "JOB_STARTED").type = "JOB_STARTED"
<1>1. p.worker_id \in Nat /\ p.assignment \in Replies /\ p.result \in Tasks \cup {"none"}
  <2> HIDE DEF Replies, WorkerFrames
  <2> QED  BY DEF ProcessType
<1>2. p.assignment.job_id \in Nat /\ p.assignment.attempt \in Nat
  BY <1>1 DEF Replies
<1>3. ASSUME NEW type \in {"JOB_STARTED", "JOB_FAILED", "JOB_COMPLETED"}
      PROVE  W!Identity(p, type) = [type |-> type, worker_id |-> p.worker_id,
                job_id |-> p.assignment.job_id, attempt |-> p.assignment.attempt, value |-> <<>>]
  BY DEF W!Identity, W!Message
<1>4. W!Terminal(p) = [type |-> IF p.status = "OK" THEN "JOB_COMPLETED" ELSE "JOB_FAILED",
                       worker_id |-> p.worker_id, job_id |-> p.assignment.job_id,
                       attempt |-> p.assignment.attempt,
                       value |-> IF p.status = "OK" THEN <<p.result>> ELSE <<>>]
  BY <1>3 DEF W!Terminal, W!Carrying
<1> HIDE DEF ProcessType
<1>5. W!Identity(p, "JOB_STARTED") \in WorkerFrames /\ W!Identity(p, "JOB_STARTED").type = "JOB_STARTED"
  BY <1>1, <1>2, <1>3 DEF WorkerFrames, ReportTypes
<1>6. (IF p.status = "OK" THEN <<p.result>> ELSE <<>>)
         \in {<<>>} \cup {<<result>> : result \in Tasks \cup {"none"}}
  BY <1>1
<1>7. W!Terminal(p) \in WorkerFrames
  BY <1>1, <1>2, <1>4, <1>6, SMTT(90) DEF WorkerFrames, ReportTypes
<1> QED  BY <1>4, <1>5, <1>7

\* It looks for an outcome to report, for a request to stop and for time to pass.
LEMMA TopMoves ==
  ASSUME NEW c \in Workers, Ready(c), W!Top(c)
  PROVE  Moves(c)
<1> DEFINE p == proc[c]
<1>1. p.phase = "top" /\ UNCHANGED network /\ p \in ProcessType /\ down' = down
      /\ Works(p, down[c])
  BY ProcessFields DEF W!Top, network, Ready
<1>2. Uses(c, Sending(p))
  BY <1>1 DEF Uses
<1>3. p.received = "header" => down'[c] # <<>> /\ Head(down'[c]).type = "JOB_ASSIGN"
  BY <1>1 DEF Works
<1>4. CASE proc' = [proc EXCEPT ![c] = W!Leave(p, "stop")]
  BY <1>1, <1>2, <1>4, LeaveMove
<1>5. CASE proc' = [proc EXCEPT ![c] = [p EXCEPT !.phase = "wait"]]
  <2> DEFINE q == [p EXCEPT !.phase = "wait"]
  <2> HIDE DEF p
  <2>1. q \in ProcessType /\ Keeps(p, q) /\ q.phase = "wait" /\ q.received = p.received
    <3> HIDE DEF Replies, WorkerFrames
    <3> QED  BY <1>1 DEF ProcessType, Keeps
  <2> HIDE DEF q
  <2> QED  BY <1>1, <1>2, <1>3, <1>5, <2>1, QuietMove DEF p, q
<1>6. CASE /\ p.thread = "done"
           /\ proc' = [proc EXCEPT ![c] = W!StartSend([p EXCEPT !.thread = "none"], W!Terminal(p))]
  <2> DEFINE m == W!Terminal(p)
             q == W!StartSend([p EXCEPT !.thread = "none"], m)
  <2>1. m \in WorkerFrames /\ m.type \in {"JOB_COMPLETED", "JOB_FAILED"} /\ IO_TIMEOUT \in Nat
    BY <1>1, ReportFields, CoordinatorConstants
  <2>2. p.assignment.type = "JOB_ASSIGN" /\ EndOf(p) /\ ~p.cancel
    BY <1>1, <1>6 DEF Works
  <2>3. proc'[c] = q /\ \A b \in Workers : b # c => proc'[b] = proc[b]
    <3> HIDE DEF ProcessType, q
    <3> QED  BY <1>6 DEF Ready, q
  <2> HIDE DEF p, m
  <2>4. /\ q \in ProcessType /\ q.assignment = p.assignment /\ q.thread = "none" /\ q.out = m
        /\ q.cancel = p.cancel /\ q.status = p.status /\ q.result = p.result
        /\ q.received = p.received /\ q.worker_id = p.worker_id /\ q.phase = "send"
    <3> HIDE DEF Replies, WorkerFrames
    <3> QED  BY <1>1, <2>1 DEF W!StartSend, ProcessType
  <2> HIDE DEF q
  <2>5. W!Terminal(q) = m /\ EndOf(q)
    BY <2>2, <2>4 DEF W!Terminal, W!Identity, EndOf, m
  <2>6. Works(q, down'[c])
    <3> HIDE DEF NoMessage, Message
    <3> QED  BY <1>3, <2>2, <2>4, <2>5 DEF Works
  <2>7. Taken(q) = NoMessage /\ ~Starts(c) /\ ~Decides(c) /\ Concluded(p)
    <3> HIDE DEF NoMessage
    <3> QED  BY <1>1, <1>6, <2>1, <2>3, <2>4 DEF Taken, Starts, Decides, Concluded, p
  <2> HIDE DEF ProcessType, Uses, Sending, NoMessage
  <2> QED  BY <1>2, <2>3, <2>4, <2>6, <2>7 DEF Moves, p
<1> QED  BY <1>4, <1>5, <1>6 DEF W!Top, W!Set

\* It starts to send frame m.
LEMMA Sender ==
  ASSUME NEW p \in ProcessType, NEW m \in WorkerFrames
  PROVE  LET q == W!StartSend(p, m)
         IN  /\ q \in ProcessType /\ q.phase = "send" /\ q.out = m /\ q.worker_id = p.worker_id
             /\ q.received = p.received /\ Keeps(p, q)
<1>1. IO_TIMEOUT \in Nat
  BY CoordinatorConstants
<1> HIDE DEF Replies, WorkerFrames
<1> QED  BY <1>1 DEF W!StartSend, ProcessType, Keeps

\* What a wait for input ends with.
LEMMA TakeMoves ==
  ASSUME NEW c \in Workers, Ready(c), proc[c].phase = "wait", proc[c].received = "header",
         proc[c].assignment.job_id = 0, NEW p0, p0 = [proc[c] EXCEPT !.phase = "top"], Reads(c),
         NEW taken, taken = [p0 EXCEPT !.received = "nothing", !.frame = -1, !.assignment = Head(down[c])],
         proc' = [proc EXCEPT ![c] = W!StartSend(taken, W!Identity(taken, "JOB_STARTED"))]
  PROVE  Moves(c)
<1> DEFINE p == proc[c]
           f == Head(down[c])
           m == W!Identity(taken, "JOB_STARTED")
           q == W!StartSend(taken, m)
<1>1. p \in ProcessType /\ Works(p, down[c])
  BY ProcessFields DEF Ready
<1>2. f \in Replies /\ f.type = "JOB_ASSIGN"
  <2>1. down[c] # <<>>
    BY DEF Reads
  <2> HIDE DEF Replies
  <2> QED  BY <1>1, <2>1, RemovedFrame DEF Ready, Works
<1>3. p.thread = "none" /\ ~p.cancel
  <2>1. ~p.cancel /\ (p.thread # "none" => p.assignment.type = "JOB_ASSIGN")
    BY <1>1 DEF Works
  <2>2. p.assignment.type = "JOB_ASSIGN" => 0 \in DOMAIN sched.jobs
    BY DEF Ready, FrameTrue
  <2>3. 0 \notin DOMAIN sched.jobs
    BY JobFields, SMTT(90) DEF Ready
  <2> QED  BY <2>1, <2>2, <2>3
<1>4. Uses(c, Sending(p))
  BY DEF Uses
<1>5. proc'[c] = q /\ \A b \in Workers : b # c => proc'[b] = proc[b]
  <2> HIDE DEF ProcessType, q
  <2> QED  BY DEF Ready, q
<1>a. /\ p0 = [p EXCEPT !.phase = "top"]
      /\ taken = [p0 EXCEPT !.received = "nothing", !.frame = -1, !.assignment = f]
  OBVIOUS
<1> HIDE DEF p, f
<1>6. /\ taken \in ProcessType /\ taken.assignment = f /\ taken.received = "nothing"
      /\ taken.thread = p.thread /\ taken.cancel = p.cancel
  <2> HIDE DEF Replies, WorkerFrames
  <2>1. p0 \in ProcessType /\ p0.thread = p.thread /\ p0.cancel = p.cancel
    BY <1>1, <1>a DEF ProcessType
  <2>2. -1 \in Int /\ f \in Replies
    BY <1>2
  <2> QED  BY <1>a, <2>1, <2>2 DEF ProcessType
<1>7. m \in WorkerFrames /\ m.type = "JOB_STARTED"
  BY <1>6, ReportFields
<1> HIDE DEF m
<1>8. /\ q \in ProcessType /\ q.assignment = f /\ q.thread = p.thread /\ q.cancel = p.cancel
      /\ q.phase = "send" /\ q.out = m /\ q.received = "nothing" /\ q.worker_id = taken.worker_id
  BY <1>6, <1>7, Sender DEF Keeps
<1> HIDE DEF q
<1>9. q.out = W!Identity(q, "JOB_STARTED")
  BY <1>6, <1>8 DEF W!Identity, m
<1>10. Works(q, down'[c])
  <2> HIDE DEF NoMessage, Message
  <2> QED  BY <1>2, <1>3, <1>8, <1>9 DEF Works
<1>11. Taken(q) = f /\ ~Starts(c) /\ ~Decides(c) /\ ~Concluded(q)
  BY <1>3, <1>5, <1>7, <1>8 DEF Taken, Starts, Decides, Concluded, p
<1>12. down[c] # <<>>
  BY DEF Reads
<1> HIDE DEF ProcessType, Uses, Sending, NoMessage, Reads
<1> QED  BY <1>4, <1>5, <1>8, <1>10, <1>11, <1>12 DEF Moves, p, f

\* It receives a frame, or a part of one.
LEMMA ReceiveMoves ==
  ASSUME NEW c \in Workers, Ready(c), proc[c].phase = "wait", NEW arriving, W!Receive(c, arriving),
         UNCHANGED <<peer, server, up>>
  PROVE  Moves(c)
<1> DEFINE p     == proc[c]
           p0    == [p EXCEPT !.phase = "top"]
           f     == Head(down[c])
           begun == [p0 EXCEPT !.frame = IF p0.received = "nothing" THEN IO_TIMEOUT ELSE @]
           taken == [p0 EXCEPT !.received = "nothing", !.frame = -1, !.assignment = f]
<1>1. p \in ProcessType /\ p.frame \in Int
  BY ProcessFields
<1>2. ASSUME UNCHANGED down  PROVE Uses(c, Sending(p))
  BY <1>2 DEF Uses, network
<1>3. ASSUME down[c] # <<>>, down' = [down EXCEPT ![c] = Tail(@)]  PROVE Reads(c) /\ Uses(c, Sending(p))
  BY <1>3 DEF Uses, Reads
<1>4. ASSUME NEW why \in {"error", "refused"}, proc' = [proc EXCEPT ![c] = W!Leave(p0, why)],
             Uses(c, Sending(p))
      PROVE  Moves(c)
  <2>1. W!Leave(p0, why) = W!Leave(p, why)
    <3> HIDE DEF p, Replies, WorkerFrames
    <3> QED  BY <1>1 DEF W!Leave, ProcessType
  <2> QED  BY <1>4, <2>1, LeaveMove
<1>5. ASSUME NEW r \in {"part", "header"}, proc' = [proc EXCEPT ![c] = [begun EXCEPT !.received = r]],
             UNCHANGED down, r = "header" => down[c] # <<>> /\ f.type = "JOB_ASSIGN"
      PROVE  Moves(c)
  <2> DEFINE q == [begun EXCEPT !.received = r]
  <2>1. Uses(c, Sending(p)) /\ proc' = [proc EXCEPT ![c] = q] /\ IO_TIMEOUT \in Int
        /\ (r = "header" => down'[c] # <<>> /\ Head(down'[c]).type = "JOB_ASSIGN")
    BY <1>2, <1>5, CoordinatorConstants
  <2> HIDE DEF p
  <2>2. q \in ProcessType /\ Keeps(p, q) /\ q.phase = "top" /\ q.received = r
    <3> HIDE DEF Replies, WorkerFrames
    <3> QED  BY <1>1, <2>1 DEF ProcessType, Keeps
  <2> HIDE DEF q
  <2> QED  BY <2>1, <2>2, QuietMove DEF p
<1>6. CASE /\ p.received = "header" /\ p.assignment.job_id = 0
           /\ down[c] # <<>> /\ down' = [down EXCEPT ![c] = Tail(@)]
           /\ proc' = [proc EXCEPT ![c] = W!StartSend(taken, W!Identity(taken, "JOB_STARTED"))]
  BY <1>3, <1>6, TakeMoves
<1>7. p0.received = p.received /\ p0.assignment = p.assignment
  <2> HIDE DEF p, Replies, WorkerFrames
  <2> QED  BY <1>1 DEF ProcessType
<1>8. \/ /\ \/ proc' = [proc EXCEPT ![c] = W!Leave(p0, "error")]
            \/ proc' = [proc EXCEPT ![c] = [begun EXCEPT !.received = "part"]]
            \/ /\ proc' = [proc EXCEPT ![c] = [begun EXCEPT !.received = "header"]]
               /\ down[c] # <<>> /\ f.type = "JOB_ASSIGN"
            \/ proc' = [proc EXCEPT ![c] = W!Leave(p0, "refused")]
         /\ UNCHANGED down
      \/ /\ p0.received = "header" /\ down[c] # <<>> /\ down' = [down EXCEPT ![c] = Tail(@)]
         /\ \/ proc' = [proc EXCEPT ![c] = W!Leave(p0, "refused")]
            \/ /\ p0.assignment.job_id = 0
               /\ proc' = [proc EXCEPT ![c] = W!StartSend(taken, W!Identity(taken, "JOB_STARTED"))]
  BY DEF W!Receive, W!Set
<1> HIDE DEF p0, begun, taken
<1> QED  BY <1>2, <1>3, <1>4, <1>5, <1>6, <1>7, <1>8

\* It waits for a frame, an outcome or the time of its next heartbeat.
LEMMA WaitMoves ==
  ASSUME NEW c \in Workers, Ready(c), NEW arriving, W!Wait(c, arriving)
  PROVE  Moves(c)
<1> DEFINE p == proc[c]
           m == Message("HEARTBEAT", p.worker_id, 0, 0)
           q == W!StartSend(p, m)
           r == [p EXCEPT !.phase = "top"]
<1>1. p.phase = "wait" /\ UNCHANGED <<peer, server, up>> /\ p \in ProcessType /\ p.worker_id \in Nat
      /\ Works(p, down[c])
  BY ProcessFields DEF W!Wait, Ready
<1>2. ASSUME UNCHANGED down  PROVE Uses(c, Sending(p))
  BY <1>1, <1>2 DEF Uses, network
<1>3. ASSUME NEW why \in {"stop", "error"}, proc' = [proc EXCEPT ![c] = W!Leave(p, why)], UNCHANGED down
      PROVE  Moves(c)
  BY <1>1, <1>2, <1>3, LeaveMove
<1>4. CASE proc' = [proc EXCEPT ![c] = q] /\ UNCHANGED down
  <2>1. m \in WorkerFrames /\ IO_TIMEOUT \in Nat
    BY <1>1, CoordinatorConstants DEF Message, WorkerFrames
  <2>2. Uses(c, Sending(p)) /\ down' = down
    BY <1>2, <1>4
  <2> HIDE DEF p, m
  <2>3. /\ q \in ProcessType /\ Keeps(p, q) /\ q.phase = "send" /\ q.received = p.received
        /\ q.out = m /\ q.worker_id = p.worker_id
    <3> HIDE DEF Replies, WorkerFrames
    <3> QED  BY <1>1, <2>1 DEF W!StartSend, ProcessType, Keeps
  <2> HIDE DEF q
  <2> QED  BY <1>1, <1>4, <2>2, <2>3, CallMove DEF p, m, q
<1>5. CASE proc' = [proc EXCEPT ![c] = r] /\ UNCHANGED down
  <2>1. Uses(c, Sending(p)) /\ down' = down
    BY <1>2, <1>5
  <2>2. p.received = "header" => down'[c] # <<>> /\ Head(down'[c]).type = "JOB_ASSIGN"
    BY <1>1, <2>1 DEF Works
  <2> HIDE DEF p
  <2>3. r \in ProcessType /\ Keeps(p, r) /\ r.phase = "top" /\ r.received = p.received
    <3> HIDE DEF Replies, WorkerFrames
    <3> QED  BY <1>1 DEF ProcessType, Keeps
  <2> HIDE DEF r
  <2> QED  BY <1>1, <1>5, <2>1, <2>2, <2>3, QuietMove DEF p, r
<1>6. CASE W!Receive(c, arriving)
  BY <1>1, <1>6, ReceiveMoves
<1>7. \/ /\ \/ proc' = [proc EXCEPT ![c] = W!Leave(p, "stop")]
            \/ proc' = [proc EXCEPT ![c] = W!Leave(p, "error")]
            \/ proc' = [proc EXCEPT ![c] = q] \/ proc' = [proc EXCEPT ![c] = r]
         /\ UNCHANGED down
      \/ W!Receive(c, arriving)
  BY DEF W!Wait, W!Set, W!Message, Message
<1> HIDE DEF q, r
<1> QED  BY <1>3, <1>4, <1>5, <1>6, <1>7

\* It starts the task it was assigned, or fails to.
LEMMA BeginMoves ==
  ASSUME NEW c \in Workers, Ready(c), W!Begin(c)
  PROVE  Moves(c)
<1> DEFINE p       == proc[c]
           running == [p EXCEPT !.thread = "running", !.cancel = FALSE]
           failed  == [p EXCEPT !.status = "SYSTEM_ERROR"]
           m       == W!Terminal(failed)
<1>1. p.phase = "begin" /\ UNCHANGED network /\ down' = down /\ p \in ProcessType /\ Works(p, down[c])
  BY ProcessFields DEF W!Begin, network, Ready
<1>2. p.assignment.type = "JOB_ASSIGN" /\ p.thread = "none" /\ ~p.cancel
  BY <1>1 DEF Works
<1>3. Uses(c, Sending(p)) /\ Taken(p) = p.assignment
  BY <1>1 DEF Uses, Taken
<1>4. p.received = "header" => down'[c] # <<>> /\ Head(down'[c]).type = "JOB_ASSIGN"
  BY <1>1 DEF Works
<1>5. ASSUME NEW q, proc' = [proc EXCEPT ![c] = q]
      PROVE  proc'[c] = q /\ \A b \in Workers : b # c => proc'[b] = proc[b]
  <2> HIDE DEF ProcessType
  <2> QED  BY <1>5 DEF Ready
<1>6. ASSUME NEW q \in ProcessType, proc' = [proc EXCEPT ![c] = q], q.phase \in {"top", "leave"},
             q.received = p.received, q.assignment = p.assignment, q.thread = "running", ~q.cancel
      PROVE  Moves(c)
  <2>1. proc'[c] = q /\ \A b \in Workers : b # c => proc'[b] = proc[b]
    BY <1>5, <1>6
  <2> HIDE DEF p, NoMessage
  <2>2. Works(q, down'[c])
    BY <1>2, <1>4, <1>6 DEF Works
  <2>3. Taken(q) = NoMessage /\ ~Decides(c) /\ ~Concluded(q)
    BY <1>1, <1>2, <1>6, <2>1 DEF Taken, Decides, Concluded, p
  <2> HIDE DEF ProcessType, Uses, Sending
  <2> QED  BY <1>2, <1>3, <1>6, <2>1, <2>2, <2>3 DEF Moves, p
<1>7. CASE \/ proc' = [proc EXCEPT ![c] = [running EXCEPT !.phase = "top"]]
           \/ proc' = [proc EXCEPT ![c] = W!Leave(running, "error")]
  <2> DEFINE a == [running EXCEPT !.phase = "top"]
             b == W!Leave(running, "error")
  <2>1. proc' = [proc EXCEPT ![c] = a] \/ proc' = [proc EXCEPT ![c] = b]
    BY <1>7
  <2> HIDE DEF p
  <2>2. running \in ProcessType /\ running.received = p.received /\ running.assignment = p.assignment
        /\ running.thread = "running" /\ ~running.cancel
    <3> HIDE DEF Replies, WorkerFrames
    <3> QED  BY <1>1 DEF ProcessType
  <2> HIDE DEF running
  <2>3. /\ a \in ProcessType /\ a.phase = "top" /\ a.received = p.received
        /\ a.assignment = p.assignment /\ a.thread = "running" /\ ~a.cancel
    <3> HIDE DEF Replies, WorkerFrames
    <3> QED  BY <2>2 DEF ProcessType
  <2>4. /\ b \in ProcessType /\ b.phase = "leave" /\ b.received = p.received
        /\ b.assignment = p.assignment /\ b.thread = "running" /\ ~b.cancel
    <3> HIDE DEF Replies, WorkerFrames
    <3> QED  BY <2>2 DEF ProcessType, W!Leave
  <2> HIDE DEF a, b
  <2> QED  BY <1>6, <2>1, <2>3, <2>4
<1>8. CASE proc' = [proc EXCEPT ![c] = W!StartSend(failed, m)]
  <2> DEFINE q == W!StartSend(failed, m)
  <2>1. proc'[c] = q /\ \A b \in Workers : b # c => proc'[b] = proc[b]
    BY <1>5, <1>8
  <2> HIDE DEF p
  <2>2. /\ failed \in ProcessType /\ failed.received = p.received /\ failed.assignment = p.assignment
        /\ failed.thread = p.thread /\ failed.cancel = p.cancel /\ failed.status = "SYSTEM_ERROR"
    <3> HIDE DEF Replies, WorkerFrames
    <3> QED  BY <1>1 DEF ProcessType
  <2> HIDE DEF failed
  <2>3. m \in WorkerFrames /\ m.type = "JOB_FAILED"
    BY <2>2, ReportFields
  <2>4. W!Terminal(q) = m
    <3>1. q.status = failed.status /\ q.assignment = failed.assignment /\ q.worker_id = failed.worker_id
          /\ q.result = failed.result
      BY <2>2, <2>3, Sender DEF Keeps
    <3> HIDE DEF q
    <3> QED  BY <3>1 DEF W!Terminal, W!Identity
  <2> HIDE DEF m
  <2>5. /\ q \in ProcessType /\ q.received = p.received /\ q.assignment = p.assignment
        /\ q.thread = p.thread /\ q.cancel = p.cancel /\ q.status = "SYSTEM_ERROR"
        /\ q.phase = "send" /\ q.out = m
    BY <2>2, <2>3, Sender DEF Keeps
  <2> HIDE DEF q
  <2>6. EndOf(q)
    BY <2>5 DEF EndOf
  <2>7. Works(q, down'[c])
    <3> HIDE DEF NoMessage, Message
    <3> QED  BY <1>2, <1>4, <2>4, <2>5, <2>6 DEF Works
  <2>8. Taken(q) = NoMessage /\ Decides(c) /\ ~Starts(c)
    <3> HIDE DEF NoMessage
    <3> QED  BY <1>1, <1>2, <2>1, <2>3, <2>5 DEF Taken, Decides, Starts, p
  <2> HIDE DEF ProcessType, Uses, Sending, NoMessage
  <2> QED  BY <1>2, <1>3, <2>1, <2>5, <2>7, <2>8 DEF Moves, p
<1> QED  BY <1>7, <1>8 DEF W!Begin, W!Set

\* The process is gone.
Exited(q, reason) ==
  /\ q \in ProcessType /\ q.phase = "exited" /\ q.assignment = NoMessage
  /\ q.thread = "none" /\ ~q.cancel /\ q.reason = reason

\* What is left of a process that has exited.
LEMMA GoneProcess ==
  ASSUME NEW stopping \in BOOLEAN, NEW reason \in {"none", "stop", "error", "refused", "killed"}
  PROVE  Exited([W!NewProcess EXCEPT !.phase = "exited", !.stopping = stopping, !.reason = reason],
                reason)
<1>1. NoMessage \in WorkerFrames /\ NoMessage \in Replies /\ W!NoMessage = NoMessage
  BY DEF NoMessage, Message, WorkerFrames, Replies, ReplyTypes, ReplyValues, W!NoMessage, W!Message
<1>2. "none" \in Tasks \cup {"none"} /\ -1 \in Int /\ 0 \in Nat
  OBVIOUS
<1>3. W!NewProcess =
        [ phase |-> "start", worker_id |-> 0, stopping |-> FALSE, reason |-> "none",
          out |-> NoMessage, timer |-> 0, beat |-> 0, received |-> "nothing", frame |-> -1,
          assignment |-> NoMessage, thread |-> "none", cancel |-> FALSE, status |-> "NONE",
          result |-> "none" ]
  BY <1>1 DEF W!NewProcess
<1> HIDE DEF Replies, WorkerFrames, NoMessage, W!NewProcess
<1> QED  BY <1>1, <1>2, <1>3 DEF ProcessType, Exited

\* A process exits, and its connection is closed.
LEMMA GoneMoves ==
  ASSUME NEW c \in Workers, Ready(c), NEW stopping \in BOOLEAN,
         NEW reason \in {"none", "stop", "error", "refused", "killed"},
         NEW p, p.stopping = stopping, p.reason = reason, W!Gone(c, p)
  PROVE  Moves(c)
<1> DEFINE q == [W!NewProcess EXCEPT !.phase = "exited", !.stopping = stopping, !.reason = reason]
<1>1. proc'[c] = q /\ \A b \in Workers : b # c => proc'[b] = proc[b]
  <2> HIDE DEF ProcessType, q
  <2> QED  BY DEF Ready, W!Gone, W!Set, q
<1>2. Hangs(c)
  BY DEF W!Gone, Hangs
<1>3. Uses(c, Sending(proc[c])) /\ down'[c] = <<>>
  BY <1>2 DEF Uses, Hangs, Ready
<1>4. NoMessage.type = "NONE"
  BY DEF NoMessage, Message
<1>5. /\ q \in ProcessType /\ q.phase = "exited" /\ q.assignment = NoMessage /\ q.thread = "none"
      /\ ~q.cancel
  <2>1. Exited(q, reason)
    BY GoneProcess
  <2> HIDE DEF ProcessType, NoMessage, q
  <2> QED  BY <2>1 DEF Exited
<1> HIDE DEF q
<1>6. Works(q, down'[c])
  <2> HIDE DEF NoMessage
  <2> QED  BY <1>4, <1>5 DEF Works
<1>7. Taken(q) = NoMessage /\ ~Starts(c) /\ ~Decides(c) /\ ~Concluded(q)
  <2> HIDE DEF NoMessage
  <2> QED  BY <1>1, <1>5 DEF Taken, Starts, Decides, Concluded
<1> HIDE DEF ProcessType, Uses, Sending, NoMessage
<1> QED  BY <1>1, <1>3, <1>5, <1>6, <1>7 DEF Moves

\* It exits after its task has ended, or is killed.
LEMMA EndMoves ==
  ASSUME NEW c \in Workers, Ready(c), W!Finish(c) \/ W!Join(c) \/ W!Kill(c)
  PROVE  Moves(c)
<1> DEFINE p == proc[c]
<1>1. p \in ProcessType /\ Works(p, down[c])
  BY ProcessFields DEF Ready
<1>2. p.stopping \in BOOLEAN /\ p.reason \in {"none", "stop", "error", "refused", "killed"}
  <2> HIDE DEF Replies, WorkerFrames, p
  <2> QED  BY <1>1 DEF ProcessType
<1>3. CASE W!Gone(c, p)
  BY <1>2, <1>3, GoneMoves
<1>4. CASE W!Kill(c)
  <2> DEFINE r == [p EXCEPT !.reason = "killed"]
  <2>1. W!Gone(c, r)
    BY <1>4 DEF W!Kill
  <2> HIDE DEF p
  <2>2. r.stopping = p.stopping /\ r.reason = "killed"
    <3> HIDE DEF Replies, WorkerFrames
    <3> QED  BY <1>1 DEF ProcessType
  <2> HIDE DEF r
  <2> QED  BY <1>2, <2>1, <2>2, GoneMoves
<1>5. CASE /\ p.phase = "leave" /\ p.thread # "none" /\ UNCHANGED <<peer, server, up, down>>
           /\ proc' = [proc EXCEPT ![c] = [p EXCEPT !.phase = "join", !.cancel = TRUE]]
  <2> DEFINE q == [p EXCEPT !.phase = "join", !.cancel = TRUE]
  <2>1. proc'[c] = q /\ \A b \in Workers : b # c => proc'[b] = proc[b]
    <3> HIDE DEF ProcessType, q
    <3> QED  BY <1>5 DEF Ready, q
  <2>2. Uses(c, Sending(p))
    BY <1>5 DEF Uses, network
  <2> HIDE DEF p
  <2>3. /\ q \in ProcessType /\ q.phase = "join" /\ q.assignment = p.assignment /\ q.thread = p.thread
        /\ q.cancel /\ q.status = p.status
    <3> HIDE DEF Replies, WorkerFrames
    <3> QED  BY <1>1 DEF ProcessType
  <2> HIDE DEF q, NoMessage
  <2>4. Works(q, down'[c])
    BY <1>1, <1>5, <2>3 DEF Works
  <2>5. Taken(q) = NoMessage /\ ~Starts(c) /\ ~Decides(c) /\ (Concluded(q) => Concluded(p))
    BY <1>5, <2>1, <2>3 DEF Taken, Starts, Decides, Concluded, p
  <2> HIDE DEF ProcessType, Uses, Sending
  <2> QED  BY <2>1, <2>2, <2>3, <2>4, <2>5 DEF Moves, p
<1> QED  BY <1>3, <1>4, <1>5 DEF W!Finish, W!Join, W!Set

\* The task thread.
Computed(p, q, status, r) ==
  /\ q \in ProcessType /\ q.phase = p.phase /\ q.worker_id = p.worker_id /\ q.out = p.out
  /\ q.received = p.received /\ q.assignment = p.assignment /\ q.cancel = p.cancel
  /\ q.thread = "computed" /\ q.status = status /\ q.result = r

\* The process of a task that has computed its status.
LEMMA ComputedProcess ==
  ASSUME NEW p \in ProcessType, NEW r \in Tasks \cup {"none"},
         NEW status \in {"OK", "INVALID_ARGUMENT", "SYSTEM_ERROR", "CANCELLED"}
  PROVE  Computed(p, [p EXCEPT !.thread = "computed", !.status = status, !.result = r], status, r)
<1> HIDE DEF Replies, WorkerFrames
<1> QED  BY DEF ProcessType, Computed

\* The task computes its result, and publishes it.
LEMMA TaskMoves ==
  ASSUME NEW c \in Workers, Ready(c), W!Compute(c) \/ W!Publish(c)
  PROVE  Moves(c)
<1> DEFINE p == proc[c]
<1>1. p \in ProcessType /\ Works(p, down[c]) /\ p.result \in Tasks \cup {"none"}
  BY ProcessFields DEF Ready
<1>2. Uses(c, Sending(p)) /\ down' = down
  BY DEF Uses, network, W!Compute, W!Publish
<1>3. ASSUME NEW q \in ProcessType, proc' = [proc EXCEPT ![c] = q],
             q.phase = p.phase, q.worker_id = p.worker_id, q.out = p.out, q.received = p.received,
             q.assignment = p.assignment, q.cancel = p.cancel,
             q.thread \in {"computed", "done"}, ~p.cancel => EndOf(q),
             \/ p.thread = "running"
             \/ p.thread = "computed" /\ q.status = p.status
      PROVE  Moves(c)
  <2>1. proc'[c] = q /\ \A b \in Workers : b # c => proc'[b] = proc[b]
    <3> HIDE DEF ProcessType
    <3> QED  BY <1>3 DEF Ready
  <2> HIDE DEF p
  <2>2. p.assignment.type = "JOB_ASSIGN"
    BY <1>1, <1>3 DEF Works
  <2> HIDE DEF NoMessage, Message
  <2>3. Works(q, down'[c])
    BY <1>1, <1>2, <1>3, <2>2 DEF Works
  <2>4. /\ Taken(q) = Taken(p) /\ ~Starts(c)
        /\ Decides(c) \/ (q.status = p.status /\ Concluded(p))
    BY <1>3, <2>1 DEF Taken, Starts, Decides, Concluded, p
  <2> HIDE DEF ProcessType, Uses, Sending
  <2> QED  BY <1>2, <1>3, <2>1, <2>2, <2>3, <2>4 DEF Moves, p
<1>4. CASE p.thread = "computed" /\ proc' = [proc EXCEPT ![c] = [p EXCEPT !.thread = "done"]]
  <2> DEFINE q == [p EXCEPT !.thread = "done"]
  <2>1. proc' = [proc EXCEPT ![c] = q]
    BY <1>4
  <2>2. ~p.cancel => EndOf(p)
    BY <1>1, <1>4 DEF Works
  <2> HIDE DEF p
  <2>3. /\ q \in ProcessType /\ q.phase = p.phase /\ q.worker_id = p.worker_id /\ q.out = p.out
        /\ q.received = p.received /\ q.assignment = p.assignment /\ q.cancel = p.cancel
        /\ q.thread = "done" /\ q.status = p.status /\ q.result = p.result
    <3> HIDE DEF Replies, WorkerFrames
    <3> QED  BY <1>1 DEF ProcessType
  <2> HIDE DEF q
  <2>4. ~p.cancel => EndOf(q)
    BY <2>2, <2>3 DEF EndOf
  <2> QED  BY <1>3, <1>4, <2>1, <2>3, <2>4
<1>5. ASSUME p.thread = "running", NEW status \in W!Outcomes(p),
             proc' = [proc EXCEPT ![c] =
               [p EXCEPT !.thread = "computed", !.status = status,
                         !.result = IF status = "OK" THEN p.assignment.value[1] ELSE @]]
      PROVE  Moves(c)
  <2> DEFINE r == IF status = "OK" THEN p.assignment.value[1] ELSE p.result
             q == [p EXCEPT !.thread = "computed", !.status = status, !.result = r]
  <2>1. proc' = [proc EXCEPT ![c] = q]
    BY <1>5
  <2>2. p.assignment.value[1] \in Tasks
    <3>1. p.assignment.type = "JOB_ASSIGN"
      BY <1>1, <1>5 DEF Works
    <3>2. /\ p.assignment.job_id \in DOMAIN sched.jobs
          /\ p.assignment.value = <<sched.jobs[p.assignment.job_id].task>>
      BY <3>1 DEF Ready, FrameTrue
    <3>3. sched.jobs[p.assignment.job_id].task \in Tasks
      BY <3>2, JobFields DEF Ready, JobType
    <3> QED  BY <3>2, <3>3
  <2>3. /\ status \in {"OK", "INVALID_ARGUMENT", "SYSTEM_ERROR", "CANCELLED"}
        /\ status = "OK" => p.assignment.value[1] \notin Invalid
        /\ ~p.cancel => status # "CANCELLED"
    BY DEF W!Outcomes
  <2>4. r \in Tasks \cup {"none"} /\ (status = "OK" => r = p.assignment.value[1])
    BY <1>1, <2>2
  <2> HIDE DEF p, r
  <2>5. /\ q \in ProcessType /\ q.phase = p.phase /\ q.worker_id = p.worker_id /\ q.out = p.out
        /\ q.received = p.received /\ q.assignment = p.assignment /\ q.cancel = p.cancel
        /\ q.thread = "computed" /\ q.status = status /\ q.result = r
    <3>1. Computed(p, q, status, r)
      BY <1>1, <2>3, <2>4, ComputedProcess
    <3> HIDE DEF ProcessType, q
    <3> QED  BY <3>1 DEF Computed
  <2> HIDE DEF q
  <2>6. ~p.cancel => EndOf(q)
    BY <2>3, <2>4, <2>5 DEF EndOf
  <2> QED  BY <1>3, <1>5, <2>1, <2>5, <2>6
<1> QED  BY <1>4, <1>5 DEF W!Compute, W!Publish, W!Set

\* Nothing is started or concluded by a fault.
LEMMA FaultMoves ==
  ASSUME NEW c \in Workers, Ready(c),
         W!ConnectFails(c) \/ W!SystemFails(c) \/ W!RequestStop(c) \/ W!Kill(c)
  PROVE  Moves(c) /\ ~Starts(c) /\ ~Decides(c)
<1> DEFINE p == proc[c]
<1>1. p \in ProcessType /\ Works(p, down[c])
  BY ProcessFields DEF Ready
<1>2. ASSUME NEW q, proc' = [proc EXCEPT ![c] = q]
      PROVE  proc'[c] = q /\ \A b \in Workers : b # c => proc'[b] = proc[b]
  <2> HIDE DEF ProcessType
  <2> QED  BY <1>2 DEF Ready
<1>3. ASSUME UNCHANGED <<peer, server, up, down>>
      PROVE  Uses(c, Sending(p)) /\ down' = down
  BY <1>3 DEF Uses, network
<1>4. CASE W!ConnectFails(c)
  <2> DEFINE q == [p EXCEPT !.phase = "exited"]
  <2>1. p.phase = "start" /\ proc' = [proc EXCEPT ![c] = q] /\ UNCHANGED <<peer, server, up, down>>
    BY <1>4 DEF W!ConnectFails, W!Set
  <2> HIDE DEF p
  <2>2. q \in ProcessType /\ Keeps(p, q) /\ q.phase = "exited"
    <3> HIDE DEF Replies, WorkerFrames
    <3> QED  BY <1>1 DEF ProcessType, Keeps
  <2> HIDE DEF q
  <2>3. Moves(c)
    BY <1>3, <2>1, <2>2, QuietMove DEF p
  <2>4. ~Starts(c) /\ ~Decides(c)
    BY <1>2, <2>1, <2>2 DEF Starts, Decides, Keeps, p
  <2> QED  BY <2>3, <2>4
<1>5. CASE W!SystemFails(c)
  <2> DEFINE q == W!Leave(p, "error")
  <2>1. /\ p.phase \in {"ack", "send", "top", "wait"} /\ proc' = [proc EXCEPT ![c] = q]
        /\ UNCHANGED <<peer, server, up, down>>
    BY <1>5 DEF W!SystemFails, W!Set
  <2>2. Moves(c)
    BY <1>3, <2>1, LeaveMove
  <2> HIDE DEF p
  <2>3. q.thread = p.thread /\ q.phase = "leave"
    <3> HIDE DEF Replies, WorkerFrames
    <3> QED  BY <1>1 DEF ProcessType, W!Leave
  <2> HIDE DEF q
  <2>4. ~Starts(c) /\ ~Decides(c)
    BY <1>2, <2>1, <2>3 DEF Starts, Decides, p
  <2> QED  BY <2>2, <2>4
<1>6. CASE W!RequestStop(c)
  <2> DEFINE q == [p EXCEPT !.stopping = TRUE]
  <2>1. proc' = [proc EXCEPT ![c] = q] /\ UNCHANGED <<peer, server, up, down>>
    BY <1>6 DEF W!RequestStop, W!Set
  <2>2. Uses(c, Sending(p)) /\ down' = down
    BY <1>3, <2>1
  <2>3. proc'[c] = q /\ \A b \in Workers : b # c => proc'[b] = proc[b]
    BY <1>2, <2>1
  <2> HIDE DEF p
  <2>4. q \in ProcessType /\ SameProcess(p, q)
    <3> HIDE DEF Replies, WorkerFrames
    <3> QED  BY <1>1 DEF ProcessType, SameProcess
  <2> HIDE DEF q
  <2>5. Works(q, down'[c])
    BY <1>1, <2>2, <2>4, OlderWorker
  <2>6. /\ Taken(q) = Taken(p) /\ ~Starts(c) /\ ~Decides(c) /\ (Concluded(q) => Concluded(p))
        /\ q.assignment = p.assignment /\ q.status = p.status
    <3> HIDE DEF NoMessage
    <3> QED  BY <2>3, <2>4 DEF Taken, Starts, Decides, Concluded, SameProcess, p
  <2> HIDE DEF ProcessType, Uses, Sending, NoMessage
  <2> QED  BY <2>2, <2>3, <2>4, <2>5, <2>6 DEF Moves, p
<1>7. CASE W!Kill(c)
  <2>1. Moves(c)
    BY <1>7, EndMoves
  <2> DEFINE r == [p EXCEPT !.reason = "killed"]
             q == [W!NewProcess EXCEPT !.phase = "exited", !.stopping = r.stopping, !.reason = r.reason]
  <2>2. proc' = [proc EXCEPT ![c] = q]
    BY <1>7 DEF W!Kill, W!Gone, W!Set
  <2>3. q.thread = "none" /\ q.phase = "exited"
    <3> HIDE DEF r, W!NoMessage
    <3> QED  BY DEF W!NewProcess
  <2> HIDE DEF q
  <2>4. ~Starts(c) /\ ~Decides(c)
    BY <1>2, <2>2, <2>3 DEF Starts, Decides
  <2> QED  BY <2>1, <2>4
<1> QED  BY <1>4, <1>5, <1>6, <1>7

\* Every step of a worker.
WorkerStep(c) == WorkerMain(c) \/ WorkerTask(c) \/ WorkerFault(c)

\* It changes this process alone.
LEMMA WorkerSets ==
  ASSUME NEW c \in Workers, WorkerStep(c)
  PROVE  \E q : proc' = [proc EXCEPT ![c] = q]
<1>1. CASE \E arriving : W!ReceiveAck(c, arriving)
  BY <1>1 DEF W!ReceiveAck, W!Set
<1>2. CASE \E arriving : W!Wait(c, arriving)
  BY <1>2 DEF W!Wait, W!Receive, W!Set
<1>3. CASE W!Connect(c) \/ W!SendAll(c) \/ W!Top(c) \/ W!Begin(c)
  BY <1>3 DEF W!Connect, W!SendAll, W!Top, W!Begin, W!Set
<1>4. CASE W!Finish(c) \/ W!Join(c) \/ W!Kill(c)
  BY <1>4 DEF W!Finish, W!Join, W!Kill, W!Gone, W!Set
<1>5. CASE W!Compute(c) \/ W!Publish(c) \/ W!ConnectFails(c) \/ W!SystemFails(c) \/ W!RequestStop(c)
  BY <1>5 DEF W!Compute, W!Publish, W!ConnectFails, W!SystemFails, W!RequestStop, W!Set
<1> QED  BY <1>1, <1>2, <1>3, <1>4, <1>5 DEF WorkerStep, WorkerMain, W!MainStep, WorkerTask, WorkerFault

\* Each moves it.
LEMMA WorkerMoves ==
  ASSUME NEW c \in Workers, Ready(c), WorkerStep(c)
  PROVE  Moves(c) /\ ran' = Noted(c) /\ UNCHANGED <<Apart, cli, told>>
<1>1. CASE WorkerMain(c)
  BY <1>1, ConnectMoves, ReceiveAckMoves, SendMoves, TopMoves, WaitMoves, BeginMoves, EndMoves
     DEF WorkerMain, W!MainStep
<1>2. CASE WorkerTask(c)
  BY <1>2, TaskMoves DEF WorkerTask
<1>3. CASE WorkerFault(c)
  <2>1. Moves(c) /\ ~Starts(c) /\ ~Decides(c)
    BY <1>3, FaultMoves DEF WorkerFault
  <2> QED  BY <1>3, <2>1 DEF WorkerFault, Noted
<1> QED  BY <1>1, <1>2, <1>3 DEF WorkerStep

\* What it sends is well-formed.
LEMMA WorkerRequests ==
  ASSUME NEW c \in Workers, Ready(c), NEW m \in Sending(proc[c])
  PROVE  RequestOK(m) /\ m.type # "JOB_SUBMIT"
<1> DEFINE p == proc[c]
<1>1. p.phase = "send" /\ m = p.out /\ p \in ProcessType /\ Works(p, down[c]) /\ m \in WorkerFrames
  BY ProcessFields DEF Sending, Ready
<1>2. m.job_id \in Nat /\ m.type # "JOB_SUBMIT"
  BY <1>1 DEF WorkerFrames, ReportTypes
<1>3. ASSUME m.type = "JOB_COMPLETED"  PROVE m.value # <<>> /\ m.value[1] \in Results
  <2>1. p.assignment.type = "JOB_ASSIGN" /\ m = W!Terminal(p) /\ EndOf(p)
    <3>1. W!Identity(p, "JOB_STARTED").type = "JOB_STARTED"
      BY DEF W!Identity, W!Message
    <3>2. /\ Message("WORKER_REGISTER", 0, 0, 0).type = "WORKER_REGISTER"
          /\ Message("HEARTBEAT", p.worker_id, 0, 0).type = "HEARTBEAT"
      BY DEF Message
    <3> HIDE DEF NoMessage, Message, p
    <3> QED  BY <1>1, <1>3, <3>1, <3>2 DEF Works
  <2>2. p.status = "OK" /\ m.value = <<p.result>>
    BY <1>1, <1>3, <2>1, ReportFields
  <2>3. /\ p.assignment.job_id \in DOMAIN sched.jobs
        /\ p.assignment.value = <<sched.jobs[p.assignment.job_id].task>>
    BY <2>1 DEF Ready, FrameTrue
  <2>4. sched.jobs[p.assignment.job_id].task \in Tasks
    BY <2>3, JobFields DEF Ready, JobType
  <2>5. p.result \in Results
    BY <2>1, <2>2, <2>3, <2>4, ClusterConstants, SMTT(90) DEF EndOf
  <2> QED  BY <2>2, <2>5
<1> QED  BY <1>2, <1>3 DEF RequestOK

\* So the base is kept.
LEMMA MovesBase ==
  ASSUME ClusterBase, NEW c \in Workers, Moves(c), UNCHANGED <<Apart, cli, told>>,
         \E q : proc' = [proc EXCEPT ![c] = q]
  PROVE  ClusterBase'
<1> DEFINE p == proc[c]
           q == proc'[c]
<1>1. Ready(c) /\ CoordinatorInv /\ ConnectionsOK /\ c \in Conns
  BY WorkerReady DEF ClusterBase, Ready
<1>2. /\ Uses(c, Sending(p)) /\ q \in ProcessType /\ Works(q, down'[c])
      /\ \A b \in Workers : b # c => proc'[b] = proc[b]
  <2> HIDE DEF ProcessType
  <2> QED  BY DEF Moves
<1>3. \A m \in Sending(p) : RequestOK(m)
  BY <1>1, WorkerRequests
<1>4. UNCHANGED <<store, clients, loop, dispatched, restarts, who>>
  BY DEF Apart
<1>5. /\ CoordinatorInv' /\ ConnectionsOK'
      /\ \A b \in Conns : /\ b # c => up'[b] = up[b] /\ down'[b] = down[b]
                          /\ \A n \in DOMAIN down'[b] : \E k \in DOMAIN down[b] :
                               down'[b][n] = down[b][k]
  <2> HIDE DEF Replies
  <2> QED  BY <1>1, <1>2, <1>3, <1>4, UsesConnection
<1>6. \A b \in Workers : FrameTrue(proc'[b].assignment, sched)
  <2>1. FrameTrue(p.assignment, sched) /\ FrameTrue(NoMessage, sched)
    BY <1>1 DEF Ready, FrameTrue, NoMessage, Message
  <2>2. down[c] # <<>> => FrameTrue(Head(down[c]), sched)
    <3>1. down[c] # <<>> => 1 \in DOMAIN down[c] /\ Head(down[c]) = down[c][1]
      <4> HIDE DEF Replies
      <4> QED  BY <1>1, RemovedFrame DEF Ready
    <3> QED  BY <1>1, <3>1 DEF ClusterBase, FramesTrue
  <2>3. FrameTrue(q.assignment, sched)
    <3> HIDE DEF NoMessage
    <3> QED  BY <2>1, <2>2 DEF Moves
  <2> QED  BY <1>2, <2>3 DEF ClusterBase, FramesTrue
<1>7. sched' = sched /\ clients' = clients /\ unsynced' = unsynced
  BY <1>4 DEF store
<1>8. FramesTrue'
  BY <1>1, <1>5, <1>6, <1>7, UsesFrames DEF ClusterBase, FramesTrue
<1>9. ProcessesTyped'
  <2> HIDE DEF ProcessType, RunType, Replies
  <2>1. proc' \in [Workers -> ProcessType]
    <3>1. PICK v : proc' = [proc EXCEPT ![c] = v]
      OBVIOUS
    <3> QED  BY <1>1, <1>2, <3>1 DEF Ready
  <2> QED  BY <1>4, <2>1 DEF ClusterBase, ProcessesTyped
<1>10. ASSUME NEW b \in Workers
       PROVE  WorkerOK(b)'
  <2>1. b \in Conns
    BY ClusterConstants, CoordinatorConstants
  <2> QED  BY <1>2, <1>5, <2>1 DEF ClusterBase, WorkerOK
<1>11. ASSUME NEW b \in Clients
       PROVE  ClientOK(b)'
  <2>1. b \in Conns /\ b # c
    BY ClusterConstants, CoordinatorConstants
  <2> QED  BY <1>5, <2>1 DEF ClusterBase, ClientOK
<1>12. UnsyncedGrows'
  BY <1>7 DEF ClusterBase, UnsyncedGrows
<1> QED  BY <1>5, <1>8, <1>9, <1>10, <1>11, <1>12 DEF ClusterBase

\* A step of a worker keeps the base.
LEMMA WorkerBase ==
  ASSUME ClusterBase, NEW c \in Workers, WorkerStep(c)
  PROVE  ClusterBase' /\ Moves(c) /\ ran' = Noted(c) /\ UNCHANGED <<Apart, cli, told>>
<1>1. Moves(c) /\ ran' = Noted(c) /\ UNCHANGED <<Apart, cli, told>>
  BY WorkerReady, WorkerMoves
<1> QED  BY <1>1, WorkerSets, MovesBase

-----------------------------------------------------------------------------
(* The steps of a client.                                                  *)

Requested(r) == IF r.phase = "send" THEN {r.request} ELSE {}

\* Client c goes on with its request, or ends.
Proceeds(c) ==
  LET r == cli[c]
      s == cli'[c]
  IN /\ cli' = [cli EXCEPT ![c] = s] /\ s \in RunType /\ Runs(s, up'[c])
     /\ Uses(c, Requested(r)) /\ s.request = r.request /\ s.phase # "send"
     /\ \/ s.reply \in {r.reply, NoMessage}
        \/ down[c] # <<>> /\ s.reply = Head(down[c])

\* It starts with request m.
Asks(c, m) ==
  LET r == cli[c]
      s == cli'[c]
  IN /\ cli' = [cli EXCEPT ![c] = s] /\ s \in RunType /\ Runs(s, up'[c]) /\ Opens(c)
     /\ r.phase = "start" /\ s.phase = "send" /\ s.request = m /\ s.reply = NoMessage
     /\ s.code = -1

\* What is known of it before.
RunReady(c) ==
  /\ cli \in [Clients -> RunType] /\ Runs(cli[c], up[c])
  /\ down[c] \in Seq(Replies) /\ DOMAIN down = Conns /\ c \in Conns /\ DOMAIN up = Conns
  /\ FramesOK(up[c])

\* This is known of every client.
LEMMA ClientReady ==
  ASSUME ClusterBase, NEW c \in Clients
  PROVE  RunReady(c)
<1>1. c \in Conns
  BY ClusterConstants, CoordinatorConstants
<1>2. DOMAIN up = Conns /\ \A b \in Conns : FramesOK(up[b])
  BY InPlace DEF ClusterBase, CoordinatorInv, StateOK
<1> HIDE DEF RunType, Replies
<1> QED  BY <1>1, <1>2 DEF ClusterBase, ProcessesTyped, ConnectionsOK, ClientOK, RunReady

\* A run and its fields.
LEMMA RunFields ==
  ASSUME NEW c \in Clients, RunReady(c)
  PROVE  LET r == cli[c]
         IN /\ r \in RunType /\ r.request \in Asked /\ r.reply \in Replies /\ r.timer \in Nat
            /\ r.code \in {-1, 0, 1, 2} /\ r.received \in {"nothing", "part", "header"}
            /\ r.phase \in {"start", "send", "receive", "exited"}
<1>1. cli[c] \in RunType
  <2> HIDE DEF RunType
  <2> QED  BY DEF RunReady
<1> HIDE DEF Asked, Replies
<1> QED  BY <1>1 DEF RunType

\* The run that has ended with a status and a reply.
Over(s, request, code, reply) ==
  /\ s \in RunType /\ s.phase = "exited" /\ s.request = request
  /\ s.code = code /\ s.reply = reply

\* It is a run.
LEMMA OverRun ==
  ASSUME NEW request \in Asked, NEW code \in {-1, 0, 1, 2}, NEW reply \in Replies
  PROVE  Over([C!NewRun EXCEPT !.phase = "exited", !.request = request,
                               !.code = code, !.reply = reply], request, code, reply)
<1>1. C!NoMessage = NoMessage
  BY DEF C!NoMessage, C!Message, NoMessage, Message
<1>2. C!NewRun = [ phase |-> "start", request |-> NoMessage, timer |-> 0, received |-> "nothing",
                   code |-> -1, reply |-> NoMessage ]
  BY <1>1 DEF C!NewRun
<1>3. 0 \in Nat
  OBVIOUS
<1> HIDE DEF Asked, Replies, NoMessage, C!NewRun
<1> QED  BY <1>2, <1>3 DEF Over, RunType

\* A run ends.
LEMMA ExitProceeds ==
  ASSUME NEW c \in Clients, RunReady(c), NEW code \in {0, 1, 2}, NEW reply \in Replies,
         C!Exit(c, code, reply),
         reply = NoMessage \/ (down[c] # <<>> /\ reply = Head(down[c])),
         code \in {0, 2} => /\ cli[c].request.type # "NONE"
                            /\ reply.type \in C!Answers(cli[c].request)
                            /\ code = C!Code(cli[c].request, reply)
  PROVE  Proceeds(c)
<1> DEFINE r == cli[c]
           s == [C!NewRun EXCEPT !.phase = "exited", !.request = r.request,
                                 !.code = code, !.reply = reply]
<1>1. r.request \in Asked /\ Runs(r, up[c]) /\ DOMAIN cli = Clients
  <2>1. DOMAIN cli = Clients
    <3> HIDE DEF RunType
    <3> QED  BY DEF RunReady
  <2> QED  BY <2>1, RunFields DEF RunReady
<1>2. Over(s, r.request, code, reply)
  <2> HIDE DEF Asked, Replies, Over
  <2> QED  BY <1>1, OverRun
<1>3. cli' = [cli EXCEPT ![c] = s] /\ Hangs(c) /\ up' = up
  BY DEF C!Exit, C!Set, Hangs
<1> HIDE DEF s
<1>4. cli'[c] = s /\ cli' = [cli EXCEPT ![c] = cli'[c]]
  BY <1>1, <1>3
<1>5. Runs(s, up'[c])
  <2> HIDE DEF NoMessage, Asked, Replies, RunType
  <2> QED  BY <1>1, <1>2, <1>3 DEF Runs, Over
<1>6. Uses(c, Requested(r))
  BY <1>3 DEF Uses
<1> HIDE DEF NoMessage, Asked, Replies, RunType
<1> QED  BY <1>2, <1>4, <1>5, <1>6 DEF Proceeds, Over

\* It ends without a reply.
LEMMA FailProceeds ==
  ASSUME NEW c \in Clients, RunReady(c), C!Exit(c, 1, C!NoMessage)
  PROVE  Proceeds(c)
<1>1. C!NoMessage = NoMessage
  BY DEF C!NoMessage, C!Message, NoMessage, Message
<1>2. NoMessage \in Replies
  BY DEF NoMessage, Message, Replies, ReplyTypes, ReplyValues
<1>3. C!Exit(c, 1, NoMessage)
  BY <1>1
<1> HIDE DEF NoMessage, Replies
<1> QED  BY <1>2, <1>3, ExitProceeds

\* It goes on: the request was sent, or a piece of the reply has arrived.
LEMMA OnProceeds ==
  ASSUME NEW c \in Clients, RunReady(c), NEW s \in RunType, cli' = [cli EXCEPT ![c] = s],
         Uses(c, Requested(cli[c])), s.request = cli[c].request, s.reply = cli[c].reply,
         s.code = cli[c].code, s.phase = "receive" /\ cli[c].phase \in {"send", "receive"},
         \A n \in DOMAIN up'[c] : n \in DOMAIN up[c] \/ up'[c][n] = cli[c].request,
         \A n \in DOMAIN up'[c] : n \in DOMAIN up[c] => up'[c][n] = up[c][n]
  PROVE  Proceeds(c)
<1> DEFINE r == cli[c]
<1>1. DOMAIN cli = Clients
  <2> HIDE DEF RunType
  <2> QED  BY DEF RunReady
<1> HIDE DEF RunType, Requested, Uses, NoMessage
<1>2. cli'[c] = s /\ cli' = [cli EXCEPT ![c] = cli'[c]]
  BY <1>1
<1>3. Runs(r, up[c])
  BY DEF RunReady
<1>4. Runs(s, up'[c])
  BY <1>3 DEF Runs
<1> QED  BY <1>2, <1>4 DEF Proceeds

\* faultline_send_all.
LEMMA SendProceeds ==
  ASSUME NEW c \in Clients, RunReady(c), C!Send(c)
  PROVE  Proceeds(c)
<1> DEFINE r == cli[c]
           s == [r EXCEPT !.phase = "receive", !.timer = IO_TIMEOUT]
           t == Append(up[c], r.request)
<1>1. CASE C!Exit(c, 1, C!NoMessage)
  BY <1>1, FailProceeds
<1>2. CASE /\ up' = IF C!Connected(c) THEN [up EXCEPT ![c] = Append(@, r.request)] ELSE up
           /\ cli' = [cli EXCEPT ![c] = s] /\ UNCHANGED <<peer, server, down>>
  <2>1. r.phase = "send" /\ r \in RunType /\ IO_TIMEOUT \in Nat
    BY RunFields, CoordinatorConstants DEF C!Send
  <2>2. s \in RunType /\ s.request = r.request /\ s.reply = r.reply /\ s.code = r.code
        /\ s.phase = "receive"
    <3> HIDE DEF r, Asked, Replies
    <3> QED  BY <2>1 DEF RunType
  <2> HIDE DEF s
  <2>3. /\ Uses(c, Requested(r))
        /\ up'[c] = up[c] \/ up'[c] = t
    <3>1. CASE C!Connected(c)
      <4>1. Sends(c, r.request) /\ r.request \in Requested(r)
        BY <1>2, <2>1, <3>1 DEF Sends, C!Connected, Requested
      <4>2. up'[c] = t
        BY <1>2, <3>1 DEF RunReady
      <4> QED  BY <4>1, <4>2 DEF Uses
    <3>2. CASE ~C!Connected(c)
      BY <1>2, <3>2 DEF Uses, network
    <3> QED  BY <3>1, <3>2
  <2>4. /\ \A n \in DOMAIN t : n \in DOMAIN up[c] \/ t[n] = r.request
        /\ \A n \in DOMAIN up[c] : t[n] = up[c][n]
    <3> DEFINE S == {up[c][n] : n \in DOMAIN up[c]} \cup {r.request}
    <3>1. up[c] \in Seq(S)
      BY SMTT(90) DEF RunReady, FramesOK
    <3> HIDE DEF S, t
    <3>2. r.request \in S
      BY DEF S
    <3> QED  BY <3>1, <3>2, AddedFrame, SMTT(90) DEF t
  <2> HIDE DEF t
  <2>5. /\ \A n \in DOMAIN up'[c] : n \in DOMAIN up[c] \/ up'[c][n] = r.request
        /\ \A n \in DOMAIN up'[c] : n \in DOMAIN up[c] => up'[c][n] = up[c][n]
    BY <2>3, <2>4
  <2> HIDE DEF RunType
  <2> QED  BY <1>2, <2>1, <2>2, <2>3, <2>5, OnProceeds
<1> QED  BY <1>1, <1>2 DEF C!Send, C!Set

\* A run that waits for its reply.
LEMMA ReceiveProceeds ==
  ASSUME NEW c \in Clients, RunReady(c), NEW arriving, C!Receive(c, arriving)
  PROVE  Proceeds(c)
<1> DEFINE r == cli[c]
           m == Head(down[c])
<1>1. r.phase = "receive" /\ r \in RunType /\ Runs(r, up[c])
  BY RunFields DEF C!Receive, RunReady
<1>2. CASE C!Exit(c, 1, C!NoMessage)
  BY <1>2, FailProceeds
<1>3. ASSUME NEW received \in {"part", "header"}, C!Piece(c, received)
      PROVE  Proceeds(c)
  <2> DEFINE s == [r EXCEPT !.received = received]
  <2>1. cli' = [cli EXCEPT ![c] = s] /\ UNCHANGED <<peer, server, up, down>>
    BY <1>3 DEF C!Piece, C!Set
  <2>2. /\ s \in RunType /\ s.request = r.request /\ s.reply = r.reply /\ s.code = r.code
        /\ s.phase = "receive"
    <3> HIDE DEF r, Asked, Replies
    <3> QED  BY <1>1, <1>3 DEF RunType
  <2> HIDE DEF s
  <2>3. Uses(c, Requested(r)) /\ up'[c] = up[c]
    BY <2>1 DEF Uses, network
  <2> HIDE DEF RunType
  <2> QED  BY <1>1, <2>1, <2>2, <2>3, OnProceeds
<1>4. CASE /\ down[c] # <<>> /\ m.type \in C!Answers(r.request) /\ C!Code(r.request, m) # 1
           /\ C!Exit(c, C!Code(r.request, m), m)
  <2>1. m \in Replies
    <3> HIDE DEF Replies
    <3> QED  BY <1>4, RemovedFrame DEF RunReady
  <2>2. C!Code(r.request, m) \in {0, 1, 2}
    BY DEF C!Code
  <2>3. r.request.type # "NONE"
    BY <1>1 DEF Runs
  <2> HIDE DEF m, Replies, C!Exit, C!Answers, C!Code
  <2> QED  BY <1>4, <2>1, <2>2, <2>3, ExitProceeds DEF m
<1>5. \/ C!Exit(c, 1, C!NoMessage) \/ C!Piece(c, "part") \/ C!Piece(c, "header")
      \/ /\ down[c] # <<>> /\ m.type \in C!Answers(r.request) /\ C!Code(r.request, m) # 1
         /\ C!Exit(c, C!Code(r.request, m), m)
  <2> HIDE DEF C!Exit, C!Answers, C!Code, C!Piece, C!NoMessage
  <2> QED  BY DEF C!Receive
<1> QED  BY <1>2, <1>3, <1>4, <1>5

\* The connection cannot be made.
LEMMA RefusedProceeds ==
  ASSUME NEW c \in Clients, RunReady(c), C!ConnectFails(c)
  PROVE  Proceeds(c)
<1> DEFINE r == cli[c]
           s == [r EXCEPT !.phase = "exited", !.code = 1]
<1>1. r \in RunType /\ Runs(r, up[c]) /\ DOMAIN cli = Clients
  <2>1. DOMAIN cli = Clients
    <3> HIDE DEF RunType
    <3> QED  BY DEF RunReady
  <2> QED  BY <2>1, RunFields DEF RunReady
<1>2. cli' = [cli EXCEPT ![c] = s] /\ UNCHANGED <<peer, server, up, down>>
  BY DEF C!ConnectFails, C!Set
<1>3. /\ s \in RunType /\ s.request = r.request /\ s.reply = r.reply /\ s.code = 1
      /\ s.phase = "exited"
  <2> HIDE DEF r, Asked, Replies
  <2> QED  BY <1>1 DEF RunType
<1> HIDE DEF s
<1>4. cli'[c] = s /\ cli' = [cli EXCEPT ![c] = cli'[c]] /\ Uses(c, Requested(r)) /\ up'[c] = up[c]
  BY <1>1, <1>2 DEF Uses, network
<1> HIDE DEF NoMessage, RunType, Uses, Requested
<1>5. Runs(s, up'[c])
  BY <1>1, <1>3, <1>4, SMTT(90) DEF Runs
<1> QED  BY <1>3, <1>4, <1>5 DEF Proceeds

\* A request of the command line.
Query(m) ==
  /\ m \in Asked /\ m.type # "NONE" /\ m.type \in ClientTypes
  /\ m.type = "JOB_STATUS_REQUEST" => m.job_id # 0
  /\ m.type = "JOB_SUBMIT" =>
       /\ m.value # <<>>
       /\ \A k \in Clients : cli[k].request.value # <<>> => cli[k].request.value[1] # m.value[1]

\* Every request is one.
LEMMA RequestsAre ==
  ASSUME NEW m \in Requests
  PROVE  Query(m)
<1>1. ClientTypes \subseteq Queries \cup {"PING", "JOB_SUBMIT"} /\ MAX_RETRIES \in Nat
      /\ MAX_JOB_ID \in Nat
  BY ClusterConstants, TableConstants, SchedulerConstants
<1>2. ASSUME NEW type \in ClientTypes, NEW j \in Nat, type # "JOB_SUBMIT",
             type = "JOB_STATUS_REQUEST" => j # 0
      PROVE  Query(Message(type, 0, j, 0))
  <2> DEFINE n == Message(type, 0, j, 0)
  <2>1. n = [type |-> type, worker_id |-> 0, job_id |-> j, attempt |-> 0, value |-> <<>>]
    BY DEF Message
  <2>2. type \in {"NONE", "PING", "JOB_SUBMIT"} \cup Queries /\ type # "NONE"
    BY <1>1, <1>2 DEF Queries
  <2> HIDE DEF n
  <2>3. n \in Asked /\ n.type = type /\ n.job_id = j
    BY <2>1, <2>2 DEF Asked
  <2> QED  BY <1>2, <2>2, <2>3 DEF Query, n
<1> DEFINE used == {cli[k].request.value[1] : k \in {k \in Clients : cli[k].request.value # <<>>}}
<1>3. ASSUME NEW t \in Tasks \ used, "JOB_SUBMIT" \in ClientTypes
      PROVE  Query(Carrying(Message("JOB_SUBMIT", 0, 0, 0), <<t, 0>>))
  <2> DEFINE n == Carrying(Message("JOB_SUBMIT", 0, 0, 0), <<t, 0>>)
  <2>1. n = [type |-> "JOB_SUBMIT", worker_id |-> 0, job_id |-> 0, attempt |-> 0, value |-> <<t, 0>>]
    BY DEF Message, Carrying
  <2>2. <<t, 0>> \in {<<>>} \cup {<<task, k>> : task \in Tasks, k \in 0..MAX_RETRIES}
    BY <1>1
  <2> HIDE DEF n
  <2>3. /\ n.type = "JOB_SUBMIT" /\ n.value = <<t, 0>> /\ n.worker_id = 0 /\ n.job_id = 0
        /\ n.attempt = 0
    BY <2>1
  <2>4. n \in Asked
    BY <2>1, <2>2 DEF Asked
  <2>5. n.value # <<>> /\ n.value[1] = t
    BY <2>3
  <2>6. \A k \in Clients : cli[k].request.value # <<>> => cli[k].request.value[1] # t
    OBVIOUS
  <2> QED  BY <1>3, <2>3, <2>4, <2>5, <2>6 DEF Query, n
<1> HIDE DEF Query, Message, Carrying
<1> DEFINE P == ClientTypes \cap {"JOB_SUBMIT"}
           Q == ClientTypes \cap {"JOB_STATUS_REQUEST"}
           R == ClientTypes \ {"JOB_SUBMIT", "JOB_STATUS_REQUEST"}
           A == {Carrying(Message(type, 0, 0, 0), <<t, 0>>) : type \in P, t \in Tasks \ used}
           B == {Message(type, 0, j, 0) : type \in Q, j \in 1..MAX_JOB_ID}
           D == {Message(type, 0, 0, 0) : type \in R}
<1>4. Requests = A \cup B \cup D
  BY SMT DEF Requests
<1> HIDE DEF used
<1>5. ASSUME m \in A  PROVE Query(m)
  <2>1. \E type \in P, t \in Tasks \ used : m = Carrying(Message(type, 0, 0, 0), <<t, 0>>)
    BY <1>5, SMT
  <2> QED  BY <1>3, <2>1
<1>6. ASSUME m \in B  PROVE Query(m)
  <2>1. \E type \in Q, j \in 1..MAX_JOB_ID : m = Message(type, 0, j, 0)
    BY <1>6, SMT
  <2>2. \A j \in 1..MAX_JOB_ID : j \in Nat /\ j # 0
    BY <1>1
  <2> QED  BY <1>2, <2>1, <2>2
<1>7. ASSUME m \in D  PROVE Query(m)
  <2>1. 0 \in Nat
    OBVIOUS
  <2> QED  BY <1>2, <1>7, <2>1
<1> HIDE DEF A, B, D
<1> QED  BY <1>4, <1>5, <1>6, <1>7

\* A run starts.
LEMMA StartAsks ==
  ASSUME NEW c \in Clients, RunReady(c), NEW m, Query(m), C!Start(c, m)
  PROVE  Asks(c, m)
<1> DEFINE r == cli[c]
           s == [r EXCEPT !.phase = "send", !.request = m, !.timer = IO_TIMEOUT]
<1>1. r \in RunType /\ Runs(r, up[c]) /\ DOMAIN cli = Clients /\ r.phase = "start"
  <2>1. DOMAIN cli = Clients
    <3> HIDE DEF RunType
    <3> QED  BY DEF RunReady
  <2> QED  BY <2>1, RunFields DEF RunReady, C!Start
<1>2. cli' = [cli EXCEPT ![c] = s] /\ Opens(c) /\ up' = up
  BY DEF C!Start, C!Set, Opens
<1>3. IO_TIMEOUT \in Nat /\ m \in Asked
  BY CoordinatorConstants DEF Query
<1>4. /\ s \in RunType /\ s.request = m /\ s.reply = r.reply /\ s.code = r.code
      /\ s.phase = "send"
  <2> HIDE DEF r, Asked, Replies
  <2> QED  BY <1>1, <1>3 DEF RunType
<1> HIDE DEF s
<1>5. cli'[c] = s /\ cli' = [cli EXCEPT ![c] = cli'[c]] /\ up'[c] = up[c]
  BY <1>1, <1>2
<1>6. NoMessage.type = "NONE"
  BY DEF NoMessage, Message
<1> HIDE DEF NoMessage, RunType
<1>7. r.reply = NoMessage /\ r.code = -1 /\ r.request.type = "NONE"
  BY <1>1, <1>6 DEF Runs
<1>8. Runs(s, up'[c])
  BY <1>1, <1>4, <1>5, <1>7 DEF Runs, Query
<1> QED  BY <1>1, <1>2, <1>4, <1>5, <1>7, <1>8 DEF Asks

\* Every step of a client.
LEMMA ClientProceeds ==
  ASSUME NEW c \in Clients, RunReady(c), ClientStep(c) \/ ClientFault(c)
  PROVE  Proceeds(c) /\ UNCHANGED <<Apart, proc, ran, told>>
<1>1. CASE C!Send(c)
  BY <1>1, SendProceeds DEF ClientStep, ClientFault
<1>2. CASE C!Receive(c, Arriving(c))
  BY <1>2, ReceiveProceeds DEF ClientStep, ClientFault
<1>3. CASE C!ConnectFails(c)
  BY <1>3, RefusedProceeds DEF ClientStep, ClientFault
<1>4. CASE C!SystemFails(c)
  BY <1>4, FailProceeds DEF C!SystemFails, ClientStep, ClientFault
<1> QED  BY <1>1, <1>2, <1>3, <1>4 DEF ClientStep, ClientFault, C!Step

\* What it sends is well-formed.
LEMMA ClientRequests ==
  ASSUME NEW c \in Clients, RunReady(c), NEW m \in Requested(cli[c])
  PROVE  RequestOK(m)
<1>1. cli[c].phase = "send" /\ m = cli[c].request /\ m \in Asked /\ Runs(cli[c], up[c])
  BY RunFields DEF Requested, RunReady
<1>2. m.job_id \in Nat /\ m.type # "JOB_COMPLETED"
      /\ (m.value = <<>> \/ \E task \in Tasks, n \in 0..MAX_RETRIES : m.value = <<task, n>>)
  BY <1>1 DEF Asked, Queries
<1>3. m.type = "JOB_SUBMIT" => m.value # <<>>
  BY <1>1 DEF Runs
<1> QED  BY <1>2, <1>3 DEF RequestOK

\* The frames of a client are true before and after.
LEMMA ReplyTrue ==
  ASSUME ClusterBase, NEW c \in Clients, NEW f,
         \/ f \in {cli[c].reply, NoMessage} \/ (down[c] # <<>> /\ f = Head(down[c]))
  PROVE  FrameTrue(f, sched)
<1>1. FrameTrue(cli[c].reply, sched) /\ FrameTrue(NoMessage, sched)
  BY DEF ClusterBase, FramesTrue, FrameTrue, NoMessage, Message
<1>2. down[c] # <<>> => FrameTrue(Head(down[c]), sched)
  <2>1. RunReady(c)
    BY ClientReady
  <2>2. down[c] # <<>> => 1 \in DOMAIN down[c] /\ Head(down[c]) = down[c][1]
    <3> HIDE DEF Replies
    <3> QED  BY <2>1, RemovedFrame DEF RunReady
  <2> QED  BY <2>1, <2>2 DEF ClusterBase, FramesTrue, RunReady
<1> HIDE DEF NoMessage
<1> QED  BY <1>1, <1>2

\* What a step of client c must show to keep the base.
LEMMA RunBase ==
  ASSUME ClusterBase, NEW c \in Clients, NEW ms, Uses(c, ms), \A m \in ms : RequestOK(m),
         cli' = [cli EXCEPT ![c] = cli'[c]], cli'[c] \in RunType, Runs(cli'[c], up'[c]),
         FrameTrue(cli'[c].reply, sched), told' \in [Clients -> SUBSET Replies],
         \A b \in Clients : \A f \in told'[b] : FrameTrue(f, sched),
         UNCHANGED <<Apart, proc>>
  PROVE  ClusterBase'
<1>1. CoordinatorInv /\ ConnectionsOK /\ c \in Conns
  BY ClientReady DEF ClusterBase, RunReady
<1>2. UNCHANGED <<store, clients, loop, dispatched, restarts, who>>
  BY DEF Apart
<1>3. /\ CoordinatorInv' /\ ConnectionsOK'
      /\ \A b \in Conns : /\ b # c => up'[b] = up[b] /\ down'[b] = down[b]
                          /\ \A n \in DOMAIN down'[b] : \E k \in DOMAIN down[b] :
                               down'[b][n] = down[b][k]
  <2> HIDE DEF Replies
  <2> QED  BY <1>1, <1>2, UsesConnection
<1>4. sched' = sched /\ clients' = clients /\ unsynced' = unsynced /\ who' = who
  BY <1>2 DEF store
<1>5. cli' \in [Clients -> RunType] /\ \A b \in Clients : b # c => cli'[b] = cli[b]
  <2> HIDE DEF RunType
  <2> QED  BY DEF ClusterBase, ProcessesTyped
<1>6. FramesTrue'
  <2>1. \A b \in Workers : FrameTrue(proc'[b].assignment, sched)
    BY DEF ClusterBase, FramesTrue
  <2>2. \A b \in Clients : FrameTrue(cli'[b].reply, sched)
    BY <1>5 DEF ClusterBase, FramesTrue
  <2> QED  BY <1>1, <1>3, <1>4, <2>1, <2>2, UsesFrames
<1>7. ProcessesTyped'
  <2> HIDE DEF ProcessType, RunType, Replies
  <2> QED  BY <1>4, <1>5 DEF ClusterBase, ProcessesTyped
<1>8. ASSUME NEW b \in Workers
      PROVE  WorkerOK(b)'
  <2>1. b \in Conns /\ b # c
    BY ClusterConstants, CoordinatorConstants
  <2> QED  BY <1>3, <2>1 DEF ClusterBase, WorkerOK
<1>9. ASSUME NEW b \in Clients
      PROVE  ClientOK(b)'
  <2>1. b \in Conns
    BY ClusterConstants, CoordinatorConstants
  <2> QED  BY <1>3, <1>5, <2>1 DEF ClusterBase, ClientOK
<1>10. UnsyncedGrows'
  BY <1>4 DEF ClusterBase, UnsyncedGrows
<1> QED  BY <1>3, <1>6, <1>7, <1>8, <1>9, <1>10 DEF ClusterBase

\* A step of a client keeps the base.
LEMMA ClientBase ==
  ASSUME ClusterBase, NEW c \in Clients, ClientStep(c) \/ ClientFault(c)
  PROVE  ClusterBase' /\ Proceeds(c) /\ UNCHANGED <<Apart, proc, ran, told>>
<1>1. RunReady(c) /\ Proceeds(c) /\ UNCHANGED <<Apart, proc, ran, told>>
  BY ClientReady, ClientProceeds
<1>2. FrameTrue(cli'[c].reply, sched)
  <2> HIDE DEF NoMessage
  <2> QED  BY <1>1, ReplyTrue DEF Proceeds
<1>3. told' \in [Clients -> SUBSET Replies] /\ \A b \in Clients : \A f \in told'[b] : FrameTrue(f, sched)
  <2> HIDE DEF Replies
  <2> QED  BY <1>1 DEF ClusterBase, ProcessesTyped, FramesTrue
<1>4. /\ Uses(c, Requested(cli[c])) /\ cli' = [cli EXCEPT ![c] = cli'[c]]
      /\ cli'[c] \in RunType /\ Runs(cli'[c], up'[c])
  <2> HIDE DEF RunType, Uses, Runs, Requested, NoMessage
  <2> QED  BY <1>1 DEF Proceeds
<1>5. \A m \in Requested(cli[c]) : RequestOK(m)
  BY <1>1, ClientRequests
<1>6. ClusterBase'
  <2> HIDE DEF RunType, Uses, Runs, Requested, Replies
  <2> QED  BY <1>1, <1>2, <1>3, <1>4, <1>5, RunBase
<1> QED  BY <1>1, <1>6

\* So does its start.
LEMMA StartBase ==
  ASSUME ClusterBase, NEW c \in Clients, ClientStart(c)
  PROVE  /\ ClusterBase' /\ (\E m : Query(m) /\ Asks(c, m)) /\ UNCHANGED <<Apart, proc, ran>>
         /\ told' = [told EXCEPT ![c] = {cli[k].reply : k \in {k \in Clients : cli[k].code = 0}}]
<1>1. RunReady(c)
  BY ClientReady
<1>2. PICK m \in Requests : C!Start(c, m)
  BY DEF ClientStart
<1>3. Query(m) /\ Asks(c, m)
  BY <1>1, <1>2, RequestsAre, StartAsks
<1>4. UNCHANGED <<Apart, proc, ran>>
      /\ told' = [told EXCEPT ![c] = {cli[k].reply : k \in {k \in Clients : cli[k].code = 0}}]
  BY DEF ClientStart
<1> DEFINE T == {cli[k].reply : k \in {k \in Clients : cli[k].code = 0}}
<1>5. T \in SUBSET Replies /\ \A f \in T : FrameTrue(f, sched)
  <2>1. \A k \in Clients : cli[k].reply \in Replies /\ FrameTrue(cli[k].reply, sched)
    BY ClientReady, RunFields DEF ClusterBase, FramesTrue
  <2> HIDE DEF Replies
  <2> QED  BY <2>1
<1> HIDE DEF T
<1>6. told' \in [Clients -> SUBSET Replies] /\ \A b \in Clients : \A f \in told'[b] : FrameTrue(f, sched)
  <2> HIDE DEF Replies
  <2>1. told' = [told EXCEPT ![c] = T] /\ told \in [Clients -> SUBSET Replies]
    BY <1>4 DEF T, ClusterBase, ProcessesTyped
  <2> QED  BY <1>5, <2>1 DEF ClusterBase, FramesTrue
<1>7. /\ Uses(c, {}) /\ cli' = [cli EXCEPT ![c] = cli'[c]]
      /\ cli'[c] \in RunType /\ Runs(cli'[c], up'[c]) /\ cli'[c].reply = NoMessage
  <2> HIDE DEF RunType, Runs, NoMessage
  <2> QED  BY <1>3 DEF Asks, Uses
<1>8. FrameTrue(cli'[c].reply, sched)
  <2> HIDE DEF NoMessage
  <2> QED  BY <1>7, ReplyTrue
<1>9. ClusterBase'
  <2> HIDE DEF RunType, Uses, Runs, Replies
  <2> QED  BY <1>4, <1>6, <1>7, <1>8, RunBase, SMTT(90)
<1> QED  BY <1>3, <1>4, <1>9

-----------------------------------------------------------------------------
(* The base holds.                                                         *)

\* A process that was not started.
LEMMA NewProcess ==
  /\ W!NewProcess \in ProcessType /\ Works(W!NewProcess, <<>>)
  /\ W!NewProcess.assignment = NoMessage /\ Taken(W!NewProcess) = NoMessage
  /\ W!NewProcess.thread = "none" /\ W!NewProcess.phase = "start"
<1>1. NoMessage \in WorkerFrames /\ NoMessage \in Replies /\ W!NoMessage = NoMessage
  BY DEF NoMessage, Message, WorkerFrames, Replies, ReplyTypes, ReplyValues, W!NoMessage, W!Message
<1>2. W!NewProcess =
        [ phase |-> "start", worker_id |-> 0, stopping |-> FALSE, reason |-> "none",
          out |-> NoMessage, timer |-> 0, beat |-> 0, received |-> "nothing", frame |-> -1,
          assignment |-> NoMessage, thread |-> "none", cancel |-> FALSE, status |-> "NONE",
          result |-> "none" ]
  BY <1>1 DEF W!NewProcess
<1> HIDE DEF Replies, WorkerFrames, NoMessage, W!NewProcess
<1>3. W!NewProcess \in ProcessType
  BY <1>1, <1>2 DEF ProcessType
<1>4. /\ W!NewProcess.phase = "start" /\ W!NewProcess.received = "nothing"
      /\ W!NewProcess.assignment = NoMessage /\ W!NewProcess.thread = "none"
      /\ W!NewProcess.cancel = FALSE
  BY <1>2
<1>5. Works(W!NewProcess, <<>>) /\ Taken(W!NewProcess) = NoMessage
  BY <1>4 DEF Works, Taken
<1> QED  BY <1>3, <1>4, <1>5

\* A run that was not started.
LEMMA NewRun ==
  /\ C!NewRun \in RunType /\ Runs(C!NewRun, <<>>)
  /\ C!NewRun.reply = NoMessage /\ C!NewRun.request = NoMessage /\ C!NewRun.phase = "start"
  /\ C!NewRun.code = -1
<1>1. NoMessage \in Asked /\ NoMessage \in Replies /\ C!NoMessage = NoMessage
  BY DEF NoMessage, Message, Asked, Replies, ReplyTypes, ReplyValues, C!NoMessage, C!Message
<1>2. C!NewRun = [ phase |-> "start", request |-> NoMessage, timer |-> 0, received |-> "nothing",
                   code |-> -1, reply |-> NoMessage ]
  BY <1>1 DEF C!NewRun
<1>3. NoMessage.type = "NONE"
  BY DEF NoMessage, Message
<1> HIDE DEF Asked, Replies, NoMessage, C!NewRun
<1>4. C!NewRun \in RunType
  BY <1>1, <1>2 DEF RunType
<1>5. /\ C!NewRun.phase = "start" /\ C!NewRun.request = NoMessage /\ C!NewRun.reply = NoMessage
      /\ C!NewRun.code = -1
  BY <1>2
<1>6. Runs(C!NewRun, <<>>)
  BY <1>3, <1>5 DEF Runs
<1> QED  BY <1>4, <1>5, <1>6

\* A step is one of these.
LEMMA StepKinds ==
  ASSUME [ClusterNext]_vars
  PROVE  \/ Elsewhere
         \/ \E c \in Workers : WorkerStep(c)
         \/ \E c \in Clients : ClientStep(c) \/ ClientFault(c)
         \/ \E c \in Clients \cap who : ClientStart(c)
BY DEF ClusterNext, ProcessStep, Elsewhere, WorkerStep

-----------------------------------------------------------------------------
(* Answers never go back.                                                  *)

\* What is told of a job, other than that it is not found, tells that it exists.
LEMMA ToldExists ==
  ASSUME NEW m \in Replies, NEW s, FrameTrue(m, s), m.type # "JOB_STATUS_NOT_FOUND", m.job_id # 0
  PROVE  m.job_id \in DOMAIN s.jobs
<1>1. m.type \in ReplyTypes
  <2> HIDE DEF ReplyTypes, ReplyValues
  <2> QED  BY DEF Replies
<1> QED  BY <1>1 DEF ReplyTypes, FrameTrue

\* A new reply agrees with what was told before.
LEMMA NewAgrees ==
  ASSUME NEW c \in Clients, NEW m, NEW r, New(m, r),
         \A f \in told[c] : f \in Replies /\ FrameTrue(f, sched') /\ f.type # "JOB_STATUS_NOT_FOUND"
  PROVE  Agrees(c, r)
<1> SUFFICES ASSUME NEW f \in told[c], f.job_id # 0, f.job_id = r.job_id
             PROVE  /\ r.type # "JOB_STATUS_NOT_FOUND"
                    /\ r.type = "JOB_STATUS_RESPONSE" /\ Final(f) => r.value = f.value
  BY DEF Agrees
<1>1. f.job_id \in DOMAIN sched'.jobs
  BY ToldExists
<1> HIDE DEF Replies
<1> QED  BY <1>1 DEF New, Final, FrameTrue

\* No reply agrees with everything.
LEMMA NothingAgrees ==
  ASSUME NEW c
  PROVE  Agrees(c, NoMessage)
BY DEF Agrees, NoMessage, Message

\* The coordinator's steps keep this.
LEMMA LoopAnswers ==
  ASSUME ClusterBase, ClusterBase', AnswersInv, Idles, NEW i \in Slots, NEW m, Flows(i, m)
  PROVE  AnswersInv'
<1>1. told' = told /\ \A c \in Clients : cli'[c].reply = cli[c].reply
  BY DEF Idles, SameRun
<1>3. ASSUME NEW c \in Clients
      PROVE  \A f \in told[c] : f \in Replies /\ FrameTrue(f, sched') /\ f.type # "JOB_STATUS_NOT_FOUND"
  <2>1. told \in [Clients -> SUBSET Replies] /\ \A f \in told[c] : FrameTrue(f, sched')
    <3> HIDE DEF Replies, FrameTrue
    <3> QED  BY <1>1 DEF ClusterBase, ProcessesTyped, FramesTrue
  <2> HIDE DEF Replies
  <2> QED  BY <2>1 DEF AnswersInv
<1>4. ASSUME NEW c \in Clients, NEW k \in Slots, clients'[k].conn = c
      PROVE  Agrees(c, clients'[k].output)
  <2>1. CASE clients'[k].output = clients[k].output /\ clients'[k].conn = clients[k].conn
    BY <1>4, <2>1 DEF AnswersInv
  <2>2. CASE clients'[k].output = NoMessage
    <3> HIDE DEF NoMessage, Agrees
    <3> QED  BY <2>2, NothingAgrees
  <2>3. CASE New(m, clients'[k].output)
    BY <1>3, <2>3, NewAgrees
  <2> HIDE DEF NoMessage, Agrees, New
  <2> QED  BY <2>1, <2>2, <2>3 DEF Flows
<1>5. ASSUME NEW c \in Clients, NEW n \in DOMAIN down'[c]
      PROVE  Agrees(c, down'[c][n])
  <2>1. c \in Conns
    BY ClusterConstants, CoordinatorConstants
  <2>2. CASE n \in DOMAIN down[c]
    <3>1. down'[c][n] = down[c][n]
      BY <2>1, <2>2 DEF Flows
    <3> QED  BY <2>2, <3>1 DEF AnswersInv
  <2>3. CASE n \notin DOMAIN down[c]
    <3>1. c = clients[i].conn /\ down'[c][n] = clients[i].output
      BY <1>5, <2>1, <2>3 DEF Flows
    <3> QED  BY <3>1 DEF AnswersInv
  <2> QED  BY <2>2, <2>3
<1> HIDE DEF Agrees
<1>6. \A c \in Clients : Agrees(c, cli'[c].reply)
  BY <1>1 DEF AnswersInv
<1>7. \A c \in Clients : \A f \in told'[c] : f.type # "JOB_STATUS_NOT_FOUND"
  BY <1>1 DEF AnswersInv
<1> QED  BY <1>1, <1>4, <1>5, <1>6, <1>7 DEF AnswersInv, Agrees, Final

\* What is read from a connection was on it.
LEMMA UsesQueues ==
  ASSUME ConnectionsOK, NEW c \in Conns, NEW ms, Uses(c, ms)
  PROVE  /\ \A b \in Conns : b # c => down'[b] = down[b]
         /\ \A n \in DOMAIN down'[c] : \E k \in DOMAIN down[c] : down'[c][n] = down[c][k]
         /\ down[c] # <<>> => 1 \in DOMAIN down[c] /\ Head(down[c]) = down[c][1]
<1>1. down \in [Conns -> Seq(Replies)]
  <2> HIDE DEF Replies
  <2> QED  BY DEF ConnectionsOK
<1> HIDE DEF Replies
<1>2. CASE Reads(c)
  <2> DEFINE t == Tail(down[c])
  <2>1. \A n \in DOMAIN t : n + 1 \in DOMAIN down[c] /\ t[n] = down[c][n + 1]
    BY <1>1, <1>2, RemovedFrame DEF Reads
  <2> HIDE DEF t
  <2>2. down' = [down EXCEPT ![c] = t]
    BY <1>2 DEF Reads, t
  <2>3. down[c] # <<>> => 1 \in DOMAIN down[c] /\ Head(down[c]) = down[c][1]
    BY <1>1, RemovedFrame
  <2> QED  BY <1>1, <2>1, <2>2, <2>3
<1>3. CASE down' = down \/ down' = [down EXCEPT ![c] = <<>>]
  <2>1. down[c] # <<>> => 1 \in DOMAIN down[c] /\ Head(down[c]) = down[c][1]
    BY <1>1, RemovedFrame
  <2> QED  BY <1>1, <1>3, <2>1, SMTT(90)
<1> QED  BY <1>2, <1>3 DEF Uses, Opens, Hangs, Sends, network

\* A worker does not touch the connections of the clients.
LEMMA WorkerAnswers ==
  ASSUME ClusterBase, AnswersInv, NEW c \in Workers, Moves(c), UNCHANGED <<Apart, cli, told>>
  PROVE  AnswersInv'
<1>1. c \in Conns /\ Uses(c, Sending(proc[c])) /\ ConnectionsOK
  <2> HIDE DEF Uses, Sending, ProcessType
  <2> QED  BY WorkerReady DEF ClusterBase, Moves, Ready
<1>2. \A b \in Clients : down'[b] = down[b]
  BY <1>1, UsesQueues, ClusterConstants, CoordinatorConstants
<1>3. clients' = clients
  BY DEF Apart
<1> QED  BY <1>2, <1>3, SMTT(90) DEF AnswersInv, Agrees, Final

\* What a client prints was on its connection.
LEMMA ClientAnswers ==
  ASSUME ClusterBase, AnswersInv, NEW c \in Clients, Proceeds(c), UNCHANGED <<Apart, told>>
  PROVE  AnswersInv'
<1>1. c \in Conns /\ Uses(c, Requested(cli[c])) /\ ConnectionsOK /\ DOMAIN cli = Clients
      /\ cli' = [cli EXCEPT ![c] = cli'[c]]
  <2>1. c \in Conns /\ ConnectionsOK /\ DOMAIN cli = Clients
    <3> HIDE DEF RunType
    <3> QED  BY ClientReady DEF ClusterBase, RunReady
  <2> HIDE DEF Uses, Requested, RunType
  <2> QED  BY <2>1 DEF Proceeds
<1>2. /\ \A b \in Conns : b # c => down'[b] = down[b]
      /\ \A n \in DOMAIN down'[c] : \E k \in DOMAIN down[c] : down'[c][n] = down[c][k]
      /\ down[c] # <<>> => 1 \in DOMAIN down[c] /\ Head(down[c]) = down[c][1]
  BY <1>1, UsesQueues
<1>3. clients' = clients /\ Clients \subseteq Conns
  BY ClusterConstants, CoordinatorConstants DEF Apart
<1>4. ASSUME NEW b \in Clients
      PROVE  \A n \in DOMAIN down'[b] : Agrees(b, down'[b][n])
  <2> HIDE DEF Agrees
  <2> QED  BY <1>2, <1>3 DEF AnswersInv
<1>5. ASSUME NEW b \in Clients
      PROVE  Agrees(b, cli'[b].reply)
  <2> HIDE DEF Agrees, NoMessage
  <2>1. CASE b = c
    BY <1>2, <2>1, NothingAgrees DEF AnswersInv, Proceeds
  <2>2. CASE b # c
    BY <1>1, <2>2 DEF AnswersInv
  <2> QED  BY <2>1, <2>2
<1>6. \A b \in Clients : \A k \in Slots : clients'[k].conn = b => Agrees(b, clients'[k].output)
  BY <1>3 DEF AnswersInv
<1> QED  BY <1>4, <1>5, <1>6 DEF AnswersInv, Agrees, Final

\* When a client starts, nothing is on its way to it, and what was printed with
\* status 0 is not that a job was not found.
LEMMA StartAnswers ==
  ASSUME ClusterBase, AnswersInv, NEW c \in Clients, NEW m, Asks(c, m), UNCHANGED Apart,
         told' = [told EXCEPT ![c] = {cli[k].reply : k \in {k \in Clients : cli[k].code = 0}}]
  PROVE  AnswersInv'
<1> DEFINE T == {cli[k].reply : k \in {k \in Clients : cli[k].code = 0}}
<1>1. /\ c \in Conns /\ ConnectionsOK /\ DOMAIN cli = Clients /\ DOMAIN told = Clients
      /\ clients \in [Slots -> ClientType]
  <2>1. c \in Conns /\ ConnectionsOK /\ DOMAIN cli = Clients
    <3> HIDE DEF RunType
    <3> QED  BY ClientReady DEF ClusterBase, RunReady
  <2>2. clients \in [Slots -> ClientType]
    BY InPlace DEF ClusterBase, CoordinatorInv, StateOK, ClientsOK
  <2>3. DOMAIN told = Clients
    <3> HIDE DEF Replies
    <3> QED  BY DEF ClusterBase, ProcessesTyped
  <2> QED  BY <2>1, <2>2, <2>3
<1>2. /\ peer[c] = "idle" /\ down' = down /\ down[c] = <<>> /\ server[c] = "none"
      /\ cli' = [cli EXCEPT ![c] = cli'[c]] /\ cli'[c].reply = NoMessage
  <2> HIDE DEF NoMessage, RunType
  <2> QED  BY <1>1 DEF Asks, Opens, ConnectionsOK
<1>3. clients' = clients /\ told' = [told EXCEPT ![c] = T]
  BY DEF Apart
<1>4. ASSUME NEW k \in Clients, cli[k].code = 0
      PROVE  cli[k].reply.type # "JOB_STATUS_NOT_FOUND"
  <2>1. Runs(cli[k], up[k])
    BY DEF ClusterBase, ClientOK
  <2>2. C!Code(cli[k].request, cli[k].reply) = 0
    <3> HIDE DEF C!Code, C!Answers, NoMessage
    <3> QED  BY <1>4, <2>1 DEF Runs
  <2> QED  BY <2>2 DEF C!Code
<1>5. \A f \in T : f.type # "JOB_STATUS_NOT_FOUND"
  BY <1>4
<1> HIDE DEF T
<1>6. told'[c] = T /\ \A b \in Clients : b # c => told'[b] = told[b] /\ cli'[b] = cli[b]
  BY <1>1, <1>2, <1>3
<1>7. \A b \in Clients : \A f \in told'[b] : f.type # "JOB_STATUS_NOT_FOUND"
  BY <1>5, <1>6 DEF AnswersInv
<1>8. ASSUME NEW b \in Clients, b # c
      PROVE  /\ \A k \in Slots : clients'[k].conn = b => Agrees(b, clients[k].output)'
             /\ \A n \in DOMAIN down'[b] : Agrees(b, down[b][n])'
             /\ Agrees(b, cli[b].reply)'
  BY <1>2, <1>3, <1>6, <1>8, SMTT(90) DEF AnswersInv, Agrees, Final
<1>9. ASSUME NEW k \in Slots, clients[k].conn = c
      PROVE  clients[k].output = NoMessage
  <2> HIDE DEF NoMessage
  <2> QED  BY <1>1, <1>2, <1>9 DEF ConnectionsOK
<1>10. /\ \A k \in Slots : clients'[k].conn = c => clients'[k].output = NoMessage
       /\ DOMAIN down'[c] = {} /\ cli'[c].reply = NoMessage
  <2> HIDE DEF NoMessage
  <2> QED  BY <1>2, <1>3, <1>9, SMTT(90)
<1>11. NoMessage.job_id = 0
  BY DEF NoMessage, Message
<1>12. /\ \A k \in Slots : clients'[k].conn = c => Agrees(c, clients[k].output)'
       /\ \A n \in DOMAIN down'[c] : Agrees(c, down[c][n])'
       /\ Agrees(c, cli[c].reply)'
  <2> HIDE DEF NoMessage
  <2> QED  BY <1>10, <1>11 DEF Agrees
<1> HIDE DEF NoMessage, Agrees
<1> QED  BY <1>7, <1>8, <1>12 DEF AnswersInv

-----------------------------------------------------------------------------
(* An attempt is on its way in one place.                                  *)

\* Frame f is none of those in the places O, D and P.
Beyond(f, O, D, P) ==
  /\ \A k \in Slots : Differ(O[k], f)
  /\ \A c \in Conns : \A n \in DOMAIN D[c] : Differ(D[c][n], f)
  /\ \A c \in Workers : Differ(P[c], f)

\* The order of two places does not matter.
LEMMA DifferBoth ==
  ASSUME NEW e, NEW f
  PROVE  /\ Differ(e, f) => Differ(f, e)
         /\ e.type # "JOB_ASSIGN" => Differ(e, f) /\ Differ(f, e)
BY DEF Differ

\* One assignment at most comes into an output buffer, that of slot i, and one
\* at most moves to its connection h.
OneMoves(O, D, P, Q, E, i, h) ==
  /\ \A k \in Slots : \/ Q[k] = O[k] \/ Q[k].type # "JOB_ASSIGN"
                      \/ k = i /\ Beyond(Q[k], O, D, P)
  /\ \A c \in Conns : \A n \in DOMAIN E[c] :
       \/ n \in DOMAIN D[c] /\ E[c][n] = D[c][n]
       \/ c = h /\ n = Len(D[c]) + 1 /\ E[c][n] = O[i] /\ Q[i].type # "JOB_ASSIGN"

\* Then each is still in one place.
LEMMA FlowsPlaces ==
  ASSUME NEW O, NEW D, NEW P, NEW Q, NEW E, NEW i \in Slots, NEW h, OnePlace(O, D, P),
         OneMoves(O, D, P, Q, E, i, h)
  PROVE  OnePlace(Q, E, P)
<1> USE DEF OneMoves
<1>1. \A j, k \in Slots : j # k => Differ(Q[j], Q[k])
  BY DifferBoth DEF OnePlace, Beyond
<1>2. \A k \in Slots, c \in Conns : \A n \in DOMAIN E[c] : Differ(Q[k], E[c][n])
  <2> SUFFICES ASSUME NEW k \in Slots, NEW c \in Conns, NEW n \in DOMAIN E[c]
               PROVE  Differ(Q[k], E[c][n])
    OBVIOUS
  <2>1. CASE n \in DOMAIN D[c] /\ E[c][n] = D[c][n]
    BY <2>1, DifferBoth DEF OnePlace, Beyond
  <2>2. CASE E[c][n] = O[i] /\ Q[i].type # "JOB_ASSIGN"
    BY <2>2, DifferBoth DEF OnePlace
  <2> QED  BY <2>1, <2>2
<1>3. \A k \in Slots, c \in Workers : Differ(Q[k], P[c])
  BY DifferBoth DEF OnePlace, Beyond
<1>4. \A b, c \in Conns : \A m \in DOMAIN E[b], n \in DOMAIN E[c] :
        b # c \/ m # n => Differ(E[b][m], E[c][n])
  <2> SUFFICES ASSUME NEW b \in Conns, NEW c \in Conns, NEW m \in DOMAIN E[b], NEW n \in DOMAIN E[c],
                      b # c \/ m # n
               PROVE  Differ(E[b][m], E[c][n])
    OBVIOUS
  <2>1. CASE /\ m \in DOMAIN D[b] /\ E[b][m] = D[b][m]
             /\ n \in DOMAIN D[c] /\ E[c][n] = D[c][n]
    BY <2>1 DEF OnePlace
  <2>2. CASE m \in DOMAIN D[b] /\ E[b][m] = D[b][m] /\ E[c][n] = O[i]
    BY <2>2, DifferBoth DEF OnePlace
  <2>3. CASE E[b][m] = O[i] /\ n \in DOMAIN D[c] /\ E[c][n] = D[c][n]
    BY <2>3 DEF OnePlace
  <2>4. ~(b = h /\ m = Len(D[b]) + 1 /\ c = h /\ n = Len(D[c]) + 1)
    OBVIOUS
  <2> QED  BY <2>1, <2>2, <2>3, <2>4
<1>5. \A b \in Conns, c \in Workers : \A m \in DOMAIN E[b] : Differ(E[b][m], P[c])
  BY DEF OnePlace
<1> QED  BY <1>1, <1>2, <1>3, <1>4, <1>5 DEF OnePlace

\* A process takes the first frame of its connection c, or loses what is there.
LEMMA MovesPlaces ==
  ASSUME NEW O, NEW D, NEW P, NEW E, NEW R, NEW c \in Conns, OnePlace(O, D, P),
         NEW s \in {0, 1},
         \A b \in Conns : \A n \in DOMAIN E[b] :
           IF b = c THEN n \in Int /\ n + s \in DOMAIN D[b] /\ E[b][n] = D[b][n + s]
           ELSE n \in DOMAIN D[b] /\ E[b][n] = D[b][n],
         \A b \in Workers : \/ R[b] = P[b] \/ R[b].type # "JOB_ASSIGN"
                            \/ b = c /\ s = 1 /\ 1 \in DOMAIN D[c] /\ R[b] = D[c][1],
         0 \notin DOMAIN E[c]
  PROVE  OnePlace(O, E, R)
<1>1. \A k \in Slots, b \in Conns : \A n \in DOMAIN E[b] : Differ(O[k], E[b][n])
  BY DEF OnePlace
<1>2. \A k \in Slots, b \in Workers : Differ(O[k], R[b])
  BY DifferBoth DEF OnePlace
<1>3. \A a, b \in Conns : \A m \in DOMAIN E[a], n \in DOMAIN E[b] :
        a # b \/ m # n => Differ(E[a][m], E[b][n])
  <2> SUFFICES ASSUME NEW a \in Conns, NEW b \in Conns, NEW m \in DOMAIN E[a], NEW n \in DOMAIN E[b],
                      a # b \/ m # n
               PROVE  Differ(E[a][m], E[b][n])
    OBVIOUS
  <2> DEFINE u == IF a = c THEN m + s ELSE m
             v == IF b = c THEN n + s ELSE n
  <2>1. u \in DOMAIN D[a] /\ E[a][m] = D[a][u] /\ v \in DOMAIN D[b] /\ E[b][n] = D[b][v]
    OBVIOUS
  <2>2. a # b \/ u # v
    OBVIOUS
  <2> HIDE DEF u, v
  <2> QED  BY <2>1, <2>2 DEF OnePlace
<1>4. \A a \in Conns, b \in Workers : \A m \in DOMAIN E[a] : Differ(E[a][m], R[b])
  <2> SUFFICES ASSUME NEW a \in Conns, NEW b \in Workers, NEW m \in DOMAIN E[a]
               PROVE  Differ(E[a][m], R[b])
    OBVIOUS
  <2> DEFINE u == IF a = c THEN m + s ELSE m
  <2>1. u \in DOMAIN D[a] /\ E[a][m] = D[a][u]
    OBVIOUS
  <2>2. a = c /\ s = 1 => u # 1
    OBVIOUS
  <2> HIDE DEF u
  <2>3. CASE b = c /\ s = 1 /\ 1 \in DOMAIN D[c] /\ R[b] = D[c][1]
    BY <2>1, <2>2, <2>3 DEF OnePlace
  <2>4. CASE R[b] = P[b]
    BY <2>1, <2>4 DEF OnePlace
  <2> QED  BY <2>3, <2>4, DifferBoth
<1>5. \A a, b \in Workers : a # b => Differ(R[a], R[b])
  BY DifferBoth DEF OnePlace
<1> QED  BY <1>1, <1>2, <1>3, <1>4, <1>5 DEF OnePlace

\* A new assignment is for an attempt nobody was told of.
LEMMA NewBeyond ==
  ASSUME ClusterBase, NEW m, NEW f, New(m, f)
  PROVE  Beyond(f, Outputs, down, Held)
<1>1. ASSUME NEW e \in Replies, FrameTrue(e, sched)
      PROVE  Differ(e, f)
  <2>1. SUFFICES ASSUME e.type = "JOB_ASSIGN", f.type = "JOB_ASSIGN", Token(e) = Token(f)
                 PROVE  FALSE
    BY DEF Differ
  <2>2. e.job_id = f.job_id /\ e.attempt = f.attempt
    BY <2>1 DEF Token
  <2>3. f.job_id \in DOMAIN sched.jobs /\ sched.jobs[f.job_id].attempt < f.attempt
    BY <2>1 DEF New
  <2>4. e.attempt <= sched.jobs[e.job_id].attempt /\ e.attempt \in Nat
    BY <1>1, <2>1 DEF FrameTrue, Replies
  <2>5. sched.jobs[f.job_id].attempt \in Nat
    BY <2>3, InPlace, JobFields DEF ClusterBase, CoordinatorInv, StateOK, JobType
  <2> QED  BY <2>2, <2>3, <2>4, <2>5
<1>2. /\ \A i \in Slots : clients[i].output \in Replies
      /\ \A c \in Conns : \A n \in DOMAIN down[c] : down[c][n] \in Replies
      /\ \A c \in Workers : proc[c].assignment \in Replies
  BY InPlace, FrameTypes DEF ClusterBase, CoordinatorInv, StateOK, ClientsOK
<1> HIDE DEF Replies
<1>3. \A k \in Slots : Differ(Outputs[k], f)
  BY <1>1, <1>2 DEF ClusterBase, FramesTrue, Outputs
<1>4. \A c \in Conns : \A n \in DOMAIN down[c] : Differ(down[c][n], f)
  BY <1>1, <1>2 DEF ClusterBase, FramesTrue
<1>5. \A c \in Workers : Differ(Held[c], f)
  <2> TAKE c \in Workers
  <2>1. Held[c] = proc[c].assignment \/ Held[c] = NoMessage
    BY DEF Held, Taken
  <2>2. CASE Held[c] = proc[c].assignment
    BY <1>1, <1>2, <2>2 DEF ClusterBase, FramesTrue
  <2>3. CASE Held[c] = NoMessage
    BY <2>3 DEF NoMessage, Message, Differ
  <2> QED  BY <2>1, <2>2, <2>3
<1> QED  BY <1>3, <1>4, <1>5 DEF Beyond

\* What was noted is in the table.
RanKnown(notes, s) == \A e \in notes : e[1] \in DOMAIN s.jobs /\ e[2] \in 0..s.jobs[e[1]].attempt

\* It stays there.
LEMMA RanStays ==
  ASSUME NEW s, NEW t, SchedulerOK(s), SchedulerOK(t), Grows(s, t), NEW notes, RanKnown(notes, s)
  PROVE  RanKnown(notes, t)
<1> SUFFICES ASSUME NEW e \in notes
             PROVE  e[1] \in DOMAIN t.jobs /\ e[2] \in 0..t.jobs[e[1]].attempt
  BY DEF RanKnown
<1>1. e[1] \in DOMAIN s.jobs /\ e[2] \in 0..s.jobs[e[1]].attempt
  BY DEF RanKnown
<1>2. e[1] \in DOMAIN t.jobs /\ t.jobs[e[1]].attempt >= s.jobs[e[1]].attempt
  BY <1>1 DEF Grows, JobGrows
<1>3. s.jobs[e[1]].attempt \in Nat /\ t.jobs[e[1]].attempt \in Nat
  BY <1>1, <1>2, JobFields DEF JobType
<1> QED  BY <1>1, <1>2, <1>3

\* No step of the coordinator or another peer puts an attempt into a second
\* place.
LEMMA FlowsAttempts ==
  ASSUME ClusterBase, ClusterBase', AttemptsInv, Idles, NEW i \in Slots, NEW m, Flows(i, m)
  PROVE  AttemptsInv'
<1> DEFINE O == Outputs  D == down  P == Held  Q == Outputs'  E == down'
<1>1. Held' = Held
  BY DEF Held, Taken, Idles, SameProcess
<1>2. \A k \in Slots : \/ Q[k] = O[k] \/ Q[k].type # "JOB_ASSIGN"
                       \/ k = i /\ Beyond(Q[k], O, D, P) /\ New(m, Q[k])
  <2> TAKE k \in Slots
  <2>1. Q[k] = clients'[k].output /\ O[k] = clients[k].output
    BY DEF Outputs
  <2>2. NoMessage.type # "JOB_ASSIGN"
    BY DEF NoMessage, Message
  <2> HIDE DEF O, D, P, Q, NoMessage
  <2>3. Q[k] = O[k] \/ Q[k] = NoMessage \/ (k = i /\ New(m, Q[k]))
    BY <2>1 DEF Flows
  <2>4. New(m, Q[k]) => Beyond(Q[k], O, D, P)
    BY NewBeyond DEF O, D, P
  <2> QED  BY <2>2, <2>3, <2>4
<1>3. \A c \in Conns : \A n \in DOMAIN E[c] :
        \/ n \in DOMAIN D[c] /\ E[c][n] = D[c][n]
        \/ /\ c = clients[i].conn /\ n = Len(D[c]) + 1 /\ E[c][n] = O[i]
           /\ Q[i].type # "JOB_ASSIGN"
  <2>1. O[i] = clients[i].output /\ Q[i] = clients'[i].output
    BY DEF Outputs
  <2>2. NoMessage.type # "JOB_ASSIGN"
    BY DEF NoMessage, Message
  <2> HIDE DEF O, Q, NoMessage
  <2> QED  BY <2>1, <2>2 DEF Flows
<1> HIDE DEF O, Q
<1>4. OnePlace(Q, E, P)
  <2>1. OnePlace(O, D, P)
    BY DEF AttemptsInv, O
  <2> HIDE DEF D, E, P, Beyond, OnePlace
  <2>2. OneMoves(O, D, P, Q, E, i, clients[i].conn)
    BY <1>2, <1>3 DEF OneMoves
  <2> QED  BY <2>1, <2>2, FlowsPlaces
<1>5. SchedulerOK(sched) /\ SchedulerOK(sched') /\ Grows(sched, sched') /\ ran' = ran
  BY InPlace, NextInPlace DEF ClusterBase, CoordinatorInv, StateOK, Flows, Idles
<1>6. RanKnown(ran, sched)
  BY DEF AttemptsInv, RanKnown
<1>7. RanKnown(ran, sched')
  BY <1>5, <1>6, RanStays
<1>8. ASSUME NEW f, New(m, f)
      PROVE  Fresh(f, ran)
  <2>1. SUFFICES ASSUME f.type = "JOB_ASSIGN", <<f.job_id, f.attempt, "STARTED">> \in ran
                 PROVE  FALSE
    BY DEF Fresh
  <2>2. f.job_id \in DOMAIN sched.jobs /\ f.attempt \in 0..sched.jobs[f.job_id].attempt
    BY <1>6, <2>1 DEF RanKnown
  <2>3. sched.jobs[f.job_id].attempt < f.attempt
    BY <1>8, <2>1 DEF New
  <2>4. sched.jobs[f.job_id].attempt \in Nat
    BY <1>5, <2>2, JobFields DEF JobType
  <2> QED  BY <2>2, <2>3, <2>4
<1>9. NotStarted(O, D, P, ran)
  BY DEF AttemptsInv, O
<1>10. NotStarted(Q, E, P, ran)
  <2>1. \A k \in Slots : Fresh(Q[k], ran)
    BY <1>2, <1>8, <1>9 DEF NotStarted, Fresh
  <2>2. \A c \in Conns : \A n \in DOMAIN E[c] : Fresh(E[c][n], ran)
    BY <1>3, <1>9 DEF NotStarted
  <2> QED  BY <1>9, <2>1, <2>2 DEF NotStarted
<1> QED  BY <1>1, <1>4, <1>5, <1>7, <1>10 DEF AttemptsInv, RanKnown, Q

\* A process that reads takes the first frame; any other loses none or all.
LEMMA UsesShifts ==
  ASSUME ConnectionsOK, NEW c \in Conns, NEW ms, Uses(c, ms)
  PROVE  \E s \in {0, 1} :
           /\ Reads(c) => s = 1 /\ 1 \in DOMAIN down[c] /\ Head(down[c]) = down[c][1]
           /\ 0 \notin DOMAIN down'[c]
           /\ \A b \in Conns : \A n \in DOMAIN down'[b] :
                IF b = c THEN n \in Int /\ n + s \in DOMAIN down[b] /\ down'[b][n] = down[b][n + s]
                ELSE n \in DOMAIN down[b] /\ down'[b][n] = down[b][n]
<1>1. down \in [Conns -> Seq(Replies)]
  <2> HIDE DEF Replies
  <2> QED  BY DEF ConnectionsOK
<1> HIDE DEF Replies
<1>2. CASE Reads(c)
  <2> DEFINE t == Tail(down[c])
  <2>1. /\ \A n \in DOMAIN t : n \in Nat \ {0} /\ n + 1 \in DOMAIN down[c] /\ t[n] = down[c][n + 1]
        /\ 1 \in DOMAIN down[c] /\ Head(down[c]) = down[c][1]
    BY <1>1, <1>2, RemovedFrame DEF Reads
  <2> HIDE DEF t
  <2>2. down' = [down EXCEPT ![c] = t]
    BY <1>2 DEF Reads, t
  <2> WITNESS 1 \in {0, 1}
  <2> QED  BY <1>1, <2>1, <2>2, SMTT(90)
<1>3. CASE ~Reads(c)
  <2>1. down' = down \/ down' = [down EXCEPT ![c] = <<>>]
    BY <1>3 DEF Uses, Opens, Hangs, Sends, network
  <2>2. \A n \in DOMAIN down[c] : n \in Nat \ {0}
    BY <1>1
  <2> WITNESS 0 \in {0, 1}
  <2> QED  BY <1>1, <1>3, <2>1, <2>2, SMTT(90)
<1> QED  BY <1>2, <1>3

\* A worker takes an assignment over, starts it or drops it.
LEMMA MovesAttempts ==
  ASSUME ClusterBase, AttemptsInv, NEW c \in Workers, Moves(c), ran' = Noted(c),
         UNCHANGED <<Apart, cli, told>>
  PROVE  AttemptsInv'
<1> DEFINE O == Outputs  D == down  P == Held  E == down'  R == Held'
           p == proc[c]  q == proc'[c]
<1>1. /\ c \in Conns /\ Uses(c, Sending(p)) /\ ConnectionsOK /\ SchedulerOK(sched)
      /\ FrameTrue(p.assignment, sched) /\ Ready(c) /\ q \in ProcessType
  <2> HIDE DEF Uses, Sending, ProcessType
  <2> QED  BY WorkerReady DEF ClusterBase, Moves, Ready
<1>2. Outputs' = O /\ sched' = sched
  BY DEF Apart, Outputs, store
<1>3. PICK s \in {0, 1} :
        /\ Reads(c) => s = 1 /\ 1 \in DOMAIN D[c] /\ Head(D[c]) = D[c][1]
        /\ 0 \notin DOMAIN E[c]
        /\ \A b \in Conns : \A n \in DOMAIN E[b] :
             IF b = c THEN n \in Int /\ n + s \in DOMAIN D[b] /\ E[b][n] = D[b][n + s]
             ELSE n \in DOMAIN D[b] /\ E[b][n] = D[b][n]
  BY <1>1, UsesShifts
<1>4. /\ \A b \in Workers : b # c => R[b] = P[b]
      /\ P[c] = Taken(p) /\ R[c] = Taken(q)
  BY DEF Moves, Held
<1>5. NoMessage.type # "JOB_ASSIGN"
  BY DEF NoMessage, Message
<1>6. /\ \/ R[c] = NoMessage \/ R[c] = P[c]
         \/ Reads(c) /\ R[c] = Head(down[c])
      /\ Starts(c) => /\ P[c] = p.assignment /\ q.assignment = p.assignment
                      /\ R[c] = NoMessage /\ p.assignment.type = "JOB_ASSIGN"
      /\ Decides(c) => q.assignment = p.assignment /\ p.assignment.type = "JOB_ASSIGN"
  <2>1. /\ \/ Taken(q) = NoMessage \/ Taken(q) = Taken(p)
           \/ Reads(c) /\ Taken(q) = Head(down[c])
        /\ Starts(c) => /\ Taken(p) = p.assignment /\ q.assignment = p.assignment
                        /\ Taken(q) = NoMessage /\ p.assignment.type = "JOB_ASSIGN"
        /\ Decides(c) => q.assignment = p.assignment /\ p.assignment.type = "JOB_ASSIGN"
    <3> HIDE DEF NoMessage, Reads
    <3> QED  BY DEF Moves
  <2> HIDE DEF P, R, NoMessage, Reads
  <2> QED  BY <1>4, <2>1
<1>7. \A b \in Workers : \/ R[b] = P[b] \/ R[b].type # "JOB_ASSIGN"
                         \/ b = c /\ s = 1 /\ 1 \in DOMAIN D[c] /\ R[b] = D[c][1]
  <2> HIDE DEF P, R, NoMessage, Reads
  <2> QED  BY <1>3, <1>4, <1>5, <1>6
<1>8. OnePlace(O, D, P) /\ NotStarted(O, D, P, ran) /\ RanKnown(ran, sched)
  BY DEF AttemptsInv, RanKnown
<1> HIDE DEF O, D, P, E, R
<1>9. OnePlace(O, E, R)
  BY <1>1, <1>3, <1>7, <1>8, MovesPlaces
<1>10. /\ \A b \in Conns : \A n \in DOMAIN E[b] : \E m \in DOMAIN D[b] : E[b][n] = D[b][m]
       /\ \A b \in Workers : \/ R[b] = P[b] \/ R[b].type # "JOB_ASSIGN"
                             \/ \E m \in DOMAIN D[c] : R[b] = D[c][m]
  BY <1>3, <1>7
<1>11. NotStarted(O, E, R, ran)
  BY <1>1, <1>8, <1>10, SMTT(90) DEF NotStarted, Fresh
<1>12. ASSUME Starts(c) \/ Decides(c)
       PROVE  /\ p.assignment.job_id \in DOMAIN sched.jobs
              /\ p.assignment.attempt \in 0..sched.jobs[p.assignment.job_id].attempt
              /\ q.assignment = p.assignment
  <2>1. p.assignment.type = "JOB_ASSIGN" /\ q.assignment = p.assignment
    BY <1>6, <1>12
  <2>2. p.assignment.job_id \in DOMAIN sched.jobs
        /\ p.assignment.attempt <= sched.jobs[p.assignment.job_id].attempt
    BY <1>1, <2>1 DEF FrameTrue
  <2>3. p.assignment \in Replies
    BY <1>1, ProcessFields
  <2>4. p.assignment.attempt \in Nat
    BY <2>3 DEF Replies
  <2>5. sched.jobs[p.assignment.job_id].attempt \in Nat
    BY <1>1, <2>2, JobFields DEF JobType
  <2> QED  BY <2>1, <2>2, <2>4, <2>5
<1>13. q.status # "STARTED"
  <2> HIDE DEF Replies, WorkerFrames, q
  <2> QED  BY <1>1 DEF ProcessType
<1>14. CASE Starts(c)
  <2> DEFINE e == <<p.assignment.job_id, p.assignment.attempt, "STARTED">>
  <2>1. ran' = ran \cup {e}
    BY <1>12, <1>14 DEF Noted
  <2>2. RanKnown(ran', sched)
    BY <1>8, <1>12, <1>14, <2>1 DEF RanKnown
  <2>3. ASSUME NEW f, Fresh(f, ran), Differ(f, P[c])
        PROVE  Fresh(f, ran')
    BY <1>6, <1>14, <2>1, <2>3 DEF Fresh, Differ, Token
  <2>4. \A k \in Slots : Fresh(O[k], ran')
    BY <1>8, <2>3 DEF OnePlace, NotStarted
  <2>5. \A b \in Conns : \A n \in DOMAIN E[b] : Fresh(E[b][n], ran')
    <3> HIDE DEF Fresh, Differ
    <3> QED  BY <1>8, <1>10, <2>3 DEF OnePlace, NotStarted
  <2>6. \A b \in Workers : Fresh(R[b], ran')
    <3> SUFFICES ASSUME NEW b \in Workers  PROVE Fresh(R[b], ran')
      OBVIOUS
    <3>1. CASE b = c
      BY <1>5, <1>6, <1>14, <3>1 DEF Fresh
    <3>2. CASE b # c
      <4>1. Differ(P[b], P[c]) /\ Fresh(P[b], ran) /\ R[b] = P[b]
        BY <1>4, <1>8, <3>2 DEF OnePlace, NotStarted
      <4> QED  BY <2>3, <4>1
    <3> QED  BY <3>1, <3>2
  <2> QED  BY <1>2, <1>9, <2>2, <2>4, <2>5, <2>6 DEF AttemptsInv, NotStarted, RanKnown, E, R
<1>15. CASE ~Starts(c)
  <2>1. ran' = ran \/ (Decides(c) /\ ran' = ran \cup {<<p.assignment.job_id, p.assignment.attempt, q.status>>})
    BY <1>12, <1>15 DEF Noted
  <2>2. RanKnown(ran', sched)
    BY <1>8, <1>12, <2>1 DEF RanKnown
  <2>3. \A f : Fresh(f, ran) => Fresh(f, ran')
    BY <1>13, <2>1 DEF Fresh
  <2>4. NotStarted(O, E, R, ran')
    <3> HIDE DEF Fresh
    <3> QED  BY <1>11, <2>3 DEF NotStarted
  <2> QED  BY <1>2, <1>9, <2>2, <2>4 DEF AttemptsInv, RanKnown, E, R
<1> QED  BY <1>14, <1>15

\* A client only reads from its own connection.
LEMMA ClientAttempts ==
  ASSUME ClusterBase, AttemptsInv, NEW c \in Clients, NEW ms, Uses(c, ms),
         UNCHANGED <<Apart, proc, ran>>
  PROVE  AttemptsInv'
<1> DEFINE O == Outputs  D == down  P == Held  E == down'
<1>1. c \in Conns /\ ConnectionsOK
  BY ClusterConstants, CoordinatorConstants DEF ClusterBase
<1>2. Outputs' = O /\ sched' = sched /\ Held' = P /\ ran' = ran
  BY DEF Apart, Outputs, store, Held
<1>3. PICK s \in {0, 1} :
        /\ 0 \notin DOMAIN E[c]
        /\ \A b \in Conns : \A n \in DOMAIN E[b] :
             IF b = c THEN n \in Int /\ n + s \in DOMAIN D[b] /\ E[b][n] = D[b][n + s]
             ELSE n \in DOMAIN D[b] /\ E[b][n] = D[b][n]
  BY <1>1, UsesShifts
<1>4. OnePlace(O, D, P) /\ NotStarted(O, D, P, ran)
  BY DEF AttemptsInv
<1> HIDE DEF O, D, P, E
<1>5. OnePlace(O, E, P)
  BY <1>1, <1>3, <1>4, MovesPlaces
<1>6. \A b \in Conns : \A n \in DOMAIN E[b] : \E m \in DOMAIN D[b] : E[b][n] = D[b][m]
  BY <1>3
<1>7. NotStarted(O, E, P, ran)
  BY <1>4, <1>6, SMTT(90) DEF NotStarted, Fresh
<1> QED  BY <1>2, <1>5, <1>7, SMTT(90) DEF AttemptsInv, E

-----------------------------------------------------------------------------
(* What the job table learns.                                              *)

\* The table changes as message m asks for, or becomes the one in doubt.
TableLearns(m) ==
  \/ UNCHANGED <<sched, unsynced>>
  \/ /\ Evolves(sched, sched', m)
     /\ unsynced' = unsynced \/ \A k \in DOMAIN unsynced' : Evolves(sched, unsynced'[k].sched, m)
  \/ /\ m = NoMessage /\ unsynced' = <<>>
     /\ sched' = sched \/ \E k \in DOMAIN unsynced : sched' = unsynced[k].sched

\* Message m, if any, was the next on the connection of slot i.
MessageTaken(i, m) ==
  LET c == clients[i].conn
  IN m = NoMessage \/ (c \in Conns /\ up[c] # <<>> /\ m = Head(up[c]) /\ up'[c] \in {Tail(up[c]), <<>>})

\* What waits for the coordinator on connection c.
Arrives(c) ==
  \/ up'[c] = up[c] \/ up'[c] = <<>>
  \/ up[c] # <<>> /\ up'[c] = Tail(up[c])
  \/ c \in who \ Processes /\ \E m \in PeerMessages : up'[c] = Append(up[c], m)

Learns(i, m) == TableLearns(m) /\ MessageTaken(i, m) /\ \A c \in Conns : Arrives(c)

\* Every step of the coordinator or another peer does that.
LEMMA TurnsLearn ==
  ASSUME ClusterBase, Turns
  PROVE  \E i \in Slots : \E m : Flows(i, m) /\ Learns(i, m)
<1>1. /\ SchedulerOK(sched) /\ clients \in [Slots -> ClientType] /\ DOMAIN up = Conns
      /\ \A c \in Conns : FramesOK(up[c])
      /\ \A i \in Slots : Open(clients, i) => clients[i].conn \in Conns
      /\ ConnectionsOK /\ UnsyncedGrows
  BY InPlace DEF ClusterBase, CoordinatorInv, StateOK, ClientsOK
<1>2. 1 \in Slots
  BY CoordinatorConstants DEF Slots
<1>3. CASE Rests
  <2>1. Flows(1, NoMessage)
    BY <1>1, <1>3, RestsFlows
  <2>2. Learns(1, NoMessage)
    BY <1>3 DEF Rests, Learns, TableLearns, MessageTaken, Arrives
  <2> QED  BY <1>2, <2>1, <2>2
<1>4. ASSUME unsynced = <<>>, NEW i \in Slots, NEW m, Open(clients, i), Serves(i, m)
      PROVE  Flows(i, m) /\ Learns(i, m)
  <2> DEFINE c == clients[i].conn
  <2>1. Flows(i, m) /\ c \in Conns
    BY <1>1, <1>4, ServesFlows
  <2>2. TableLearns(m)
    BY <1>4 DEF Serves, Changes, TableLearns
  <2>3. /\ m = NoMessage \/ (up[c] # <<>> /\ m = Head(up[c]))
        /\ \/ up' = [up EXCEPT ![c] = <<>>]
           \/ m = NoMessage /\ up' = up
           \/ up[c] # <<>> /\ up' = [up EXCEPT ![c] = Tail(up[c])]
    <3> HIDE DEF NoMessage
    <3> QED  BY <1>4 DEF Serves, Dropped, Continues, Takes
  <2>4. MessageTaken(i, m)
    <3> HIDE DEF NoMessage
    <3> QED  BY <1>1, <2>1, <2>3 DEF MessageTaken
  <2>5. ASSUME NEW b \in Conns  PROVE Arrives(b)
    BY <1>1, <2>1, <2>3 DEF Arrives
  <2> QED  BY <2>1, <2>2, <2>4, <2>5 DEF Learns
<1>5. ASSUME NEW c \in Conns, Enters(c)
      PROVE  Flows(1, NoMessage) /\ Learns(1, NoMessage)
  <2>1. Flows(1, NoMessage)
    BY <1>1, <1>2, <1>5, EntersFlows
  <2>2. UNCHANGED <<sched, unsynced>> /\ (up' = up \/ up' = [up EXCEPT ![c] = <<>>])
    BY <1>5 DEF Enters
  <2> QED  BY <1>1, <2>1, <2>2 DEF Learns, TableLearns, MessageTaken, Arrives
<1>6. CASE Ends
  <2>1. Flows(1, NoMessage)
    BY <1>1, <1>2, <1>6, EndsFlows
  <2>2. Learns(1, NoMessage)
    BY <1>6 DEF Ends, Learns, TableLearns, MessageTaken, Arrives
  <2> QED  BY <1>2, <2>1, <2>2
<1>7. ASSUME NEW c \in (Conns \cap who) \ Processes, PeerStep(c)
      PROVE  Flows(1, NoMessage) /\ Learns(1, NoMessage)
  <2>1. UNCHANGED <<sched, unsynced>> /\ Flows(1, NoMessage)
    BY <1>1, <1>7, PeerFlows
  <2>2. \/ up' = up \/ up' = [up EXCEPT ![c] = <<>>]
        \/ \E m \in PeerMessages : up' = [up EXCEPT ![c] = Append(up[c], m)]
    <3> HIDE DEF PeerMessages
    <3> QED  BY <1>7 DEF PeerStep, Connect, Send, Disconnect
  <2>3. ASSUME NEW b \in Conns  PROVE Arrives(b)
    <3> HIDE DEF PeerMessages
    <3> QED  BY <1>1, <1>7, <2>2 DEF Arrives
  <2> QED  BY <2>1, <2>3 DEF Learns, TableLearns, MessageTaken
<1> QED  BY <1>2, <1>3, <1>4, <1>5, <1>6, <1>7 DEF Turns

\* What waits, waited before, or comes from another peer.
LEMMA WaitedBefore ==
  ASSUME NEW c \in Conns, Arrives(c), FramesOK(up[c]), NEW n \in DOMAIN up'[c]
  PROVE  \/ \E k \in DOMAIN up[c] : up'[c][n] = up[c][k]
         \/ c \in who \ Processes /\ up'[c][n] \in PeerMessages
<1> DEFINE q == up[c]
           S == {q[k] : k \in DOMAIN q}
<1>1. q \in Seq(S) /\ \A k \in DOMAIN q : q[k] \in S
  BY DEF FramesOK
<1> HIDE DEF PeerMessages
<1>2. CASE q # <<>> /\ up'[c] = Tail(q)
  <2> HIDE DEF S
  <2>1. \A k \in DOMAIN Tail(q) : k + 1 \in DOMAIN q /\ Tail(q)[k] = q[k + 1]
    BY <1>1, <1>2, RemovedFrame
  <2> QED  BY <1>2, <2>1
<1>3. CASE c \in who \ Processes /\ \E m \in PeerMessages : up'[c] = Append(q, m)
  <2>1. PICK m \in PeerMessages : up'[c] = Append(q, m)
    BY <1>3
  <2>2. q \in Seq(S \cup {m})
    <3> HIDE DEF S
    <3> QED  BY <1>1
  <2> HIDE DEF S
  <2>3. /\ Append(q, m)[Len(q) + 1] = m
        /\ \A k \in DOMAIN q : Append(q, m)[k] = q[k]
        /\ \A k \in DOMAIN Append(q, m) : k \in DOMAIN q \/ k = Len(q) + 1
    BY <2>2, AddedFrame
  <2> QED  BY <1>3, <2>1, <2>3
<1>4. CASE up'[c] = q \/ up'[c] = <<>>
  BY <1>4
<1> QED  BY <1>2, <1>3, <1>4 DEF Arrives

\* What other peers send has the types they use.
LEMMA PeerTypesSent ==
  ASSUME NEW m \in PeerMessages
  PROVE  m.type \in PeerTypes
<1> DEFINE Typed == m.type \in PeerTypes
<1> SUFFICES Typed  OBVIOUS
<1>1. ASSUME NEW type, NEW w, NEW j, NEW a, NEW v
      PROVE  Message(type, w, j, a).type = type /\ Carrying(Message(type, w, j, a), v).type = type
  BY DEF Message, Carrying
<1>2. CASE \E type \in PeerTypes \ (ReportTypes \cup {"HEARTBEAT", "JOB_SUBMIT", "JOB_STATUS_REQUEST"}) :
             m = Message(type, 0, 0, 0)
  BY <1>1, <1>2
<1>3. CASE \E type \in PeerTypes \cap {"JOB_STATUS_REQUEST"}, j \in 1..MAX_JOB_ID :
             m = Message(type, 0, j, 0)
  BY <1>1, <1>3
<1>4. CASE \E type \in PeerTypes \cap {"JOB_SUBMIT"}, task \in Tasks, n \in 0..MAX_RETRIES :
             m = Carrying(Message(type, 0, 0, 0), <<task, n>>)
  BY <1>1, <1>4
<1>5. CASE \E type \in PeerTypes \cap {"HEARTBEAT"}, w \in 1..MAX_WORKER_ID :
             m = Message(type, w, 0, 0)
  BY <1>1, <1>5
<1>6. CASE \E type \in PeerTypes \cap ReportTypes, w \in 1..MAX_WORKER_ID,
             j \in 1..MAX_JOB_ID, a \in 1..MAX_RETRIES + 1, r \in Results :
             m = Carrying(Message(type, w, j, a), <<r>>)
  BY <1>1, <1>6
<1> HIDE DEF Typed
<1> QED  BY <1>2, <1>3, <1>4, <1>5, <1>6 DEF PeerMessages

-----------------------------------------------------------------------------
(* Outcomes are real.                                                      *)

\* What was noted stays noted, and a job keeps its task.
LEMMA ReportStays ==
  ASSUME NEW m, NEW s, NEW t, NEW N, NEW M, ReportReal(m, s, N), Grows(s, t), N \subseteq M
  PROVE  ReportReal(m, t, M)
BY DEF ReportReal, TaskFailed, Grows, JobGrows

\* So does an outcome.
LEMMA TableStays ==
  ASSUME NEW s, NEW N, NEW M, TableReal(s, N), N \subseteq M
  PROVE  TableReal(s, M)
BY DEF TableReal, TaskFailed

\* A table that takes its outcomes from real reports is real.
LEMMA EvolvedReal ==
  ASSUME NEW s, NEW t, NEW m, NEW N, TableReal(s, N), Evolves(s, t, m), ReportReal(m, s, N)
  PROVE  TableReal(t, N)
<1> SUFFICES ASSUME NEW k \in DOMAIN t.jobs
             PROVE  LET job == t.jobs[k]
                    IN /\ job.state = "DONE" => <<k, job.attempt, "OK">> \in N /\ job.result = job.task
                       /\ job.failure = "TASK" => TaskFailed(k, job.attempt, N)
  BY DEF TableReal
<1> DEFINE job == t.jobs[k]
           old == s.jobs[k]
<1>1. CASE k \notin DOMAIN s.jobs
  BY <1>1 DEF Evolves, Submitted
<1>2. CASE k \in DOMAIN s.jobs
  <2>1. Told(k, old, job, m) /\ JobGrows(old, job)
    BY <1>2 DEF Evolves, Grows
  <2>2. /\ old.state = "DONE" => <<k, old.attempt, "OK">> \in N /\ old.result = old.task
        /\ old.failure = "TASK" => TaskFailed(k, old.attempt, N)
    BY <1>2 DEF TableReal
  <2>3. m.type = "JOB_COMPLETED" /\ m.job_id = k => m.value[1] = old.task
    BY DEF ReportReal
  <2>4. job.task = old.task /\ (old.state = "DONE" => job = old)
    BY <2>1 DEF JobGrows, Ended
  <2> HIDE DEF job, old, TaskFailed
  <2>5. job.state = "DONE" => <<k, job.attempt, "OK">> \in N /\ job.result = job.task
    <3>1. CASE old.state = "DONE"
      BY <2>2, <2>4, <3>1
    <3>2. CASE old.state # "DONE"
      BY <2>1, <2>3, <2>4, <3>2 DEF Told, Completes, ReportReal
    <3> QED  BY <3>1, <3>2
  <2>6. job.failure = "TASK" => TaskFailed(k, job.attempt, N)
    BY <2>1, <2>2 DEF Told, Fails, ReportReal
  <2> QED  BY <2>5, <2>6 DEF job
<1> QED  BY <1>1, <1>2

\* No message reports nothing.
LEMMA NoReportReal ==
  ASSUME NEW m, m.type \notin {"JOB_COMPLETED", "JOB_FAILED"}, NEW s, NEW N
  PROVE  ReportReal(m, s, N)
BY DEF ReportReal

\* The coordinator takes outcomes from reports only.
LEMMA LoopOutcomes ==
  ASSUME ClusterBase, OutcomesInv, Idles, NEW i \in Slots, NEW m, Flows(i, m), Learns(i, m)
  PROVE  OutcomesInv'
<1>1. \A c \in Conns : FramesOK(up[c]) /\ Arrives(c)
  BY InPlace DEF ClusterBase, CoordinatorInv, StateOK, Learns
<1>2. ran' = ran /\ who' = who /\ Grows(sched, sched')
  BY DEF Idles, Flows
<1>3. ReportReal(m, sched, ran)
  <2>1. NoMessage.type = "NONE"
    BY DEF NoMessage, Message
  <2>2. CASE m = NoMessage
    BY <2>1, <2>2, NoReportReal
  <2>3. CASE m # NoMessage
    <3> DEFINE q == up[clients[i].conn]
               S == {q[k] : k \in DOMAIN q}
    <3>1. clients[i].conn \in Conns /\ q # <<>> /\ m = Head(q)
      BY <2>3 DEF Learns, MessageTaken
    <3>2. q \in Seq(S)
      BY <1>1, <3>1 DEF FramesOK
    <3> HIDE DEF S, q
    <3>3. 1 \in DOMAIN q /\ Head(q) = q[1]
      BY <3>1, <3>2, RemovedFrame
    <3> QED  BY <3>1, <3>3 DEF OutcomesInv, q
  <2> QED  BY <2>2, <2>3
<1>4. TableReal(sched', ran) /\ \A k \in DOMAIN unsynced' : TableReal(unsynced'[k].sched, ran)
  <2> HIDE DEF TableReal, Evolves
  <2> QED  BY <1>3, EvolvedReal DEF Learns, TableLearns, OutcomesInv
<1>5. ASSUME NEW c \in Conns, NEW n \in DOMAIN up'[c]
      PROVE  ReportReal(up'[c][n], sched', ran)
  <2>1. CASE \E k \in DOMAIN up[c] : up'[c][n] = up[c][k]
    <3>1. PICK k \in DOMAIN up[c] : up'[c][n] = up[c][k]
      BY <2>1
    <3>2. ReportReal(up[c][k], sched, ran)
      BY DEF OutcomesInv
    <3> QED  BY <1>2, <3>1, <3>2, ReportStays
  <2>2. CASE c \in who \ Processes /\ up'[c][n] \in PeerMessages
    <3>1. PeerTypes \cap ReportTypes = {}
      BY <2>2 DEF OutcomesInv
    <3>2. up'[c][n].type \in PeerTypes
      BY <2>2, PeerTypesSent
    <3> QED  BY <3>1, <3>2, NoReportReal DEF ReportTypes
  <2> QED  BY <1>1, <2>1, <2>2, WaitedBefore
<1>6. \A c \in Workers : OutcomeNoted(proc'[c], ran)
  BY DEF OutcomesInv, Idles, SameProcess, OutcomeNoted, Concluded
<1> QED  BY <1>2, <1>4, <1>5, <1>6 DEF OutcomesInv

\* A process adds only what it sends.
LEMMA UsesAdds ==
  ASSUME DOMAIN up = Conns, NEW c \in Conns, FramesOK(up[c]), NEW ms, Uses(c, ms)
  PROVE  /\ \A b \in Conns : b # c => up'[b] = up[b]
         /\ \A n \in DOMAIN up'[c] : \/ \E k \in DOMAIN up[c] : up'[c][n] = up[c][k]
                                     \/ up'[c][n] \in ms
<1> DEFINE q == up[c]
           S == {q[k] : k \in DOMAIN q}
<1>1. q \in Seq(S)
  BY DEF FramesOK
<1>2. CASE up' = up \/ up' = [up EXCEPT ![c] = <<>>]
  BY <1>2
<1>3. ASSUME NEW m \in ms, up' = [up EXCEPT ![c] = Append(q, m)]
      PROVE  /\ \A b \in Conns : b # c => up'[b] = up[b]
             /\ \A n \in DOMAIN up'[c] : \/ \E k \in DOMAIN up[c] : up'[c][n] = up[c][k]
                                         \/ up'[c][n] \in ms
  <2>1. q \in Seq(S \cup {m})
    <3> HIDE DEF S
    <3> QED  BY <1>1
  <2> HIDE DEF S
  <2>2. /\ Append(q, m)[Len(q) + 1] = m
        /\ \A k \in DOMAIN q : Append(q, m)[k] = q[k]
        /\ \A k \in DOMAIN Append(q, m) : k \in DOMAIN q \/ k = Len(q) + 1
    BY <2>1, AddedFrame
  <2>3. up'[c] = Append(q, m) /\ \A b \in Conns : b # c => up'[b] = up[b]
    BY <1>3
  <2> QED  BY <2>2, <2>3
<1> QED  BY <1>2, <1>3 DEF Uses, Opens, Reads, Hangs, Sends, network

\* A worker reports what it noted.
LEMMA MovesOutcomes ==
  ASSUME ClusterBase, OutcomesInv, NEW c \in Workers, Moves(c), ran' = Noted(c),
         UNCHANGED <<Apart, cli, told>>
  PROVE  OutcomesInv'
<1> DEFINE p == proc[c]
           q == proc'[c]
<1>1. /\ c \in Conns /\ Uses(c, Sending(p)) /\ Ready(c) /\ Works(p, down[c]) /\ Works(q, down'[c])
      /\ FrameTrue(p.assignment, sched)
  <2> HIDE DEF Uses, Sending, ProcessType, Works
  <2> QED  BY WorkerReady DEF Moves, Ready
<1>2. sched' = sched /\ unsynced' = unsynced /\ who' = who
  BY DEF Apart, store
<1>3. ran \subseteq ran'
  BY DEF Noted
<1>4. DOMAIN up = Conns /\ FramesOK(up[c])
  BY <1>1, InPlace DEF ClusterBase, CoordinatorInv, StateOK
<1>5. ASSUME p.phase = "send"  PROVE ReportReal(p.out, sched, ran)
  <2>1. CASE p.out.type \in {"JOB_COMPLETED", "JOB_FAILED"}
    <3>1. <<p.assignment.job_id, p.assignment.attempt, p.status>> \in ran
      BY <1>5, <2>1 DEF OutcomesInv, OutcomeNoted, Concluded
    <3>2. p.assignment.type = "JOB_ASSIGN" /\ p.out = W!Terminal(p) /\ EndOf(p)
      <4>1. W!Identity(p, "JOB_STARTED").type = "JOB_STARTED"
        BY DEF W!Identity, W!Message
      <4>2. /\ Message("WORKER_REGISTER", 0, 0, 0).type = "WORKER_REGISTER"
            /\ Message("HEARTBEAT", p.worker_id, 0, 0).type = "HEARTBEAT"
        BY DEF Message
      <4> HIDE DEF NoMessage, Message, p
      <4> QED  BY <1>1, <1>5, <2>1, <4>1, <4>2 DEF Works
    <3>3. /\ p.assignment.job_id \in DOMAIN sched.jobs
          /\ p.assignment.value = <<sched.jobs[p.assignment.job_id].task>>
      BY <1>1, <3>2 DEF FrameTrue
    <3>4. /\ p.out.job_id = p.assignment.job_id /\ p.out.attempt = p.assignment.attempt
          /\ p.out.type = IF p.status = "OK" THEN "JOB_COMPLETED" ELSE "JOB_FAILED"
          /\ p.status = "OK" => p.out.value = <<p.result>>
      BY <1>1, <3>2, ProcessFields, ReportFields
    <3> HIDE DEF p
    <3>5. CASE p.status = "OK"
      <4>1. p.result = sched.jobs[p.assignment.job_id].task
        BY <3>2, <3>3, <3>5 DEF EndOf
      <4> QED  BY <3>1, <3>3, <3>4, <3>5, <4>1 DEF ReportReal
    <3>6. CASE p.status # "OK"
      <4>1. p.status \in {"INVALID_ARGUMENT", "SYSTEM_ERROR"}
        BY <3>2, <3>6 DEF EndOf
      <4> QED  BY <3>1, <3>4, <3>6, <4>1 DEF ReportReal, TaskFailed
    <3> QED  BY <3>5, <3>6
  <2>2. CASE p.out.type \notin {"JOB_COMPLETED", "JOB_FAILED"}
    BY <2>2, NoReportReal
  <2> QED  BY <2>1, <2>2
<1>6. ASSUME NEW b \in Conns, NEW n \in DOMAIN up'[b]
      PROVE  ReportReal(up'[b][n], sched, ran)
  <2>1. \/ \E k \in DOMAIN up[b] : up'[b][n] = up[b][k]
        \/ up'[b][n] \in Sending(p)
    BY <1>1, <1>4, <1>6, UsesAdds
  <2>2. CASE \E k \in DOMAIN up[b] : up'[b][n] = up[b][k]
    BY <2>2 DEF OutcomesInv
  <2>3. CASE up'[b][n] \in Sending(p)
    BY <1>5, <2>3 DEF Sending
  <2> QED  BY <2>1, <2>2, <2>3
<1>7. \A b \in Conns : \A n \in DOMAIN up'[b] : ReportReal(up'[b][n], sched, ran')
  <2>1. Grows(sched, sched)
    BY <1>1, SameTable DEF Ready, Unreported
  <2> QED  BY <1>3, <1>6, <2>1, ReportStays
<1>8. TableReal(sched, ran') /\ \A k \in DOMAIN unsynced : TableReal(unsynced[k].sched, ran')
  BY <1>3, TableStays DEF OutcomesInv
<1>9. \A b \in Workers : b # c => OutcomeNoted(proc'[b], ran')
  BY <1>3 DEF Moves, OutcomesInv, OutcomeNoted
<1>10. OutcomeNoted(q, ran')
  <2> SUFFICES ASSUME Concluded(q)
               PROVE  <<q.assignment.job_id, q.assignment.attempt, q.status>> \in ran'
    BY DEF OutcomeNoted
  <2>1. q.assignment = p.assignment /\ (Decides(c) \/ (q.status = p.status /\ Concluded(p)))
    <3> HIDE DEF NoMessage, Concluded
    <3> QED  BY DEF Moves
  <2>2. CASE q.status = p.status /\ Concluded(p)
    BY <1>3, <2>1, <2>2 DEF OutcomesInv, OutcomeNoted
  <2>3. CASE Decides(c)
    <3>1. ~Starts(c)
      <4> SUFFICES ASSUME Starts(c)  PROVE FALSE
        OBVIOUS
      <4>1. q.thread = "running"
        BY DEF Starts
      <4>2. q.phase = "send" /\ q.out.type \in {"JOB_COMPLETED", "JOB_FAILED"}
        BY <4>1 DEF Concluded
      <4>3. W!Identity(q, "JOB_STARTED").type = "JOB_STARTED"
        BY DEF W!Identity, W!Message
      <4>4. /\ Message("WORKER_REGISTER", 0, 0, 0).type = "WORKER_REGISTER"
            /\ Message("HEARTBEAT", q.worker_id, 0, 0).type = "HEARTBEAT"
        BY DEF Message
      <4> HIDE DEF NoMessage, Message, q
      <4> QED  BY <1>1, <4>1, <4>2, <4>3, <4>4 DEF Works
    <3> QED  BY <2>3, <3>1 DEF Noted
  <2> QED  BY <2>1, <2>2, <2>3
<1> QED  BY <1>2, <1>7, <1>8, <1>9, <1>10, SMTT(90) DEF OutcomesInv

\* A client reports nothing.
LEMMA ClientOutcomes ==
  ASSUME ClusterBase, OutcomesInv, NEW c \in Clients, NEW ms, Uses(c, ms),
         \A m \in ms : m \in Asked, UNCHANGED <<Apart, proc, ran>>
  PROVE  OutcomesInv'
<1>1. c \in Conns /\ DOMAIN up = Conns /\ FramesOK(up[c])
  BY ClusterConstants, CoordinatorConstants, InPlace DEF ClusterBase, CoordinatorInv, StateOK
<1>2. sched' = sched /\ unsynced' = unsynced /\ who' = who
  BY DEF Apart, store
<1>3. \A m \in ms : m.type \notin {"JOB_COMPLETED", "JOB_FAILED"}
  BY DEF Asked, Queries
<1>4. ASSUME NEW b \in Conns, NEW n \in DOMAIN up'[b]
      PROVE  ReportReal(up'[b][n], sched, ran)
  <2>1. \/ \E k \in DOMAIN up[b] : up'[b][n] = up[b][k]
        \/ up'[b][n] \in ms
    BY <1>1, <1>4, UsesAdds
  <2>2. CASE \E k \in DOMAIN up[b] : up'[b][n] = up[b][k]
    BY <2>2 DEF OutcomesInv
  <2> QED  BY <1>3, <2>1, <2>2, NoReportReal
<1> QED  BY <1>2, <1>4, SMTT(90) DEF OutcomesInv

-----------------------------------------------------------------------------
(* A job is that of its submission.                                        *)

\* No reply names nothing.
LEMMA NothingNames ==
  ASSUME NEW r, NEW s
  PROVE  Names(r, NoMessage, s)
BY DEF Names, NoMessage, Message

\* A job keeps what was submitted.
LEMMA NamesStay ==
  ASSUME NEW r, NEW q, NEW f, NEW s, NEW t, Names(r, f, s), FrameTrue(f, s), Grows(s, t),
         q.request = r.request
  PROVE  Names(q, f, t)
BY DEF Names, FrameTrue, Grows, JobGrows

\* A submission has a task and a number of retries.
LEMMA SubmissionValue ==
  ASSUME NEW r \in RunType, NEW q, Runs(r, q), Submits(r)
  PROVE  r.request.value = <<r.request.value[1], r.request.value[2]>>
<1>1. r.request \in Asked
  <2> HIDE DEF Asked, Replies
  <2> QED  BY DEF RunType
<1>2. r.request.value # <<>>
  BY DEF Runs, Submits
<1>3. r.request.value \in {<<>>} \cup {<<task, n>> : task \in Tasks, n \in 0..MAX_RETRIES}
  BY <1>1 DEF Asked
<1>4. PICK task \in Tasks, n \in 0..MAX_RETRIES : r.request.value = <<task, n>>
  BY <1>2, <1>3
<1> QED  BY <1>4

\* What a client sends is its request.
LEMMA FirstIsRequest ==
  ASSUME ClusterBase, NEW c \in Clients, up[c] # <<>>
  PROVE  Head(up[c]) = cli[c].request
<1> DEFINE q == up[c]
           S == {q[k] : k \in DOMAIN q}
<1>1. c \in Conns
  BY ClusterConstants, CoordinatorConstants
<1>2. q \in Seq(S)
  BY <1>1, InPlace DEF ClusterBase, CoordinatorInv, StateOK, FramesOK
<1> HIDE DEF S
<1>3. 1 \in DOMAIN q /\ Head(q) = q[1]
  BY <1>2, RemovedFrame
<1>4. Runs(cli[c], q)
  BY DEF ClusterBase, ClientOK
<1> HIDE DEF q, NoMessage, C!Answers, C!Code
<1>5. Head(q) = cli[c].request
  BY <1>3, <1>4 DEF Runs
<1> QED  BY <1>5 DEF q

\* The confirmation of a submission names the job it created.
LEMMA NewNames ==
  ASSUME ClusterBase, NEW i \in Slots, NEW m, Flows(i, m), Learns(i, m), NEW c \in Clients,
         clients[i].conn = c, NEW f, New(m, f)
  PROVE  Names(cli[c], f, sched')
<1> SUFFICES ASSUME f.type = "JOB_SUBMIT_ACK"
             PROVE  cli[c].request.value
                      = <<sched'.jobs[f.job_id].task, sched'.jobs[f.job_id].max_retries>>
  BY DEF Names
<1>1. m.type = "JOB_SUBMIT" /\ f.job_id \in DOMAIN sched'.jobs \ DOMAIN sched.jobs
  <2> HIDE DEF Replies
  <2> QED  BY DEF New
<1>2. m # NoMessage
  BY <1>1 DEF NoMessage, Message
<1>3. up[c] # <<>> /\ m = Head(up[c])
  <2> HIDE DEF NoMessage
  <2> QED  BY <1>2 DEF Learns, MessageTaken
<1>4. m = cli[c].request
  BY <1>3, FirstIsRequest
<1>5. Submitted(sched'.jobs[f.job_id], m)
  <2> HIDE DEF NoMessage, Submitted
  <2> QED  BY <1>1, <1>2 DEF Learns, TableLearns, Evolves
<1>6. m.value = <<m.value[1], m.value[2]>>
  <2>1. cli[c] \in RunType /\ Runs(cli[c], up[c])
    <3> HIDE DEF RunType
    <3> QED  BY DEF ClusterBase, ProcessesTyped, ClientOK
  <2> HIDE DEF RunType, Runs
  <2> QED  BY <1>1, <1>4, <2>1, SubmissionValue DEF Submits
<1> QED  BY <1>4, <1>5, <1>6 DEF Submitted

\* The coordinator confirms what it was asked.
LEMMA LoopNames ==
  ASSUME ClusterBase, NamesInv, Idles, NEW i \in Slots, NEW m, Flows(i, m), Learns(i, m)
  PROVE  NamesInv'
<1>1. /\ Grows(sched, sched')
      /\ \A c \in Clients : cli'[c].request = cli[c].request /\ cli'[c].reply = cli[c].reply
  BY DEF Idles, SameRun, Flows
<1>2. ASSUME NEW c \in Clients, NEW k \in Slots, clients'[k].conn = c
      PROVE  Names(cli'[c], clients'[k].output, sched')
  <2>1. CASE clients'[k].output = clients[k].output /\ clients'[k].conn = clients[k].conn
    BY <1>1, <1>2, <2>1, NamesStay DEF NamesInv, ClusterBase, FramesTrue
  <2>2. CASE clients'[k].output = NoMessage
    <3> HIDE DEF NoMessage
    <3> QED  BY <2>2, NothingNames
  <2>3. CASE k = i /\ clients'[k].conn = clients[k].conn /\ New(m, clients'[k].output)
    <3>1. Names(cli[c], clients'[k].output, sched')
      <4> HIDE DEF New, Names
      <4> QED  BY <1>2, <2>3, NewNames
    <3> QED  BY <1>1, <3>1 DEF Names
  <2> HIDE DEF NoMessage, Names, New
  <2> QED  BY <2>1, <2>2, <2>3 DEF Flows
<1>3. ASSUME NEW c \in Clients, NEW n \in DOMAIN down'[c]
      PROVE  Names(cli'[c], down'[c][n], sched')
  <2>1. c \in Conns
    BY ClusterConstants, CoordinatorConstants
  <2>2. CASE n \in DOMAIN down[c]
    <3>1. down'[c][n] = down[c][n]
      BY <2>1, <2>2 DEF Flows
    <3> QED  BY <1>1, <2>1, <2>2, <3>1, NamesStay DEF NamesInv, ClusterBase, FramesTrue
  <2>3. CASE n \notin DOMAIN down[c]
    <3>1. c = clients[i].conn /\ down'[c][n] = clients[i].output
      BY <1>3, <2>1, <2>3 DEF Flows
    <3> QED  BY <1>1, <3>1, NamesStay DEF NamesInv, ClusterBase, FramesTrue
  <2> QED  BY <2>2, <2>3
<1>4. \A c \in Clients : Names(cli'[c], cli'[c].reply, sched')
  BY <1>1, NamesStay DEF NamesInv, ClusterBase, FramesTrue
<1> HIDE DEF Names
<1> QED  BY <1>2, <1>3, <1>4 DEF NamesInv

\* A worker does not touch what is on its way to the clients.
LEMMA WorkerNames ==
  ASSUME ClusterBase, NamesInv, NEW c \in Workers, Moves(c), UNCHANGED <<Apart, cli, told>>
  PROVE  NamesInv'
<1>1. c \in Conns /\ Uses(c, Sending(proc[c])) /\ ConnectionsOK
  <2> HIDE DEF Uses, Sending, ProcessType
  <2> QED  BY WorkerReady DEF ClusterBase, Moves, Ready
<1>2. \A b \in Clients : down'[b] = down[b]
  BY <1>1, UsesQueues, ClusterConstants, CoordinatorConstants
<1>3. clients' = clients /\ sched' = sched /\ cli' = cli
  BY DEF Apart, store
<1> HIDE DEF Names
<1> QED  BY <1>2, <1>3, SMTT(90) DEF NamesInv

\* The reply of a client was on its connection.
LEMMA ClientNames ==
  ASSUME ClusterBase, NamesInv, NEW c \in Clients, Proceeds(c), UNCHANGED Apart
  PROVE  NamesInv'
<1>1. c \in Conns /\ Uses(c, Requested(cli[c])) /\ ConnectionsOK /\ DOMAIN cli = Clients
      /\ cli' = [cli EXCEPT ![c] = cli'[c]] /\ cli'[c].request = cli[c].request
  <2>1. c \in Conns /\ ConnectionsOK /\ DOMAIN cli = Clients
    <3> HIDE DEF RunType
    <3> QED  BY ClientReady DEF ClusterBase, RunReady
  <2> HIDE DEF Uses, Requested, RunType
  <2> QED  BY <2>1 DEF Proceeds
<1>2. /\ \A b \in Conns : b # c => down'[b] = down[b]
      /\ \A n \in DOMAIN down'[c] : \E k \in DOMAIN down[c] : down'[c][n] = down[c][k]
      /\ down[c] # <<>> => 1 \in DOMAIN down[c] /\ Head(down[c]) = down[c][1]
  BY <1>1, UsesQueues
<1>3. clients' = clients /\ sched' = sched /\ Clients \subseteq Conns
  BY ClusterConstants, CoordinatorConstants DEF Apart, store
<1>4. \A b \in Clients : cli'[b].request = cli[b].request /\ (b # c => cli'[b] = cli[b])
  BY <1>1
<1>5. ASSUME NEW b \in Clients, NEW f, Names(cli[b], f, sched)
      PROVE  Names(cli'[b], f, sched)
  BY <1>4, <1>5 DEF Names
<1> HIDE DEF Names
<1>6. ASSUME NEW b \in Clients
      PROVE  \A n \in DOMAIN down'[b] : Names(cli'[b], down'[b][n], sched)
  BY <1>2, <1>3, <1>5 DEF NamesInv
<1>7. ASSUME NEW b \in Clients
      PROVE  Names(cli'[b], cli'[b].reply, sched)
  <2> HIDE DEF NoMessage
  <2>1. CASE b = c
    BY <1>2, <1>5, <2>1, NothingNames DEF NamesInv, Proceeds
  <2>2. CASE b # c
    BY <1>4, <2>2 DEF NamesInv
  <2> QED  BY <2>1, <2>2
<1>8. \A b \in Clients : \A k \in Slots :
        clients'[k].conn = b => Names(cli'[b], clients'[k].output, sched)
  BY <1>3, <1>5 DEF NamesInv
<1> QED  BY <1>3, <1>6, <1>7, <1>8 DEF NamesInv

\* When a client starts, nothing is on its way to or from it.
LEMMA StartQuiet ==
  ASSUME ClusterBase, NEW c \in Clients, NEW m, Asks(c, m), UNCHANGED Apart
  PROVE  /\ c \in Conns /\ up' = up /\ up[c] = <<>> /\ down' = down /\ down[c] = <<>>
         /\ \A k \in Slots : clients[k].conn = c => clients[k].output = NoMessage
         /\ cli'[c].reply = NoMessage /\ cli'[c].request = m /\ cli[c].request = NoMessage
         /\ cli'[c].phase = "send"
         /\ \A b \in Clients : b # c => cli'[b] = cli[b]
         /\ clients' = clients /\ sched' = sched /\ unsynced' = unsynced /\ who' = who
<1>1. c \in Conns /\ ConnectionsOK /\ DOMAIN cli = Clients /\ Runs(cli[c], up[c])
  <2> HIDE DEF RunType
  <2> QED  BY ClientReady DEF ClusterBase, RunReady
<1>2. clients \in [Slots -> ClientType]
  BY InPlace DEF ClusterBase, CoordinatorInv, StateOK, ClientsOK
<1>3. /\ peer[c] = "idle" /\ up' = up /\ down' = down /\ cli' = [cli EXCEPT ![c] = cli'[c]]
      /\ cli'[c].reply = NoMessage /\ cli'[c].request = m /\ cli'[c].phase = "send"
      /\ cli[c].phase = "start"
  <2> HIDE DEF NoMessage, RunType
  <2> QED  BY DEF Asks, Opens
<1>4. up[c] = <<>> /\ down[c] = <<>> /\ server[c] = "none"
  BY <1>1, <1>3 DEF ConnectionsOK
<1>5. cli[c].request = NoMessage
  <2> HIDE DEF NoMessage, C!Answers, C!Code
  <2> QED  BY <1>1, <1>3 DEF Runs
<1>6. \A k \in Slots : clients[k].conn = c => clients[k].output = NoMessage
  <2> HIDE DEF NoMessage
  <2> QED  BY <1>1, <1>2, <1>4 DEF ConnectionsOK
<1>7. clients' = clients /\ sched' = sched /\ unsynced' = unsynced /\ who' = who
  BY DEF Apart, store
<1>8. \A b \in Clients : b # c => cli'[b] = cli[b]
  BY <1>1, <1>3
<1> HIDE DEF NoMessage
<1> QED  BY <1>1, <1>3, <1>4, <1>5, <1>6, <1>7, <1>8

\* So nothing confirms what it did not ask.
LEMMA StartNames ==
  ASSUME ClusterBase, NamesInv, NEW c \in Clients, NEW m, Asks(c, m), UNCHANGED Apart
  PROVE  NamesInv'
<1>1. /\ down' = down /\ down[c] = <<>> /\ clients' = clients /\ sched' = sched
      /\ \A k \in Slots : clients[k].conn = c => clients[k].output = NoMessage
      /\ cli'[c].reply = NoMessage
      /\ \A b \in Clients : b # c => cli'[b] = cli[b]
  BY StartQuiet
<1> HIDE DEF NoMessage, Names
<1>2. ASSUME NEW b \in Clients, b # c
      PROVE  /\ \A i \in Slots : clients'[i].conn = b => Names(cli'[b], clients'[i].output, sched')
             /\ \A n \in DOMAIN down'[b] : Names(cli'[b], down'[b][n], sched')
             /\ Names(cli'[b], cli'[b].reply, sched')
  BY <1>1, <1>2 DEF NamesInv
<1>3. /\ \A i \in Slots : clients'[i].conn = c => Names(cli'[c], clients'[i].output, sched')
      /\ \A n \in DOMAIN down'[c] : Names(cli'[c], down'[c][n], sched')
      /\ Names(cli'[c], cli'[c].reply, sched')
  BY <1>1, NothingNames
<1> QED  BY <1>2, <1>3 DEF NamesInv

-----------------------------------------------------------------------------
(* A submission creates one job.                                           *)

\* A table with no job for what message m submits.
NewTask(s, m) == m.type = "JOB_SUBMIT" => \A k \in DOMAIN s.jobs : s.jobs[k].task # m.value[1]

\* The tasks of a table stay apart.
LEMMA EvolvedApart ==
  ASSUME NEW s, NEW t, NEW m, TableApart(s), Evolves(s, t, m), NewTask(s, m)
  PROVE  TableApart(t)
<1>1. \A k \in DOMAIN s.jobs : t.jobs[k].task = s.jobs[k].task
  BY DEF Evolves, Grows, JobGrows
<1>2. \A k \in DOMAIN t.jobs \ DOMAIN s.jobs : m.type = "JOB_SUBMIT" /\ t.jobs[k].task = m.value[1]
  BY DEF Evolves, Submitted
<1>3. \A j, k \in DOMAIN t.jobs \ DOMAIN s.jobs : j = k
  BY DEF Evolves
<1> QED  BY <1>1, <1>2, <1>3 DEF TableApart, NewTask

\* Runs and what they sent, later: requests stay, and what was handled is.
Later(R, Q, S, T) ==
  \A c \in Clients : /\ S[c].request = R[c].request
                     /\ Unhandled(S[c], T[c]) => Unhandled(R[c], Q[c])

\* Message m, if it submits, is the request of a run and is handled later.
HandledLater(m, R, S, T) ==
  m.type = "JOB_SUBMIT" => \E c \in Clients : m = R[c].request /\ ~Unhandled(S[c], T[c])

\* What is known of the tasks stays.
LEMMA SameKnown ==
  ASSUME NEW s, NEW R, NEW Q, NEW S, NEW T, TasksKnown(s, R, Q, who), Later(R, Q, S, T)
  PROVE  TasksKnown(s, S, T, who)
BY DEF TasksKnown, Later, Submits, TaskOf

\* It becomes known of the job a submission creates.
LEMMA EvolvedKnown ==
  ASSUME NEW s, NEW t, NEW m, Evolves(s, t, m), NEW R, NEW Q, NEW S, NEW T,
         TasksKnown(s, R, Q, who), TasksDiffer(R), Later(R, Q, S, T), HandledLater(m, R, S, T)
  PROVE  TasksKnown(t, S, T, who)
<1>1. TasksKnown(s, S, T, who)
  BY SameKnown
<1>2. \A k \in DOMAIN s.jobs : t.jobs[k].task = s.jobs[k].task
  BY DEF Evolves, Grows, JobGrows
<1>3. ASSUME NEW k \in DOMAIN t.jobs \ DOMAIN s.jobs
      PROVE  \E c \in Clients : /\ Submits(R[c]) /\ Submits(S[c]) /\ ~Unhandled(S[c], T[c])
                                /\ TaskOf(R[c]) = t.jobs[k].task /\ TaskOf(S[c]) = t.jobs[k].task
  <2>1. Submitted(t.jobs[k], m)
    BY DEF Evolves
  <2>2. PICK c \in Clients : m = R[c].request /\ ~Unhandled(S[c], T[c])
    BY <2>1 DEF Submitted, HandledLater
  <2>3. S[c].request = R[c].request
    BY DEF Later
  <2> QED  BY <2>1, <2>2, <2>3 DEF Submitted, Submits, TaskOf
<1>4. ASSUME NEW c \in Clients, Unhandled(S[c], T[c]), NEW k \in DOMAIN t.jobs
      PROVE  t.jobs[k].task # TaskOf(S[c])
  <2>1. CASE k \in DOMAIN s.jobs
    BY <1>1, <1>2, <1>4, <2>1 DEF TasksKnown
  <2>2. CASE k \notin DOMAIN s.jobs
    <3>1. PICK b \in Clients : Submits(R[b]) /\ ~Unhandled(S[b], T[b]) /\ TaskOf(R[b]) = t.jobs[k].task
      BY <1>3, <2>2
    <3>2. Submits(R[c]) /\ TaskOf(S[c]) = TaskOf(R[c])
      BY <1>4 DEF Later, Unhandled, Submits, TaskOf
    <3>3. b # c
      BY <1>4, <3>1
    <3> HIDE DEF Submits, TaskOf
    <3> QED  BY <3>1, <3>2, <3>3 DEF TasksDiffer
  <2> QED  BY <2>1, <2>2
<1>5. ASSUME "JOB_SUBMIT" \in ClientTypes, who \cap Clients # {}, NEW k \in DOMAIN t.jobs
      PROVE  \E c \in Clients : Submits(S[c]) /\ TaskOf(S[c]) = t.jobs[k].task
  BY <1>1, <1>2, <1>3, <1>5 DEF TasksKnown
<1> QED  BY <1>4, <1>5 DEF TasksKnown

\* What a client has sent is handled at once or stays.
LEMMA OneArrives ==
  ASSUME ClusterBase, NEW c \in Clients, Len(up[c]) <= 1, Arrives(c)
  PROVE  /\ up'[c] = up[c] \/ up'[c] = <<>>
         /\ up[c] # <<>> => Tail(up[c]) = <<>>
<1> DEFINE q == up[c]
           S == {q[k] : k \in DOMAIN q}
<1>1. c \in Conns /\ c \in Processes
  BY ClusterConstants, CoordinatorConstants
<1>2. q \in Seq(S)
  BY <1>1, InPlace DEF ClusterBase, CoordinatorInv, StateOK, FramesOK
<1> HIDE DEF S
<1>3. q # <<>> => Tail(q) = <<>>
  <2> HIDE DEF q
  <2> SUFFICES ASSUME q # <<>>  PROVE Tail(q) = <<>>
    OBVIOUS
  <2>1. Tail(q) \in Seq(S) /\ Len(Tail(q)) = Len(q) - 1 /\ Len(q) \in Nat /\ Len(q) # 0
    BY <1>2, RemovedFrame
  <2>2. Len(q) <= 1
    BY DEF q
  <2>3. Len(Tail(q)) = 0
    BY <2>1, <2>2
  <2> QED  BY <2>1, <2>3, NoFrame
<1> HIDE DEF PeerMessages
<1> QED  BY <1>1, <1>3 DEF Arrives

\* The coordinator creates one job for each submission.
LEMMA LoopSubmissions ==
  ASSUME ClusterBase, SubmissionsInv, Idles, NEW i \in Slots, NEW m, Flows(i, m), Learns(i, m)
  PROVE  SubmissionsInv'
<1>1. who' = who /\ \A c \in Clients : cli'[c].phase = cli[c].phase /\ cli'[c].request = cli[c].request
  BY DEF Idles, SameRun
<1>2. \A c \in Conns : FramesOK(up[c]) /\ Arrives(c)
  BY InPlace DEF ClusterBase, CoordinatorInv, StateOK, Learns
<1>3. Clients \subseteq Conns
  BY ClusterConstants, CoordinatorConstants
<1>4. \A c \in Clients : Len(up[c]) <= 1 /\ (cli[c].phase = "send" => up[c] = <<>>)
  BY DEF SubmissionsInv
<1>5. ASSUME NEW c \in Clients
      PROVE  /\ up'[c] = up[c] \/ up'[c] = <<>>
             /\ up[c] # <<>> => Tail(up[c]) = <<>>
  BY <1>2, <1>3, <1>4, OneArrives
<1>6. Later(cli, up, cli', up')
  BY <1>1, <1>5 DEF Later, Unhandled, Submits
<1>7. TasksDiffer(cli) /\ TasksDiffer(cli')
  BY <1>1 DEF SubmissionsInv, TasksDiffer, Submits, TaskOf
<1>8. ASSUME m.type = "JOB_SUBMIT"
      PROVE  \E c \in Clients : /\ m = cli[c].request /\ Unhandled(cli[c], up[c])
                                /\ ~Unhandled(cli'[c], up'[c])
  <2> DEFINE c == clients[i].conn
             q == up[c]
             S == {q[k] : k \in DOMAIN q}
  <2>1. m # NoMessage
    BY <1>8 DEF NoMessage, Message
  <2>2. c \in Conns /\ q # <<>> /\ m = Head(q) /\ up'[c] \in {Tail(q), <<>>}
    <3> HIDE DEF NoMessage
    <3> QED  BY <2>1 DEF Learns, MessageTaken
  <2>3. q \in Seq(S)
    BY <1>2, <2>2 DEF FramesOK
  <2> HIDE DEF S, q, c
  <2>4. 1 \in DOMAIN q /\ Head(q) = q[1]
    BY <2>2, <2>3, RemovedFrame
  <2>5. c \in Clients
    BY <1>8, <2>2, <2>4 DEF SubmissionsInv, q
  <2>6. m = cli[c].request
    BY <2>2, <2>5, FirstIsRequest DEF q
  <2>7. up'[c] = <<>> /\ cli'[c].phase # "send"
    BY <1>1, <1>4, <1>5, <2>2, <2>5 DEF q
  <2> QED  BY <1>8, <2>2, <2>5, <2>6, <2>7 DEF Unhandled, Submits, q
<1>9. HandledLater(m, cli, cli', up')
  BY <1>8 DEF HandledLater
<1>10. NewTask(sched, m)
  BY <1>8 DEF SubmissionsInv, TasksKnown, NewTask, TaskOf
<1>11. ASSUME NEW t, Evolves(sched, t, m)
       PROVE  TableApart(t) /\ TasksKnown(t, cli', up', who)
  BY <1>6, <1>7, <1>9, <1>10, <1>11, EvolvedApart, EvolvedKnown DEF SubmissionsInv
<1>12. ASSUME NEW t, TasksKnown(t, cli, up, who)
       PROVE  TasksKnown(t, cli', up', who)
  BY <1>6, <1>12, SameKnown
<1>13. /\ TableApart(sched') /\ TasksKnown(sched', cli', up', who)
       /\ \A k \in DOMAIN unsynced' :
            TableApart(unsynced'[k].sched) /\ TasksKnown(unsynced'[k].sched, cli', up', who)
  <2> HIDE DEF TableApart, TasksKnown, Evolves, NoMessage
  <2> QED  BY <1>11, <1>12 DEF Learns, TableLearns, SubmissionsInv
<1>14. ASSUME NEW c \in Conns \ Clients, NEW n \in DOMAIN up'[c]
       PROVE  up'[c][n].type # "JOB_SUBMIT"
  <2>1. CASE \E k \in DOMAIN up[c] : up'[c][n] = up[c][k]
    BY <2>1 DEF SubmissionsInv
  <2>2. CASE c \in who \ Processes /\ up'[c][n] \in PeerMessages
    <3>1. "JOB_SUBMIT" \notin PeerTypes
      BY <2>2 DEF SubmissionsInv
    <3>2. up'[c][n].type \in PeerTypes
      BY <2>2, PeerTypesSent
    <3> QED  BY <3>1, <3>2
  <2> HIDE DEF PeerMessages
  <2> QED  BY <1>2, <2>1, <2>2, WaitedBefore
<1>15. \A c \in Clients : Len(up'[c]) <= 1 /\ (cli'[c].phase = "send" => up'[c] = <<>>)
  BY <1>1, <1>4, <1>5
<1>16. "JOB_SUBMIT" \in PeerTypes => who' \subseteq Processes
  BY <1>1 DEF SubmissionsInv
<1> HIDE DEF TableApart, TasksDiffer
<1> QED  BY <1>1, <1>7, <1>13, <1>14, <1>15, <1>16 DEF SubmissionsInv

\* A worker submits nothing.
LEMMA WorkerSubmissions ==
  ASSUME ClusterBase, SubmissionsInv, NEW c \in Workers, Moves(c), UNCHANGED <<Apart, cli, told>>
  PROVE  SubmissionsInv'
<1>1. c \in Conns \ Clients /\ Uses(c, Sending(proc[c])) /\ Ready(c)
  <2> HIDE DEF Uses, Sending, ProcessType, Works
  <2> QED  BY WorkerReady, ClusterConstants DEF Moves, Ready
<1>2. sched' = sched /\ unsynced' = unsynced /\ who' = who /\ cli' = cli
  BY DEF Apart, store
<1>3. DOMAIN up = Conns /\ FramesOK(up[c]) /\ Clients \subseteq Conns
  BY <1>1, InPlace, ClusterConstants, CoordinatorConstants DEF ClusterBase, CoordinatorInv, StateOK
<1>4. /\ \A b \in Conns : b # c => up'[b] = up[b]
      /\ \A n \in DOMAIN up'[c] : \/ \E k \in DOMAIN up[c] : up'[c][n] = up[c][k]
                                  \/ up'[c][n] \in Sending(proc[c])
  BY <1>1, <1>3, UsesAdds
<1>5. \A m \in Sending(proc[c]) : m.type # "JOB_SUBMIT"
  <2>1. proc[c].out \in WorkerFrames
    BY <1>1, ProcessFields
  <2> QED  BY <2>1 DEF Sending, WorkerFrames, ReportTypes
<1>6. \A b \in Conns \ Clients : \A n \in DOMAIN up'[b] : up'[b][n].type # "JOB_SUBMIT"
  <2> HIDE DEF Sending
  <2> QED  BY <1>4, <1>5 DEF SubmissionsInv
<1>7. \A b \in Clients : up'[b] = up[b]
  BY <1>1, <1>3, <1>4
<1>8. Later(cli, up, cli, up')
  BY <1>7 DEF Later
<1>9. TasksKnown(sched, cli, up', who) /\ \A k \in DOMAIN unsynced : TasksKnown(unsynced[k].sched, cli, up', who)
  BY <1>8, SameKnown DEF SubmissionsInv
<1> HIDE DEF TableApart, TasksDiffer
<1> QED  BY <1>2, <1>6, <1>7, <1>9 DEF SubmissionsInv

\* A client sends its submission once.
LEMMA ClientSubmissions ==
  ASSUME ClusterBase, SubmissionsInv, NEW c \in Clients, Proceeds(c), UNCHANGED Apart
  PROVE  SubmissionsInv'
<1> DEFINE r == cli[c]
<1>1. c \in Conns /\ Uses(c, Requested(r)) /\ DOMAIN cli = Clients
      /\ cli' = [cli EXCEPT ![c] = cli'[c]] /\ cli'[c].request = r.request /\ cli'[c].phase # "send"
  <2>1. c \in Conns /\ DOMAIN cli = Clients
    <3> HIDE DEF RunType
    <3> QED  BY ClientReady DEF RunReady
  <2> HIDE DEF Uses, Requested, RunType
  <2> QED  BY <2>1 DEF Proceeds
<1>2. sched' = sched /\ unsynced' = unsynced /\ who' = who
  BY DEF Apart, store
<1>3. DOMAIN up = Conns /\ FramesOK(up[c]) /\ Clients \subseteq Conns
  BY <1>1, InPlace, ClusterConstants, CoordinatorConstants DEF ClusterBase, CoordinatorInv, StateOK
<1>4. \A b \in Conns : b # c => up'[b] = up[b]
  BY <1>1, <1>3, UsesAdds
<1>5. Len(up[c]) <= 1 /\ (r.phase = "send" => up[c] = <<>>)
  BY DEF SubmissionsInv
<1>6. \/ up'[c] = up[c] \/ up'[c] = <<>>
      \/ r.phase = "send" /\ up'[c] = Append(up[c], r.request)
  BY <1>1, <1>3 DEF Uses, Opens, Reads, Hangs, Sends, network, Requested
<1>7. Len(up'[c]) <= 1
  BY <1>5, <1>6
<1>8. \A b \in Clients : cli'[b].request = cli[b].request /\ (b # c => cli'[b] = cli[b] /\ up'[b] = up[b])
  BY <1>1, <1>3, <1>4
<1>9. Unhandled(cli'[c], up'[c]) => Unhandled(r, up[c])
  BY <1>1, <1>6 DEF Unhandled, Submits
<1>10. Later(cli, up, cli', up')
  BY <1>8, <1>9 DEF Later
<1>11. TasksKnown(sched, cli', up', who) /\ \A k \in DOMAIN unsynced : TasksKnown(unsynced[k].sched, cli', up', who)
  BY <1>10, SameKnown DEF SubmissionsInv
<1>12. TasksDiffer(cli')
  BY <1>8 DEF SubmissionsInv, TasksDiffer, Submits, TaskOf
<1>13. \A b \in Clients : Len(up'[b]) <= 1 /\ (cli'[b].phase = "send" => up'[b] = <<>>)
  BY <1>1, <1>7, <1>8 DEF SubmissionsInv
<1>14. \A b \in Conns \ Clients : up'[b] = up[b]
  BY <1>4
<1> HIDE DEF TableApart, TasksDiffer
<1> QED  BY <1>2, <1>11, <1>12, <1>13, <1>14 DEF SubmissionsInv

\* A client starts with a task nobody submitted, and so one no job has.
LEMMA StartSubmissions ==
  ASSUME ClusterBase, SubmissionsInv, NEW c \in Clients \cap who, NEW m, Query(m), Asks(c, m),
         UNCHANGED Apart
  PROVE  SubmissionsInv'
<1>1. /\ c \in Conns /\ up' = up /\ up[c] = <<>>
      /\ cli'[c].request = m /\ cli[c].request = NoMessage /\ cli'[c].phase = "send"
      /\ \A b \in Clients : b # c => cli'[b] = cli[b]
      /\ sched' = sched /\ unsynced' = unsynced /\ who' = who
  BY StartQuiet
<1>2. ~Submits(cli[c])
  BY <1>1 DEF Submits, NoMessage, Message
<1>3. ASSUME NEW b \in Clients, Submits(cli[b])
      PROVE  b # c /\ (m.type = "JOB_SUBMIT" => TaskOf(cli[b]) # m.value[1])
  <2>1. cli[b].request.value # <<>>
    <3>1. Runs(cli[b], up[b])
      BY DEF ClusterBase, ClientOK
    <3> HIDE DEF NoMessage, C!Answers, C!Code
    <3> QED  BY <1>3, <3>1 DEF Runs, Submits
  <2> HIDE DEF Asked
  <2> QED  BY <1>2, <1>3, <2>1 DEF TaskOf, Query
<1>4. TasksDiffer(cli')
  BY <1>1, <1>3 DEF SubmissionsInv, TasksDiffer, Submits, TaskOf
<1>5. ASSUME NEW s, TasksKnown(s, cli, up, who)
      PROVE  TasksKnown(s, cli', up, who)
  <2>1. ASSUME NEW b \in Clients, Unhandled(cli'[b], up[b]), NEW k \in DOMAIN s.jobs
        PROVE  s.jobs[k].task # TaskOf(cli'[b])
    <3>1. CASE b = c
      <4>1. m.type = "JOB_SUBMIT" /\ TaskOf(cli'[b]) = m.value[1]
        BY <1>1, <2>1, <3>1 DEF Unhandled, Submits, TaskOf
      <4>2. "JOB_SUBMIT" \in ClientTypes /\ who \cap Clients # {}
        BY <4>1 DEF Query
      <4>3. PICK a \in Clients : Submits(cli[a]) /\ TaskOf(cli[a]) = s.jobs[k].task
        BY <1>5, <4>2 DEF TasksKnown
      <4> QED  BY <1>3, <4>1, <4>3
    <3>2. CASE b # c
      BY <1>1, <1>5, <2>1, <3>2 DEF TasksKnown
    <3> QED  BY <3>1, <3>2
  <2>2. ASSUME "JOB_SUBMIT" \in ClientTypes, who \cap Clients # {}, NEW k \in DOMAIN s.jobs
        PROVE  \E b \in Clients : Submits(cli'[b]) /\ TaskOf(cli'[b]) = s.jobs[k].task
    <3>1. PICK b \in Clients : Submits(cli[b]) /\ TaskOf(cli[b]) = s.jobs[k].task
      BY <1>5, <2>2 DEF TasksKnown
    <3> QED  BY <1>1, <1>3, <3>1
  <2> QED  BY <2>1, <2>2 DEF TasksKnown
<1>6. TasksKnown(sched, cli', up, who) /\ \A k \in DOMAIN unsynced : TasksKnown(unsynced[k].sched, cli', up, who)
  BY <1>5 DEF SubmissionsInv
<1>7. \A b \in Clients : Len(up[b]) <= 1 /\ (cli'[b].phase = "send" => up[b] = <<>>)
  BY <1>1 DEF SubmissionsInv
<1> HIDE DEF TableApart, TasksDiffer
<1> QED  BY <1>1, <1>4, <1>6, <1>7 DEF SubmissionsInv
=============================================================================
