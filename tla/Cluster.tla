------------------------------- MODULE Cluster -------------------------------
(***************************************************************************)
(* The coordinator together with the programs it serves: the event loop of *)
(* module Coordinator, the worker processes of module Worker and the       *)
(* command line runs of module Client, at the two ends of the same         *)
(* connections.  Processes act between any two steps of the loop, and time *)
(* passes for all of them alike.                                           *)
(***************************************************************************)
EXTENDS Coordinator

CONSTANTS
  Workers, Clients,     \* the processes, each with one connection
  Invalid,              \* tasks whose arguments are refused by the worker
  Signalled,            \* the workers somebody may stop or kill
  HEARTBEAT_INTERVAL,
  ClientTypes,          \* what the command line is used for: requests of these types
  Scenarios             \* who takes part, and the jobs the coordinator starts with

\* The result of a task is the task itself, as in module Worker.
ASSUME ClusterConstants ==
  /\ Processes = Workers \cup Clients /\ Workers \cap Clients = {}
  /\ HEARTBEAT_INTERVAL \in Nat \ {0}
  /\ Tasks \subseteq Results
  /\ ClientTypes \subseteq Queries \cup {"PING", "JOB_SUBMIT"}
  /\ \A s \in Scenarios :
       /\ s.who \subseteq Conns
       /\ s.backlog \in Seq(Tasks \X (0..MAX_RETRIES))
       /\ Len(s.backlog) <= JOB_STORE_CAPACITY /\ Len(s.backlog) <= MAX_JOB_ID

VARIABLES
  proc, cli,
  who,                  \* the processes and other peers that take part
  ran,                  \* history: <<job_id, attempt, status>> of what the workers ran
  told                  \* history: what had been printed when a client started

vars == <<cvars, proc, cli, who, ran, told>>

W == INSTANCE Worker
C == INSTANCE Client

-----------------------------------------------------------------------------
\* The store of a coordinator that has recovered a backlog of queued jobs.
Holding(backlog) ==
  [ jobs |-> [i \in DOMAIN backlog |-> JobInit(i, backlog[i][1], backlog[i][2], 0)],
    pending |-> [i \in DOMAIN backlog |-> i],
    next_job_id |-> IF Len(backlog) = MAX_JOB_ID THEN 0 ELSE Len(backlog) + 1 ]

ClusterInit ==
  /\ \E s \in Scenarios : who = s.who /\ InitWith(Holding(s.backlog))
  /\ W!WorkerInit /\ C!ClientInit /\ ran = {}
  /\ told = [c \in Clients |-> {}]

\* Time passes for the processes while the loop waits for a commit, and
\* between its steps.
Ages(d) == proc' = W!Aged(d) /\ cli' = C!Aged(d) /\ UNCHANGED <<who, ran, told>>

Serve ==
  \/ (Poll \/ AcceptDone \/ \E c \in Conns : Accept(c)) /\ UNCHANGED <<proc, cli, who, ran, told>>
  \/ \E d \in SyncTimes : (ServeClient(d) \/ Schedule(d)) /\ Ages(d)

Time == Tick /\ Ages(1)

Stops == Exit /\ UNCHANGED <<proc, cli, who, ran, told>>

Restarts == Restart /\ UNCHANGED <<proc, cli, who, ran, told>>

\* The coordinator has sent a part of a frame on connection c.
Arriving(c) == \E i \in Slots : clients[i].conn = c /\ clients[i].sent

Apart == <<store, clients, loop, dispatched, restarts, who>>

Starts(c) == proc[c].thread # "running" /\ proc'[c].thread = "running"

\* Its status was decided: by the task, or by the failure to start it.
Decides(c) ==
  \/ proc[c].thread = "running" /\ proc'[c].thread \in {"computed", "done"}
  \/ proc[c].phase = "begin" /\ proc'[c].phase = "send"

\* An attempt is noted when its task starts, and again with its outcome.
Noted(c) ==
  LET p       == proc'[c]
      Note(s) == ran \cup {<<p.assignment.job_id, p.assignment.attempt, s>>}
  IN IF Starts(c) THEN Note("STARTED") ELSE IF Decides(c) THEN Note(p.status) ELSE ran

WorkerMain(c) ==
  /\ W!MainStep(c, Arriving(c))
  /\ peer'[c] # peer[c] /\ peer[c] = "idle" => phase # "down"
  /\ ran' = Noted(c) /\ UNCHANGED <<Apart, cli, told>>

WorkerTask(c) ==
  /\ W!Compute(c) \/ W!Publish(c)
  /\ ran' = Noted(c) /\ UNCHANGED <<Apart, cli, told>>

WorkerFault(c) ==
  /\ W!ConnectFails(c) \/ W!SystemFails(c) \/ W!RequestStop(c) \/ W!Kill(c)
  /\ UNCHANGED <<Apart, cli, ran, told>>

\* The tasks tell the submissions of different runs apart.
Requests ==
  LET used == {cli[k].request.value[1] : k \in {k \in Clients : cli[k].request.value # <<>>}}
  IN {Carrying(Message(type, 0, 0, 0), <<t, 0>>) :
        type \in ClientTypes \cap {"JOB_SUBMIT"}, t \in Tasks \ used}
     \cup {Message(type, 0, j, 0) : type \in ClientTypes \cap {"JOB_STATUS_REQUEST"},
                                    j \in 1..MAX_JOB_ID}
     \cup {Message(type, 0, 0, 0) :
              type \in ClientTypes \ {"JOB_SUBMIT", "JOB_STATUS_REQUEST"}}

ClientStart(c) ==
  /\ phase # "down"
  /\ \E m \in Requests : C!Start(c, m)
  /\ told' = [told EXCEPT ![c] = {cli[k].reply : k \in {k \in Clients : cli[k].code = 0}}]
  /\ UNCHANGED <<Apart, proc, ran>>

ClientStep(c) ==
  /\ C!Step(c, Arriving(c))
  /\ UNCHANGED <<Apart, proc, ran, told>>

ClientFault(c) ==
  /\ (phase = "down" /\ C!ConnectFails(c)) \/ C!SystemFails(c)
  /\ UNCHANGED <<Apart, proc, ran, told>>

ProcessStep ==
  \/ \E c \in Workers \cap who : WorkerMain(c) \/ WorkerTask(c) \/ WorkerFault(c)
  \/ \E c \in Clients \cap who : ClientStart(c) \/ ClientStep(c) \/ ClientFault(c)

\* A peer whose program is not modelled.
OtherStep ==
  \E c \in who \ Processes : PeerStep(c) /\ UNCHANGED <<proc, cli, who, ran, told>>

ClusterNext == Serve \/ Time \/ Stops \/ Restarts \/ ProcessStep \/ OtherStep

ClusterSpec == ClusterInit /\ [][ClusterNext]_vars

\* What a worker does between two waits takes no time: against the heartbeat
\* interval it is short.  A worker for which this fails sends heartbeats only.
PromptTime == (\A c \in Workers \cap who : ~ENABLED (W!MainStep(c, Arriving(c)))) /\ Time

\* The loop runs, and ends once it has stopped; processes run, and so do tasks,
\* whose work is bounded.  Time passes for workers; without them nothing is
\* made to depend on a timeout.
FairClusterSpec ==
  /\ ClusterInit
  /\ [][Serve \/ PromptTime \/ Stops \/ Restarts \/ ProcessStep \/ OtherStep]_vars
  /\ WF_vars(Serve) /\ WF_vars(phase = "stopped" /\ Stops)
  /\ WF_vars(Workers \cap who # {} /\ PromptTime)
  /\ \A c \in Workers : /\ WF_vars(c \in who /\ WorkerMain(c))
                        /\ WF_vars(c \in who /\ WorkerTask(c))

-----------------------------------------------------------------------------
\* The two ends agree on the protocol, whatever is lost, late or interrupted:
\* no worker meets a frame it must refuse, and a frame of a process that the
\* loop is about to read is never one it answers by closing the connection.
NeverRefused ==
  /\ \A c \in Workers : proc[c].reason # "refused"
  /\ \A i \in Slots :
       LET conn == clients[i].conn
           m    == Head(up[conn])
       IN (failure = "NONE" /\ Open(clients, i) /\ clients[i].phase = "READING" /\ up[conn] # <<>>) =>
            /\ Allowed(clients[i], m.type)
            /\ m.type = "HEARTBEAT" => HeartbeatFits(Here, i, m)
            /\ m.type \in ReportTypes => ReportFits(Here, i, m)

\* No attempt of a job is executed twice, by one worker or by two: its number
\* is given out once, also across restarts of the coordinator.
AttemptsRunOnce ==
  [][\A c \in Workers : Starts(c) =>
       <<proc[c].assignment.job_id, proc[c].assignment.attempt, "STARTED">> \notin ran]_vars

\* Who reports is a worker: other peers make no reports.
WorkersReport ==
  \A s \in Scenarios : PeerTypes \cap ReportTypes # {} => s.who \subseteq Processes

\* What the job table says was done was done: a job is DONE with the result a
\* worker computed from its task in this attempt, and an attempt counts as
\* failed by its task only when a worker really saw it fail.
OutcomesAreReal ==
  \A k \in DOMAIN sched.jobs :
    LET job    == sched.jobs[k]
        Ran(s) == <<job.id, job.attempt, s>> \in ran
    IN /\ job.state = "DONE" => Ran("OK") /\ job.result = job.task
       /\ job.failure = "TASK" => Ran("INVALID_ARGUMENT") \/ Ran("SYSTEM_ERROR")

\* An attempt that is active ends, unless the coordinator does: its worker
\* reports, or its connection or its lease is lost and noticed.
AttemptsSettle ==
  \A id \in 1..MAX_JOB_ID, a \in 1..MAX_RETRIES + 1 :
    LET Unsettled == \E k \in DOMAIN sched.jobs :
                       /\ sched.jobs[k].id = id /\ sched.jobs[k].attempt = a
                       /\ IsActive(sched.jobs[k])
    IN Unsettled ~> (~Unsettled \/ phase = "down")

\* The backlog gets done: unless the coordinator ends or every worker does,
\* every job reaches DONE or FAILED, however often it must be tried again.
BacklogIsDone ==
  <>(\/ phase = "down"
     \/ \A c \in Workers \cap who : proc[c].phase = "exited"
     \/ \A k \in DOMAIN sched.jobs : sched.jobs[k].state \in {"DONE", "FAILED"})

-----------------------------------------------------------------------------
Confirmed(c) == cli[c].phase = "exited" /\ cli[c].code = 0
                /\ cli[c].request.type = "JOB_SUBMIT"

\* The tasks of different submissions are different, and clients submit them.
SubmissionsApart ==
  \A s \in Scenarios :
    /\ \A i, k \in DOMAIN s.backlog : s.backlog[i][1] = s.backlog[k][1] => i = k
    /\ "JOB_SUBMIT" \in PeerTypes => s.who \subseteq Processes
    /\ "JOB_SUBMIT" \in ClientTypes /\ s.who \cap Clients # {} => s.backlog = <<>>

\* A job id that was printed names the job of that very submission, now and
\* after every restart, and every submission that was sent created at most one
\* job: whatever the client was told, including nothing.
SubmittedOnce ==
  /\ \A c \in Clients : Confirmed(c) =>
       \E k \in DOMAIN sched.jobs :
         /\ sched.jobs[k].id = cli[c].reply.job_id
         /\ <<sched.jobs[k].task, sched.jobs[k].max_retries>> = cli[c].request.value
  /\ \A j, k \in DOMAIN sched.jobs : sched.jobs[j].task = sched.jobs[k].task => j = k

\* Answers never go back: a job whose id somebody was told is found by every
\* later request, and an outcome somebody was told is the one every later
\* request is told, also when the coordinator was restarted in between.
AnswersAgree ==
  \A c \in Clients :
    LET r == cli[c]
    IN (r.code \in {0, 2} /\ r.request.type = "JOB_STATUS_REQUEST") =>
         \A m \in told[c] : m.job_id = r.request.job_id =>
           /\ r.code = 0
           /\ (m.type = "JOB_STATUS_RESPONSE" /\ m.value[1] \in {"DONE", "FAILED"})
                => r.reply.value = m.value
=============================================================================
