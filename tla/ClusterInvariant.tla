-------------------------- MODULE ClusterInvariant --------------------------
(***************************************************************************)
(* The inductive invariant behind the safety properties of Cluster: what   *)
(* is under way on a connection fits the program at its other end, the     *)
(* job table, and what was printed and executed before.                    *)
(***************************************************************************)
EXTENDS Cluster, LoopEffects

-----------------------------------------------------------------------------
(* Types.                                                                  *)

\* What a worker sends.
WorkerFrames ==
  [ type : {"NONE", "WORKER_REGISTER", "HEARTBEAT"} \cup ReportTypes,
    worker_id : Nat, job_id : Nat, attempt : Nat,
    value : {<<>>} \cup {<<result>> : result \in Tasks \cup {"none"}} ]

ProcessType ==
  [ phase : {"start", "send", "ack", "top", "wait", "begin", "leave", "join", "exited"},
    worker_id : Nat, stopping : BOOLEAN,
    reason : {"none", "stop", "error", "refused", "killed"},
    out : WorkerFrames, timer : Nat, beat : Nat,
    received : {"nothing", "part", "header"}, frame : Int, assignment : Replies,
    thread : {"none", "running", "computed", "done"}, cancel : BOOLEAN,
    status : {"NONE", "OK", "INVALID_ARGUMENT", "SYSTEM_ERROR", "CANCELLED"},
    result : Tasks \cup {"none"} ]

\* What a client sends.
Asked ==
  [ type : {"NONE", "PING", "JOB_SUBMIT"} \cup Queries,
    worker_id : {0}, job_id : Nat, attempt : {0},
    value : {<<>>} \cup {<<task, n>> : task \in Tasks, n \in 0..MAX_RETRIES} ]

RunType ==
  [ phase : {"start", "send", "receive", "exited"}, request : Asked, timer : Nat,
    received : {"nothing", "part", "header"}, code : {-1, 0, 1, 2}, reply : Replies ]

ProcessesTyped ==
  /\ proc \in [Workers -> ProcessType] /\ cli \in [Clients -> RunType]
  /\ told \in [Clients -> SUBSET Replies]
  /\ who \subseteq Conns

-----------------------------------------------------------------------------
(* Connections.                                                            *)

\* A connection that was never opened carries nothing, and every open one has
\* a slot of its own.
ConnectionsOK ==
  /\ peer \in [Conns -> {"idle", "open", "closed"}]
  /\ server \in [Conns -> {"none", "backlog", "open", "closed"}]
  /\ down \in [Conns -> Seq(Replies)]
  /\ \A c \in Conns : peer[c] = "idle" => server[c] = "none" /\ up[c] = <<>> /\ down[c] = <<>>
  /\ \A i \in Slots : IF Open(clients, i) THEN server[clients[i].conn] = "open"
                      ELSE clients[i].conn = "none" /\ clients[i].output = NoMessage
  /\ \A i, k \in Slots :
       Open(clients, i) /\ Open(clients, k) /\ clients[i].conn = clients[k].conn => i = k

-----------------------------------------------------------------------------
(* Frames of the coordinator are true of the job table, then and later.    *)

FramesTrue ==
  /\ \A i \in Slots : FrameTrue(clients[i].output, sched)
  /\ \A c \in Conns : \A n \in DOMAIN down[c] : FrameTrue(down[c][n], sched)
  /\ \A c \in Workers : FrameTrue(proc[c].assignment, sched)
  /\ \A c \in Clients : FrameTrue(cli[c].reply, sched)
  /\ \A c \in Clients : \A m \in told[c] : FrameTrue(m, sched)

\* A change in doubt is one the published table could have made.
UnsyncedGrows == \A k \in DOMAIN unsynced : Grows(sched, unsynced[k].sched)

-----------------------------------------------------------------------------
(* The workers.                                                            *)

\* The outcome of a task that has ended, or could not be started.
EndOf(p) ==
  /\ p.status \in {"OK", "INVALID_ARGUMENT", "SYSTEM_ERROR"}
  /\ p.status = "OK" => p.result = p.assignment.value[1] /\ p.result \notin Invalid

\* What a worker is sending fits what it works on; its thread runs for an
\* assignment, and is cancelled only by a process that will exit.
Works(p, q) ==
  LET working == p.assignment.type = "JOB_ASSIGN"
  IN /\ p.assignment = NoMessage \/ working
     /\ p.thread # "none" => working
     /\ p.cancel => p.phase = "join"
     /\ p.thread \in {"computed", "done"} /\ ~p.cancel => EndOf(p)
     /\ p.phase = "begin" => working /\ p.thread = "none"
     /\ p.phase = "send" =>
          \/ p.out \in {Message("WORKER_REGISTER", 0, 0, 0),
                        Message("HEARTBEAT", p.worker_id, 0, 0)}
          \/ working /\ p.thread = "none" /\ p.out = W!Identity(p, "JOB_STARTED")
          \/ working /\ p.thread = "none" /\ p.out = W!Terminal(p) /\ EndOf(p)
     /\ p.phase \in {"start", "send", "top", "wait", "begin"} /\ p.received = "header" =>
          q # <<>> /\ Head(q).type = "JOB_ASSIGN"

WorkerOK(c) == Works(proc[c], down[c])

-----------------------------------------------------------------------------
(* The clients.                                                            *)

\* A run and what it has sent.
Runs(r, q) ==
  /\ r.phase = "start" => r.request = NoMessage /\ r.reply = NoMessage /\ r.code = -1
  /\ r.phase \in {"send", "receive"} => r.request.type # "NONE"
  /\ r.request.type = "JOB_SUBMIT" => r.request.value # <<>>
  /\ r.request.type = "JOB_STATUS_REQUEST" => r.request.job_id # 0
  /\ r.code \in {0, 2} => /\ r.request.type # "NONE"
                          /\ r.reply.type \in C!Answers(r.request)
                          /\ r.code = C!Code(r.request, r.reply)
  /\ \A n \in DOMAIN q : q[n] = r.request /\ r.request.type # "NONE"

ClientOK(c) == Runs(cli[c], up[c])

-----------------------------------------------------------------------------

\* What all the properties rest on.
ClusterBase ==
  /\ CoordinatorInv /\ ProcessesTyped /\ ConnectionsOK /\ FramesTrue /\ UnsyncedGrows
  /\ \A c \in Workers : WorkerOK(c)
  /\ \A c \in Clients : ClientOK(c)

-----------------------------------------------------------------------------
(* AnswersAgree.                                                           *)

Final(m) == m.type = "JOB_STATUS_RESPONSE" /\ m.value[1] \in {"DONE", "FAILED"}

\* Reply f does not go back behind what was printed before client c started.
Agrees(c, f) ==
  \A m \in told[c] : m.job_id # 0 /\ m.job_id = f.job_id =>
    /\ f.type # "JOB_STATUS_NOT_FOUND"
    /\ f.type = "JOB_STATUS_RESPONSE" /\ Final(m) => f.value = m.value

AnswersInv ==
  \A c \in Clients :
    /\ \A m \in told[c] : m.type # "JOB_STATUS_NOT_FOUND"
    /\ \A i \in Slots : clients[i].conn = c => Agrees(c, clients[i].output)
    /\ \A n \in DOMAIN down[c] : Agrees(c, down[c][n])
    /\ Agrees(c, cli[c].reply)

-----------------------------------------------------------------------------
(* AttemptsRunOnce: an attempt is on its way in one place.                 *)

Token(f) == <<f.job_id, f.attempt>>

\* What a process has taken and not started.
Taken(p) ==
  IF p.phase = "begin" \/ (p.phase = "send" /\ p.out.type = "JOB_STARTED")
  THEN p.assignment ELSE NoMessage

\* Frames e, at most one per place, and f are assignments of different attempts.
Differ(e, f) == e.type = "JOB_ASSIGN" /\ f.type = "JOB_ASSIGN" => Token(e) # Token(f)

Fresh(f, notes) ==
  f.type = "JOB_ASSIGN" => <<f.job_id, f.attempt, "STARTED">> \notin notes

\* O, D and P hold the frames in output buffers, on connections and taken.
OnePlace(O, D, P) ==
  /\ \A i, k \in Slots : i # k => Differ(O[i], O[k])
  /\ \A i \in Slots, c \in Conns : \A n \in DOMAIN D[c] : Differ(O[i], D[c][n])
  /\ \A i \in Slots, c \in Workers : Differ(O[i], P[c])
  /\ \A b, c \in Conns : \A m \in DOMAIN D[b], n \in DOMAIN D[c] :
       b # c \/ m # n => Differ(D[b][m], D[c][n])
  /\ \A b \in Conns, c \in Workers : \A m \in DOMAIN D[b] : Differ(D[b][m], P[c])
  /\ \A b, c \in Workers : b # c => Differ(P[b], P[c])

NotStarted(O, D, P, notes) ==
  /\ \A i \in Slots : Fresh(O[i], notes)
  /\ \A c \in Conns : \A n \in DOMAIN D[c] : Fresh(D[c][n], notes)
  /\ \A c \in Workers : Fresh(P[c], notes)

Outputs == [i \in Slots |-> clients[i].output]

Held == [c \in Workers |-> Taken(proc[c])]

AttemptsInv ==
  /\ OnePlace(Outputs, down, Held) /\ NotStarted(Outputs, down, Held, ran)
  /\ \A e \in ran : e[1] \in DOMAIN sched.jobs /\ e[2] \in 0..sched.jobs[e[1]].attempt

-----------------------------------------------------------------------------
(* OutcomesAreReal.                                                        *)

TaskFailed(id, attempt, notes) ==
  \E status \in {"INVALID_ARGUMENT", "SYSTEM_ERROR"} : <<id, attempt, status>> \in notes

TableReal(s, notes) ==
  \A k \in DOMAIN s.jobs :
    LET job == s.jobs[k]
    IN /\ job.state = "DONE" => <<k, job.attempt, "OK">> \in notes /\ job.result = job.task
       /\ job.failure = "TASK" => TaskFailed(k, job.attempt, notes)

ReportReal(m, s, notes) ==
  /\ m.type = "JOB_COMPLETED" =>
       /\ <<m.job_id, m.attempt, "OK">> \in notes
       /\ m.job_id \in DOMAIN s.jobs /\ m.value = <<s.jobs[m.job_id].task>>
  /\ m.type = "JOB_FAILED" => TaskFailed(m.job_id, m.attempt, notes)

\* The status of a process counts for an attempt.
Concluded(p) ==
  \/ p.thread \in {"computed", "done"}
  \/ p.phase = "send" /\ p.out.type \in {"JOB_COMPLETED", "JOB_FAILED"}

\* The outcome of an attempt whose task has ended is noted.
OutcomeNoted(p, notes) ==
  Concluded(p) => <<p.assignment.job_id, p.assignment.attempt, p.status>> \in notes

OutcomesInv ==
  /\ PeerTypes \cap ReportTypes # {} => who \subseteq Processes
  /\ TableReal(sched, ran) /\ \A k \in DOMAIN unsynced : TableReal(unsynced[k].sched, ran)
  /\ \A c \in Conns : \A n \in DOMAIN up[c] : ReportReal(up[c][n], sched, ran)
  /\ \A c \in Workers : OutcomeNoted(proc[c], ran)

-----------------------------------------------------------------------------
(* SubmittedOnce.                                                          *)

\* An ACK toward the client of run r names the job of its request in table s.
Names(r, f, s) ==
  f.type = "JOB_SUBMIT_ACK" =>
    r.request.value = <<s.jobs[f.job_id].task, s.jobs[f.job_id].max_retries>>

NamesInv ==
  \A c \in Clients :
    /\ \A i \in Slots : clients[i].conn = c => Names(cli[c], clients[i].output, sched)
    /\ \A n \in DOMAIN down[c] : Names(cli[c], down[c][n], sched)
    /\ Names(cli[c], cli[c].reply, sched)

Submits(r) == r.request.type = "JOB_SUBMIT"

TaskOf(r) == r.request.value[1]

\* The submission of run r, with q on its way, was not handled.
Unhandled(r, q) == Submits(r) /\ (r.phase = "send" \/ q # <<>>)

TableApart(s) == \A j, k \in DOMAIN s.jobs : s.jobs[j].task = s.jobs[k].task => j = k

\* Different clients submit different tasks.
TasksDiffer(runs) ==
  \A b, c \in Clients :
    Submits(runs[b]) /\ Submits(runs[c]) /\ TaskOf(runs[b]) = TaskOf(runs[c]) => b = c

\* A submission that was not handled has no job in table s, and where clients
\* submit, every job is that of a submission.
TasksKnown(s, runs, queues, all) ==
  /\ \A c \in Clients : Unhandled(runs[c], queues[c]) =>
       \A k \in DOMAIN s.jobs : s.jobs[k].task # TaskOf(runs[c])
  /\ "JOB_SUBMIT" \in ClientTypes /\ all \cap Clients # {} =>
       \A k \in DOMAIN s.jobs :
         \E c \in Clients : Submits(runs[c]) /\ TaskOf(runs[c]) = s.jobs[k].task

SubmissionsInv ==
  /\ "JOB_SUBMIT" \in PeerTypes => who \subseteq Processes
  /\ \A c \in Conns \ Clients : \A n \in DOMAIN up[c] : up[c][n].type # "JOB_SUBMIT"
  /\ TasksDiffer(cli)
  /\ \A c \in Clients : Len(up[c]) <= 1 /\ (cli[c].phase = "send" => up[c] = <<>>)
  /\ TableApart(sched) /\ TasksKnown(sched, cli, up, who)
  /\ \A k \in DOMAIN unsynced :
       TableApart(unsynced[k].sched) /\ TasksKnown(unsynced[k].sched, cli, up, who)
=============================================================================
