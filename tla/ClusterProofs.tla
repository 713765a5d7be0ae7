---------------------------- MODULE ClusterProofs ---------------------------
(***************************************************************************)
(* Theorems about the coordinator together with its workers and clients:   *)
(* what module Cluster promises about outcomes and answers holds for every *)
(* number of processes, jobs and restarts.                                 *)
(***************************************************************************)
EXTENDS CoordinatorProofs, ProcessProofs

USE ZenonT(20), SMTT(30), SMTT(60)

-----------------------------------------------------------------------------
(* The steps of the coordinator and of other peers together.               *)

\* Every step of the coordinator or another peer has one of the effects.
LEMMA LoopEffect ==
  ASSUME CoordinatorInv, ProcessesTyped, Elsewhere
  PROVE  Turns /\ Idles
<1>1. SchedulerOK(sched)
  BY HereFields DEF CoordinatorInv, StateOK
<1>2. ASSUME Poll \/ AcceptDone  PROVE Turns
  BY <1>1, <1>2, IdleRests DEF Poll, AcceptDone, store, network, Turns
<1>3. ASSUME NEW c \in Conns, Accept(c)
      PROVE  Turns
  BY <1>3, AcceptEffect DEF Turns
<1>4. ASSUME NEW d \in SyncTimes, ServeClient(d) \/ Schedule(d), Ages(d)
      PROVE  Turns /\ Idles
  <2>1. d \in Nat
    BY CoordinatorConstants
  <2> QED  BY <1>4, <2>1, ServeEffect, AgesIdles DEF Turns
<1>5. CASE Serve
  BY <1>2, <1>3, <1>4, <1>5, StandIdles DEF Serve
<1>6. CASE Time
  BY <1>6, TickRests, AgesIdles DEF Time, Turns
<1>7. CASE Stops
  BY <1>7, ExitEffect, StandIdles DEF Stops, Turns
<1>8. CASE Restarts
  BY <1>8, RestartRests, StandIdles DEF Restarts, Turns
<1>9. CASE OtherStep
  BY <1>9, StandIdles DEF OtherStep, Turns, ProcessesTyped
<1>10. CASE UNCHANGED vars
  <2>1. UNCHANGED cvars /\ UNCHANGED <<proc, cli, who, ran, told>>
    BY <1>10 DEF vars
  <2> QED  BY <1>1, <2>1, IdleRests, StandIdles DEF cvars, store, network, Turns
<1> QED  BY <1>5, <1>6, <1>7, <1>8, <1>9, <1>10 DEF Elsewhere

\* The coordinator's own invariant.
LEMMA LoopKept ==
  ASSUME CoordinatorInv, ProcessesTyped, Elsewhere
  PROVE  CoordinatorInv'
<1>1. ASSUME NEW c \in who \ Processes, PeerStep(c)
      PROVE  \E k \in Conns \ Processes : PeerStep(k)
  BY <1>1 DEF ProcessesTyped
<1>2. [Next]_cvars
  BY <1>1 DEF Elsewhere, Serve, Time, Stops, Restarts, OtherStep, Next, LoopStep, vars
<1> QED  BY <1>2, StepKeeps

\* It keeps ClusterBase.
LEMMA LoopBase ==
  ASSUME ClusterBase, Elsewhere
  PROVE  /\ ClusterBase' /\ Turns /\ Idles
         /\ \E i \in Slots : \E m : Flows(i, m)
<1>1. CoordinatorInv /\ ProcessesTyped
  BY DEF ClusterBase
<1>2. Turns /\ Idles /\ CoordinatorInv'
  BY <1>1, LoopEffect, LoopKept
<1>3. ConnectionsOK' /\ UnsyncedGrows' /\ \E i \in Slots : \E m : Flows(i, m)
  BY <1>2, TurnsFlow
<1> QED  BY <1>2, <1>3, FlowsBase

-----------------------------------------------------------------------------
(* The base holds.                                                         *)

\* A recovered backlog is a consistent table of queued jobs.
LEMMA HeldTable ==
  ASSUME NEW s \in Scenarios
  PROVE  LET t == Holding(s.backlog)
         IN /\ SchedulerOK(t) /\ NotAfter(t, 0) /\ DOMAIN t.jobs = DOMAIN s.backlog
            /\ \A k \in DOMAIN t.jobs :
                 /\ t.jobs[k].state = "QUEUED" /\ t.jobs[k].failure = "NONE"
                 /\ t.jobs[k].task = s.backlog[k][1] /\ ~IsActive(t.jobs[k])
<1> DEFINE b == s.backlog
           t == Holding(b)
           n == Len(b)
           Job(k) == JobInit(k, b[k][1], b[k][2], 0)
           next == IF n = MAX_JOB_ID THEN 0 ELSE n + 1
<1>1. /\ b \in Seq(Tasks \X (0..MAX_RETRIES)) /\ n \in Nat /\ DOMAIN b = 1..n
      /\ n <= JOB_STORE_CAPACITY /\ n <= MAX_JOB_ID /\ MAX_JOB_ID \in Nat
      /\ \A k \in DOMAIN b : b[k][1] \in Tasks /\ b[k][2] \in 0..MAX_RETRIES /\ k \in 1..MAX_JOB_ID
  <2>1. /\ b \in Seq(Tasks \X (0..MAX_RETRIES)) /\ n <= JOB_STORE_CAPACITY /\ n <= MAX_JOB_ID
        /\ MAX_JOB_ID \in Nat
    BY ClusterConstants, SchedulerConstants
  <2>2. n \in Nat /\ DOMAIN b = 1..n /\ \A k \in DOMAIN b : b[k] \in Tasks \X (0..MAX_RETRIES)
    BY <2>1
  <2> HIDE DEF b
  <2> QED  BY <2>1, <2>2
<1> HIDE DEF b
<1>2. /\ t.jobs = [k \in 1..n |-> Job(k)] /\ t.pending = [k \in 1..n |-> k]
      /\ t.next_job_id = next
      /\ t = [jobs |-> [k \in 1..n |-> Job(k)], pending |-> [k \in 1..n |-> k], next_job_id |-> next]
  BY <1>1 DEF Holding
<1>3. ASSUME NEW k \in 1..n
      PROVE  /\ Job(k) \in JobType /\ JobOK(Job(k)) /\ Job(k).id = k /\ Job(k).state = "QUEUED"
             /\ Job(k).failure = "NONE" /\ Job(k).task = b[k][1] /\ Job(k).updated_at = 0
             /\ k \in 1..MAX_JOB_ID
  <2>1. Job(k) \in JobType /\ JobOK(Job(k)) /\ k \in 1..MAX_JOB_ID
    <3>1. b[k][1] \in Tasks /\ b[k][2] \in 0..MAX_RETRIES /\ k \in 1..MAX_JOB_ID /\ 0 \in Nat
      BY <1>1
    <3> QED  BY <3>1, InitJob
  <2>2. /\ Job(k).id = k /\ Job(k).state = "QUEUED" /\ Job(k).failure = "NONE"
        /\ Job(k).task = b[k][1] /\ Job(k).updated_at = 0
    BY DEF JobInit
  <2> QED  BY <2>1, <2>2
<1> HIDE DEF Job
<1> HIDE DEF n
<1>4. next \in 0..MAX_JOB_ID
  <2>1. n \in Nat /\ n <= MAX_JOB_ID /\ MAX_JOB_ID \in Nat
    BY <1>1
  <2> QED  BY <2>1
<1>5. [k \in 1..n |-> Job(k)] \in Seq(JobType) /\ [k \in 1..n |-> k] \in Seq(1..MAX_JOB_ID)
  <2>1. [k \in 1..n |-> Job(k)] \in [1..n -> JobType]
    <3> HIDE DEF JobType
    <3> QED  BY <1>3
  <2>2. [k \in 1..n |-> k] \in [1..n -> 1..MAX_JOB_ID] /\ n \in Nat
    BY <1>1, <1>3
  <2> HIDE DEF JobType
  <2> QED  BY <2>1, <2>2, SMTT(90)
<1>6. t \in SchedulerType
  <2> HIDE DEF next, JobType, t
  <2> QED  BY <1>2, <1>4, <1>5 DEF SchedulerType
<1> HIDE DEF t
<1>7. DOMAIN t.jobs = 1..n /\ Len(t.jobs) = n /\ \A k \in 1..n : t.jobs[k] = Job(k)
  BY <1>1, <1>2, <1>5
<1>8. TableOK(t)
  BY <1>1, <1>2, <1>3, <1>7 DEF TableOK
<1>9. QueueOK(t) /\ OwnersOK(t)
  <2>1. Members(t.pending) = 1..n /\ NoDuplicates(t.pending)
    BY <1>2 DEF Members, NoDuplicates
  <2>2. {k \in DOMAIN t.jobs : t.jobs[k].state = "QUEUED"} = 1..n
    BY <1>3, <1>7, SMTT(90)
  <2> QED  BY <1>3, <1>7, <2>1, <2>2 DEF QueueOK, OwnersOK, IsActive
<1>10. NotAfter(t, 0)
  BY <1>3, <1>7, SMTT(90) DEF NotAfter
<1> QED  BY <1>1, <1>3, <1>6, <1>7, <1>8, <1>9, <1>10, SMTT(90) DEF SchedulerOK, IsActive, t, b

\* The base holds initially.
LEMMA BaseInitially ==
  ASSUME ClusterInit
  PROVE  ClusterBase
<1>1. PICK s \in Scenarios : who = s.who /\ InitWith(Holding(s.backlog))
  BY DEF ClusterInit
<1>2. CoordinatorInv
  BY <1>1, HeldTable, StartState
<1>3. /\ clients = [i \in Slots |-> NoClient] /\ unsynced = <<>>
      /\ peer = [c \in Conns |-> "idle"] /\ server = [c \in Conns |-> "none"]
      /\ up = [c \in Conns |-> <<>>] /\ down = [c \in Conns |-> <<>>]
  BY <1>1 DEF InitWith
<1>4. /\ proc = [c \in Workers |-> W!NewProcess] /\ cli = [c \in Clients |-> C!NewRun]
      /\ told = [c \in Clients |-> {}] /\ ran = {}
  BY DEF ClusterInit, W!WorkerInit, C!ClientInit
<1>5. Workers \subseteq Conns /\ Clients \subseteq Conns /\ who \subseteq Conns
  BY <1>1, ClusterConstants, CoordinatorConstants
<1>6. ProcessesTyped
  <2> HIDE DEF ProcessType, RunType, Replies, W!NewProcess, C!NewRun
  <2> QED  BY <1>4, <1>5, NewProcess, NewRun DEF ProcessesTyped
<1>7. NoClient.conn = "none" /\ NoClient.output = NoMessage /\ NoClient.fd = -1
  BY ClosedSlotType DEF NoClient
<1>8. ConnectionsOK
  <2> HIDE DEF Replies, NoClient, NoMessage
  <2> QED  BY <1>3, <1>7 DEF ConnectionsOK, Open
<1>9. FramesTrue
  <2>1. FrameTrue(NoMessage, sched)
    BY DEF FrameTrue, NoMessage, Message
  <2> HIDE DEF NoClient, NoMessage, W!NewProcess, C!NewRun
  <2> QED  BY <1>3, <1>4, <1>5, <1>7, <2>1, NewProcess, NewRun DEF FramesTrue
<1>10. UnsyncedGrows
  BY <1>3 DEF UnsyncedGrows
<1>11. /\ \A c \in Workers : WorkerOK(c)
       /\ \A c \in Clients : ClientOK(c)
  <2> HIDE DEF W!NewProcess, C!NewRun, NoMessage
  <2> QED  BY <1>3, <1>4, <1>5, NewProcess, NewRun DEF WorkerOK, ClientOK
<1> QED  BY <1>2, <1>6, <1>8, <1>9, <1>10, <1>11 DEF ClusterBase

\* Every step keeps the base.
LEMMA BaseKept ==
  ASSUME ClusterBase, [ClusterNext]_vars
  PROVE  ClusterBase'
BY StepKinds, LoopBase, WorkerBase, ClientBase, StartBase

\* Both ends of every connection fit each other, and what is under way on it
\* fits the job table, in every reachable state.
THEOREM ClusterSafety == ClusterSpec => []ClusterBase
<1>1. ClusterInit => ClusterBase
  BY BaseInitially
<1>2. ClusterBase /\ [ClusterNext]_vars => ClusterBase'
  BY BaseKept
<1> QED  BY <1>1, <1>2, PTL DEF ClusterSpec

\* A report on its way tells what became of the task it names.
THEOREM ReportsTellTheOutcome == ClusterSpec => []W!OutcomeReported
<1>1. ASSUME ClusterBase  PROVE W!OutcomeReported
  <2> SUFFICES ASSUME NEW c \in Workers, proc[c].phase = "send",
                      proc[c].out.type \in {"JOB_COMPLETED", "JOB_FAILED"}
               PROVE  /\ proc[c].out.job_id = proc[c].assignment.job_id
                      /\ proc[c].out.attempt = proc[c].assignment.attempt
                      /\ proc[c].thread = "none"
                      /\ IF proc[c].out.type = "JOB_COMPLETED"
                         THEN /\ proc[c].out.value = proc[c].assignment.value
                              /\ proc[c].assignment.value[1] \notin Invalid
                         ELSE proc[c].status \notin {"NONE", "OK", "CANCELLED"}
    BY DEF W!OutcomeReported
  <2> DEFINE p == proc[c]
  <2>1. Ready(c) /\ p \in ProcessType
    BY <1>1, WorkerReady, ProcessFields
  <2>2. p.assignment.type = "JOB_ASSIGN" /\ p.thread = "none" /\ p.out = W!Terminal(p) /\ EndOf(p)
    <3>1. W!Identity(p, "JOB_STARTED").type = "JOB_STARTED"
      BY DEF W!Identity, W!Message
    <3>2. /\ Message("WORKER_REGISTER", 0, 0, 0).type = "WORKER_REGISTER"
          /\ Message("HEARTBEAT", p.worker_id, 0, 0).type = "HEARTBEAT"
      BY DEF Message
    <3>3. Works(p, down[c])
      BY <2>1 DEF Ready
    <3> HIDE DEF NoMessage, Message, p
    <3> QED  BY <3>1, <3>2, <3>3 DEF Works, p
  <2>3. p.assignment.value = <<sched.jobs[p.assignment.job_id].task>>
    BY <2>1, <2>2 DEF Ready, FrameTrue
  <2>4. /\ p.out.job_id = p.assignment.job_id /\ p.out.attempt = p.assignment.attempt
        /\ p.out.type = IF p.status = "OK" THEN "JOB_COMPLETED" ELSE "JOB_FAILED"
        /\ p.status = "OK" => p.out.value = <<p.result>>
    BY <2>1, <2>2, ReportFields
  <2> HIDE DEF p
  <2>5. p.status = "OK" => p.out.value = p.assignment.value
    BY <2>2, <2>3, <2>4, SMTT(90) DEF EndOf
  <2> QED  BY <2>2, <2>4, <2>5 DEF EndOf, p
<1> QED  BY <1>1, ClusterSafety, PTL

-----------------------------------------------------------------------------
(* Answers never go back.                                                  *)

\* Every step keeps what was told.
LEMMA AnswersKept ==
  ASSUME ClusterBase, AnswersInv, [ClusterNext]_vars
  PROVE  AnswersInv'
<1>1. CASE Elsewhere
  BY <1>1, LoopBase, LoopAnswers
<1>2. ASSUME NEW c \in Workers, WorkerStep(c)  PROVE AnswersInv'
  BY <1>2, WorkerBase, WorkerAnswers
<1>3. ASSUME NEW c \in Clients, ClientStep(c) \/ ClientFault(c)  PROVE AnswersInv'
  BY <1>3, ClientBase, ClientAnswers
<1>4. ASSUME NEW c \in Clients, ClientStart(c)  PROVE AnswersInv'
  BY <1>4, StartBase, StartAnswers
<1> QED  BY <1>1, <1>2, <1>3, <1>4, StepKinds

\* A job whose id somebody was told is found by every later request, and an
\* outcome somebody was told is the one every later request is told, also when
\* the coordinator crashed and was restarted in between.
THEOREM AnswersAlwaysAgree == ClusterSpec => []AnswersAgree
<1>1. ClusterInit => AnswersInv
  <2> SUFFICES ASSUME ClusterInit  PROVE AnswersInv
    OBVIOUS
  <2>1. told = [c \in Clients |-> {}]
    BY DEF ClusterInit
  <2> QED  BY <2>1 DEF AnswersInv, Agrees
<1>2. ClusterBase /\ AnswersInv /\ [ClusterNext]_vars => AnswersInv'
  BY AnswersKept
<1>3. ASSUME ClusterBase, AnswersInv  PROVE AnswersAgree
  <2> SUFFICES ASSUME NEW c \in Clients, cli[c].code \in {0, 2},
                      cli[c].request.type = "JOB_STATUS_REQUEST",
                      NEW m \in told[c], m.job_id = cli[c].request.job_id
               PROVE  /\ cli[c].code = 0
                      /\ Final(m) => cli[c].reply.value = m.value
    BY DEF AnswersAgree, Final
  <2> DEFINE r == cli[c]
  <2>1. Runs(r, up[c]) /\ Agrees(c, r.reply)
    BY <1>3 DEF ClusterBase, ClientOK, AnswersInv
  <2>2. /\ r.reply.type \in C!Answers(r.request) /\ r.code = C!Code(r.request, r.reply)
        /\ r.request.job_id # 0
    <3> HIDE DEF C!Code, C!Answers, NoMessage
    <3> QED  BY <2>1 DEF Runs
  <2> HIDE DEF r
  <2>3. r.reply.type \in {"JOB_STATUS_RESPONSE", "JOB_STATUS_NOT_FOUND"}
    BY <2>2 DEF C!Answers, r
  <2>4. /\ r.reply.job_id = r.request.job_id
        /\ r.reply.type # "JOB_STATUS_NOT_FOUND" => r.code = 0
    BY <2>2 DEF C!Code, r
  <2> QED  BY <2>1, <2>2, <2>3, <2>4 DEF Agrees, r
<1> QED  BY <1>1, <1>2, <1>3, ClusterSafety, PTL DEF ClusterSpec

-----------------------------------------------------------------------------
(* An attempt is run once.                                                 *)

\* Every step keeps each assignment in one place.
LEMMA AttemptsKept ==
  ASSUME ClusterBase, AttemptsInv, [ClusterNext]_vars
  PROVE  AttemptsInv'
<1>1. CASE Elsewhere
  BY <1>1, LoopBase, FlowsAttempts
<1>2. ASSUME NEW c \in Workers, WorkerStep(c)  PROVE AttemptsInv'
  BY <1>2, WorkerBase, MovesAttempts
<1>3. ASSUME NEW c \in Clients, ClientStep(c) \/ ClientFault(c)  PROVE AttemptsInv'
  <2>1. Uses(c, Requested(cli[c])) /\ UNCHANGED <<Apart, proc, ran>>
    <3> HIDE DEF Uses, Requested, RunType, Runs, NoMessage
    <3> QED  BY <1>3, ClientBase DEF Proceeds
  <2> QED  BY <2>1, ClientAttempts
<1>4. ASSUME NEW c \in Clients, ClientStart(c)  PROVE AttemptsInv'
  <2>1. Uses(c, {}) /\ UNCHANGED <<Apart, proc, ran>>
    <3> HIDE DEF RunType, Runs, NoMessage
    <3> QED  BY <1>4, StartBase DEF Asks, Uses
  <2> QED  BY <2>1, ClientAttempts
<1> QED  BY <1>1, <1>2, <1>3, <1>4, StepKinds

\* Initially nothing is assigned.
LEMMA AttemptsInitially ==
  ASSUME ClusterInit
  PROVE  AttemptsInv
<1>1. /\ clients = [i \in Slots |-> NoClient] /\ down = [c \in Conns |-> <<>>]
      /\ proc = [c \in Workers |-> W!NewProcess] /\ ran = {}
  BY DEF ClusterInit, InitWith, W!WorkerInit
<1>2. NoClient.output.type # "JOB_ASSIGN"
  BY DEF NoClient, NoMessage, Message
<1>3. NoMessage.type # "JOB_ASSIGN"
  BY DEF NoMessage, Message
<1> HIDE DEF NoClient, NoMessage, W!NewProcess
<1>4. /\ \A k \in Slots : Outputs[k].type # "JOB_ASSIGN"
      /\ \A c \in Conns : DOMAIN down[c] = {}
      /\ \A c \in Workers : Held[c].type # "JOB_ASSIGN"
  BY <1>1, <1>2, <1>3, NewProcess DEF Outputs, Held
<1>5. OnePlace(Outputs, down, Held)
  BY <1>4 DEF OnePlace, Differ
<1>6. NotStarted(Outputs, down, Held, ran)
  BY <1>4 DEF NotStarted, Fresh
<1> QED  BY <1>1, <1>5, <1>6 DEF AttemptsInv

\* No attempt is started twice: not by two workers, and not by one worker again,
\* whatever is lost, repeated or restarted in between.
THEOREM AttemptsStartOnce == ClusterSpec => AttemptsRunOnce
<1>1. ClusterInit => AttemptsInv
  BY AttemptsInitially
<1>2. ClusterBase /\ AttemptsInv /\ [ClusterNext]_vars => AttemptsInv'
  BY AttemptsKept
<1>3. ASSUME ClusterBase, AttemptsInv, [ClusterNext]_vars, NEW c \in Workers, Starts(c)
      PROVE  <<proc[c].assignment.job_id, proc[c].assignment.attempt, "STARTED">> \notin ran
  <2>1. CASE Elsewhere
    <3>1. proc'[c].thread = proc[c].thread
      BY <1>3, <2>1, LoopBase DEF Idles, SameProcess
    <3> QED  BY <1>3, <3>1 DEF Starts
  <2>2. ASSUME NEW b \in Workers, WorkerStep(b)
        PROVE  <<proc[c].assignment.job_id, proc[c].assignment.attempt, "STARTED">> \notin ran
    <3>1. Moves(b)
      BY <1>3, <2>2, WorkerBase
    <3>2. b = c
      BY <1>3, <3>1 DEF Moves, Starts
    <3>3. Taken(proc[c]) = proc[c].assignment /\ proc[c].assignment.type = "JOB_ASSIGN"
      <4> HIDE DEF NoMessage
      <4> QED  BY <1>3, <3>1, <3>2 DEF Moves
    <3> QED  BY <1>3, <3>3 DEF AttemptsInv, NotStarted, Held, Fresh
  <2>3. ASSUME NEW b \in Clients, ClientStep(b) \/ ClientFault(b) \/ ClientStart(b)
        PROVE  FALSE
    <3>1. proc' = proc
      BY <1>3, <2>3, ClientBase, StartBase
    <3> QED  BY <1>3, <3>1 DEF Starts
  <2> QED  BY <1>3, <2>1, <2>2, <2>3, StepKinds
<1>4. ClusterBase /\ AttemptsInv /\ [ClusterNext]_vars =>
        [\A c \in Workers : Starts(c) =>
           <<proc[c].assignment.job_id, proc[c].assignment.attempt, "STARTED">> \notin ran]_vars
  BY <1>3
<1> QED  BY <1>1, <1>2, <1>4, ClusterSafety, PTL DEF ClusterSpec, AttemptsRunOnce

-----------------------------------------------------------------------------
(* Outcomes are real.                                                      *)

\* Every step keeps the outcomes true to what was noted.
LEMMA OutcomesKept ==
  ASSUME ClusterBase, OutcomesInv, [ClusterNext]_vars
  PROVE  OutcomesInv'
<1>1. CASE Elsewhere
  <2>1. Turns /\ Idles
    BY <1>1, LoopBase
  <2>2. PICK i \in Slots : \E m : Flows(i, m) /\ Learns(i, m)
    BY <2>1, TurnsLearn
  <2>3. PICK m : Flows(i, m) /\ Learns(i, m)
    BY <2>2
  <2> QED  BY <2>1, <2>3, LoopOutcomes
<1>2. ASSUME NEW c \in Workers, WorkerStep(c)  PROVE OutcomesInv'
  BY <1>2, WorkerBase, MovesOutcomes
<1>3. ASSUME NEW c \in Clients, ClientStep(c) \/ ClientFault(c)  PROVE OutcomesInv'
  <2>1. Uses(c, Requested(cli[c])) /\ UNCHANGED <<Apart, proc, ran>>
    <3> HIDE DEF Uses, Requested, RunType, Runs, NoMessage
    <3> QED  BY <1>3, ClientBase DEF Proceeds
  <2>2. \A m \in Requested(cli[c]) : m \in Asked
    <3> HIDE DEF Asked
    <3> QED  BY ClientReady, RunFields DEF Requested
  <2> HIDE DEF Uses, Requested, Asked
  <2> QED  BY <2>1, <2>2, ClientOutcomes
<1>4. ASSUME NEW c \in Clients, ClientStart(c)  PROVE OutcomesInv'
  <2>1. Uses(c, {}) /\ UNCHANGED <<Apart, proc, ran>>
    <3> HIDE DEF RunType, Runs, NoMessage
    <3> QED  BY <1>4, StartBase DEF Asks, Uses
  <2> QED  BY <2>1, ClientOutcomes
<1> QED  BY <1>1, <1>2, <1>3, <1>4, StepKinds

\* Initially no job has an outcome.
LEMMA OutcomesInitially ==
  ASSUME ClusterInit, WorkersReport
  PROVE  OutcomesInv
<1>1. PICK s \in Scenarios : who = s.who /\ InitWith(Holding(s.backlog))
  BY DEF ClusterInit
<1>2. sched = Holding(s.backlog) /\ unsynced = <<>> /\ up = [c \in Conns |-> <<>>]
  BY <1>1 DEF InitWith
<1>3. proc = [c \in Workers |-> W!NewProcess]
  BY DEF ClusterInit, W!WorkerInit
<1>4. PeerTypes \cap ReportTypes # {} => who \subseteq Processes
  BY <1>1 DEF WorkersReport
<1>5. TableReal(sched, ran)
  BY <1>2, HeldTable DEF TableReal
<1>6. ~Concluded(W!NewProcess)
  <2> HIDE DEF W!NewProcess
  <2> QED  BY NewProcess DEF Concluded
<1> HIDE DEF W!NewProcess
<1> QED  BY <1>2, <1>3, <1>4, <1>5, <1>6 DEF OutcomesInv, OutcomeNoted

\* A job is DONE only with the result a worker computed from its task in the
\* attempt the table names, and an attempt counts as failed by its task only
\* when a worker saw it fail, provided only workers make reports.
THEOREM OutcomesAlwaysReal == ClusterSpec /\ WorkersReport => []OutcomesAreReal
<1>1. ClusterInit /\ WorkersReport => OutcomesInv
  BY OutcomesInitially
<1>2. ClusterBase /\ OutcomesInv /\ [ClusterNext]_vars => OutcomesInv'
  BY OutcomesKept
<1>3. ASSUME ClusterBase, OutcomesInv  PROVE OutcomesAreReal
  <2>1. TableOK(sched) /\ TableReal(sched, ran)
    BY <1>3, InPlace DEF ClusterBase, CoordinatorInv, StateOK, SchedulerOK, OutcomesInv
  <2>2. \A k \in DOMAIN sched.jobs : sched.jobs[k].id = k
    BY <2>1 DEF TableOK
  <2> QED  BY <2>1, <2>2 DEF TableReal, TaskFailed, OutcomesAreReal
<1> QED  BY <1>1, <1>2, <1>3, ClusterSafety, PTL DEF ClusterSpec

-----------------------------------------------------------------------------
(* Submissions.                                                            *)

\* Every step keeps the jobs those of their submissions.
LEMMA SubmissionsKept ==
  ASSUME ClusterBase, NamesInv, SubmissionsInv, [ClusterNext]_vars
  PROVE  NamesInv' /\ SubmissionsInv'
<1>1. CASE Elsewhere
  <2>1. Turns /\ Idles
    BY <1>1, LoopBase
  <2>2. PICK i \in Slots : \E m : Flows(i, m) /\ Learns(i, m)
    BY <2>1, TurnsLearn
  <2>3. PICK m : Flows(i, m) /\ Learns(i, m)
    BY <2>2
  <2> QED  BY <2>1, <2>3, LoopNames, LoopSubmissions
<1>2. ASSUME NEW c \in Workers, WorkerStep(c)  PROVE NamesInv' /\ SubmissionsInv'
  BY <1>2, WorkerBase, WorkerNames, WorkerSubmissions
<1>3. ASSUME NEW c \in Clients, ClientStep(c) \/ ClientFault(c)  PROVE NamesInv' /\ SubmissionsInv'
  BY <1>3, ClientBase, ClientNames, ClientSubmissions
<1>4. ASSUME NEW c \in Clients \cap who, ClientStart(c)  PROVE NamesInv' /\ SubmissionsInv'
  BY <1>4, StartBase, StartNames, StartSubmissions
<1> QED  BY <1>1, <1>2, <1>3, <1>4, StepKinds

\* Initially there is the backlog, and no submission.
LEMMA SubmissionsInitially ==
  ASSUME ClusterInit, SubmissionsApart
  PROVE  NamesInv /\ SubmissionsInv
<1>1. PICK s \in Scenarios : who = s.who /\ InitWith(Holding(s.backlog))
  BY DEF ClusterInit
<1>2. /\ sched = Holding(s.backlog) /\ unsynced = <<>> /\ clients = [i \in Slots |-> NoClient]
      /\ up = [c \in Conns |-> <<>>] /\ down = [c \in Conns |-> <<>>]
  BY <1>1 DEF InitWith
<1>3. cli = [c \in Clients |-> C!NewRun]
  BY DEF ClusterInit, C!ClientInit
<1>4. Clients \subseteq Conns
  BY ClusterConstants, CoordinatorConstants
<1>5. /\ \A i, k \in DOMAIN s.backlog : s.backlog[i][1] = s.backlog[k][1] => i = k
      /\ "JOB_SUBMIT" \in PeerTypes => who \subseteq Processes
      /\ "JOB_SUBMIT" \in ClientTypes /\ who \cap Clients # {} => s.backlog = <<>>
  BY <1>1 DEF SubmissionsApart
<1>6. /\ DOMAIN sched.jobs = DOMAIN s.backlog
      /\ \A k \in DOMAIN sched.jobs : sched.jobs[k].task = s.backlog[k][1]
  BY <1>2, HeldTable
<1>7. \A c \in Clients : /\ cli[c].reply = NoMessage /\ ~Submits(cli[c]) /\ cli[c].phase = "start"
                         /\ up[c] = <<>> /\ down[c] = <<>>
  <2>1. NoMessage.type = "NONE"
    BY DEF NoMessage, Message
  <2> HIDE DEF C!NewRun, NoMessage
  <2> QED  BY <1>2, <1>3, <1>4, <2>1, NewRun DEF Submits
<1>8. NamesInv
  <2>1. NoClient.output = NoMessage
    BY ClosedSlotType DEF NoClient
  <2> HIDE DEF NoMessage, NoClient, Names
  <2>2. \A i \in Slots : clients[i].output = NoMessage
    BY <1>2, <2>1
  <2>3. \A c \in Clients : DOMAIN down[c] = {}
    BY <1>7
  <2> QED  BY <1>7, <2>2, <2>3, NothingNames DEF NamesInv
<1>9. TableApart(sched)
  BY <1>5, <1>6 DEF TableApart
<1>10. TasksKnown(sched, cli, up, who)
  <2>1. "JOB_SUBMIT" \in ClientTypes /\ who \cap Clients # {} => DOMAIN sched.jobs = {}
    BY <1>5, <1>6
  <2> QED  BY <1>7, <2>1 DEF TasksKnown, Unhandled
<1>11. TasksDiffer(cli)
  BY <1>7 DEF TasksDiffer
<1>12. /\ \A c \in Conns : DOMAIN up[c] = {}
       /\ \A c \in Clients : Len(up[c]) <= 1
  BY <1>2, <1>7
<1> QED  BY <1>2, <1>5, <1>7, <1>8, <1>9, <1>10, <1>11, <1>12 DEF SubmissionsInv

\* A job id that was printed names the job of that submission, now and after
\* every restart, and every submission created one job at most, provided the
\* submissions can be told apart by their tasks.
THEOREM SubmissionsCreateOnce == ClusterSpec /\ SubmissionsApart => []SubmittedOnce
<1>1. ClusterInit /\ SubmissionsApart => NamesInv /\ SubmissionsInv
  BY SubmissionsInitially
<1>2. ClusterBase /\ NamesInv /\ SubmissionsInv /\ [ClusterNext]_vars => NamesInv' /\ SubmissionsInv'
  BY SubmissionsKept
<1>3. ASSUME ClusterBase, NamesInv, SubmissionsInv  PROVE SubmittedOnce
  <2>1. ASSUME NEW c \in Clients, Confirmed(c)
        PROVE  \E k \in DOMAIN sched.jobs :
                 /\ sched.jobs[k].id = cli[c].reply.job_id
                 /\ <<sched.jobs[k].task, sched.jobs[k].max_retries>> = cli[c].request.value
    <3> DEFINE r == cli[c]
    <3>1. Runs(r, up[c]) /\ Names(r, r.reply, sched) /\ FrameTrue(r.reply, sched)
      BY <1>3 DEF ClusterBase, ClientOK, NamesInv, FramesTrue
    <3>2. r.reply.type \in C!Answers(r.request) /\ r.request.type = "JOB_SUBMIT"
      <4> HIDE DEF C!Answers, C!Code, NoMessage
      <4> QED  BY <2>1, <3>1 DEF Runs, Confirmed
    <3>3. r.reply.type = "JOB_SUBMIT_ACK"
      BY <3>2 DEF C!Answers
    <3>4. TableOK(sched)
      BY <1>3, InPlace DEF ClusterBase, CoordinatorInv, StateOK, SchedulerOK
    <3>5. r.reply.job_id \in DOMAIN sched.jobs /\ sched.jobs[r.reply.job_id].id = r.reply.job_id
      BY <3>1, <3>3, <3>4 DEF FrameTrue, TableOK
    <3> QED  BY <3>1, <3>3, <3>5 DEF Names
  <2>2. TableApart(sched)
    BY <1>3 DEF SubmissionsInv
  <2> QED  BY <2>1, <2>2 DEF SubmittedOnce, TableApart
<1> QED  BY <1>1, <1>2, <1>3, ClusterSafety, PTL DEF ClusterSpec
=============================================================================
