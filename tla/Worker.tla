------------------------------- MODULE Worker -------------------------------
(***************************************************************************)
(* The worker process (src/src/worker/main.c and task.c): registration,    *)
(* the loop that waits for assignments and sends heartbeats and reports,   *)
(* the task thread with its done and cancel flags, and the ways out.       *)
(*                                                                         *)
(* One process per member of Workers, each with a connection of its own    *)
(* whose ends and contents are the variables peer, server, up and down, as *)
(* in module Coordinator.  What the coordinator does with its end is left  *)
(* to the modules that use this one.                                       *)
(*                                                                         *)
(* Deadlines are kept as the time that is left, 0 once they have passed.   *)
(* The loop's 50 ms look at the done flag is a return from the wait that   *)
(* is possible as soon as the flag is set; one that finds nothing is no    *)
(* step.                                                                   *)
(***************************************************************************)
EXTENDS Protocol

CONSTANTS
  Workers,
  Invalid,              \* tasks whose arguments faultline_task_execute refuses
  Signalled,            \* the processes somebody may stop or kill
  HEARTBEAT_INTERVAL,
  IO_TIMEOUT,
  BUFFER                \* frames a connection holds in one direction (bound)

ASSUME WorkerConstants ==
  /\ Signalled \subseteq Workers
  /\ HEARTBEAT_INTERVAL \in Nat \ {0} /\ IO_TIMEOUT \in Nat \ {0}
  /\ BUFFER \in Nat \ {0}

VARIABLES
  proc,                 \* the processes
  peer, server,         \* both ends of their connections
  up, down              \* frames on their way to the coordinator and back

wvars == <<proc, peer, server, up, down>>

-----------------------------------------------------------------------------
\* thread is none, or where execute_task is: running, computed, done.
NewProcess ==
  [ phase |-> "start", worker_id |-> 0, stopping |-> FALSE, reason |-> "none",
    out |-> NoMessage, timer |-> 0,                  \* a transfer and its deadline
    beat |-> 0,                                      \* time to the next heartbeat
    received |-> "nothing", frame |-> -1,            \* input, and its deadline
    assignment |-> NoMessage, thread |-> "none", cancel |-> FALSE,
    status |-> "NONE", result |-> "none" ]

Set(c, p) == proc' = [proc EXCEPT ![c] = p]

Connected(c) == server[c] \in {"backlog", "open"}

\* What each recv can find: bytes, or the end of the connection.  arriving says
\* that the coordinator has sent a part of a frame.
Input(c, arriving) ==
  \/ down[c] # <<>> \/ ~Connected(c)
  \/ arriving /\ proc[c].received = "nothing"

Leave(p, why) == [p EXCEPT !.phase = "leave", !.reason = why, !.timer = 0]

StartSend(p, m) == [p EXCEPT !.phase = "send", !.out = m, !.timer = IO_TIMEOUT]

Identity(p, type) ==
  Message(type, p.worker_id, p.assignment.job_id, p.assignment.attempt)

\* Mutant of Terminal: whatever the status, the result is reported.
TerminalCompletes(p) == Carrying(Identity(p, "JOB_COMPLETED"), <<p.result>>)

\* report_execution
Terminal(p) ==
  IF p.status = "OK" THEN Carrying(Identity(p, "JOB_COMPLETED"), <<p.result>>)
  ELSE Identity(p, "JOB_FAILED")

-----------------------------------------------------------------------------
(* Registration.                                                           *)

Connect(c) ==
  LET p == proc[c]
  IN /\ p.phase = "start" /\ peer[c] = "idle"
     /\ peer' = [peer EXCEPT ![c] = "open"]
     /\ server' = [server EXCEPT ![c] = "backlog"]
     /\ Set(c, IF p.stopping THEN Leave(p, "stop")
               ELSE StartSend(p, Message("WORKER_REGISTER", 0, 0, 0)))
     /\ UNCHANGED <<up, down>>

ConnectFails(c) ==
  /\ proc[c].phase = "start"
  /\ Set(c, [proc[c] EXCEPT !.phase = "exited"])
  /\ UNCHANGED <<peer, server, up, down>>

\* receive_registration_ack: one deadline for the whole frame.
ReceiveAck(c, arriving) ==
  LET p == proc[c]
      m == Head(down[c])
  IN /\ p.phase = "ack"
     /\ IF p.stopping THEN Set(c, Leave(p, "stop")) /\ UNCHANGED down
        ELSE IF p.timer = 0 THEN Set(c, Leave(p, "error")) /\ UNCHANGED down
        ELSE /\ Input(c, arriving)
             /\ \/ /\ ~Connected(c)
                   /\ Set(c, Leave(p, "error")) /\ UNCHANGED down
                \/ /\ p.received = "nothing" /\ (arriving \/ down[c] # <<>>)
                   /\ Set(c, [p EXCEPT !.received = "part"]) /\ UNCHANGED down
                \/ /\ p.received # "header" /\ down[c] # <<>>
                   /\ Set(c, IF m.type = "WORKER_REGISTER_ACK"
                             THEN [p EXCEPT !.received = "header"]
                             ELSE Leave(p, "refused"))
                   /\ UNCHANGED down
                \/ /\ p.received = "header" /\ down[c] # <<>>
                   /\ Set(c, [p EXCEPT !.phase = "top", !.worker_id = m.worker_id,
                                       !.received = "nothing", !.timer = 0,
                                       !.beat = HEARTBEAT_INTERVAL])
                   /\ down' = [down EXCEPT ![c] = Tail(@)]
     /\ UNCHANGED <<peer, server, up>>

-----------------------------------------------------------------------------
(* faultline_send_all: the frame is handed over completely before the      *)
(* deadline, or the connection is given up.  A signal does not end it.     *)

\* Mutant of Sent: the assignment stays with the process after its report.
SentKeepsAssignment(p) ==
  LET q == [p EXCEPT !.out = NoMessage, !.timer = 0, !.phase = "top"]
  IN CASE p.out.type = "WORKER_REGISTER" -> [q EXCEPT !.phase = "ack", !.timer = IO_TIMEOUT]
       [] p.out.type = "HEARTBEAT"       -> [q EXCEPT !.beat = HEARTBEAT_INTERVAL]
       [] p.out.type = "JOB_STARTED"     -> [q EXCEPT !.phase = "begin"]
       [] OTHER                          -> q

\* What follows a completed send.
Sent(p) ==
  LET q == [p EXCEPT !.out = NoMessage, !.timer = 0, !.phase = "top"]
  IN CASE p.out.type = "WORKER_REGISTER" -> [q EXCEPT !.phase = "ack", !.timer = IO_TIMEOUT]
       [] p.out.type = "HEARTBEAT"       -> [q EXCEPT !.beat = HEARTBEAT_INTERVAL]
       [] p.out.type = "JOB_STARTED"     -> [q EXCEPT !.phase = "begin"]
       [] OTHER                          -> [q EXCEPT !.assignment = NoMessage]

\* A connection the coordinator has closed may still take a frame, and lose it.
SendAll(c) ==
  LET p == proc[c]
  IN /\ p.phase = "send"
     /\ \/ /\ p.timer > 0 /\ (Connected(c) => Len(up[c]) < BUFFER)
           /\ up' = IF Connected(c) THEN [up EXCEPT ![c] = Append(@, p.out)] ELSE up
           /\ Set(c, Sent(p))
        \/ /\ p.timer = 0 \/ ~Connected(c)
           /\ Set(c, Leave(p, "error"))
           /\ UNCHANGED up
     /\ UNCHANGED <<peer, server, down>>

-----------------------------------------------------------------------------
(* worker_loop.                                                            *)

\* The head of the loop: the stop flag, then a finished task.
Top(c) ==
  LET p == proc[c]
  IN /\ p.phase = "top"
     /\ Set(c, IF p.stopping THEN Leave(p, "stop")
               ELSE IF p.thread = "done" THEN StartSend([p EXCEPT !.thread = "none"], Terminal(p))
               ELSE [p EXCEPT !.phase = "wait"])
     /\ UNCHANGED <<peer, server, up, down>>

\* One recv: never past the header, nor past the payload it announced.  The
\* deadline of the frame counts from its first bytes.
Receive(c, arriving) ==
  LET p     == [proc[c] EXCEPT !.phase = "top"]
      m     == Head(down[c])
      begun == [p EXCEPT !.frame = IF p.received = "nothing" THEN IO_TIMEOUT ELSE @]
      taken == [p EXCEPT !.received = "nothing", !.frame = -1, !.assignment = m]
  IN \/ ~Connected(c) /\ Set(c, Leave(p, "error")) /\ UNCHANGED down
     \/ /\ p.received = "nothing" /\ (arriving \/ down[c] # <<>>)
        /\ Set(c, [begun EXCEPT !.received = "part"]) /\ UNCHANGED down
     \/ /\ p.received # "header" /\ down[c] # <<>>
        /\ Set(c, IF m.type = "JOB_ASSIGN" THEN [begun EXCEPT !.received = "header"]
                  ELSE Leave(p, "refused"))
        /\ UNCHANGED down
     \/ /\ p.received = "header" /\ down[c] # <<>>
        /\ down' = [down EXCEPT ![c] = Tail(@)]
        /\ Set(c, IF m.worker_id # p.worker_id \/ p.assignment.job_id # 0
                  THEN Leave(p, "refused")
                  ELSE StartSend(taken, Identity(taken, "JOB_STARTED")))

\* Mutant of Wait: input is served before a heartbeat that is due.
WaitInputFirst(c, arriving) ==
  LET p == proc[c]
  IN /\ p.phase = "wait"
     /\ IF p.stopping THEN Set(c, Leave(p, "stop")) /\ UNCHANGED down
        ELSE IF p.frame = 0 THEN Set(c, Leave(p, "error")) /\ UNCHANGED down
        ELSE IF Input(c, arriving) THEN Receive(c, arriving)
        ELSE IF p.beat = 0
        THEN Set(c, StartSend(p, Message("HEARTBEAT", p.worker_id, 0, 0))) /\ UNCHANGED down
        ELSE p.thread = "done" /\ Set(c, [p EXCEPT !.phase = "top"]) /\ UNCHANGED down
     /\ UNCHANGED <<peer, server, up>>

\* wait_for_input and what follows it: the deadline of a frame, a heartbeat
\* that is due, input, or a look at the done flag.
Wait(c, arriving) ==
  LET p == proc[c]
  IN /\ p.phase = "wait"
     /\ IF p.stopping THEN Set(c, Leave(p, "stop")) /\ UNCHANGED down
        ELSE IF p.frame = 0 THEN Set(c, Leave(p, "error")) /\ UNCHANGED down
        ELSE IF p.beat = 0
        THEN Set(c, StartSend(p, Message("HEARTBEAT", p.worker_id, 0, 0))) /\ UNCHANGED down
        ELSE \/ Input(c, arriving) /\ Receive(c, arriving)
             \/ p.thread = "done" /\ Set(c, [p EXCEPT !.phase = "top"]) /\ UNCHANGED down
     /\ UNCHANGED <<peer, server, up>>

\* start_execution: the thread runs, cannot be created, or runs while the
\* signal mask cannot be restored.
Begin(c) ==
  LET p       == proc[c]
      running == [p EXCEPT !.thread = "running", !.cancel = FALSE]
      failed  == [p EXCEPT !.status = "SYSTEM_ERROR"]
  IN /\ p.phase = "begin"
     /\ \/ Set(c, [running EXCEPT !.phase = "top"])
        \/ Set(c, StartSend(failed, Terminal(failed)))
        \/ Set(c, Leave(running, "error"))
     /\ UNCHANGED <<peer, server, up, down>>

\* The clock cannot be read, or poll or the socket fails.
SystemFails(c) ==
  /\ proc[c].phase \in {"ack", "send", "top", "wait"}
  /\ Set(c, Leave(proc[c], "error"))
  /\ UNCHANGED <<peer, server, up, down>>

-----------------------------------------------------------------------------
(* The ways out.                                                           *)

\* The process is gone.  Closing with unread input resets the connection,
\* which may take away what was sent.
Gone(c, p) ==
  /\ Set(c, [NewProcess EXCEPT !.phase = "exited", !.stopping = p.stopping,
                               !.reason = p.reason])
  /\ peer' = [peer EXCEPT ![c] = "closed"]
  /\ up' \in {up, [up EXCEPT ![c] = <<>>]}
  /\ down' = [down EXCEPT ![c] = <<>>]
  /\ UNCHANGED server

\* Mutant of Finish: the task is joined without being cancelled.
FinishWithoutCancel(c) ==
  LET p == proc[c]
  IN /\ p.phase = "leave"
     /\ IF p.thread = "none" THEN Gone(c, p)
        ELSE /\ Set(c, [p EXCEPT !.phase = "join"])
             /\ UNCHANGED <<peer, server, up, down>>

\* run_worker after the loop: a task that was started is cancelled.
Finish(c) ==
  LET p == proc[c]
  IN /\ p.phase = "leave"
     /\ IF p.thread = "none" THEN Gone(c, p)
        ELSE /\ Set(c, [p EXCEPT !.phase = "join", !.cancel = TRUE])
             /\ UNCHANGED <<peer, server, up, down>>

\* Its thread is joined before the socket is closed.
Join(c) == proc[c].phase = "join" /\ proc[c].thread = "done" /\ Gone(c, proc[c])

MainStep(c, arriving) ==
  \/ Connect(c) \/ ReceiveAck(c, arriving) \/ SendAll(c) \/ Top(c)
  \/ Wait(c, arriving) \/ Begin(c) \/ Finish(c) \/ Join(c)

-----------------------------------------------------------------------------
(* The task thread.                                                        *)

\* What faultline_task_execute may return.  The result of a task is the task
\* itself here, which tells the results of different tasks apart.
Outcomes(p) ==
  (IF p.assignment.value[1] \in Invalid THEN {"INVALID_ARGUMENT"} ELSE {"OK", "SYSTEM_ERROR"})
  \cup (IF p.cancel THEN {"CANCELLED"} ELSE {})

\* Mutant of Compute: the done flag is set before status and result are written.
ComputePublishesFirst(c) ==
  /\ proc[c].thread = "running"
  /\ Set(c, [proc[c] EXCEPT !.thread = "done"])
  /\ UNCHANGED <<peer, server, up, down>>

\* execute_task writes the status, and the result of a task that went well.
Compute(c) ==
  LET p == proc[c]
  IN /\ p.thread = "running"
     /\ \E status \in Outcomes(p) :
          Set(c, [p EXCEPT !.thread = "computed", !.status = status,
                           !.result = IF status = "OK" THEN p.assignment.value[1] ELSE @])
     /\ UNCHANGED <<peer, server, up, down>>

\* Then it sets the done flag and ends.
Publish(c) ==
  /\ proc[c].thread = "computed"
  /\ Set(c, [proc[c] EXCEPT !.thread = "done"])
  /\ UNCHANGED <<peer, server, up, down>>

-----------------------------------------------------------------------------
(* Signals and time.                                                       *)

RequestStop(c) ==
  /\ c \in Signalled /\ ~proc[c].stopping /\ proc[c].phase # "exited"
  /\ Set(c, [proc[c] EXCEPT !.stopping = TRUE])
  /\ UNCHANGED <<peer, server, up, down>>

\* SIGKILL, or the loss of the machine.
Kill(c) ==
  /\ c \in Signalled /\ proc[c].phase \notin {"start", "exited"}
  /\ Gone(c, [proc[c] EXCEPT !.reason = "killed"])

Left(time, d) == IF time > d THEN time - d ELSE 0

Aged(d) ==
  [c \in Workers |->
     [proc[c] EXCEPT !.timer = Left(@, d), !.beat = Left(@, d),
                     !.frame = IF @ < 0 THEN @ ELSE Left(@, d)]]

-----------------------------------------------------------------------------
WorkerInit == proc = [c \in Workers |-> NewProcess]

\* The report on its way tells what became of the task it names: a completion
\* carries the result of this very task, although status and result are
\* written by another thread and still hold the outcome of the one before; a
\* failure is reported only for a task that failed.
OutcomeReported ==
  \A c \in Workers :
    LET p == proc[c]
    IN p.phase = "send" /\ p.out.type \in {"JOB_COMPLETED", "JOB_FAILED"} =>
         /\ p.out.job_id = p.assignment.job_id /\ p.out.attempt = p.assignment.attempt
         /\ p.thread = "none"
         /\ IF p.out.type = "JOB_COMPLETED"
            THEN p.out.value = p.assignment.value /\ p.assignment.value[1] \notin Invalid
            ELSE p.status \notin {"NONE", "OK", "CANCELLED"}
=============================================================================
