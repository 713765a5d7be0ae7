------------------------------- MODULE Client -------------------------------
(***************************************************************************)
(* The command line client (src/src/cli/main.c): one run sends one request *)
(* and waits for its reply under one deadline.  It never repeats a         *)
(* request.  The connections are those of module Worker and Coordinator.   *)
(***************************************************************************)
EXTENDS Protocol

CONSTANTS
  Clients,              \* runs of the program
  IO_TIMEOUT,
  BUFFER                \* frames a connection holds in one direction (bound)

VARIABLES
  cli,                  \* the runs
  peer, server,         \* both ends of their connections
  up, down              \* frames on their way to the coordinator and back

-----------------------------------------------------------------------------
\* code is the exit status, reply what was printed with status 0 or 2.
NewRun ==
  [ phase |-> "start", request |-> NoMessage, timer |-> 0, received |-> "nothing",
    code |-> -1, reply |-> NoMessage ]

Set(c, r) == cli' = [cli EXCEPT ![c] = r]

Connected(c) == server[c] \in {"backlog", "open"}

\* The replies that answer a request; the others end the run with an error.
Answers(request) ==
  CASE request.type = "PING"               -> {"PONG"}
    [] request.type = "JOB_SUBMIT"         -> {"JOB_SUBMIT_ACK"}
    [] request.type = "JOB_STATUS_REQUEST" -> {"JOB_STATUS_RESPONSE", "JOB_STATUS_NOT_FOUND"}
    [] request.type = "JOBS_REQUEST"       -> {"JOBS_RESPONSE"}
    [] request.type = "WORKERS_REQUEST"    -> {"WORKERS_RESPONSE"}
    [] request.type = "STATS_REQUEST"      -> {"STATS_RESPONSE"}

Exit(c, code, reply) ==
  /\ Set(c, [NewRun EXCEPT !.phase = "exited", !.request = cli[c].request,
                           !.code = code, !.reply = reply])
  /\ peer' = [peer EXCEPT ![c] = "closed"]
  /\ down' = [down EXCEPT ![c] = <<>>]
  /\ UNCHANGED <<server, up>>

Start(c, request) ==
  /\ cli[c].phase = "start" /\ peer[c] = "idle"
  /\ Set(c, [cli[c] EXCEPT !.phase = "send", !.request = request, !.timer = IO_TIMEOUT])
  /\ peer' = [peer EXCEPT ![c] = "open"]
  /\ server' = [server EXCEPT ![c] = "backlog"]
  /\ UNCHANGED <<up, down>>

ConnectFails(c) ==
  /\ cli[c].phase = "start"
  /\ Set(c, [cli[c] EXCEPT !.phase = "exited", !.code = 1])
  /\ UNCHANGED <<peer, server, up, down>>

\* The clock cannot be read, or the socket fails.
SystemFails(c) == cli[c].phase \in {"send", "receive"} /\ Exit(c, 1, NoMessage)

\* faultline_send_all; the deadline of the reply starts when it is done.
Send(c) ==
  LET r == cli[c]
  IN /\ r.phase = "send"
     /\ \/ /\ r.timer > 0 /\ (Connected(c) => Len(up[c]) < BUFFER)
           /\ up' = IF Connected(c) THEN [up EXCEPT ![c] = Append(@, r.request)] ELSE up
           /\ Set(c, [r EXCEPT !.phase = "receive", !.timer = IO_TIMEOUT])
           /\ UNCHANGED <<peer, server, down>>
        \/ (r.timer = 0 \/ ~Connected(c)) /\ Exit(c, 1, NoMessage)

\* The exit status for a complete reply.
Code(request, m) ==
  IF request.type = "JOB_STATUS_REQUEST" /\ m.job_id # request.job_id THEN 1
  ELSE IF m.type = "JOB_STATUS_NOT_FOUND" THEN 2 ELSE 0

\* A step of the wait for a reply of which bytes were received.
Piece(c, received) ==
  /\ Set(c, [cli[c] EXCEPT !.received = received])
  /\ UNCHANGED <<peer, server, up, down>>

\* Mutant of Receive: the payload is waited for without a deadline.
ReceiveUntimed(c, arriving) ==
  LET r == cli[c]
      m == Head(down[c])
  IN /\ r.phase = "receive"
     /\ IF r.timer = 0 /\ r.received # "header" THEN Exit(c, 1, NoMessage)
        ELSE \/ ~Connected(c) /\ Exit(c, 1, NoMessage)
             \/ arriving /\ r.received = "nothing" /\ Piece(c, "part")
             \/ arriving /\ r.received = "part" /\ Piece(c, "header")
             \/ /\ down[c] # <<>>
                /\ IF m.type \in Answers(r.request) /\ Code(r.request, m) # 1
                   THEN Exit(c, Code(r.request, m), m)
                   ELSE Exit(c, 1, NoMessage)

\* receive_submit_ack, receive_query and the wait for PONG: header, fixed part
\* and the rest come in pieces that share one deadline.
Receive(c, arriving) ==
  LET r == cli[c]
      m == Head(down[c])
  IN /\ r.phase = "receive"
     /\ IF r.timer = 0 THEN Exit(c, 1, NoMessage)
        ELSE \/ ~Connected(c) /\ Exit(c, 1, NoMessage)
             \/ arriving /\ r.received = "nothing" /\ Piece(c, "part")
             \/ arriving /\ r.received = "part" /\ Piece(c, "header")
             \/ /\ down[c] # <<>>
                /\ IF m.type \in Answers(r.request) /\ Code(r.request, m) # 1
                   THEN Exit(c, Code(r.request, m), m)
                   ELSE Exit(c, 1, NoMessage)

Step(c, arriving) == Send(c) \/ Receive(c, arriving)

Left(time, d) == IF time > d THEN time - d ELSE 0

Aged(d) == [c \in Clients |-> [cli[c] EXCEPT !.timer = Left(@, d)]]

ClientInit == cli = [c \in Clients |-> NewRun]
=============================================================================
