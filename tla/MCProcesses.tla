----------------------------- MODULE MCProcesses -----------------------------
(***************************************************************************)
(* One worker process, or one run of the command line client, against a    *)
(* coordinator that may do anything: accept or not, read or not, send any  *)
(* frame in any order and in pieces, late or never, or close.  Time passes *)
(* only while the process waits for something, so that how long it waits   *)
(* can be measured.                                                        *)
(***************************************************************************)
EXTENDS Worker

CONSTANTS Clients, Tasks, MAX_JOB_ID

VARIABLES
  cli,
  who,          \* the process this behaviour is about
  arriving,     \* the coordinator has sent a part of a frame
  silent,       \* history: time since registration or the last heartbeat
  waited        \* history: time since the run of the client began

C == INSTANCE Client

vars == <<wvars, cli, who, arriving, silent, waited>>

Processes == Workers \cup Clients

\* The longest a running worker may be silent: a heartbeat falls due just after
\* an assignment was read, JOB_STARTED and the report each take as long as a
\* send may take, and so does the heartbeat.
LONGEST == HEARTBEAT_INTERVAL + 3 * IO_TIMEOUT

Offers ==
  {Message("WORKER_REGISTER_ACK", 1, 0, 0), Message("PONG", 0, 0, 0)}
  \cup {Carrying(Message("JOB_ASSIGN", w, 1, 1), <<t>>) : w \in 1..2, t \in Tasks}

Requests ==
  {Message(type, 0, 0, 0) : type \in {"PING"} \cup (Queries \ {"JOB_STATUS_REQUEST"})}
  \cup {Message("JOB_STATUS_REQUEST", 0, j, 0) : j \in 1..MAX_JOB_ID}
  \cup {Carrying(Message("JOB_SUBMIT", 0, 0, 0), <<"task", 0>>)}

Replies ==
  {Message(type, 0, 0, 0) :
     type \in {"PONG", "JOBS_RESPONSE", "WORKERS_RESPONSE", "STATS_RESPONSE"}}
  \cup {Message(type, 0, j, 0) : type \in {"JOB_SUBMIT_ACK", "JOB_STATUS_NOT_FOUND"},
                                 j \in 1..MAX_JOB_ID}
  \cup {Carrying(Message("JOB_STATUS_RESPONSE", 0, j, 0), <<"QUEUED", "empty">>) :
          j \in 1..MAX_JOB_ID}

MCInit ==
  /\ who \in Processes
  /\ WorkerInit /\ C!ClientInit
  /\ peer = [c \in Processes |-> "idle"] /\ server = [c \in Processes |-> "none"]
  /\ up = [c \in Processes |-> <<>>] /\ down = [c \in Processes |-> <<>>]
  /\ arriving = FALSE /\ silent = 0 /\ waited = 0

-----------------------------------------------------------------------------
InLoop(p) == p.phase \in {"top", "wait", "send", "begin"} /\ p.worker_id # 0

\* A heartbeat was handed over, or registration finished.
Heard(c) == proc'[c].beat > proc[c].beat

Main ==
  /\ who \in Workers /\ MainStep(who, arriving)
  /\ silent' = IF Heard(who) \/ ~InLoop(proc'[who]) THEN 0 ELSE silent
  /\ UNCHANGED <<cli, who, arriving, waited>>

\* What is not the worker's.
Apart == <<cli, who, arriving, silent, waited>>

TaskThread == who \in Workers /\ (Compute(who) \/ Publish(who)) /\ UNCHANGED Apart

Fault ==
  /\ who \in Workers
  /\ ConnectFails(who) \/ SystemFails(who) \/ RequestStop(who) \/ Kill(who)
  /\ UNCHANGED Apart

RunClient ==
  /\ who \in Clients
  /\ (\E m \in Requests : C!Start(who, m)) \/ C!Step(who, arriving)
  /\ UNCHANGED <<proc, who, arriving, silent, waited>>

ClientFault ==
  /\ who \in Clients
  /\ C!ConnectFails(who) \/ C!SystemFails(who)
  /\ UNCHANGED <<proc, who, arriving, silent, waited>>

-----------------------------------------------------------------------------
Read ==
  up[who] # <<>> /\ up' = [up EXCEPT ![who] = Tail(@)] /\ UNCHANGED <<server, down>>

Offer ==
  /\ server[who] = "open" /\ Len(down[who]) < BUFFER
  /\ \E m \in (IF who \in Workers THEN Offers ELSE Replies) :
       down' = [down EXCEPT ![who] = Append(@, m)]
  /\ UNCHANGED <<server, up>>

Change(from, to) ==
  server[who] \in from /\ server' = [server EXCEPT ![who] = to] /\ UNCHANGED <<up, down>>

Environment ==
  /\ peer[who] = "open"
  /\ \/ /\ Read \/ Offer \/ Change({"backlog"}, "open") \/ Change({"backlog", "open"}, "closed")
        /\ arriving' = FALSE
     \/ /\ server[who] = "open" /\ ~arriving
        /\ arriving' = TRUE /\ UNCHANGED <<server, up, down>>
  /\ UNCHANGED <<proc, cli, who, peer, silent, waited>>

\* A process does not wait while it has a step to take.
Ready == IF who \in Workers THEN ENABLED (MainStep(who, arriving))
         ELSE ENABLED (C!Step(who, arriving))

Waiting == who \in Clients /\ cli[who].phase \in {"send", "receive"}

Tick ==
  /\ ~Ready
  /\ proc' = Aged(1) /\ cli' = C!Aged(1)
  /\ silent' = IF who \in Workers /\ InLoop(proc[who]) /\ silent <= LONGEST
               THEN silent + 1 ELSE silent
  /\ waited' = IF Waiting /\ waited <= 3 * IO_TIMEOUT THEN waited + 1 ELSE waited
  /\ UNCHANGED <<who, peer, server, up, down, arriving>>

MCNext == Main \/ TaskThread \/ Fault \/ RunClient \/ ClientFault \/ Environment \/ Tick

\* The process runs, and a task stops once it is cancelled; one that is not
\* cancelled may take for ever.  The coordinator need not do anything.
MCSpec ==
  /\ MCInit /\ [][MCNext]_vars
  /\ WF_vars(Tick) /\ WF_vars(Main) /\ WF_vars(RunClient)
  /\ WF_vars(who \in Workers /\ proc[who].cancel /\ Compute(who) /\ UNCHANGED Apart)
  /\ WF_vars(who \in Workers /\ Publish(who) /\ UNCHANGED Apart)

-----------------------------------------------------------------------------
\* "Input traffic and partial assignments never postpone heartbeats": whatever
\* the coordinator sends, a running worker is silent for at most the interval
\* and the three sends that can stand before a heartbeat; a connection that
\* takes longer is given up.
HeartbeatsBounded == \A c \in Workers : InLoop(proc[c]) => silent <= LONGEST

\* A worker that is asked to stop exits: no wait is endless, and its task is
\* cancelled before it is joined.
StopsWhenAsked == \A c \in Workers : proc[c].stopping ~> (proc[c].phase = "exited")

\* "All pieces of the response share one deadline": a run of the client takes
\* no longer than one deadline for its request and one for the reply, whatever
\* arrives when.
RunsBounded ==
  \A c \in Clients : cli[c].phase \in {"send", "receive"} => waited <= 2 * IO_TIMEOUT
=============================================================================
