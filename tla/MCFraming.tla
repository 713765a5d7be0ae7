----------------------------- MODULE MCFraming ------------------------------
(***************************************************************************)
(* Streams for module Framing: two frames, the first of which may have one *)
(* cell altered, and the same streams cut short.                           *)
(***************************************************************************)
EXTENDS Framing

Msg(type, values, data) ==
  [ type |-> type, data |-> data,
    fields |-> [f \in {Fields[type][i] : i \in DOMAIN Fields[type]} |->
                 values[CHOOSE i \in DOMAIN Fields[type] : Fields[type][i] = f]] ]

Item(type, values) ==
  [f \in {Entry[type][i] : i \in DOMAIN Entry[type]} |->
    values[CHOOSE i \in DOMAIN Entry[type] : Entry[type][i] = f]]

ToCoordinator ==
  { Msg("PING", <<>>, <<>>), Msg("STATS_REQUEST", <<>>, <<>>), Msg("HEARTBEAT", <<2>>, <<>>),
    Msg("JOB_STATUS_REQUEST", <<1>>, <<>>), Msg("JOB_SUBMIT", <<4, 0, 0>>, <<>>),
    Msg("JOB_SUBMIT", <<1, 2, 2>>, <<0, 7>>), Msg("JOB_STARTED", <<1, 1, 1>>, <<>>),
    Msg("JOB_COMPLETED", <<1, 2, 1, 1>>, <<4>>), Msg("JOB_FAILED", <<2, 1, 1, 1>>, <<>>) }

ToWorker ==
  { Msg("JOB_ASSIGN", <<1, 1, 1, 3, 0>>, <<>>), Msg("JOB_ASSIGN", <<2, 1, 2, 2, 2>>, <<7, 1>>) }

Acknowledgements ==
  { Msg("PONG", <<>>, <<>>), Msg("JOB_SUBMIT_ACK", <<1>>, <<>>),
    Msg("WORKER_REGISTER_ACK", <<2>>, <<>>) }

Answers ==
  { Msg("JOB_STATUS_RESPONSE", <<1, 1, 0, 0, 0, 1, 0, 0>>, <<>>),
    Msg("JOB_STATUS_RESPONSE", <<1, 1, 0, 1, 1, 1, 2, 0>>, <<>>),
    Msg("JOB_STATUS_RESPONSE", <<2, 4, 1, 1, 0, 1, 0, 1>>, <<5>>),
    Msg("JOB_STATUS_RESPONSE", <<2, 5, 1, 2, 1, 1, 1, 0>>, <<>>),
    Msg("JOB_STATUS_NOT_FOUND", <<3>>, <<>>), Msg("JOBS_RESPONSE", <<0>>, <<>>),
    Msg("JOBS_RESPONSE", <<2>>,
        << Item("JOBS_RESPONSE", <<1, 2, 4, 1, 1, 0, 0, 0, 1>>),
           Item("JOBS_RESPONSE", <<2, 1, 1, 0, 0, 0, 2, 0, 0>>) >>),
    Msg("WORKERS_RESPONSE", <<0, 3>>, <<>>),
    Msg("WORKERS_RESPONSE", <<2, 3>>,
        << Item("WORKERS_RESPONSE", <<1, 1, 0, 1, 1>>),
           Item("WORKERS_RESPONSE", <<2, 2, 4, 0, 0>>) >>) }

Values == 0..7

\* Lengths on both sides of a reader's buffer and of the largest payload.
Lengths == {BUFFER - HEADER, BUFFER - HEADER + 1, MAX_PAYLOAD, MAX_PAYLOAD + 1}

Altered(w) ==
  {w} \cup UNION {{[w EXCEPT ![i] = v] : v \in Values} : i \in DOMAIN w}
  \cup {[w EXCEPT ![4] = n] : n \in Lengths}

From(who, first, second) ==
  {[reader |-> who, cells |-> w] :
    w \in UNION {{a \o Encode(m) : a \in Altered(Encode(f))} : f \in first, m \in second}}

\* A cut anywhere in an unaltered frame.
Cut(who, first) ==
  {[reader |-> who, cells |-> w] :
    w \in UNION {{SubSeq(Encode(f), 1, n) : n \in 0..Len(Encode(f))} : f \in first}}

MCStreams ==
  From("coordinator", ToCoordinator, ToCoordinator) \cup Cut("coordinator", ToCoordinator)
  \cup From("worker", ToWorker, ToWorker) \cup Cut("worker", ToWorker)
  \cup From("ack", Acknowledgements, Acknowledgements) \cup Cut("ack", Acknowledgements)
  \cup From("query", Answers, Acknowledgements) \cup Cut("query", Answers)
=============================================================================
