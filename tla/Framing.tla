------------------------------ MODULE Framing -------------------------------
(***************************************************************************)
(* Reading frames from a stream of bytes that arrives in pieces: the       *)
(* coordinator (read_message), the worker's loop, the waits for an         *)
(* acknowledgement, and the client's queries.  The peer may send anything  *)
(* and may close its end anywhere.                                         *)
(***************************************************************************)
EXTENDS Codec

LOCAL INSTANCE SequencesExt

CONSTANTS
  BUFFER,               \* cells in a reader's buffer
  Streams               \* what may arrive on a connection, from which reader

ASSUME FramingConstants ==
  \A t \in DOMAIN Fields : BUFFER >= HEADER + Maximum(t)

VARIABLES
  reader,               \* who reads
  stream, taken,        \* all that the peer sends, and how much was received
  input, expected,      \* the frame being read, and the size to wait for
  handled,              \* the messages that were acted upon
  status

framingVars == <<reader, stream, taken, input, expected, handled, status>>

-----------------------------------------------------------------------------
\* The types a reader lets pass; the role of a connection (module Coordinator)
\* narrows the coordinator's set further.
Accepted(who) ==
  CASE who = "coordinator" ->
         {"PING", "WORKER_REGISTER", "HEARTBEAT", "JOB_SUBMIT", "JOB_STARTED", "JOB_COMPLETED",
          "JOB_FAILED", "JOB_STATUS_REQUEST", "JOBS_REQUEST", "WORKERS_REQUEST", "STATS_REQUEST"}
    [] who = "worker" -> {"JOB_ASSIGN"}
    [] who = "ack"    -> {"PONG", "JOB_SUBMIT_ACK", "WORKER_REGISTER_ACK"}
    [] who = "query"  -> {"JOB_STATUS_RESPONSE", "JOB_STATUS_NOT_FOUND", "JOBS_RESPONSE",
                          "WORKERS_RESPONSE"}

More(n) == [step |-> "MORE", expected |-> n]

Refuse == [step |-> "REFUSE", expected |-> 0]

Handle == [step |-> "HANDLE", expected |-> 0]

Complete(w) == IF Result(w) = "OK" THEN Handle ELSE Refuse

HeaderOf(who, w) == ValidHeader(w) /\ TypeOf(w) \in Accepted(who)

\* The rest of read_message after the bytes that were expected.
CoordinatorReads(w) ==
  IF Len(w) = HEADER /\ ~HeaderOf("coordinator", w) THEN Refuse
  ELSE IF Result(w) = "TOO_SMALL"
  THEN IF w[4] > BUFFER - HEADER THEN Refuse ELSE More(HEADER + w[4])
  ELSE Complete(w)

\* Mutant of WorkerReads: an assignment must bring an argument.
WorkerReadsLonger(w) ==
  IF Len(w) > HEADER THEN Complete(w)
  ELSE IF /\ HeaderOf("worker", w)
          /\ w[4] > Minimum("JOB_ASSIGN") /\ w[4] <= BUFFER - HEADER
  THEN More(HEADER + w[4]) ELSE Refuse

\* worker_loop
WorkerReads(w) ==
  IF Len(w) > HEADER THEN Complete(w)
  ELSE IF /\ HeaderOf("worker", w)
          /\ w[4] >= Minimum("JOB_ASSIGN") /\ w[4] <= BUFFER - HEADER
  THEN More(HEADER + w[4]) ELSE Refuse

\* run_ping, receive_submit_ack and receive_registration_ack
AckReads(w) ==
  IF Len(w) > HEADER THEN Complete(w)
  ELSE IF ~HeaderOf("ack", w) \/ w[4] # Minimum(TypeOf(w)) THEN Refuse
  ELSE IF w[4] = 0 THEN Handle ELSE More(HEADER + w[4])

\* Mutant of QueryReads: the length is taken from the header before the fixed
\* part was looked at, and once more after it.
QueryReadsRestTwice(w) ==
  IF Len(w) = HEADER
  THEN IF HeaderOf("query", w) /\ w[4] \in Minimum(TypeOf(w))..Maximum(TypeOf(w))
       THEN More(HEADER + Minimum(TypeOf(w))) ELSE Refuse
  ELSE IF Len(w) = HEADER + Minimum(TypeOf(w)) /\ Result(w) # "BAD"
  THEN More(HEADER + Minimum(TypeOf(w)) + w[4])
  ELSE Complete(w)

\* receive_query: the fixed part is decoded before the rest is read.
QueryReads(w) ==
  IF Len(w) = HEADER
  THEN IF HeaderOf("query", w) /\ w[4] \in Minimum(TypeOf(w))..Maximum(TypeOf(w))
       THEN More(HEADER + Minimum(TypeOf(w))) ELSE Refuse
  ELSE IF Len(w) = HEADER + Minimum(TypeOf(w)) /\ Result(w) = "TOO_SMALL"
  THEN More(HEADER + w[4])
  ELSE Complete(w)

Reads(w) ==
  CASE reader = "coordinator" -> CoordinatorReads(w)
    [] reader = "worker"      -> WorkerReads(w)
    [] reader = "ack"         -> AckReads(w)
    [] reader = "query"       -> QueryReads(w)

\* The worker compares magic and version as they arrive.
WrongStart(w) ==
  /\ reader = "worker"
  /\ w[1] # MAGIC \/ (Len(w) > 1 /\ w[2] # VERSION)

\* recv never asks for more than the frame still lacks.
Receive(n) ==
  LET w == input \o SubSeq(stream, taken + 1, taken + n)
      r == Reads(w)
  IN /\ status = "OPEN" /\ taken + n <= Len(stream) /\ Len(w) <= expected
     /\ taken' = taken + n
     /\ IF WrongStart(w) THEN /\ input' = w /\ status' = "REFUSED"
                              /\ UNCHANGED <<expected, handled>>
        ELSE IF Len(w) < expected THEN input' = w /\ UNCHANGED <<expected, handled, status>>
        ELSE CASE r.step = "MORE"   -> /\ input' = w /\ expected' = r.expected
                                       /\ UNCHANGED <<handled, status>>
               [] r.step = "REFUSE" -> /\ input' = w /\ status' = "REFUSED"
                                       /\ UNCHANGED <<expected, handled>>
               [] r.step = "HANDLE" -> /\ input' = <<>> /\ expected' = HEADER
                                       /\ handled' = Append(handled, Decoded(w))
                                       /\ status' = IF reader \in {"ack", "query"}
                                                    THEN "DONE" ELSE status
     /\ UNCHANGED <<reader, stream>>

EndOfStream ==
  /\ status = "OPEN" /\ taken = Len(stream)
  /\ status' = IF input = <<>> THEN "EOF" ELSE "TRUNCATED"
  /\ UNCHANGED <<reader, stream, taken, input, expected, handled>>

FramingInit ==
  /\ \E s \in Streams : reader = s.reader /\ stream = s.cells
  /\ taken = 0 /\ input = <<>> /\ expected = HEADER /\ handled = <<>> /\ status = "OPEN"

FramingNext == EndOfStream \/ \E n \in 1..BUFFER : Receive(n)

FramingSpec == FramingInit /\ [][FramingNext]_framingVars

-----------------------------------------------------------------------------
\* What is received is what was handled, then the frame being read, cell by
\* cell: a handled message encodes to exactly the bytes it was read from, and
\* no byte of the next frame is read with it.
StreamAccounted ==
  FlattenSeq([i \in DOMAIN handled |-> Encode(handled[i])]) \o input = SubSeq(stream, 1, taken)

\* However the bytes are cut, a reader refuses no frame that decoding it whole
\* would accept.
RefusalsDeserved ==
  status = "REFUSED" =>
    LET frame == input \o SubSeq(stream, taken + 1, Len(stream))
    IN Result(frame) # "OK" \/ TypeOf(frame) \notin Accepted(reader)

\* No reader waits for bytes after a complete frame: the peer waits for the
\* answer and would not send any.
NoWaitAfterFrame == status \in {"OPEN", "TRUNCATED"} => Result(input) # "OK"
=============================================================================
