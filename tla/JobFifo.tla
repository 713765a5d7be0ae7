------------------------------ MODULE JobFifo ------------------------------
(***************************************************************************)
(* What the pending queue promises: a bounded first-in first-out sequence  *)
(* of job ids without duplicates.  Module Scheduler uses this sequence,    *)
(* module JobQueue implements it with a ring buffer.                       *)
(***************************************************************************)
EXTENDS Naturals, Sequences

CONSTANTS
  JobIds,      \* the ids of jobs
  Capacity     \* how many fit

VARIABLES
  queue,       \* the ids, oldest first
  job_id       \* the id that the last peek or pop returned, 0 before

Init == queue = <<>> /\ job_id = 0

Push(id) ==
  /\ \A i \in DOMAIN queue : queue[i] # id
  /\ Len(queue) < Capacity
  /\ queue' = Append(queue, id)
  /\ UNCHANGED job_id

Peek ==
  /\ queue # <<>>
  /\ job_id' = Head(queue)
  /\ UNCHANGED queue

Pop ==
  /\ queue # <<>>
  /\ job_id' = Head(queue)
  /\ queue' = Tail(queue)

Next == (\E id \in JobIds : Push(id)) \/ Peek \/ Pop

Spec == Init /\ [][Next]_<<queue, job_id>>
=============================================================================
