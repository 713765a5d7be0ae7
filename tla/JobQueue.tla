------------------------------ MODULE JobQueue ------------------------------
(***************************************************************************)
(* The pending queue of the scheduler as job_queue.c stores it: a fixed    *)
(* array used as a ring, the position of the oldest entry and the number   *)
(* of entries.  A rejected call changes nothing and is no step.            *)
(***************************************************************************)
EXTENDS Job, Sequences

CONSTANTS
  JOB_QUEUE_CAPACITY,   \* slots of the ring
  JobIds                \* nonzero job ids

ASSUME QueueConstants ==
  JOB_QUEUE_CAPACITY \in Nat \ {0} /\ JobIds \subseteq Nat \ {0}

VARIABLES
  ids,      \* the array
  head,     \* position of the oldest entry
  count,    \* number of entries
  job_id    \* output of the last successful peek or pop

vars == <<ids, head, count, job_id>>

Positions == 0..JOB_QUEUE_CAPACITY - 1

Init ==
  /\ ids = [p \in Positions |-> 0]
  /\ head = 0 /\ count = 0 /\ job_id = 0

\* The position of the i-th entry, the oldest being entry 0.
Position(i) == (head + i) % JOB_QUEUE_CAPACITY

\* Mutant of Push: the tail ignores where the ring starts.
PushFromZero(job) ==
  /\ job.id # 0
  /\ job.state = "QUEUED" /\ job.worker_id = 0
  /\ \A i \in 0..count - 1 : ids[Position(i)] # job.id
  /\ count # JOB_QUEUE_CAPACITY
  /\ ids' = [ids EXCEPT ![count] = job.id]
  /\ count' = count + 1
  /\ UNCHANGED <<head, job_id>>

\* INVALID_ARGUMENT, INVALID_STATE, DUPLICATE and FULL are the failures.
Push(job) ==
  /\ job.id # 0
  /\ job.state = "QUEUED" /\ job.worker_id = 0
  /\ \A i \in 0..count - 1 : ids[Position(i)] # job.id
  /\ count # JOB_QUEUE_CAPACITY
  /\ ids' = [ids EXCEPT ![Position(count)] = job.id]
  /\ count' = count + 1
  /\ UNCHANGED <<head, job_id>>

Peek ==
  /\ count # 0
  /\ job_id' = ids[head]
  /\ UNCHANGED <<ids, head, count>>

Pop ==
  /\ count # 0
  /\ job_id' = ids[head]
  /\ ids' = [ids EXCEPT ![head] = 0]
  /\ head' = (head + 1) % JOB_QUEUE_CAPACITY
  /\ count' = count - 1

\* The fields of a job that a push looks at.
Jobs == [id : JobIds \cup {0}, state : JobStates, worker_id : {0, 1}]

Next == (\E job \in Jobs : Push(job)) \/ Peek \/ Pop

Spec == Init /\ [][Next]_vars

-----------------------------------------------------------------------------
\* The ring stays within its array.
TypeOK ==
  /\ ids \in [Positions -> JobIds \cup {0}]
  /\ head \in Positions /\ count \in 0..JOB_QUEUE_CAPACITY
  /\ job_id \in JobIds \cup {0}

\* The entries, oldest first.
Contents == [i \in 1..count |-> ids[Position(i - 1)]]

Fifo == INSTANCE JobFifo
          WITH queue <- Contents, Capacity <- JOB_QUEUE_CAPACITY

\* Through any number of wraps of the ring, push, peek and pop behave as on a
\* bounded sequence without duplicates: entries leave in insertion order, a
\* full ring rejects without overwriting, peek and pop return the oldest.
ImplementsFifo == Fifo!Spec

\* Every entry is the id of a job and every position without an entry is
\* clear, so that a pop never returns the cleared value 0 and no popped id is
\* left where a later scan could find it.
EntriesAreJobs ==
  \A i \in 0..JOB_QUEUE_CAPACITY - 1 : ids[Position(i)] = 0 <=> i >= count
=============================================================================
