---------------------------- MODULE WorkerIndex -----------------------------
(***************************************************************************)
(* The worker ids a replay has seen allocated (worker_index in             *)
(* src/src/coordinator/wal_replay.c): ranges of adjacent ids, searched by  *)
(* bisection.  Module WalReplay has the set of ids instead.                *)
(***************************************************************************)
EXTENDS Integers, Sequences

CONSTANT MAX_ID         \* UINT32_MAX

ASSUME IndexConstants == MAX_ID \in Nat \ {0}

VARIABLES
  ranges, highest,
  low, high, wanted,    \* of a search; wanted is 0 when there is none
  found,                \* the answer of the last search
  allocated             \* the ids that were allocated

indexVars == <<ranges, highest, low, high, wanted, found, allocated>>

-----------------------------------------------------------------------------
Last == ranges[Len(ranges)]

\* Mutant of AllocateWorker: a gap is closed.
AllocateClosesGaps(id) ==
  /\ wanted = 0 /\ id > highest
  /\ ranges' = IF ranges # <<>> /\ Last.last + 2 >= id
               THEN [ranges EXCEPT ![Len(ranges)].last = id]
               ELSE Append(ranges, [first |-> id, last |-> id])
  /\ highest' = id /\ allocated' = allocated \cup {id}
  /\ UNCHANGED <<low, high, wanted, found>>

\* allocate_worker; an id that is not above all others is an error.
AllocateWorker(id) ==
  /\ wanted = 0 /\ id > highest
  /\ ranges' = IF ranges # <<>> /\ Last.last + 1 = id
               THEN [ranges EXCEPT ![Len(ranges)].last = id]
               ELSE Append(ranges, [first |-> id, last |-> id])
  /\ highest' = id /\ allocated' = allocated \cup {id}
  /\ UNCHANGED <<low, high, wanted, found>>

\* worker_was_allocated: low and high count ranges, as in the code.
Search(id) ==
  /\ wanted = 0
  /\ wanted' = id /\ low' = 0 /\ high' = Len(ranges) /\ found' = "searching"
  /\ UNCHANGED <<ranges, highest, allocated>>

Bisect ==
  LET middle == low + (high - low) \div 2
      range  == ranges[middle + 1]
  IN /\ wanted # 0 /\ low < high
     /\ \/ /\ wanted < range.first /\ high' = middle
           /\ UNCHANGED <<low, wanted, found>>
        \/ /\ wanted > range.last /\ low' = middle + 1
           /\ UNCHANGED <<high, wanted, found>>
        \/ /\ wanted >= range.first /\ wanted <= range.last
           /\ found' = "yes" /\ UNCHANGED <<low, high, wanted>>
     /\ found = "searching"
     /\ UNCHANGED <<ranges, highest, allocated>>

NotFound ==
  /\ found = "searching" /\ low >= high
  /\ found' = "no"
  /\ UNCHANGED <<ranges, highest, low, high, wanted, allocated>>

\* The caller takes the answer.
Return ==
  /\ found \in {"yes", "no"}
  /\ wanted' = 0 /\ found' = "none"
  /\ UNCHANGED <<ranges, highest, low, high, allocated>>

IndexInit ==
  /\ ranges = <<>> /\ highest = 0 /\ low = 0 /\ high = 0 /\ wanted = 0
  /\ found = "none" /\ allocated = {}

IndexNext ==
  \/ Bisect \/ NotFound \/ Return
  \/ \E id \in 1..MAX_ID : AllocateWorker(id) \/ Search(id)

IndexSpec == IndexInit /\ [][IndexNext]_indexVars

-----------------------------------------------------------------------------
\* A search finds exactly the ids that were allocated, gaps between them
\* included, so replay may rely on the set.
SearchExact ==
  /\ found = "yes" => wanted \in allocated
  /\ found = "no" => wanted \notin allocated
=============================================================================
