--------------------------- MODULE WorkerRegistry ---------------------------
(***************************************************************************)
(* The worker registry (src/src/coordinator/worker_registry.c): a fixed    *)
(* array of worker records and an id allocator that never goes back.  A    *)
(* registry is a value                                                     *)
(*    [slots |-> <<worker, ...>>, next_worker_id |-> n]                    *)
(* so that the durable store can prepare a registration on a copy.         *)
(***************************************************************************)
EXTENDS Integers

CONSTANTS
  MAX_WORKERS,     \* slots of the registry
  MAX_WORKER_ID    \* UINT32_MAX: the id after which the allocator stops

ASSUME RegistryConstants ==
  /\ MAX_WORKERS \in Nat \ {0}
  /\ MAX_WORKER_ID \in Nat \ {0}

WorkerStates == {"UNUSED", "ALIVE", "DEAD"}

RegistryInit ==
  [ slots |-> [i \in 1..MAX_WORKERS |->
                 [id |-> 0, fd |-> -1, state |-> "UNUSED", last_heartbeat |-> 0]],
    next_worker_id |-> 1 ]

\* The slots of worker id; a slot never used holds nobody.
RecordSlots(r, id) ==
  {i \in 1..MAX_WORKERS : r.slots[i].state # "UNUSED" /\ r.slots[i].id = id}

\* The record a lookup finds: the first of them.
RecordSlot(r, id) ==
  CHOOSE i \in RecordSlots(r, id) : \A k \in RecordSlots(r, id) : i <= k

Alive(r, id) ==
  id # 0 /\ RecordSlots(r, id) # {} /\ r.slots[RecordSlot(r, id)].state = "ALIVE"

\* find_live_connection: the identity is live and still owns this descriptor.
LiveConnection(r, id, fd) ==
  Alive(r, id) /\ r.slots[RecordSlot(r, id)].fd = fd

FreeSlots(r) == {i \in 1..MAX_WORKERS : r.slots[i].state # "ALIVE"}

\* ALREADY_REGISTERED, FULL and ID_EXHAUSTED are the ways this fails.
RegisterOK(r, fd, now) ==
  /\ fd >= 0 /\ now >= 0
  /\ \A i \in 1..MAX_WORKERS : ~(r.slots[i].state = "ALIVE" /\ r.slots[i].fd = fd)
  /\ FreeSlots(r) # {}
  /\ r.next_worker_id # 0

\* The new record takes the first slot that holds no live worker.
Register(r, fd, now) ==
  LET slot == CHOOSE i \in FreeSlots(r) : \A k \in FreeSlots(r) : i <= k
      id   == r.next_worker_id
  IN  [ slots |-> [r.slots EXCEPT ![slot] =
                     [id |-> id, fd |-> fd, state |-> "ALIVE", last_heartbeat |-> now]],
        next_worker_id |-> IF id = MAX_WORKER_ID THEN 0 ELSE id + 1 ]

\* faultline_worker_timed_out, for a record of the registry.
TimedOut(worker, now, timeout) ==
  /\ worker.state = "ALIVE"
  /\ timeout > 0 /\ worker.last_heartbeat >= 0
  /\ now >= worker.last_heartbeat
  /\ now - worker.last_heartbeat >= timeout

HeartbeatOK(r, id, fd, now) ==
  /\ now >= 0
  /\ LiveConnection(r, id, fd)
  /\ now >= r.slots[RecordSlot(r, id)].last_heartbeat

Heartbeat(r, id, now) ==
  [r EXCEPT !.slots[RecordSlot(r, id)].last_heartbeat = now]

\* Death of a live connection: the slot becomes reusable, its id does not.
MarkDead(r, id, fd) ==
  IF LiveConnection(r, id, fd)
  THEN [r EXCEPT !.slots[RecordSlot(r, id)].state = "DEAD",
                 !.slots[RecordSlot(r, id)].fd = -1]
  ELSE r
=============================================================================
