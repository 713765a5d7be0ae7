# Faultline: verification project

Faultline is a fault-tolerant job engine in C: one coordinator with a
write-ahead log, workers that run tasks, and a command line client. This
directory holds TLA+ models of the three programs and of their composition, TLC
configurations that model-check them on small instances, and TLAPS proofs, for
every instance, of the durable store's safety, of its refinement of an atomic
store, of the safety of the coordinator's event loop, of what the coordinator
and its processes promise together, and of the algorithms.
`PROJECT.json` lists the runs, the source lines behind each definition, the
hazards and the theorems.

## The system

| Part | Source | Modules |
| --- | --- | --- |
| job state machine | `coordinator/job.c` | `Job` |
| pending queue (ring buffer) | `coordinator/job_queue.c` | `JobQueue`, `JobFifo` |
| scheduler | `coordinator/scheduler.c` | `Scheduler`, `JobTable` |
| worker registry | `coordinator/worker_registry.c` | `WorkerRegistry`, `JobTable` |
| WAL record validity | `coordinator/wal_format.c` | `WalFormat` |
| WAL replay | `coordinator/wal_replay.c` | `WalReplay`, `CoordinatorStore`, `WorkerIndex` |
| WAL writer | `coordinator/wal_writer.c` | `CoordinatorStore` |
| durable store | `coordinator/coordinator_store.c` | `CoordinatorStore`, `StoreInvariant`, `AtomicStore`, `StoreRefinement` |
| event loop | `coordinator/main.c` | `CoordinatorHandlers`, `Coordinator`, `CoordinatorInvariant`, `LoopEffects`, `Cluster` |
| statistics and listings | `coordinator/coordinator_stats.c`, `coordinator/main.c` | `Inspection`, `InspectedStore`, `LatencyMean` |
| worker process | `worker/main.c` | `Worker`, `Cluster`, `ClusterInvariant` |
| tasks | `worker/task.c` | `Task`, `Decimal` |
| client | `cli/main.c` | `Client`, `Cluster`, `ClusterInvariant`, `Decimal` |
| wire protocol | `common/protocol.c` | `Protocol`, `Codec`, `Framing` |
| sockets, number parsing | `common/net.c` | `Worker`, `Client`, `Decimal` |
| logging | `common/log.c` | not modelled |

The coordinator is single-threaded. Its loop polls, serves the client slots in
order, accepts connections, and gives pending jobs to idle workers. Every change
of jobs or identities goes through the durable store, which prepares it on a
scratch copy, appends and syncs a record, and only then publishes it. After a
stop, the log is replayed and attempts that were active are committed as lost.
Workers hold leases that heartbeats renew. A worker has two threads: its loop,
which talks to the coordinator, and one that executes a task; they share a done
flag and a cancel flag. The client sends one request per run.

## How the models are built

**Values.** `Job`, `Scheduler`, `WorkerRegistry`, `WalFormat` and `WalReplay`
are operators on values (a job, a scheduler, a registry, a record, a replay
state), because the code copies these structures: `store->scratch`, the replay
candidate. `XOK` is the condition under which operation `X` succeeds, and `X`
its result. Task text, results and bytes are model values. Capacities and the
largest identifiers are constants, so exhaustion is reached in small instances.
`JobTable` has the types of the tables and what makes them consistent, which
both models of the coordinator share.

**`CoordinatorStore`** has the file (complete records, how many are synced, a
torn tail, a partial header), the process, and each store operation as an
action. A commit is two steps, `AppendRecord` inside the operation and
`SyncRecord`/`SyncFails`; `Stop` is possible between any two steps, keeps any
number of unsynced records, and may leave a torn one. A start is `CreateWal` or
`OpenWal`, one `ReplayRecord` per record, `FinishReplay` (repair and sync), and
one `RecoverSlot` per job. The history variables `shadow` (the state each record
stands for) and `exposed` (records whose effects were shown to anyone) serve the
properties only. A rejected request changes nothing and is no step; a check that
the code answers with an INTERNAL failure is a branch that latches it. Memory
and lock failures of replay are part of `ReplayFails`. `CloseClient` may happen
after a latched failure, which is more than the loop allows: after a fatal
handler its inactivity check cannot fire in the same visit, since the handler's
own read was progress.

**`Coordinator`** opens up the event loop instead, with the message handlers in
`CoordinatorHandlers`, and keeps a commit as one step that publishes or fails; what `Restart` finds is what `CoordinatorStore`
justifies. One step is one client slot, because the code reads the clock once
per slot and peers and time move in between. A step carries the values it has
prepared in a record (`Here`, `Settle`), which mirrors how the C functions change
the client and the store in turn. A frame is a message whose header may come in
two pieces, followed by its payload. `Accept` gives out the lowest free
descriptor, so descriptors are reused at once. Time is relative: the clock
always reads `NOW`, and `Tick`, or a commit that takes `d`, moves recorded times
into the past; times of jobs are 0 here, since `CoordinatorStore` has them. The
fields `since`, and the variable `dispatched`, are history.

Peers are arbitrary: they connect, send any message of the types of the run with
any identities, stall in the middle of a frame, do not read, close or reset.
They act while the loop is in `poll`: what a peer does later is either unnoticed
before the next poll or looks as if it had happened before this one. Not
modelled: an operation that poll reported ready and that returns `EAGAIN`, and a
persistent failure of `accept`.

**`Worker` and `Client`** are the other two programs, one record per process.
Deadlines are the time that is left. A send either finds room in the
connection's buffer or waits until its deadline; an arriving frame may be seen
as a first piece, then whole. `Compute` and `Publish` are the task thread: the
status is decided before the done flag is set. A clock or a socket that fails
is `SystemFails`. `MCProcesses` puts one process of either kind against a
coordinator that may do anything.

**`Cluster`** is `Coordinator` with real processes instead of arbitrary peers:
`Worker` and `Client` are instantiated on the coordinator's own connection
variables. Processes act between any two steps of the loop, so here the
abstraction that peers act during `poll` only is not made, except in the run
named below. Arbitrary peers may take part too. The history `ran` has the attempts that were really executed,
and `told` what had been printed when a client started.

**`Inspection`** has the replies to status, listing and statistics requests as
operators, with the checks that the statistics and the encoder make on them;
`InspectedStore` adds the statistics session to `CoordinatorStore`, so that they
are evaluated in every state in which the store can be asked.

**`Codec` and `Framing`.** A field of a frame is one cell, so byte order is not
modelled, and a frame is a sequence of cells that arrives in pieces. `Codec`
encodes, decodes and validates; `Framing` has the four places that read frames.
Its readers of acknowledgements and of query replies stand for the functions
that share their shape; which reply a request or a registration accepts is
checked in `Client` and `Worker`. Altered lengths include those just within and
just beyond a reader's buffer and the largest payload.

**Algorithms.** `Decimal` (the three ways of refusing a number that is too
large), `LatencyMean` (a mean whose sum does not fit in a word), `WorkerIndex`
(replay's list of ranges and its bisection) and `Task` (sleep, prime count,
Fibonacci, cancellation) go step by step and are compared with a definition of
what they should compute.

**`AtomicStore`** is what the store promises: operations that happen at once, at
most one that nobody has been told of, a crash that may lose that one, and a
restart in which every active attempt is lost together. `StoreRefinement` maps
the visible view to that of the last exposed record and the operation in flight
to the first record after it.

## Runs

Some runs hold several instances side by side. A variable that is chosen at the
start and never changes says which one a behaviour belongs to: `script` (the
message types the peers send) in `MCCoordinator`, `who` (the processes and peers
that take part) in `Cluster`, `who` (the process) in `MCProcesses` and `part` in
`MCAlgorithms`. The others stay in their initial state, so that the states of a
run are the sum and not the product of its instances.

| Run | Question | Instance | States |
| --- | --- | --- | --- |
| `store` | is exposed state durable, does replay agree with the live store, does nothing get written after a failure, does a start settle | 2 jobs, 3 job ids, 2 workers, 6 records | 237,669 |
| `store_recovery` | are two interrupted attempts charged once each, in order, when recovery is itself interrupted, and is the store atomic | 2 jobs, 2 workers, 8 records, clock at 0 | 1.4 million |
| `store_retries` | attempts and identities over the life of a log | 1 job, 4 worker ids, 9 records | 108,392 |
| `inspection` | is no query refused by a check on its way out, do the counters agree with the log, do clocks fail only for a cause | 1 job, 3 worker ids in 2 slots, 6 records, clock to 1, time to 2 | 799,587 |
| `loop_dispatch` | do registry, slots, assignments and replies stay consistent, does a late, repeated or early report count | 2 peers, 1 job with a retry, 2 worker ids | 3.5 million |
| `loop_peers` | are leases respected under buffered input and slow commits, are acknowledged submissions kept | 2 peers that are workers, or clients with every kind of request; lease 2, commits of 0 or 1, 1 restart | 5.1 million |
| `loop_inactivity` | is inactivity measured as documented (violated) | 3 peers, 2 slots | - |
| `liveness` | do expired workers die, lost peers get closed, attempts settle, jobs get done | 2 peers; or 1 worker process and 1 job with a retry; lease 2 | 173,232 |
| `cluster` | do both ends agree, is a submission whose reply is lost or late done once | 1 worker and 2 jobs, or 2 clients; commits of 0 or 1, 1 restart | 2.9 million |
| `cluster_two` | attempts that move between workers, their outcomes, and answers that must agree over a restart | 2 workers that share 1 slot and 1 job with a retry, or 1 worker, 2 clients and 1 job; 1 restart | 2.0 million |
| `processes` | are reports those of the task, are heartbeats not starved, does a signalled worker exit, is a client's run bounded | 1 worker with 3 tasks, one invalid; or 1 run of any command | 1.3 million |
| `algorithms` | ring, parsers, mean, index, tasks and frame readers against what they should compute | 3 slots and 4 ids; limits up to 255 and texts of 4; words of 5 bits and 5 jobs; 9 ids; words of 8 bits and all arguments to the limit + 1; two frames, one cell of the first altered, or a frame cut short | 249,731 |

Bounds. Six records hold a registration, a submission, an assignment and either
a report and a second job or a loss and a requeue; eight hold both jobs active
and both losses; nine hold a job's full two attempts with registrations between
restarts. Three sessions of a clock that reaches 1 exceed a time of 2.
Identifier and sequence limits are small so that each allocator runs out. Two
client slots are enough for one connection to age while another is served, for
descriptor reuse, and for a last slot before `accept`. In the runs with a
coordinator it may stop for good once its restarts are used up, and processes
end, so deadlock is not checked there. Symmetry over connections is used where
no liveness property is checked.

In the cluster runs a lease of one or two ticks against a heartbeat interval of
one lets a lease run out while a frame is under way. In `cluster_two` the second
worker gets the only slot once the first is dropped, while the first may still
execute its attempt: that is the case the run is for; two workers connected at
once are left to `loop_dispatch` and `loop_peers`. This run reduces the
interleavings: processes and time move between iterations of the loop only,
clients run one after the other and a worker's own steps take no time. The clock
of `store_recovery` stands still; the proofs have no such limit.

Fairness. `store` assumes weak fairness of the startup steps: the process runs
`faultline_store_open` without waiting for anybody. `liveness` assumes weak
fairness of the loop's steps, since poll waits at most a second and no handler
blocks on a peer, and that a loop stopped by a failure ends the process.
Arbitrary peers are not fair, and where only they take part neither is time: an
expired or lost peer is dealt with by the loop alone. With a worker, `liveness`
assumes that the worker and its tasks run and that time passes, but only when
the worker has no step to take (`PromptTime`): the loop of a worker takes little
time against the heartbeat interval. Without that a worker could lose every
lease before it did anything. Stops, kills, failures and restarts are never
fair.

`processes` assumes that the process runs, that time passes, that a task which
has been cancelled returns (`CancelNoticed` of `algorithms` is about that) and
that its thread then sets the done flag; a task that is not cancelled may run
for ever, and the coordinator owes nobody anything.

### What disagrees with the documentation

`loop_inactivity`: `docs/networking.md` says that the inactivity limit is
"measured since acceptance or the last successful read/write".
`accept_clients` (`main.c:673`) gets the clock reading that the loop took before
it served the last slot. If that slot held a commit, its duration counts against
the new client. It takes an occupied last slot, a free one, and a slow sync.

## What is proved

All proofs are for arbitrary constants under the named assumptions
`SchedulerConstants`, `RegistryConstants`, `TableConstants`, `StoreConstants`,
`CoordinatorConstants`, `ClusterConstants` and the one of `JobQueue`, `Decimal`,
`LatencyMean` and `WorkerIndex`; TLC evaluates them in the runs.

`StoreCorrect` shows that `StoreInv` (module `StoreInvariant`) is an invariant
of `CoordinatorStore`. The properties are not inductive alone: that replay
accepts a file depends on every record having been acceptable when it was
written. `StoreInv` therefore says of every position of the log that replay
turns the recorded state before it into the recorded state after it
(`HistoryInv`), that the process holds the state of the last record when nothing
is in progress and the staged one when a commit is (`LiveInv`), that a replay in
progress holds the state of the last record it read (`ReplayInv`), and that
logical time never runs behind the table (`ClockInv`). The steps:

- `SchedulerProofs`: each job operation keeps a job valid under the rules of the
  record it is written with; each scheduler operation keeps the table dense, the
  queue equal to the QUEUED jobs, and owners unique; recovery leaves no attempt
  active; each registry operation keeps identities unique.
- `StoreProofs`: replay accepts the record of each operation in the state
  before it and computes the state after it; with that one lemma per action,
  combined in `StoreCorrect`. From it
  follow `TypeCorrect`, `DurabilityCorrect`, `ReplayCorrect`, `RestartCorrect`,
  `ChecksRedundant`, `QueueCorrect`, `OwnersCorrect`, `ClockCorrect` and the
  action property `FailureIsFinal`.

`HistoryProofs` proves what relates records that are far apart. A step leaves
the log alone, appends one record or cuts off its end, so it is enough that
every view remembers the records before it (`MemoryInv`) and that its counters
are numbers of records (`CountInv`). From these follow `IdentitiesCorrect`,
`TerminalCorrect` and `AttemptsCorrect`. `RecoveryCorrect` compares the table
with the replayed one slot by slot (`RecoveryInv`).

`HistoryProofs` also proves `StoreIsAtomic`, that `CoordinatorStore` implements
`AtomicStore`. Every record is one operation of the atomic store
(`RecordIsOperation`). Every step serves, reconciles, publishes, opens the
store, cuts off the end of the file, or changes nothing visible (`StepShapes`).
What remains is a start, which exposes several records at once. `HiddenInv` says that all records behind the first one
not exposed were written by reconciliations, possibly several that were
interrupted, so that together they are one loss of all active attempts.
`JobsAreReportable` shows that every published job passes the checks on status
replies and those of the statistics on the job table.

`HandlerProofs` and `CoordinatorProofs` prove `CoordinatorSafety`, that
`CoordinatorInv` (module `CoordinatorInvariant`) is an invariant of
`Coordinator`, for every number of slots, connections, workers and jobs and for
peers that send anything. None of the properties is inductive alone. That an
active attempt has its assignment under way, for instance, needs that the owner
of an attempt is a live record of the registry, that live records and registered
slots name each other, that no two slots share a descriptor, and that a slot
which is being read has nothing to send, so that `schedule_jobs` overwrites
nothing. `CoordinatorInv` therefore speaks about the job table, the registry,
the client slots, the frames that wait, the acknowledgements, the leases, and
the change that a failed commit may have written. Its main part, `StateOK`, is a
predicate on the values a step passes along: a handler may commit, queue a
reply, meet a clock error and close the connection in one step, so the lemmas of
`HandlerProofs` (one per handler, and `CloseStep`, `QueueStep`, `PublishedStep`,
`FailedStep` below them) are about these values, and `CoordinatorProofs` has one
lemma per step of the loop. From the invariant follow `ConnectionsAlwaysAgree`,
`AssignmentsStayInFlight` and `AcknowledgedJobsAreKept`; the lemmas carry along
what a step does to other slots and to expired leases, from which
`RepliesAreKept` and `LeasesAreRespected` follow. `ReportsAlwaysCurrent` adds
`AttemptsKnown`: no assignment in an output buffer or sent, before or after any
restart, is for an attempt above the table's, and the change a failed commit may
have written has come no less far. A report that is taken is of the attempt the
table has active, whose assignment was sent because its owner's slot is being
read, and no assignment of the job that was sent is for a later one.

`ProcessProofs` and `ClusterProofs` are about `Cluster`, for every number of
workers, clients, jobs and restarts. What both ends rely on is `ClusterBase`
(module `ClusterInvariant`): the coordinator's invariant, the types of the
processes, that a connection has at most one slot and nothing on it before it is
opened, that every reply or assignment, wherever it is (in an output buffer, on
a connection, in a process), was true of the job table and still is as far as
the table only grows, and that what a process sends fits the state it is in.
`ClusterSafety` shows that it is an invariant. The argument separates the two
sides. `LoopEffects` says what a step of the coordinator may do to the job
table, to the slots and to the connections: serve one slot, or rest, accept or
end; the lemmas of `HandlerProofs` and `CoordinatorProofs` show that every
handler and every step of the loop has one of these effects, and `Flows` keeps
from them what the processes see. `Moves` and `Proceeds` say the same of a
step of a worker and of a client. Each property then needs one lemma per kind of
step.

- `ReportsTellTheOutcome` states `OutcomeReported` of `Worker` for the workers of
  the cluster; the run `processes` checks it for a worker on its own.
  It follows from `ClusterBase` alone: it needs that the assignment a worker
  holds is the one of the table, and that its status was decided by its own task.
- `AnswersAlwaysAgree` adds `AnswersInv`: no reply under way to a client goes
  back behind what had been printed when the client started. A restart may lose
  the change of a failed commit, but nobody was told of that one.
- `AttemptsStartOnce` adds `AttemptsInv`: every assignment is in one place, one
  output buffer, one connection or one worker that has taken and not started it,
  and its attempt was not started before. A new assignment is for an attempt
  above the table's, and everything under way or started is for one up to it.
- `OutcomesAlwaysReal` adds `OutcomesInv`: the table, the change a failed commit
  may have written, every report on a connection and every worker about to make
  one rest on a note in the history `ran` of what the task thread did. It is
  stated under `WorkersReport`, that peers which are not workers make no
  reports: the coordinator believes whoever registered.
- `SubmissionsCreateOnce` adds `NamesInv`, that an acknowledgement toward a
  client names the job of its own request, and `SubmissionsInv`, that the tasks
  in the table differ and a submission that was not handled has no job yet, also
  not in the change of a failed commit. It is stated under `SubmissionsApart`,
  that different submissions have different tasks: by their tasks the property
  tells submissions apart.

`MCCluster` assumes both hypotheses of its scenarios (`ScenariosFit`), which TLC
evaluates in the runs.

`AlgorithmProofs` proves `ParsersAreExact`, `MeanIsExact` and `SearchIsExact`
for every limit, word and set of ids that the assumptions allow, and type,
content and refinement of the ring buffer (`RingImplementsFifo`) for every
capacity. `ResultsAreRight` and `CancelIsNoticed` are about `Task`, for every
limit that keeps the loops within the word (`TaskConstants`; the code's do, since
the 93rd Fibonacci number is below 2^64 and the 94th is not). Their invariant
`TaskInv` says which primes have been counted and which divisors tried, and that
the two words of the Fibonacci loop are neighbours. The equation of `Fibonacci`
is proved from the least number for which it could fail (`LeastNumber`). The
prime count needs that a number without a divisor up to its root has none
(`NoDivisorLeft`).

Some of the proved properties are in no run of their own: types, `ReplayAccepts`
and `NoInternalFailure` are conjuncts of `StoreInv`, which `store` checks;
`PendingIsQueued`, `ActiveAttemptsOwned`, `TerminalIsFinal` and the ring's type
and content are left to their theorems.

Only model-checked:

- All liveness, and what depends on when an action is enabled
  (`HeartbeatsBounded`, `RunsBounded`: time passes only when the process has
  nothing to do): the prover has no rules for fairness or `ENABLED`.
- `QueriesAnswered` and `StatsCountTheLog`: they compare results of sorting and
  of folds over the log, each of which would need an induction of its own.
- `NeverRefused` of `Cluster`: it needs, on top of `ClusterBase`, the order of
  all frames of a session on both directions of its connection.
- `Framing`: `StreamAccounted` needs that `Encode` undoes `Decoded` for every
  message, list replies included, which are folds over their entries.

## Inventory of what is hard to test

`PROJECT.json` lists the hazards by line: stops between write and publication,
unknown survival after a failed sync, torn tails, repeated recovery, stale
reports, lease expiry against buffered input, slow commits against clock
readings, descriptor reuse, overwritten replies, allocator exhaustion, the two
flags between the worker's threads, lost acknowledgements, deadlines shared by
the pieces of a reply, frames in pieces, and arithmetic at its limits.

## Not modelled

- Logging, option parsing, printing and address handling: text, or calls of the
  system, that no property here tells apart.
- Byte order and checksums. Cells stand for fields, and corruption of complete
  records is not modelled: the code rejects such a file, and the model's files
  are those the program wrote.
- The digest of the hash task and the text of results: data on which nothing
  depends.
- The fields of a statistics reply in `Codec`: their checks are in `Inspection`.
- The kernel's file locks and single reads of replay: a read is complete, at the
  end of the file, or fails.
