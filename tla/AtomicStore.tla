---------------------------- MODULE AtomicStore ----------------------------
(***************************************************************************)
(* What the durable store promises to whoever can see it: a job store in   *)
(* which every operation happens at once or not at all.  There is no file  *)
(* here, no replay and no recovery.  A view is what clients can observe:   *)
(*    [scheduler |-> ..., next_worker_id |-> ..., time |-> ...]            *)
(* visible is the view the answers come from, inflight the outcome of an   *)
(* operation that nobody has been told of yet.  A crash may lose it.  A    *)
(* restart adopts it if it was not lost, and then every attempt that was   *)
(* active is lost, at once and each of them once.                          *)
(*                                                                         *)
(* Module StoreRefinement shows that CoordinatorStore implements this.     *)
(***************************************************************************)
EXTENDS Scheduler

CONSTANTS Tasks, Results, MAX_RETRIES, MAX_WORKER_ID

VARIABLES visible, inflight

Moved(v, s, now) == [v EXCEPT !.scheduler = s, !.time = now]

Allocation(v, w) ==
  /\ v.next_worker_id # 0
  /\ w = [v EXCEPT !.next_worker_id = IF @ = MAX_WORKER_ID THEN 0 ELSE @ + 1]

Submission(v, w) ==
  /\ SubmitAdmitted(v.scheduler, w.time)
  /\ \E task \in Tasks, n \in 0..MAX_RETRIES :
       w = Moved(v, Submit(v.scheduler, task, n, w.time), w.time)

\* The oldest pending job goes to a known worker that has none.
Assignment(v, w) ==
  /\ v.scheduler.pending # <<>>
  /\ \E worker \in 1..MAX_WORKER_ID :
       /\ v.next_worker_id = 0 \/ worker < v.next_worker_id
       /\ ~Busy(v.scheduler, worker)
       /\ w = Moved(v, Assign(v.scheduler, worker, w.time), w.time)

\* What may become of an active attempt.
Outcomes(job, now) ==
  {JobFail(job, f, now) : f \in {"TASK", "WORKER_LOST"}}
  \cup (IF job.state = "ASSIGNED" THEN {JobStart(job, now)}
        ELSE {JobComplete(job, r, now) : r \in Results \cup {NoResult}})

Progress(v, w) ==
  \E id \in DOMAIN v.scheduler.jobs :
    /\ IsActive(v.scheduler.jobs[id])
    /\ \E job \in Outcomes(v.scheduler.jobs[id], w.time) :
         w = Moved(v, Publish(v.scheduler, id, job), w.time)

Operation(v, w) ==
  \/ Allocation(v, w)
  \/ w.time >= v.time /\ (Submission(v, w) \/ Assignment(v, w) \/ Progress(v, w))

\* All active attempts of v are lost, the retries are queued in slot order.
Lost(v, w) ==
  LET a == v.scheduler
      b == w.scheduler
      n == Len(a.pending)
  IN /\ w.next_worker_id = v.next_worker_id /\ w.time = v.time
     /\ Len(b.jobs) = Len(a.jobs)
     /\ \A i \in DOMAIN b.jobs :
          b.jobs[i] = IF IsActive(a.jobs[i]) THEN JobFail(a.jobs[i], "WORKER_LOST", v.time)
                      ELSE a.jobs[i]
     /\ n <= Len(b.pending) /\ \A i \in 1..n : b.pending[i] = a.pending[i]
     /\ \A i, k \in n + 1..Len(b.pending) : i < k => b.pending[i] < b.pending[k]
     /\ {b.pending[i] : i \in n + 1..Len(b.pending)}
          = {i \in DOMAIN b.jobs : IsActive(a.jobs[i]) /\ b.jobs[i].state = "QUEUED"}

-----------------------------------------------------------------------------
AtomicInit ==
  /\ visible = [scheduler |-> SchedulerInit, next_worker_id |-> 1, time |-> 0]
  /\ inflight = <<>>

Begin ==
  /\ inflight = <<>> /\ Len(inflight') = 1
  /\ Operation(visible, inflight'[1])
  /\ UNCHANGED visible

Finish == inflight # <<>> /\ visible' = inflight[1] /\ inflight' = <<>>

Forget == inflight # <<>> /\ inflight' = <<>> /\ UNCHANGED visible

Restart ==
  /\ Lost(IF inflight = <<>> THEN visible ELSE inflight[1], visible')
  /\ inflight' = <<>>

AtomicNext == Begin \/ Finish \/ Forget \/ Restart

AtomicSpec == AtomicInit /\ [][AtomicNext]_<<visible, inflight>>
=============================================================================
