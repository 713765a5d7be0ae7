--------------------------- MODULE InspectedStore ---------------------------
(***************************************************************************)
(* The durable store together with the statistics session that main.c      *)
(* begins once the store is open, and with the questions that clients may  *)
(* ask at any moment between two operations.                               *)
(***************************************************************************)
EXTENDS CoordinatorStore, Inspection

VARIABLES
  interrupted,    \* store->interrupted_jobs
  session,        \* <<>>, or <<the statistics session>>
  begun           \* history: records in the log when the session began

ivars == <<vars, interrupted, session, begun>>

InspectedInit == Init /\ interrupted = 0 /\ session = <<>> /\ begun = 0

\* A loss that recovery has committed.
CountInterrupted ==
  pc = "recovering" /\ staged # <<>> /\ staged' = <<>> /\ failure' = "NONE"

\* Mutant of BeginSession: the totals are taken as they were before recovery.
BeginBeforeRecovery(now) ==
  session' = <<Begin(replay.scheduler, interrupted, session_start, now)>>

\* run_coordinator begins the session, or gives up.
BeginSession(now) ==
  session' = IF BeginOK(sched, interrupted, session_start, now)
             THEN <<Begin(sched, interrupted, session_start, now)>> ELSE <<>>

\* The clock does not go back behind the start of the session.
LaterThanReady ==
  (pc = "serving" /\ session # <<>> /\ reading' # reading /\ reading' # -1 /\ pc' # "down")
    => reading' >= session[1].ready_at

InspectedNext ==
  /\ Next
  /\ LaterThanReady
  /\ interrupted' = IF pc' = "down" THEN 0
                    ELSE IF CountInterrupted THEN interrupted + 1 ELSE interrupted
  /\ IF pc = "recovering" /\ pc' = "serving"
     THEN /\ \E now \in reading..MAX_CLOCK : BeginSession(now)
          /\ begun' = Len(log)
     ELSE IF pc' = "down" THEN session' = <<>> /\ begun' = 0
     ELSE UNCHANGED <<session, begun>>

InspectedSpec == InspectedInit /\ [][InspectedNext]_ivars

-----------------------------------------------------------------------------
\* The moments at which a query may be served.
Moments == {now \in 0..MAX_CLOCK : now >= reading /\ now >= session[1].ready_at}

\* Every question is answered: whatever the store went through, the session
\* could begin, no status, listing or snapshot refuses to be taken, and none
\* is refused by the encoder, which would close the client instead.
QueriesAnswered ==
  Usable =>
    /\ session # <<>>
    /\ ValidJobs(JobsListing(sched))
    /\ \A now \in Moments :
         /\ WorkersListingOK(workers, now) /\ ValidWorkers(WorkersListing(sched, workers, now))
         /\ SnapshotOK(session[1], sched, workers, now)
         /\ ValidStats(Snapshot(session[1], sched, workers, now))

Records(type, from) ==
  Cardinality({i \in DOMAIN log : i > from /\ log[i].type = type})

\* The statistics count what happened: the totals are those of the whole log,
\* over all sessions; the session's are those of the records written since it
\* began, which leaves out the losses recovery charged; and those losses are
\* the interrupted jobs.
StatsCountTheLog ==
  (Usable /\ session # <<>>) =>
    LET st == Snapshot(session[1], sched, workers, session[1].ready_at)
    IN /\ st.jobs.submitted = Records("JOB_CREATED", 0)
       /\ st.jobs.attempts = Records("JOB_ASSIGNED", 0)
       /\ st.jobs.retries = Records("JOB_REQUEUED", 0)
       /\ st.session_submitted = Records("JOB_CREATED", begun)
       /\ st.session_completed = Records("JOB_COMPLETED", begun)
       /\ st.session_failed = Records("JOB_FAILED", begun)
       /\ st.session_retries = Records("JOB_REQUEUED", begun)
       /\ st.interrupted = begun - replay.last_sequence
=============================================================================
