---------------------------- MODULE LatencyMean -----------------------------
(***************************************************************************)
(* The mean latency of the completed jobs as collect_jobs computes it      *)
(* (src/src/coordinator/coordinator_stats.c): one job at a time, without a *)
(* sum that could overflow.                                                *)
(***************************************************************************)
EXTENDS Integers

CONSTANTS
  WORD,                 \* values of a uint64_t
  LATENCY_MAX,          \* the longest latency, INT64_MAX
  COMPLETED_MAX         \* the most completed jobs

ASSUME MeanConstants ==
  /\ WORD \in Nat \ {0} /\ LATENCY_MAX \in Nat /\ COMPLETED_MAX \in Nat \ {0}
  /\ LATENCY_MAX < WORD /\ COMPLETED_MAX * COMPLETED_MAX < WORD

VARIABLES
  completed,            \* jobs_completed_total, counted before
  seen,                 \* completed jobs visited so far
  average, remainder,
  sum                   \* of the latencies seen, which no variable holds

meanVars == <<completed, seen, average, remainder, sum>>

-----------------------------------------------------------------------------
\* Mutant of Visit: what the divisions leave is forgotten.
VisitForgets(latency) ==
  /\ seen < completed /\ seen' = seen + 1 /\ sum' = sum + latency
  /\ average' = (average + latency \div completed) % WORD
  /\ UNCHANGED <<completed, remainder>>

Visit(latency) ==
  /\ seen < completed /\ seen' = seen + 1 /\ sum' = sum + latency
  /\ average' = (average + latency \div completed) % WORD
  /\ remainder' = (remainder + (latency % completed)) % WORD
  /\ UNCHANGED completed

Mean == (average + remainder \div completed) % WORD

MeanInit ==
  /\ completed \in 1..COMPLETED_MAX /\ seen = 0
  /\ average = 0 /\ remainder = 0 /\ sum = 0

MeanNext == \E latency \in 0..LATENCY_MAX : Visit(latency)

MeanSpec == MeanInit /\ [][MeanNext]_meanVars

-----------------------------------------------------------------------------
\* The mean is the exact mean, rounded down, although the sum of the latencies
\* may be larger than any variable of the program.
MeanExact == seen = completed => Mean = sum \div completed
=============================================================================
