-------------------------------- MODULE Task --------------------------------
(***************************************************************************)
(* The execution of one task on the worker's second thread                 *)
(* (src/src/worker/task.c), next to the main thread, which may set the     *)
(* cancel flag at any moment, and to the clock.  A load of the flag and    *)
(* the work that follows it are separate steps.                            *)
(*                                                                         *)
(* The argument is the number parse_number makes of it, -1 for a text it   *)
(* refuses (module Decimal models the parser).  Words have UINT64 values.  *)
(* The digest of a hash task is not computed.                              *)
(***************************************************************************)
EXTENDS Integers, FiniteSets

CONSTANTS
  UINT64,             \* 2^64: number of values of uint64_t
  SLEEP_MAX, PRIME_COUNT_MAX, FIBONACCI_MAX,
  NAP,                \* 20: longest nap of a sleeping task, in ms
  CLOCK_MAX           \* last clock reading (bound)

\* The Fibonacci numbers.
Fibonacci[n \in Nat] == IF n < 2 THEN n ELSE Fibonacci[n - 1] + Fibonacci[n - 2]

\* The limits keep the loops within the word: no candidate wraps round, and
\* every Fibonacci number that may be asked for fits.
ASSUME TaskConstants ==
  /\ {UINT64, SLEEP_MAX, PRIME_COUNT_MAX, FIBONACCI_MAX, NAP, CLOCK_MAX} \subseteq Nat \ {0}
  /\ SLEEP_MAX < CLOCK_MAX /\ PRIME_COUNT_MAX + 2 < UINT64
  /\ \A n \in 0..FIBONACCI_MAX : Fibonacci[n] < UINT64

VARIABLES
  type, number,         \* the task
  cancel,               \* the flag the main thread sets
  clock,                \* time since the task was started
  at,                   \* where the thread is
  outcome, result,      \* what it returned; outcome RUNNING before
  deadline, wake,       \* run_sleep: deadline, and end of the nap
  candidate, divisor, primes,
  i, previous, current,
  late                  \* history: work begun after a cancel

local == <<deadline, wake, candidate, divisor, primes, i, previous, current>>
tvars == <<type, number, cancel, clock, at, outcome, result, late, local>>

Limit(t) ==
  CASE t = "SLEEP" -> SLEEP_MAX [] t = "PRIME_COUNT" -> PRIME_COUNT_MAX
    [] t = "FIBONACCI" -> FIBONACCI_MAX [] OTHER -> 0

\* Mutant of ParseOK: the limit is taken for the first number too large.
ParseOneMore == type = "HASH" \/ number \in 0..Limit(type) + 1

ParseOK == type = "HASH" \/ number \in 0..Limit(type)

Leave(s, r) ==
  /\ outcome' = s /\ result' = r /\ at' = "done"
  /\ UNCHANGED <<type, number, cancel, clock, late, local>>

Go(place) ==
  /\ at' = place
  /\ UNCHANGED <<type, number, cancel, clock, outcome, result>>

\* The work behind a load of the flag, counted when the flag is set by then.
Work == late' = late + (IF cancel THEN 1 ELSE 0)

-----------------------------------------------------------------------------
Enter ==
  /\ at = "entry"
  /\ \/ cancel /\ Leave("CANCELLED", -1)
     \/ ~cancel /\ ~ParseOK /\ Leave("INVALID_ARGUMENT", -1)
     \/ /\ ~cancel /\ ParseOK
        /\ Go(CASE type = "SLEEP" -> "start" [] type = "PRIME_COUNT" -> "candidate"
                [] type = "FIBONACCI" -> "add" [] OTHER -> "finish")
        /\ candidate' = 3 /\ primes' = IF number >= 2 THEN 1 ELSE 0
        /\ i' = 2 /\ previous' = 0 /\ current' = 1
        /\ UNCHANGED <<deadline, wake, divisor, late>>

\* run_sleep.  A clock that cannot be read is a system error.
StartSleep ==
  /\ at = "start"
  /\ \/ Leave("SYSTEM_ERROR", -1)
     \/ /\ Go("check")
        /\ deadline' = clock + number
        /\ UNCHANGED <<wake, candidate, divisor, primes, i, previous, current, late>>

CheckSleep ==
  /\ at = "check"
  /\ \/ cancel /\ Leave("CANCELLED", -1)
     \/ ~cancel /\ Go("clock") /\ UNCHANGED <<local, late>>

Slice(remaining) == IF remaining > NAP THEN NAP ELSE remaining

ReadClock ==
  /\ at = "clock"
  /\ \/ Leave("SYSTEM_ERROR", -1)
     \/ /\ clock >= deadline
        /\ Go("finish") /\ UNCHANGED <<local, late>>
     \/ /\ clock < deadline
        /\ Go("nap") /\ Work
        /\ wake' = clock + Slice(deadline - clock)
        /\ UNCHANGED <<deadline, candidate, divisor, primes, i, previous, current>>

\* nanosleep ends in time, or early with EINTR, or fails.
WakeUp ==
  /\ at = "nap"
  /\ \/ Leave("SYSTEM_ERROR", -1)
     \/ Go("check") /\ UNCHANGED <<local, late>>

-----------------------------------------------------------------------------
NextCandidate ==
  /\ at = "candidate"
  /\ \/ candidate > number /\ Go("finish") /\ UNCHANGED <<local, late>>
     \/ candidate <= number /\ cancel /\ Leave("CANCELLED", -1)
     \/ /\ candidate <= number /\ ~cancel
        /\ Go("divisor") /\ divisor' = 3
        /\ UNCHANGED <<deadline, wake, candidate, primes, i, previous, current, late>>

\* divisor^2 <= candidate, without a product that could overflow.
MoreDivisors == divisor <= candidate \div divisor

\* Mutant of TestCandidate: the flag is read once per candidate.
TestCandidateDeaf ==
  /\ at = "divisor"
  /\ \/ /\ ~MoreDivisors
        /\ Go("candidate")
        /\ primes' = (primes + 1) % UINT64 /\ candidate' = (candidate + 2) % UINT64
        /\ UNCHANGED <<deadline, wake, divisor, i, previous, current, late>>
     \/ MoreDivisors /\ Go("divide") /\ UNCHANGED <<local, late>>

TestCandidate ==
  /\ at = "divisor"
  /\ \/ /\ ~MoreDivisors
        /\ Go("candidate")
        /\ primes' = (primes + 1) % UINT64 /\ candidate' = (candidate + 2) % UINT64
        /\ UNCHANGED <<deadline, wake, divisor, i, previous, current, late>>
     \/ MoreDivisors /\ cancel /\ Leave("CANCELLED", -1)
     \/ MoreDivisors /\ ~cancel /\ Go("divide") /\ UNCHANGED <<local, late>>

Divide ==
  /\ at = "divide" /\ Work
  /\ IF candidate % divisor = 0
     THEN Go("candidate") /\ candidate' = (candidate + 2) % UINT64 /\ divisor' = divisor
     ELSE Go("divisor") /\ divisor' = (divisor + 2) % UINT64 /\ candidate' = candidate
  /\ UNCHANGED <<deadline, wake, primes, i, previous, current>>

\* The whole Fibonacci loop is short and does not look at the flag.
Add ==
  /\ at = "add"
  /\ \/ i > number /\ Go("finish") /\ UNCHANGED <<local, late>>
     \/ /\ i <= number
        /\ Go("add")
        /\ previous' = current /\ current' = (previous + current) % UINT64
        /\ i' = i + 1
        /\ UNCHANGED <<deadline, wake, candidate, divisor, primes, late>>

Value ==
  CASE type = "PRIME_COUNT" -> primes
    [] type = "FIBONACCI" -> IF number = 0 THEN 0 ELSE current
    [] OTHER -> number

Finish ==
  /\ at = "finish"
  /\ \/ cancel /\ Leave("CANCELLED", -1)
     \/ ~cancel /\ Leave("OK", Value)

-----------------------------------------------------------------------------
Step ==
  \/ Enter \/ StartSleep \/ CheckSleep \/ ReadClock \/ WakeUp
  \/ NextCandidate \/ TestCandidate \/ Divide \/ Add \/ Finish

\* The main thread gives up on the task.
SetCancel ==
  /\ ~cancel /\ at # "done"
  /\ cancel' = TRUE
  /\ UNCHANGED <<type, number, clock, at, outcome, result, late, local>>

Tick ==
  /\ at \notin {"entry", "start"} /\ clock < CLOCK_MAX
  /\ clock' = clock + 1
  /\ UNCHANGED <<type, number, cancel, at, outcome, result, late, local>>

TaskInit ==
  /\ type \in {"SLEEP", "PRIME_COUNT", "FIBONACCI", "HASH"}
  /\ number \in -1..Limit(type) + 1
  /\ cancel = FALSE /\ clock = 0 /\ late = 0
  /\ at = "entry" /\ outcome = "RUNNING" /\ result = -1
  /\ deadline = 0 /\ wake = 0
  /\ candidate = 0 /\ divisor = 0 /\ primes = 0
  /\ i = 0 /\ previous = 0 /\ current = 0

TaskNext == Step \/ SetCancel \/ Tick

TaskSpec == TaskInit /\ [][TaskNext]_tvars

-----------------------------------------------------------------------------
Primes(n) == {p \in 2..n : \A d \in 2..p - 1 : p % d # 0}

\* A task that succeeds did what it was asked: a sleep lasted at least as long
\* as it was to, over interrupted and late naps; a count is the number of
\* primes; a Fibonacci number is the number itself and not its remainder
\* modulo the word, up to the largest argument the task accepts.
ResultIsRight ==
  outcome = "OK" =>
    CASE type = "SLEEP" -> clock >= number /\ result = number
      [] type = "PRIME_COUNT" -> result = Cardinality(Primes(number))
      [] type = "FIBONACCI" -> result = Fibonacci[number]
      [] OTHER -> TRUE

\* A cancelled task stops promptly, whatever its argument: it begins at most
\* one more division or nap, and no nap is longer than NAP.
CancelNoticed == late <= 1 /\ (at = "nap" => wake <= clock + NAP)
=============================================================================
