---------------------------- MODULE MCAlgorithms ----------------------------
(***************************************************************************)
(* The algorithms that work on one thread and without the network, for     *)
(* TLC: the ring of the pending queue, the number parsers, the mean        *)
(* latency, the index of worker ids, the tasks, and the readers of frames. *)
(* Each behaviour is one of them; the others stay where they began.        *)
(***************************************************************************)
EXTENDS JobQueue, MCDecimal, LatencyMean, WorkerIndex, Task, MCFraming

VARIABLE part           \* which of them this behaviour is

Parts == {"queue", "parsers", "mean", "index", "task", "framing"}

Only(p, next, others) == part = p /\ next /\ UNCHANGED <<part, others>>

\* A part that stays where it began begins in one state.
AlgorithmsInit ==
  /\ part \in Parts
  /\ Init /\ IndexInit
  /\ DecimalInit /\ (part # "parsers" => parser = CHOOSE p \in Parsers : TRUE)
  /\ MeanInit /\ (part # "mean" => completed = 1)
  /\ TaskInit /\ (part # "task" => type = "HASH" /\ number = 0)
  /\ IF part = "framing" THEN FramingInit
     ELSE /\ reader = "ack" /\ stream = <<>> /\ taken = 0 /\ input = <<>>
          /\ expected = HEADER /\ handled = <<>> /\ status = "OPEN"

AlgorithmsNext ==
  \/ Only("queue", Next, <<decimalVars, meanVars, indexVars, tvars, framingVars>>)
  \/ Only("parsers", DecimalNext, <<vars, meanVars, indexVars, tvars, framingVars>>)
  \/ Only("mean", MeanNext, <<vars, decimalVars, indexVars, tvars, framingVars>>)
  \/ Only("index", IndexNext, <<vars, decimalVars, meanVars, tvars, framingVars>>)
  \/ Only("task", TaskNext, <<vars, decimalVars, meanVars, indexVars, framingVars>>)
  \/ Only("framing", FramingNext, <<vars, decimalVars, meanVars, indexVars, tvars>>)

AlgorithmsSpec ==
  AlgorithmsInit
  /\ [][AlgorithmsNext]_<<part, vars, decimalVars, meanVars, indexVars, tvars, framingVars>>
=============================================================================
