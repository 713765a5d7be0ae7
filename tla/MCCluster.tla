------------------------------ MODULE MCCluster ------------------------------
(***************************************************************************)
(* Cluster for TLC: the scenarios of its runs.  A behaviour is one of      *)
(* them, chosen at the start; who does not take part stays idle.           *)
(***************************************************************************)
EXTENDS Cluster, TLC

CONSTANTS t1, t2

Scenario(w, b) == [who |-> w, backlog |-> b]

\* A worker that executes two jobs; clients that submit and ask.
Alone ==
  {Scenario(Workers, s) : s \in {<<<<t1, 0>>, <<t2, 1>>>>, <<<<t2, 1>>, <<t1, 0>>>>}}
  \cup {Scenario(Clients, <<>>)}

\* Two workers and a job that may be tried again; one worker, a job that may
\* not, and clients that ask for it.
Together ==
  {Scenario(Workers, <<<<t1, 1>>>>)}
  \cup {Scenario({c} \cup Clients, <<<<t1, 0>>>>) : c \in Workers}

\* A worker with a job that may be tried again; peers of any kind.
Lasting == {Scenario(Workers, <<<<t1, 1>>>>), Scenario(Conns \ Processes, <<>>)}

\* Other peers make no reports and submit nothing, and no task is submitted
\* twice.
ASSUME ScenariosFit == WorkersReport /\ SubmissionsApart

Symmetry == Permutations(Workers) \cup Permutations(Clients)

\* In the larger instance the processes and the clock move between the
\* iterations of the loop only, and the workers' own steps take no time.  What
\* they do before a loop that has stopped exits, they can do after it.
Between == phase \in {"poll", "down"}

\* Clients come one after the other.
InTurn == Cardinality({c \in Clients : cli'[c].phase \in {"send", "receive"}}) <= 1

IterationNext ==
  (Serve \/ Stops \/ Restarts \/ (Between /\ (PromptTime \/ ProcessStep))) /\ InTurn

IterationSpec == ClusterInit /\ [][IterationNext]_vars
=============================================================================
