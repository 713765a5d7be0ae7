---------------------------- MODULE MCCoordinator ----------------------------
(***************************************************************************)
(* Coordinator for TLC.  The peers of one behaviour send the messages of   *)
(* one script, chosen at the start.  The connections are interchangeable,  *)
(* so the passing runs use their symmetry.                                 *)
(***************************************************************************)
EXTENDS Coordinator, TLC

CONSTANT Scripts        \* sets of message types

ASSUME ScriptConstants == UNION Scripts = PeerTypes

VARIABLE script

ScriptedInit == Init /\ script \in Scripts

ScriptedNext ==
  /\ Next
  /\ \A c \in Conns : Len(up'[c]) > Len(up[c]) => up'[c][Len(up'[c])].type \in script
  /\ UNCHANGED script

ScriptedSpec == ScriptedInit /\ [][ScriptedNext]_<<cvars, script>>

Symmetry == Permutations(Conns)
=============================================================================
