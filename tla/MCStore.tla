------------------------------- MODULE MCStore -------------------------------
(***************************************************************************)
(* The durable store and its inductive invariant for TLC; the .cfg files   *)
(* choose the instance.                                                    *)
(***************************************************************************)
EXTENDS StoreInvariant
=============================================================================
