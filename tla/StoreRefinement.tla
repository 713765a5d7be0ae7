-------------------------- MODULE StoreRefinement --------------------------
(***************************************************************************)
(* CoordinatorStore implements AtomicStore.  What is visible is the view   *)
(* of the last exposed record; the first record after it, written but not  *)
(* exposed, is the operation in flight.  The records that a recovery has   *)
(* written before the store serves are not visible one by one.             *)
(***************************************************************************)
EXTENDS StoreInvariant

Visible == shadow[Len(exposed) + 1]

InFlight == IF Len(log) > Len(exposed) THEN <<shadow[Len(exposed) + 2]>> ELSE <<>>

Atomic == INSTANCE AtomicStore WITH visible <- Visible, inflight <- InFlight

\* Seen through its answers, the store with its file, its failed writes and
\* syncs, its crashes and its recoveries is an atomic job store: an operation
\* takes effect as a whole, at most one that nobody was told of takes effect
\* or vanishes in a crash, and a restart, however often it was interrupted,
\* loses each active attempt once and changes nothing else.
ImplementsAtomicStore == Atomic!AtomicSpec
=============================================================================
