------------------------- MODULE MCIncrementalSync -------------------------
(***************************************************************************)
(* IncrementalSync on small instances: interchangeable writers, changes,   *)
(* plain events and state events.                                          *)
(***************************************************************************)
EXTENDS IncrementalSync, TLC

Symmetry == Permutations(Writer) \cup Permutations(Change)
                \cup Permutations(StateEvent) \cup Permutations(Event \ StateEvent)

=============================================================================
