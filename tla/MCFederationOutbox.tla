------------------------- MODULE MCFederationOutbox -------------------------
(***************************************************************************)
(* FederationOutbox on small instances.  Destinations, items and runs are  *)
(* interchangeable wherever a run checks safety only.                      *)
(***************************************************************************)
EXTENDS FederationOutbox, TLC

Symmetry == Permutations(Dest) \cup Permutations(Pdu)
                \cup Permutations(Edu) \cup Permutations(Run) \cup Permutations(Txn)

=============================================================================
