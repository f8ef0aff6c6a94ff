--------------------------- MODULE MCOneTimeKeys ---------------------------
(***************************************************************************)
(* OneTimeKeys on two keys uploaded at once and on one uploaded later, or  *)
(* again.                                                                  *)
(***************************************************************************)
EXTENDS OneTimeKeys, TLC

CONSTANTS k1, k2, r1, r2

MCBatch == {{}, {k1}, {k2}}
\* Requests are interchangeable, and so are the keys of MCBatch.
Symmetry == Permutations(Request) \cup Permutations(Key)

=============================================================================
