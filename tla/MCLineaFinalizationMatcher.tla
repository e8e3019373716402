--------------------- MODULE MCLineaFinalizationMatcher ---------------------
(***************************************************************************)
(* Three message hashes, values 0 (an administrative message) and 1, our  *)
(* address and one other recipient, blocks 0..2.  Hashes are opaque to    *)
(* the queries, so permuting them is a symmetry.                           *)
(***************************************************************************)
EXTENDS LineaFinalizationMatcher, TLC

HashSymmetry == Permutations(Hashes)

=============================================================================
