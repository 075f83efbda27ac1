------------------------------ MODULE MCReview ------------------------------
(***************************************************************************)
(* Instances of Review for TLC.                                            *)
(***************************************************************************)
EXTENDS Review, TLC

\* Origins are interchangeable.  Used for invariants only.
Symmetry == Permutations(Origins)

=============================================================================
