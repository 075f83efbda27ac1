---------------------------- MODULE MCCCTReview ----------------------------
(***************************************************************************)
(* An instance of CCTReview for TLC.                                       *)
(***************************************************************************)
EXTENDS CCTReview

=============================================================================
