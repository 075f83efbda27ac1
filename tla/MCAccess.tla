------------------------------ MODULE MCAccess ------------------------------
(***************************************************************************)
(* An instance of Access for TLC.                                          *)
(***************************************************************************)
EXTENDS Access, TLC

\* Threads, users and handles are interchangeable: all properties are safety.
Symmetry ==
    Permutations(Workers) \cup Permutations(Users) \cup Permutations(Handles)

=============================================================================
