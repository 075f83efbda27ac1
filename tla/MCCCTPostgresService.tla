------------------------ MODULE MCCCTPostgresService ------------------------
(***************************************************************************)
(* Instances of CCTPostgresService for TLC.                                *)
(***************************************************************************)
EXTENDS CCTPostgresService, TLC

\* Workers and events are interchangeable.  Used for invariants only.
Symmetry == Permutations(Workers) \cup Permutations(Events)

\* The review status of the first rows changes no step: start unreviewed.
MCInit == Init /\ \A e \in Events : db[e] # None => db[e].review = "U"

\* Constraints that cut what the other runs cover: rejections, which differ
\* from acceptances in the value stored, and the time after stop().
AcceptOnly == \A w \in Workers : request[w] # None => request[w].review = "A"
Running == mRunning /\ AcceptOnly

MCSpec == MCInit /\ [][Next]_vars

MCFairSpec == MCSpec /\ Fairness

=============================================================================
