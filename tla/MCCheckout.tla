------------------------------ MODULE MCCheckout --------------------------------
(* Two tasks and one checkout in which a producer outlives a blocked release.   *)
EXTENDS Coordinator, TLC

CONSTANTS t1, t2, s1, c1, a1, a2, k1, v1, v2, x1, j1

MCCredentialOf == s1 :> c1
MCCheckoutsOn == s1 :> {k1}
MCPolicies == {[lease |-> 1, maxAttempt |-> 0, recovery |-> "agent"]}
MCRequests == {x1 :> 1, x1 :> 2}

\* Lifecycle and dependency edits are explored by MCOwnership and MCDependencies;
\* here a state one of them reached is checked but not left.
Unedited ==
  /\ ~projectArchived
  /\ \A t \in Tasks : /\ tasks[t].lifecycle = "open"
                      /\ tasks[t].shelf = "listed"
                      /\ tasks[t].needs = {}

Symmetry == Permutations(AttemptIds) \cup Permutations(ReservationIds) \cup Permutations(Tasks)
=============================================================================
