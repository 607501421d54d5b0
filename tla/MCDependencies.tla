----------------------------- MODULE MCDependencies -----------------------------
(* Three tasks whose dependencies operators edit while one agent works on      *)
(* them in one checkout, with the units of one resource whose capacity they    *)
(* change; its leases may run out once.                                        *)
EXTENDS Coordinator, TLC

CONSTANTS t1, t2, t3, s1, c1, a1, a2, k1, v1, v2, x1

MCCredentialOf == s1 :> c1
MCCheckoutsOn == s1 :> Checkouts
MCRequests == {x1 :> 1}
MCPolicies == {[lease |-> 1, maxAttempt |-> 0, recovery |-> "agent"]}

\* Archived tasks, projects and closed sessions are explored by MCOwnership; here
\* a state in which one of them occurs is checked but not left.
Working ==
  /\ ~projectArchived
  /\ sessions[s1] = "open"
  /\ \A t \in Tasks : tasks[t].shelf = "listed"

\* Resources and dependencies are explored apart: a state with both is checked but
\* not left.
Apart ==
  \/ DOMAIN resources = {}
  \/ \A t \in Tasks : tasks[t].needs = {} /\ tasks[t].lifecycle = "open"

Symmetry == Permutations(Tasks) \cup Permutations(AttemptIds)
            \cup Permutations(ReservationIds)
=============================================================================
