------------------------------ MODULE MCOwnership -------------------------------
(* Ownership without producers: an agent and a human compete for one task      *)
(* through expiry, recovery, policy changes, session close and revocation.      *)
EXTENDS Coordinator, TLC

CONSTANTS t1, s1, h1, c1, a1, a2

MCCredentialOf == s1 :> c1
MCCheckoutsOn == s1 :> {}

\* One policy leaves attempts unlimited and recovery to agents; under the other
\* the limit falls between two renewals and only a human may recover.
MCPolicies == {[lease |-> 1, maxAttempt |-> 0, recovery |-> "agent"],
               [lease |-> 3, maxAttempt |-> 4, recovery |-> "manual"]}

Symmetry == Permutations(AttemptIds)
=============================================================================
