-------------------------------- MODULE MCWorkflow --------------------------------
(* A task or two in the completion workflow; every bound is in the configuration.   *)
EXTENDS Workflow, TLC

CONSTANTS a1, a2, h1, t1, t2, c1

Claims == MapThenSumSet(LAMBDA i : acts[i].gen, DOMAIN acts)

\* Publications: three claims of up to three integrations.  A state beyond a constraint
\* is checked but not left.
ThreeClaims == Claims <= 3 /\ Cardinality(DOMAIN acts) <= 3

\* Reviews: three claims and no publication, which is explored by itself.
Unpublished == Claims <= 3 /\ DOMAIN intents = {}

Symmetry == Permutations(Agents) \cup Permutations(CodeTasks) \cup Permutations(Checks)
=============================================================================
