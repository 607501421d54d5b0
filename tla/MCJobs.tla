--------------------------------- MODULE MCJobs ---------------------------------
(* One task.  Either two attempts with two reservations and one producer job whose *)
(* reporter outlives its session (expiry, blocked release, recovery, late           *)
(* observations and reporter renewals in every order), or three attempts that       *)
(* recover from each other's checkpoints of two commits while a decision on the     *)
(* task opens and closes.                                                            *)
EXTENDS Coordinator, TLC

CONSTANTS t1, s1, c1, a1, a2, a3, k1, k2, v1, v2, j1, x1, r1, r2

MCCredentialOf == s1 :> c1
MCCheckoutsOn == s1 :> {k1, k2}
MCRequests == {x1 :> 1}

\* Attempts end after two units of time under one policy and never under the other.
MCPolicies == {[lease |-> 1, maxAttempt |-> limit, recovery |-> "agent"] : limit \in {0, 2}}

\* Lifecycle edits of tasks and projects are explored by MCOwnership.
Unedited ==
  ~projectArchived /\ \A t \in Tasks : tasks[t].lifecycle = "open" /\ tasks[t].shelf = "listed"

Producing ==
  /\ policy.maxAttempt = 2
  /\ Cardinality(DOMAIN attempts) <= 2
  /\ \A a \in DOMAIN attempts : attempts[a].revision = None
  /\ decisions[t1] = "settled"

Recovering ==
  /\ policy.maxAttempt = 0
  /\ DOMAIN resources = {}
  /\ Cardinality({attempts[a].checkout : a \in DOMAIN attempts} \ {None}) <= 1

\* A state of neither kind is checked but not left.
Apart == Unedited /\ (Producing \/ Recovering)

Symmetry == Permutations(AttemptIds) \cup Permutations(Checkouts)
            \cup Permutations(ReservationIds) \cup Permutations(Revisions)
=============================================================================
