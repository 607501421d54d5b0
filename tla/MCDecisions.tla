------------------------------- MODULE MCDecisions -------------------------------
(* One decision over two tasks that people and agents answer, expire and reopen   *)
(* while its tasks and the policy change; and, in behaviours of their own, three   *)
(* decisions about another task that wait for a sweep of two.                       *)
EXTENDS Decisions, TLC

CONSTANTS t1, t2, t3, A, B, C, P, Q, R

VARIABLE part

Queue == INSTANCE Decisions WITH
  Tasks <- {t3}, DecisionIds <- {1, 2, 3}, Contents <- {C}, Rules <- {R},
  Required <- {"either"}, Expiries <- {0, 1}, SweepBatch <- 2,
  MaxPolicies <- 1, MaxGeneration <- 1, MaxTime <- 2

\* The queue holds reversible decisions that agents opened in their order and people
\* may answer.
QueueOnly ==
  \A d \in DOMAIN decisions :
    /\ decisions[d].reversible /\ d > 1 => d - 1 \in DOMAIN decisions
    /\ Current(d).opener = "agent"
    /\ \A i \in DOMAIN Current(d).answer : Current(d).answer[i].by \in {"human", "timeout"}

PartsInit ==
  \/ part = "answers" /\ Init
  \/ part = "queue" /\ Queue!Init

PartsNext ==
  \/ part = "answers" /\ Next /\ UNCHANGED part
  \/ part = "queue" /\ Queue!Next /\ QueueOnly' /\ UNCHANGED part

InQueue(step) == part = "queue" /\ step /\ UNCHANGED part

\* The fairness of Decisions, for the behaviours whose liveness is checked.
PartsSpec ==
  /\ PartsInit /\ [][PartsNext]_<<vars, part>>
  /\ WF_<<vars, part>>(InQueue(Queue!Sweep))
  /\ WF_<<vars, part>>(InQueue(Queue!Tick))

\* At most three changes of the policy and the tasks: a state with four is checked and
\* not left.
FewChanges ==
  part = "answers" => Len(policies) + Len(revisions[t1]) + Len(revisions[t2]) <= 6

\* No value of a behaviour of the queue is permuted, so that the liveness of the queue
\* is checked on its own states and not on representatives of them.
Symmetry == Permutations({t1, t2}) \cup Permutations({A, B}) \cup Permutations({P, Q})

\* What the answers let happen, in either part (knowledge.rs, attention.rs).
AnswersSound == IF part = "answers" THEN DecisionsSound ELSE Queue!DecisionsSound

\* Every reversible decision that is due and stays current is eventually answered, by
\* somebody, unless older ones that may not be answered fill the sweep's batch
\* (sweep_timed_out_decisions).
WaitingProceeds == part = "queue" => Queue!ReversibleProceeds

\* "Answers every reversible decision whose current cycle has waited
\* DECISION_TIMEOUT_MS" (sweep_timed_out_decisions).
NoneStarves == part = "queue" => Queue!EveryDueAnswered
=============================================================================
