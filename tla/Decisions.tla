-------------------------------- MODULE Decisions --------------------------------
(***************************************************************************)
(* Scoped decisions (crates/server/src/knowledge.rs and the timeout sweep   *)
(* of attention.rs).  A decision blocks every task in its scope until its   *)
(* current cycle is answered with an allow about the work as it stands.     *)
(*                                                                         *)
(* A task's edits and the project's policies are sequences indexed by        *)
(* revision (task_revisions, policy_revisions); a decision is the sequence   *)
(* of its cycles, indexed by generation.  Every step is one transaction.     *)
(***************************************************************************)
EXTENDS Integers, Sequences, FiniteSets, SequencesExt

CONSTANTS
  Tasks,
  DecisionIds,     \* numbers: the sweep breaks ties by id
  Contents,        \* judged fields of a task: title, description, criteria, kind
  Rules,           \* the policy's rules text
  Required,        \* required_actor values explored, of human, agent, either
  Dispositions,    \* dispositions explored, of allow, deny, defer
  Expiries,        \* lifetimes a cycle may be given; 0 is none
  DecisionTimeout, \* DECISION_TIMEOUT_MS
  SweepBatch,      \* SWEEP_BATCH
  MaxRevision, MaxPolicies, MaxGeneration, MaxTime  \* bounds

Kinds == {"human", "agent"}

ASSUME DecisionsAssumption ==
  /\ DecisionIds \subseteq Nat
  /\ Required \subseteq Kinds \cup {"either"}
  /\ Expiries \subseteq Nat
  /\ {DecisionTimeout, SweepBatch, MaxRevision, MaxPolicies, MaxGeneration, MaxTime}
       \subseteq Nat
  /\ Dispositions \subseteq {"allow", "deny", "defer"}

VARIABLES
  revisions,  \* [Tasks -> Seq(Contents)]: what every revision of a task said
  policies,   \* every policy revision: its rules, and whether relaying is allowed
  decisions,  \* the decisions opened so far, with their fixed question
  cycles,     \* the cycles of every decision
  now

vars == <<revisions, policies, decisions, cycles, now>>

Policy == [rules : Rules, relay : BOOLEAN]
Question == [required : Required, reversible : BOOLEAN]

\* An answer records the generation its author had read, who gave it, and for a
\* relayed answer the policy revision that allowed relaying.
Answer == [disposition : Dispositions \cup {"allow"}, read : Nat,
           by : {"human", "agent", "relay", "timeout"}, authority : Nat]

\* pins: the affected tasks and the revision each one had; answer: none or one.
Cycle == [pins : UNION {[scope -> Nat] : scope \in SUBSET Tasks \ {{}}}, policy : Nat,
          opener : Kinds, created : Nat, expires : Nat, answer : Seq(Answer)]

Init ==
  /\ \E c \in Contents : revisions = [t \in Tasks |-> <<c>>]
  /\ \E r \in Rules : policies = <<[rules |-> r, relay |-> FALSE]>>
  /\ decisions = [d \in {} |-> TRUE]
  /\ cycles = [d \in {} |-> <<>>]
  /\ now = 0

Generation(d) == Len(cycles[d])
Current(d) == Last(cycles[d])
Scope(d) == DOMAIN Current(d).pins
Expired(d) == Current(d).expires # 0 /\ Current(d).expires <= now
Allowed(d) == Current(d).answer # <<>> /\ Current(d).answer[1].disposition = "allow"

---------------------------------------------------------------------------
(* The questions asked of a decision.                                        *)

\* ensure_decision_scope_current: nothing at all changed in the scope.
ScopeCurrent(d) ==
  /\ ~Expired(d)
  /\ Current(d).policy = Len(policies)
  /\ \A t \in Scope(d) : Current(d).pins[t] = Len(revisions[t])

\* decision_scope_changed: something the decision judged changed.
ScopeChanged(d) ==
  \/ policies[Current(d).policy].rules # Last(policies).rules
  \/ \E t \in Scope(d) : revisions[t][Current(d).pins[t]] # Last(revisions[t])

\* pending_decision_ids, the guard of ownership-dependent work on a task.
Blocks(d, t) == t \in Scope(d) /\ (ScopeChanged(d) \/ ~Allowed(d) \/ Expired(d))

\* A status that only compares the revision of the task itself.
DecisionsReadyAlone(t) ==
  \A d \in DOMAIN decisions : t \in Scope(d) =>
    /\ Current(d).policy = Len(policies)
    /\ Current(d).pins[t] = Len(revisions[t])
    /\ Allowed(d) /\ ~Expired(d)

\* decisions_ready, the column behind a task's status.
DecisionsReady(t) ==
  \A d \in DOMAIN decisions : t \in Scope(d) => ScopeCurrent(d) /\ Allowed(d)

---------------------------------------------------------------------------
(* Operations.                                                               *)

\* c may be what the task already says: a priority, dependency or lifecycle edit.
EditTask(t, c) ==
  /\ Len(revisions[t]) < MaxRevision
  /\ revisions' = [revisions EXCEPT ![t] = Append(@, c)]
  /\ UNCHANGED <<policies, decisions, cycles, now>>

UpdatePolicy(p) ==
  /\ Len(policies) < MaxPolicies
  /\ policies' = Append(policies, p)
  /\ UNCHANGED <<revisions, decisions, cycles, now>>

NewCycle(kind, scope, life) ==
  [pins |-> [t \in scope |-> Len(revisions[t])], policy |-> Len(policies), opener |-> kind,
   created |-> now, expires |-> IF life = 0 THEN 0 ELSE now + life, answer |-> <<>>]

\* refuse_agent_reversible_human_decision.
MayOpen(kind, question) ==
  ~(kind = "agent" /\ question.required = "human" /\ question.reversible)

CreateDecision(d, kind, question, scope, life) ==
  /\ d \notin DOMAIN decisions
  /\ MayOpen(kind, question)
  /\ decisions' = [e \in DOMAIN decisions \cup {d} |->
                     IF e = d THEN question ELSE decisions[e]]
  /\ cycles' = [e \in DOMAIN cycles \cup {d} |->
                  IF e = d THEN <<NewCycle(kind, scope, life)>> ELSE cycles[e]]
  /\ UNCHANGED <<revisions, policies, now>>

\* The first revision of the run of policies that allow relaying up to now.
RelayAuthority ==
  CHOOSE r \in DOMAIN policies :
    /\ \A i \in r..Len(policies) : policies[i].relay
    /\ r > 1 => ~policies[r - 1].relay

\* An actor check that only looks at relayed answers.
ActorMayAnswerAny(d, by) == by = "relay" => decisions[d].required = "human" /\ Last(policies).relay

ActorMayAnswer(d, by) ==
  IF by = "relay" THEN decisions[d].required = "human" /\ Last(policies).relay
  ELSE decisions[d].required \in {by, "either"}

Answered(d, answer) ==
  [cycles EXCEPT ![d] = [@ EXCEPT ![Len(@)].answer = <<answer>>]]

\* An answer that does not compare the generation its author read.
AnswerAnyGeneration(d, by, disposition, read) ==
  /\ read <= Generation(d)
  /\ Current(d).answer = <<>>
  /\ ActorMayAnswer(d, by)
  /\ ScopeCurrent(d)
  /\ cycles' = Answered(d, [disposition |-> disposition, read |-> read, by |-> by,
                            authority |-> IF by = "relay" THEN RelayAuthority ELSE 0])
  /\ UNCHANGED <<revisions, policies, decisions, now>>

\* read is the expected_generation of the request; a cycle takes one answer.
AnswerDecision(d, by, disposition, read) ==
  /\ read = Generation(d)
  /\ Current(d).answer = <<>>
  /\ ActorMayAnswer(d, by)
  /\ ScopeCurrent(d)
  /\ cycles' = Answered(d, [disposition |-> disposition, read |-> read, by |-> by,
                            authority |-> IF by = "relay" THEN RelayAuthority ELSE 0])
  /\ UNCHANGED <<revisions, policies, decisions, now>>

\* The scope of the new cycle is the request's, at current revisions.
ReopenDecision(d, kind, scope, life, read) ==
  /\ read = Generation(d)
  /\ Generation(d) < MaxGeneration
  /\ MayOpen(kind, decisions[d])
  /\ cycles' = [cycles EXCEPT ![d] = Append(@, NewCycle(kind, scope, life))]
  /\ UNCHANGED <<revisions, policies, decisions, now>>

\* sweep_timed_out_decisions: the unanswered cycles that waited long enough.
Due(d) ==
  /\ decisions[d].reversible
  /\ Current(d).created + DecisionTimeout <= now
  /\ decisions[d].required = "human" => Current(d).opener = "human"
  /\ Current(d).answer = <<>>

\* ORDER BY created_at, id LIMIT SWEEP_BATCH.
Batch ==
  LET due == {d \in DOMAIN decisions : Due(d)}
      Before(d) == {e \in due : \/ Current(e).created < Current(d).created
                                \/ Current(e).created = Current(d).created /\ e < d}
  IN {d \in due : Cardinality(Before(d)) < SweepBatch}

\* A sweep that gives up at the first decision it may not answer.
SweepUntilStale ==
  /\ Batch # {}
  /\ \A d \in Batch : ScopeCurrent(d)
  /\ cycles' = [d \in DOMAIN cycles |->
       IF d \in Batch /\ ScopeCurrent(d)
       THEN Answered(d, [disposition |-> "allow", read |-> Generation(d), by |-> "timeout",
                         authority |-> 0])[d]
       ELSE cycles[d]]
  /\ UNCHANGED <<revisions, policies, decisions, now>>

\* A decision of the batch whose scope is stale or expired is skipped.
Sweep ==
  /\ Batch # {}
  /\ cycles' = [d \in DOMAIN cycles |->
       IF d \in Batch /\ ScopeCurrent(d)
       THEN Answered(d, [disposition |-> "allow", read |-> Generation(d), by |-> "timeout",
                         authority |-> 0])[d]
       ELSE cycles[d]]
  /\ UNCHANGED <<revisions, policies, decisions, now>>

Tick ==
  /\ now < MaxTime
  /\ now' = now + 1
  /\ UNCHANGED <<revisions, policies, decisions, cycles>>

Next ==
  \/ \E t \in Tasks, c \in Contents : EditTask(t, c)
  \/ \E p \in Policy : UpdatePolicy(p)
  \/ \E d \in DecisionIds, kind \in Kinds, question \in Question,
        scope \in SUBSET Tasks \ {{}}, life \in Expiries :
       CreateDecision(d, kind, question, scope, life)
  \/ \E d \in DOMAIN decisions, by \in Kinds \cup {"relay"},
        disposition \in Dispositions, read \in 1..MaxGeneration :
       AnswerDecision(d, by, disposition, read)
  \/ \E d \in DOMAIN decisions, kind \in Kinds, scope \in SUBSET Tasks \ {{}},
        life \in Expiries, read \in 1..MaxGeneration :
       ReopenDecision(d, kind, scope, life, read)
  \/ Sweep
  \/ Tick

\* serve runs the sweep every five minutes, and time passes.
Spec == Init /\ [][Next]_vars /\ WF_vars(Sweep) /\ WF_vars(Tick)

---------------------------------------------------------------------------
\* An allow that lets work on a task proceed was given about the whole scope as it
\* stands: whoever answered had read a cycle that pinned, for every task now in
\* scope, what that task still says, under the rules still in force.
AllowJudgedCurrentWork ==
  \A d \in DOMAIN decisions, t \in Tasks : t \in Scope(d) /\ ~Blocks(d, t) =>
    LET judged == cycles[d][Current(d).answer[1].read]
    IN /\ \A u \in Scope(d) : /\ u \in DOMAIN judged.pins
                              /\ revisions[u][judged.pins[u]] = Last(revisions[u])
       /\ policies[judged.policy].rules = Last(policies).rules

\* The status shown never runs ahead of the guard: a task reported as free of
\* decisions is not refused for one (the two are separate queries).
StatusNeverAhead ==
  \A t \in Tasks : DecisionsReady(t) => \A d \in DOMAIN decisions : ~Blocks(d, t)

\* "An agent can never run out the clock on a reserved decision"
\* (sweep_timed_out_decisions): every answer to a decision that requires a human is
\* a human's, is relayed under a policy whose enabling revision it names, or is the
\* timeout of a cycle a human opened.
HumansDecide ==
  \A d \in DOMAIN decisions : decisions[d].required = "human" =>
    \A g \in DOMAIN cycles[d] : \A i \in DOMAIN cycles[d][g].answer :
      LET answer == cycles[d][g].answer[i]
      IN \/ answer.by = "human"
         \/ /\ answer.by = "relay"
            /\ policies[answer.authority].relay
            /\ answer.authority > 1 => ~policies[answer.authority - 1].relay
         \/ answer.by = "timeout" /\ cycles[d][g].opener = "human"

\* What the answers to scoped decisions let happen (knowledge.rs, attention.rs).
DecisionsSound == AllowJudgedCurrentWork /\ StatusNeverAhead /\ HumansDecide

Waiting(d) == d \in DOMAIN decisions /\ Due(d) /\ ScopeCurrent(d)

\* The decisions the sweep takes before this one and never answers fill the batch.
CrowdedOut(d) ==
  Cardinality({e \in DOMAIN decisions : /\ Due(e) /\ ~ScopeCurrent(e)
                                        /\ \/ Current(e).created < Current(d).created
                                           \/ Current(e).created = Current(d).created /\ e < d})
    >= SweepBatch

\* The sweep gets round to every reversible decision that is due and whose scope stays
\* current, by whomever it is answered, unless older decisions that it may not answer
\* fill its batch (sweep_timed_out_decisions).
ReversibleProceeds == \A d \in DecisionIds : Waiting(d) ~> (~Waiting(d) \/ CrowdedOut(d))

\* "Answers every reversible decision whose current cycle has waited
\* DECISION_TIMEOUT_MS" (sweep_timed_out_decisions): none that is due and whose scope
\* stays current waits for ever.
EveryDueAnswered == \A d \in DecisionIds : Waiting(d) ~> ~Waiting(d)

\* "Priority edits and other policy changes leave decisions current"
\* (decision_scope_changed): an allow whose scope did not change in anything it
\* judged keeps the task's status free.
StatusFollowsScope ==
  \A t \in Tasks : (\A d \in DOMAIN decisions : ~Blocks(d, t)) => DecisionsReady(t)

\* "Every affected task remains blocked until the decision is reopened against all
\* current revisions and answered again" (knowledge-contract.md): reopening alone
\* lets no blocked task proceed.
ReopeningUnblocksNothing ==
  [][\A d \in DOMAIN decisions, t \in Tasks :
       Blocks(d, t) /\ Len(cycles'[d]) > Len(cycles[d]) => Blocks(d, t)']_vars
=============================================================================
