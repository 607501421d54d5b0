--------------------------------- MODULE Workflow ---------------------------------
(***************************************************************************)
(* The completion workflow of crates/server/src/workflow.rs and the review   *)
(* reconciliation of autonomy.rs: submissions, review and integration        *)
(* activities, the target hold, publication intents, results and their        *)
(* reconciliation, together with the client that pushes the target branch     *)
(* (crates/local/src/git_workflow.rs).                                       *)
(*                                                                         *)
(* One project whose tasks all land on one target branch.  The tables of the  *)
(* service are functions on the keys present: an activity is keyed by the      *)
(* submission, kind and slot that make it unique, and reviews, intents,        *)
(* results and reconciliations are keyed by their activity.  Every step of the  *)
(* service is one transaction; the push is two client steps around it.          *)
(***************************************************************************)
EXTENDS Integers, Sequences, FiniteSets, SequencesExt

CONSTANTS
  Agents, Humans, Nobody,
  Tasks, CodeTasks, NoTask,
  Checks,              \* required checks a roster may name
  Modes,               \* review modes explored
  Automatics,          \* values of automatic_integration explored
  Recoveries,          \* recovery modes explored
  MaxSubs, MaxSlot, MaxGen, MaxPolicies, MaxDigest, MaxForeign  \* bounds

ReviewModes == {"none", "agent", "human", "either", "both"}
ReviewKinds == {"agent_review", "human_review", "either_review"}

ASSUME WorkflowAssumption ==
  /\ Agents \cap Humans = {} /\ Nobody \notin Agents \cup Humans
  /\ CodeTasks \subseteq Tasks /\ NoTask \notin Tasks
  /\ Modes \subseteq ReviewModes
  /\ Automatics \subseteq BOOLEAN
  /\ Recoveries \subseteq {"agent", "manual"}
  /\ {MaxSubs, MaxSlot, MaxGen, MaxPolicies, MaxDigest, MaxForeign} \subseteq Nat

VARIABLES
  subj,     \* workflow_subjects with the task and its current submission
  acts,     \* workflow_activities with their task, attempt, hold and authorization
  reviews,  \* review_decisions
  intents,  \* publication_intents
  results,  \* integration_results
  recons,   \* publication_reconciliations
  policy,   \* the project's policy and workflow policy
  landed    \* the revisions the target branch has had, oldest first

vars == <<subj, acts, reviews, intents, results, recons, policy, landed>>

People == Agents \cup Humans
Rosters == SUBSET Checks \ {{}}
Key == [task : Tasks, sub : Nat, kind : ReviewKinds \cup {"integration"}, slot : Nat]

\* An integration result is a function of the candidate and of the target it is built on,
\* here the length of the branch; a push from elsewhere is a revision of no task.
Revision == [task : Tasks \cup {NoTask}, sub : Nat, at : Nat]
Foreign(n) == [task |-> NoTask, sub |-> 0, at |-> n]
Target == Last(landed)

Subject ==
  [phase : {"none", "review", "integration", "revision_needed", "done"},
   open : BOOLEAN, owner : Agents \cup {Nobody}, contributors : SUBSET Agents,
   digest : Nat,          \* the judged fields as they are
   sub : Nat, superseded : BOOLEAN, author : Agents \cup {Nobody},
   pinned : Nat,          \* the digest the current submission pinned
   amendment : Nat]       \* the digest its ac_amendment proposes, 0 for none

Activity ==
  [state : {"queued", "active", "completed", "canceled", "recovery_required"},
   blocked : BOOLEAN, owner : People \cup {Nobody}, live : BOOLEAN, gen : Nat,
   busy : BOOLEAN,        \* it has an unfinished job or a held reservation
   hold : {"none", "held", "released"}, auth : BOOLEAN,
   passed : SUBSET Checks,  \* checks the intent's attempt passed on the intended result
   push : {"idle", "cleared", "ended"}]

Empty == [i \in {} |-> {}]

Init ==
  /\ subj = [t \in Tasks |->
       [phase |-> "none", open |-> TRUE, owner |-> Nobody, contributors |-> {}, digest |-> 1,
        sub |-> 0, superseded |-> FALSE, author |-> Nobody, pinned |-> 0, amendment |-> 0]]
  /\ acts = Empty /\ reviews = Empty /\ intents = Empty /\ results = Empty /\ recons = Empty
  /\ \E m \in Modes, a \in Automatics, r \in Recoveries, checks \in Rosters :
       policy = [mode |-> m, automatic |-> a, recovery |-> r, roster |-> checks, revision |-> 1]
  /\ landed = <<Foreign(0)>>

------------------------------------------------------------------------------
(* Tables and activities.                                                    *)

Insert(table, i, row) == [j \in DOMAIN table \cup {i} |-> IF j = i THEN row ELSE table[j]]

Of(as, t) == {i \in DOMAIN as : i.task = t}
OfCurrent(as, t) == {i \in Of(as, t) : i.sub = subj[t].sub}

\* jobs::ensure_attempt_quiescent over every activity of the subject.
Quiescent(as, t) == \A i \in Of(as, t) : ~as[i].busy

Activity0(blocked, hold) ==
  [state |-> "queued", blocked |-> blocked, owner |-> Nobody, live |-> FALSE, gen |-> 0,
   busy |-> FALSE, hold |-> hold, auth |-> FALSE, passed |-> {}, push |-> "idle"]

NextSlot(as, t, n, kind) ==
  [task |-> t, sub |-> n, kind |-> kind,
   slot |-> 1 + Cardinality({i \in Of(as, t) : i.sub = n /\ i.kind = kind})]

\* One more activity of kind for submission n of t, in its next slot.
Create(as, t, n, kind, blocked, hold) ==
  Insert(as, NextSlot(as, t, n, kind), Activity0(blocked, hold))

\* New activities of the kinds, all in their next slot.
CreateAll(as, t, n, kinds, blocked) ==
  LET fresh == {NextSlot(as, t, n, k) : k \in kinds}
  IN [i \in DOMAIN as \cup fresh |-> IF i \in fresh THEN Activity0(blocked, "none") ELSE as[i]]

Disown(a) == [a EXCEPT !.owner = Nobody, !.live = FALSE]

\* cancel_activities: an activity that needs recovery keeps its state.
Cancel(a) == [a EXCEPT !.state = IF @ \in {"queued", "active"} THEN "canceled" ELSE @]

\* Mutant of CloseHold: a state the table does not know.
CloseHoldAsCanceled(a) == [a EXCEPT !.hold = IF @ = "held" THEN "canceled" ELSE @]

CloseHold(a) == [a EXCEPT !.hold = IF @ = "held" THEN "released" ELSE @]

\* Mutant of NoHold: a hold whose owner has lapsed does not count.
NoHoldOfLive(as) == \A i \in DOMAIN as : as[i].hold = "held" => ~as[i].live

\* The index one_integration_target_hold.
NoHold(as) == \A i \in DOMAIN as : as[i].hold # "held"

\* ActivityContext::pins_current, ensure_current and owned_activity.
PinsCurrent(i) ==
  /\ i.sub = subj[i.task].sub
  /\ ~subj[i.task].superseded
  /\ subj[i.task].pinned = subj[i.task].digest

Eligible(i) ==
  /\ PinsCurrent(i)
  /\ subj[i.task].phase # "revision_needed"
  /\ acts[i].state \in {"queued", "active"}

Owns(p, i) == Eligible(i) /\ acts[i].owner = p /\ acts[i].live

------------------------------------------------------------------------------
(* Required reviews.                                                         *)

RequiredKinds(mode) ==
  CASE mode = "agent"  -> {"agent_review"}
    [] mode = "human"  -> {"human_review"}
    [] mode = "either" -> {"either_review"}
    [] mode = "both"   -> {"agent_review", "human_review"}
    [] mode = "none"   -> {}

\* Mutant of ReviewsSatisfied: a human stands in for an agent even where a human review
\* is required as well.
ReviewsSatisfiedByHumans(need, humans, agents) ==
  LET byAgents == IF need["agent_review"] < agents THEN need["agent_review"] ELSE agents
      rest == need["agent_review"] - byAgents
      spare == humans - need["human_review"]
  IN /\ spare >= rest
     /\ (spare - rest) + (agents - byAgents) >= need["either_review"]

\* reviews_satisfied: need counts the required reviews of every kind.
ReviewsSatisfied(need, humans, agents) ==
  LET byAgents == IF need["agent_review"] < agents THEN need["agent_review"] ELSE agents
      rest == need["agent_review"] - byAgents
      spare == humans - need["human_review"]
  IN /\ spare >= 0
     /\ rest > 0 => need["human_review"] = 0 /\ spare >= rest
     /\ (spare - rest) + (agents - byAgents) >= need["either_review"]

Approvals(rv, t) ==
  {i \in DOMAIN rv : i.task = t /\ i.sub = subj[t].sub /\ rv[i].decision = "approved"}

\* Mutant of ApprovalsSatisfied: every subject is judged by the current mode.
ApprovalsSatisfiedByMode(as, rv, t, mode) ==
  LET need == [k \in ReviewKinds |-> IF k \in RequiredKinds(mode) THEN 1 ELSE 0]
      by(class) == Cardinality({i \in Approvals(rv, t) : rv[i].by \in class})
  IN ReviewsSatisfied(need, by(Humans), by(Agents))

\* A subject in review is judged by the mode, one past review by the reviews completed.
ApprovalsSatisfied(as, rv, t, mode) ==
  LET completed(k) == {i \in OfCurrent(as, t) : i.kind = k /\ as[i].state = "completed"}
      need == [k \in ReviewKinds |->
                 IF subj[t].phase # "review" THEN Cardinality(completed(k))
                 ELSE IF k \in RequiredKinds(mode) THEN 1 ELSE 0]
      by(class) == Cardinality({i \in Approvals(rv, t) : rv[i].by \in class})
  IN ReviewsSatisfied(need, by(Humans), by(Agents))

Approved(t) == ApprovalsSatisfied(acts, reviews, t, policy.mode)
Authorized(i) == policy.automatic \/ acts[i].auth

\* advance_approved_subject: queued reviews are not needed any more, and the queued
\* integration is unblocked.  General work completes, if nothing of it still runs.
Advance(as, t) ==
  [i \in DOMAIN as |->
     IF i \in OfCurrent(as, t) /\ as[i].state = "queued"
     THEN IF i.kind = "integration" THEN [as[i] EXCEPT !.blocked = FALSE] ELSE Cancel(as[i])
     ELSE as[i]]

MayAdvance(as, t) == t \in CodeTasks \/ Quiescent(as, t)
Advanced(s, t) ==
  IF t \in CodeTasks THEN [s EXCEPT !.phase = "integration"]
                     ELSE [s EXCEPT !.phase = "done", !.open = FALSE]

\* reconcile_subject: the activities and the subject afterwards.  A subject that cannot
\* advance rolls back to its savepoint.
ReconcileSubject(t, mode, advance) ==
  LET unrequired(i) == /\ i \in OfCurrent(acts, t) /\ acts[i].state = "queued"
                       /\ i.kind \in ReviewKinds \ RequiredKinds(mode)
      kept == [i \in DOMAIN acts |-> IF unrequired(i) THEN Cancel(acts[i]) ELSE acts[i]]
      lives(k) == \E i \in OfCurrent(kept, t) : i.kind = k /\ kept[i].state # "canceled"
      reviewing == \E i \in OfCurrent(kept, t) :
                     i.kind \in ReviewKinds /\ kept[i].state = "active"
      missing == {k \in RequiredKinds(mode) : ~lives(k)}
  IN CASE subj[t].phase # "review" -> [acts |-> acts, subj |-> subj[t]]
       [] subj[t].phase = "review" /\ ~ApprovalsSatisfied(kept, reviews, t, mode) ->
            [acts |-> CreateAll(kept, t, subj[t].sub, missing, FALSE), subj |-> subj[t]]
       [] subj[t].phase = "review" /\ ApprovalsSatisfied(kept, reviews, t, mode) ->
            IF ~advance \/ subj[t].amendment # 0 \/ reviewing
            THEN [acts |-> kept, subj |-> subj[t]]
            ELSE IF MayAdvance(kept, t)
                 THEN [acts |-> Advance(kept, t), subj |-> Advanced(subj[t], t)]
                 ELSE [acts |-> acts, subj |-> subj[t]]

\* reconcile_required_reviews over every subject.
Reconciled(mode, advance) ==
  LET after == [t \in Tasks |-> ReconcileSubject(t, mode, advance)]
  IN /\ acts' = [i \in UNION {DOMAIN after[t].acts : t \in Tasks} |-> after[i.task].acts[i]]
     /\ subj' = [t \in Tasks |-> after[t].subj]
     /\ \A i \in DOMAIN acts' : i.slot <= MaxSlot

------------------------------------------------------------------------------
(* Policy and the subject task.                                              *)

UpdatePolicy(mode, automatic, recovery) ==
  /\ policy.revision < MaxPolicies
  /\ NoHold(acts)
  /\ policy' = [policy EXCEPT !.mode = mode, !.automatic = automatic, !.recovery = recovery,
                              !.revision = @ + 1]
  /\ Reconciled(mode, TRUE)
  /\ UNCHANGED <<reviews, intents, results, recons, landed>>

PutWorkflowPolicy(roster) ==
  /\ policy.revision < MaxPolicies
  /\ NoHold(acts)
  /\ policy' = [policy EXCEPT !.roster = roster, !.revision = @ + 1]
  /\ UNCHANGED <<subj, acts, reviews, intents, results, recons, landed>>

\* startup: the service restarts and reconciles without advancing.
Startup ==
  /\ Reconciled(policy.mode, FALSE)
  /\ UNCHANGED <<reviews, intents, results, recons, policy, landed>>

Claimable(t) == subj[t].open /\ subj[t].phase \in {"none", "revision_needed"}

\* The subject task changes hands; its leases and their recovery are the Coordinator's.
ClaimTask(p, t) ==
  /\ Claimable(t)
  /\ subj[t].owner # p
  /\ subj' = [subj EXCEPT ![t].owner = p, ![t].contributors = @ \cup {p}]
  /\ UNCHANGED <<acts, reviews, intents, results, recons, policy, landed>>

EditTask(t) ==
  /\ Claimable(t)
  /\ subj[t].owner = Nobody
  /\ subj[t].digest < MaxDigest
  /\ subj' = [subj EXCEPT ![t].digest = @ + 1]
  /\ UNCHANGED <<acts, reviews, intents, results, recons, policy, landed>>

CompleteExternally(t) ==
  /\ subj[t].open /\ subj[t].owner = Nobody
  /\ subj[t].phase \notin {"review", "integration"}
  /\ \A i \in Of(acts, t) : acts[i].state \notin {"queued", "active", "recovery_required"}
  /\ subj' = [subj EXCEPT ![t].open = FALSE,
                          ![t].phase = IF @ = "revision_needed" THEN "done" ELSE @]
  /\ UNCHANGED <<acts, reviews, intents, results, recons, policy, landed>>

Submit(p, t, amend) ==
  LET n == subj[t].sub + 1
      kinds == RequiredKinds(policy.mode)
      code == IF t \in CodeTasks THEN {"integration"} ELSE {}
      new == [subj[t] EXCEPT !.sub = n, !.superseded = FALSE, !.author = p, !.owner = Nobody,
                !.contributors = @ \cup {p}, !.pinned = subj[t].digest,
                !.amendment = IF amend THEN subj[t].digest + 1 ELSE 0]
      reviewed == CreateAll(acts, t, n, kinds, FALSE)
  IN /\ Claimable(t) /\ subj[t].owner = p
     /\ n <= MaxSubs
     /\ amend => kinds # {} /\ subj[t].digest < MaxDigest
     /\ Quiescent(acts, t)
     /\ acts' = CreateAll(reviewed, t, n, code, kinds # {})
     /\ subj' = [subj EXCEPT ![t] = IF kinds = {} THEN Advanced(new, t)
                                                  ELSE [new EXCEPT !.phase = "review"]]
     /\ UNCHANGED <<reviews, intents, results, recons, policy, landed>>

------------------------------------------------------------------------------
(* Claiming, working on and releasing an activity.                             *)

\* Mutant of Reviewer: contributors are not excluded.
ReviewerAny(p, i) ==
  \/ p \in Agents /\ i.kind \in {"agent_review", "either_review"}
  \/ p \in Humans /\ i.kind \in {"human_review", "either_review"}

\* Who may own a review of the kind: agents must not have contributed to the task.
Reviewer(p, i) ==
  \/ p \in Agents \ subj[i.task].contributors /\ i.kind \in {"agent_review", "either_review"}
  \/ p \in Humans /\ i.kind \in {"human_review", "either_review"}

ClaimActivity(p, i) ==
  LET a == acts[i]
  IN /\ Eligible(i) /\ ~a.blocked
     /\ \/ i.kind # "integration" /\ Reviewer(p, i)
        \/ /\ i.kind = "integration" /\ Approved(i.task) /\ Authorized(i)
           /\ a.hold # "released" /\ (a.hold = "none" => NoHold(acts))
     /\ \/ a.owner = Nobody
        \/ ~a.live /\ ~a.busy /\ (policy.recovery = "agent" \/ p \in Humans)
     /\ a.gen < MaxGen
     /\ acts' = [acts EXCEPT ![i].state = "active", ![i].owner = p, ![i].live = TRUE,
                             ![i].gen = @ + 1,
                             ![i].hold = IF i.kind = "integration" THEN "held" ELSE @]
     /\ UNCHANGED <<subj, reviews, intents, results, recons, policy, landed>>

\* The lease runs out, or the owner's session or credential ends.
LapseActivity(i) ==
  /\ acts[i].live
  /\ acts' = [acts EXCEPT ![i].live = FALSE]
  /\ UNCHANGED <<subj, reviews, intents, results, recons, policy, landed>>

ReleaseActivity(p, i) ==
  LET freed == [acts EXCEPT ![i] = [Disown(@) EXCEPT !.state = "queued"]]
      closed == [freed EXCEPT ![i] = Cancel(CloseHold(@))]
  IN /\ Owns(p, i) /\ ~acts[i].busy /\ i \notin DOMAIN intents
     /\ acts' = IF i.kind # "integration" THEN freed
                ELSE Create(closed, i.task, i.sub, "integration", FALSE, "none")
     /\ \A j \in DOMAIN acts' : j.slot <= MaxSlot
     /\ UNCHANGED <<subj, reviews, intents, results, recons, policy, landed>>

\* guard_activity_work: reservations and jobs of an activity.
StartWork(i) ==
  /\ PinsCurrent(i)
  /\ acts[i].state = "active" /\ acts[i].live
  /\ i \notin DOMAIN results
  /\ ~acts[i].busy
  /\ acts' = [acts EXCEPT ![i].busy = TRUE]
  /\ UNCHANGED <<subj, reviews, intents, results, recons, policy, landed>>

\* The jobs end.  Those the intent's attempt ran on the intended result are receipts.
EndWork(i, checks) ==
  /\ acts[i].busy
  /\ checks # {} => i \in DOMAIN intents /\ intents[i].gen = acts[i].gen
  /\ acts' = [acts EXCEPT ![i].busy = FALSE, ![i].passed = @ \cup checks]
  /\ UNCHANGED <<subj, reviews, intents, results, recons, policy, landed>>

------------------------------------------------------------------------------
(* Reviews and revision.                                                     *)

\* Mutant of Amended: the submission keeps the pin of the criteria it amended.
AmendedUnpinned(s) == IF s.amendment = 0 THEN s ELSE [s EXCEPT !.digest = s.amendment]

\* apply_amendment, when the submission proposes one.
Amended(s) ==
  IF s.amendment = 0 THEN s ELSE [s EXCEPT !.digest = s.amendment, !.pinned = s.amendment]

\* Decide activity i; then the subject goes back, advances, or waits for more reviews.
\* An approval of an amended submission accepts its amendment, a refusal of it asks for
\* changes.
Review(p, i, decision) ==
  LET t == i.task
      as == [acts EXCEPT ![i] = [Disown(@) EXCEPT !.state = "completed", !.blocked = FALSE]]
      rv == Insert(reviews, i, [decision |-> decision, by |-> p])
      others == OfCurrent(acts, t) \ {i}
  IN /\ i.kind \in ReviewKinds
     /\ Owns(p, i) /\ Reviewer(p, i) /\ ~acts[i].busy
     /\ reviews' = rv
     /\ \/ /\ decision = "changes_requested"
           /\ Quiescent(acts, t)
           /\ acts' = [j \in DOMAIN as |->
                         IF j \notin others THEN as[j]
                         ELSE IF as[j].state = "active" THEN Disown(Cancel(as[j]))
                         ELSE Cancel(as[j])]
           /\ subj' = [subj EXCEPT ![t].phase = "revision_needed", ![t].superseded = TRUE]
        \/ /\ decision = "approved" /\ ApprovalsSatisfied(as, rv, t, policy.mode)
           /\ MayAdvance(as, t)
           /\ acts' = Advance(as, t)
           /\ subj' = [subj EXCEPT ![t] = Advanced(Amended(subj[t]), t)]
        \/ /\ decision = "approved" /\ ~ApprovalsSatisfied(as, rv, t, policy.mode)
           /\ acts' = as
           /\ UNCHANGED subj
     /\ UNCHANGED <<intents, results, recons, policy, landed>>

\* ensure_revise_actor for the reason codes a current candidate admits.
MayRevise(p, t) ==
  \/ \E i \in OfCurrent(acts, t) :
       i.kind = "integration" /\ acts[i].state = "active" /\ acts[i].owner = p /\ acts[i].live
  \/ subj[t].digest # subj[t].pinned /\ p \notin subj[t].contributors
  \/ subj[t].author = p

\* An intent nobody has found to be unpublished.
Effect(i) == i \in DOMAIN intents
             /\ (i \in DOMAIN recons => recons[i].disposition # "not_published")

\* Mutant of Reopen: running work of the task's activities does not stop it.
ReopenBusy(p, t) ==
  LET mine == OfCurrent(acts, t)
  IN /\ subj[t].phase \notin {"none", "done"}
     /\ p \in Humans \/ (policy.recovery = "agent" /\ MayRevise(p, t))
     /\ \A i \in mine : ~Effect(i)
     /\ acts' = [i \in DOMAIN acts |->
                   IF i \in mine THEN CloseHold(Cancel(Disown(acts[i]))) ELSE acts[i]]
     /\ subj' = [subj EXCEPT ![t].phase = "revision_needed", ![t].superseded = TRUE]
     /\ UNCHANGED <<reviews, intents, results, recons, policy, landed>>

Reopen(p, t) ==
  LET mine == OfCurrent(acts, t)
  IN /\ subj[t].phase \notin {"none", "done"}
     /\ p \in Humans \/ (policy.recovery = "agent" /\ MayRevise(p, t))
     /\ \A i \in mine : ~Effect(i)
     /\ \/ subj[t].digest # subj[t].pinned
        \/ \A i \in mine : acts[i].live => acts[i].owner = p
     /\ Quiescent(acts, t)
     /\ acts' = [i \in DOMAIN acts |->
                   IF i \in mine THEN CloseHold(Cancel(Disown(acts[i]))) ELSE acts[i]]
     /\ subj' = [subj EXCEPT ![t].phase = "revision_needed", ![t].superseded = TRUE]
     /\ UNCHANGED <<reviews, intents, results, recons, policy, landed>>

------------------------------------------------------------------------------
(* Integration.                                                              *)

Authorize(i) ==
  /\ Eligible(i) /\ i.kind = "integration"
  /\ ~policy.automatic /\ Approved(i.task) /\ ~acts[i].auth
  /\ acts' = [acts EXCEPT ![i].auth = TRUE]
  /\ UNCHANGED <<subj, reviews, intents, results, recons, policy, landed>>

\* create_integration_result: a candidate the target already contains changes nothing.
Contained(i) == \E k \in 1..Len(landed) : landed[k].task = i.task /\ landed[k].sub = i.sub
Result(i) == IF Contained(i) THEN Target
             ELSE [task |-> i.task, sub |-> i.sub, at |-> Len(landed)]

PublicationIntent(p, i) ==
  /\ Owns(p, i) /\ i.kind = "integration"
  /\ Approved(i.task) /\ Authorized(i) /\ acts[i].hold = "held"
  /\ i \notin DOMAIN intents
  /\ intents' = Insert(intents, i,
       [gen |-> acts[i].gen, base |-> Target, result |-> Result(i),
        roster |-> policy.roster])
  /\ UNCHANGED <<subj, acts, reviews, results, recons, policy, landed>>

\* Mutant of PublicationReady: check receipts are not asked for.
PublicationReadyUnchecked(i) ==
  /\ i \in DOMAIN intents \ DOMAIN results
  /\ intents[i].gen = acts[i].gen
  /\ Approved(i.task) /\ Authorized(i) /\ acts[i].hold = "held"

\* publication_readiness as the client reads it, between its two looks at the target.
PublicationReady(i) ==
  /\ i \in DOMAIN intents \ DOMAIN results
  /\ intents[i].gen = acts[i].gen
  /\ Approved(i.task) /\ Authorized(i) /\ acts[i].hold = "held"
  /\ intents[i].roster \subseteq acts[i].passed

Clear(i) ==
  /\ acts[i].state = "active" /\ acts[i].live /\ PinsCurrent(i)
  /\ PublicationReady(i)
  /\ acts[i].push = "idle"
  /\ Target = intents[i].base /\ Target # intents[i].result
  /\ acts' = [acts EXCEPT ![i].push = "cleared"]
  /\ UNCHANGED <<subj, reviews, intents, results, recons, policy, landed>>

\* The push replaces exactly the revision it expects, fails, or never started because
\* its authority ran out first.
EndPublish(i) ==
  /\ acts[i].push = "cleared"
  /\ \/ /\ Target = intents[i].base
        /\ landed' = Append(landed, intents[i].result)
        /\ acts' = [acts EXCEPT ![i].push = "ended"]
     \/ /\ acts' = [acts EXCEPT ![i].push = "ended"]
        /\ UNCHANGED landed
     \/ /\ ~acts[i].live
        /\ acts' = [acts EXCEPT ![i].push = "idle"]
        /\ UNCHANGED landed
  /\ UNCHANGED <<subj, reviews, intents, results, recons, policy>>

\* Another actor pushes the target branch.
ForeignPush ==
  LET n == Cardinality({k \in 1..Len(landed) : landed[k].task = NoTask})
  IN /\ n <= MaxForeign
     /\ landed' = Append(landed, Foreign(n))
     /\ UNCHANGED <<subj, acts, reviews, intents, results, recons, policy>>

Landed(rev) == \E k \in 1..Len(landed) : landed[k] = rev

\* integration_result: the client reports what it saw of its push.
IntegrationResult(p, i, state) ==
  /\ Owns(p, i)
  /\ i \in DOMAIN intents \ DOMAIN results
  /\ intents[i].gen = acts[i].gen
  /\ state = "published" => Landed(intents[i].result) /\ intents[i].roster \subseteq acts[i].passed
  /\ state = "not_published" => acts[i].push = "ended" /\ ~Landed(intents[i].result)
  /\ results' = Insert(results, i, [state |-> state])
  /\ acts' = IF state = "published" THEN acts
             ELSE [acts EXCEPT ![i] = [Disown(@) EXCEPT !.state = "recovery_required",
                                                        !.blocked = TRUE]]
  /\ UNCHANGED <<subj, reviews, intents, recons, policy, landed>>

\* The old activity is closed and a replacement holds the target in its place.
Replace(i) ==
  LET closed == [acts EXCEPT ![i] = [CloseHold(Cancel(Disown(@))) EXCEPT !.blocked = FALSE]]
  IN /\ NoHold(closed)
     /\ acts' = Create(closed, i.task, i.sub, "integration", FALSE, "held")
     /\ \A j \in DOMAIN acts' : j.slot <= MaxSlot

\* What an observation of the target says of an intent.
Shows(i, disposition) ==
  LET it == intents[i]
  IN CASE disposition = "published"     -> Target = it.result
       [] disposition = "not_published" -> Target = it.base
       [] disposition = "target_moved"  -> Target \notin {it.base, it.result}

ReportedAs(i, states) == i \in DOMAIN results /\ results[i].state \in states

Reconcile(i, disposition) ==
  /\ i.sub = subj[i.task].sub
  /\ i \in DOMAIN intents \ DOMAIN recons
  /\ Shows(i, disposition)
  /\ disposition = "not_published" => ~ReportedAs(i, {"published"}) /\ Target # intents[i].result
  /\ Replace(i)
  /\ recons' = Insert(recons, i, [disposition |-> disposition, agent |-> FALSE])
  /\ UNCHANGED <<subj, reviews, intents, results, policy, landed>>

\* The attempt that recorded the intent may still be at work.
ProducerUncertain(i) == acts[i].gen = intents[i].gen /\ (acts[i].live \/ acts[i].busy)

\* Mutant of AgentReconcile: nobody attests that the publisher has stopped.
AgentReconcileUnattested(i, disposition) ==
  /\ PinsCurrent(i) /\ policy.recovery = "agent"
  /\ acts[i].state \in {"active", "recovery_required"}
  /\ i \in DOMAIN intents \ DOMAIN recons
  /\ ~ProducerUncertain(i)
  /\ ~ReportedAs(i, {"published", "not_published"})
  /\ disposition # "target_moved" /\ Shows(i, disposition)
  /\ acts[i].hold = "held"
  /\ Replace(i)
  /\ recons' = Insert(recons, i, [disposition |-> disposition, agent |-> TRUE])
  /\ UNCHANGED <<subj, reviews, intents, results, policy, landed>>

\* agent_reconcile_publication, by a caller whose attestations are true: the publisher
\* has stopped.
AgentReconcile(i, disposition) ==
  /\ PinsCurrent(i) /\ policy.recovery = "agent"
  /\ acts[i].state \in {"active", "recovery_required"}
  /\ i \in DOMAIN intents \ DOMAIN recons
  /\ ~ProducerUncertain(i) /\ acts[i].push # "cleared"
  /\ ~ReportedAs(i, {"published", "not_published"})
  /\ disposition # "target_moved" /\ Shows(i, disposition)
  /\ acts[i].hold = "held"
  /\ Replace(i)
  /\ recons' = Insert(recons, i, [disposition |-> disposition, agent |-> TRUE])
  /\ UNCHANGED <<subj, reviews, intents, results, policy, landed>>

\* Mutant of Finalize: the checks of the intent stand for its publication.
FinalizeOnIntent(p, i) ==
  /\ Owns(p, i) /\ Approved(i.task) /\ Authorized(i)
  /\ i \in DOMAIN intents
  /\ intents[i].roster \subseteq acts[i].passed
  /\ ~acts[i].busy
  /\ acts' = [acts EXCEPT ![i] = [CloseHold(Disown(@)) EXCEPT !.state = "completed",
                                                              !.blocked = FALSE]]
  /\ subj' = [subj EXCEPT ![i.task].phase = "done", ![i.task].open = FALSE,
                          ![i.task].owner = Nobody]
  /\ UNCHANGED <<reviews, intents, results, recons, policy, landed>>

Finalize(p, i) ==
  /\ Owns(p, i) /\ Approved(i.task) /\ Authorized(i)
  /\ ReportedAs(i, {"published"})
  /\ Target = intents[i].result
  /\ intents[i].roster \subseteq acts[i].passed
  /\ ~acts[i].busy
  /\ acts' = [acts EXCEPT ![i] = [CloseHold(Disown(@)) EXCEPT !.state = "completed",
                                                              !.blocked = FALSE]]
  /\ subj' = [subj EXCEPT ![i.task].phase = "done", ![i.task].open = FALSE,
                          ![i.task].owner = Nobody]
  /\ UNCHANGED <<reviews, intents, results, recons, policy, landed>>

------------------------------------------------------------------------------
PolicyStep ==
  \/ \E m \in Modes, a \in Automatics, r \in Recoveries : UpdatePolicy(m, a, r)
  \/ \E roster \in Rosters : PutWorkflowPolicy(roster)
  \/ Startup

TaskStep(t) ==
  \/ \E p \in Agents : ClaimTask(p, t)
  \/ \E p \in Agents, amend \in BOOLEAN : Submit(p, t, amend)
  \/ \E p \in People : Reopen(p, t)
  \/ EditTask(t)
  \/ CompleteExternally(t)

ActivityStep(i) ==
  \/ \E p \in People : ClaimActivity(p, i)
  \/ \E p \in People : ReleaseActivity(p, i)
  \/ \E p \in People, d \in {"approved", "changes_requested"} : Review(p, i, d)
  \/ LapseActivity(i)
  \/ StartWork(i)
  \/ \E checks \in SUBSET Checks : EndWork(i, checks)

IntegrationStep(i) ==
  \/ Authorize(i)
  \/ \E p \in People : PublicationIntent(p, i)
  \/ Clear(i)
  \/ EndPublish(i)
  \/ \E p \in People, s \in {"published", "not_published", "uncertain"} :
       IntegrationResult(p, i, s)
  \/ \E d \in {"published", "not_published", "target_moved"} : Reconcile(i, d)
  \/ \E d \in {"published", "not_published"} : AgentReconcile(i, d)
  \/ \E p \in People : Finalize(p, i)

Next ==
  \/ PolicyStep
  \/ \E t \in Tasks : TaskStep(t)
  \/ \E i \in DOMAIN acts : ActivityStep(i) \/ IntegrationStep(i)
  \/ ForeignPush

Spec == Init /\ [][Next]_vars

------------------------------------------------------------------------------
(* Properties.                                                               *)

\* Types of the tables, and that the child tables only have rows of activities.
TypeOK ==
  /\ subj \in [Tasks -> Subject]
  /\ DOMAIN acts \subseteq Key /\ \A i \in DOMAIN acts : acts[i] \in Activity
  /\ DOMAIN reviews \cup DOMAIN intents \subseteq DOMAIN acts
  /\ DOMAIN results \cup DOMAIN recons \subseteq DOMAIN intents
  /\ \A i \in DOMAIN intents : /\ intents[i].base \in Revision /\ intents[i].result \in Revision
                               /\ intents[i].roster \in Rosters /\ intents[i].gen \in Nat
  /\ \A k \in DOMAIN landed : landed[k] \in Revision

Unresolved(i) == i \in DOMAIN intents \ DOMAIN recons /\ acts[i].state # "completed"

\* The hold of the target (claim_activity, reconcile_publication) is held for every
\* publication whose outcome is not settled, whoever lost its lease, released, revised
\* or asked for changes meanwhile: at most one push can be in doubt.
UnsettledIntentHolds ==
  /\ \A i \in DOMAIN acts : Unresolved(i) => acts[i].hold = "held"
  /\ \A i, j \in DOMAIN acts : acts[i].hold = "held" /\ acts[j].hold = "held" => i = j

\* A subject is only in integration with the reviews it passed review under, and stays
\* so while leftover reviews are decided and policies change (approvals_satisfied).
IntegrationApproved == \A t \in Tasks : subj[t].phase = "integration" => Approved(t)

\* What a matching of required reviews to approvals means: every kind has its own
\* approval, of a class that may decide it; a human stands in for an agent unless a
\* human review is required as well.
MaySatisfy(kind, p, kinds) ==
  \/ p \in Humans /\ (kind = "agent_review" => "human_review" \notin kinds)
  \/ p \in Agents /\ kind # "human_review"

Matched(kinds, rv, given) ==
  \E f \in [kinds -> given] :
    /\ \A k \in kinds : MaySatisfy(k, rv[f[k]].by, kinds)
    /\ \A k, l \in kinds : f[k] = f[l] => k = l

\* A subject leaves review forwards only when the approvals of this very submission
\* match the reviews its mode requires then (reviews_satisfied,
\* advance_approved_subject), whether a decision or a policy change moves it.
AdvanceIsEarned ==
  [][\A t \in Tasks :
       subj[t].phase = "review" /\ subj'[t].phase \in {"integration", "done"}
         => LET given == {i \in DOMAIN reviews' : i.task = t /\ i.sub = subj[t].sub
                                                 /\ reviews'[i].decision = "approved"}
            IN Matched(RequiredKinds(policy'.mode), reviews', given)]_vars

\* No agent that contributed to any revision of the task has approved its current
\* submission (ensure_independent_reviewer), whenever it came to contribute.
ApprovalsIndependent ==
  \A t \in Tasks : subj[t].phase # "revision_needed" /\ ~subj[t].superseded =>
    \A i \in Approvals(reviews, t) : reviews[i].by \notin subj[t].contributors

\* A task is not handed back for revision while an activity of any of its submissions
\* still runs work (ensure_workflow_quiescent), and none starts afterwards.
RevisionStartsQuiet ==
  \A t \in Tasks : subj[t].phase = "revision_needed" => Quiescent(acts, t)

\* A submission in review or integration was pinned to the task as it is now: edits are
\* refused and an accepted amendment pins it again (apply_amendment).
JudgedIsCurrent ==
  \A t \in Tasks : subj[t].phase \in {"review", "integration"} =>
    subj[t].pinned = subj[t].digest

\* Whatever reached the target through the workflow had passed the whole roster captured
\* on its intent, on exactly that result (publication_readiness).
LandingsChecked ==
  \A k \in DOMAIN landed : landed[k].task # NoTask =>
    \E i \in DOMAIN intents : /\ intents[i].result = landed[k]
                              /\ intents[i].roster \subseteq acts[i].passed

\* An integration the service completed is on the target, and its submission is the one
\* whose reviews and checks were judged (finalize).
FinalizedIsLanded ==
  \A i \in DOMAIN intents : acts[i].state = "completed" =>
    Landed(intents[i].result) /\ Contained(i)

\* What an agent reconciled as not published is never pushed by that publication
\* afterwards (agent_reconcile_publication), although its publisher may have been cleared
\* to push: if the same result lands, another integration has pushed it.
AgentNonPublicationIsFinal ==
  \A i \in DOMAIN recons : recons[i].agent /\ recons[i].disposition = "not_published" =>
    \/ ~Landed(intents[i].result)
    \/ intents[i].result = intents[i].base
    \/ \E j \in DOMAIN intents \ {i} :
         intents[j].result = intents[i].result /\ acts[j].push = "ended"

\* What a publication leaves on the target and on the books, whoever lost a lease or
\* pushed meanwhile (workflow.rs, finalize and reconcile_publication).
PublicationSound == TypeOK /\ LandingsChecked /\ FinalizedIsLanded /\ UnsettledIntentHolds

\* What reviews are worth, across amendments, revisions and changes of policy
\* (workflow.rs, approvals_satisfied, claim_activity, revise).
ReviewsSound ==
  IntegrationApproved /\ ApprovalsIndependent /\ RevisionStartsQuiet /\ JudgedIsCurrent

\* "Completed workflows cannot be reopened" (book/src/docs/completion-contract.md).
CompletedStaysDone ==
  [][\A t \in Tasks : subj[t].phase = "done" => subj'[t].phase = "done"]_vars

\* A policy change "never strands a candidate" (autonomy.rs): a subject in review has a
\* review that somebody can still decide.
NeverStranded ==
  \A t \in Tasks : subj[t].phase = "review" =>
    \E i \in OfCurrent(acts, t) : i.kind \in ReviewKinds /\ acts[i].state \in {"queued", "active"}

\* "After publication intent, use publication reconciliation"
\* (completion-contract.md): an unsettled intent can be reconciled, so its submission is
\* still the current one.
IntentReconcilable ==
  \A i \in DOMAIN intents : Unresolved(i) => i.sub = subj[i.task].sub

\* Finalization "atomically completes the integration activity and subject task, closes
\* the global hold" (completion-contract.md).
FinalizedHoldClosed ==
  \A t \in Tasks : subj[t].phase = "done" =>
    \A i \in OfCurrent(acts, t) : acts[i].hold # "held"

\* Reconciling a moved target "closes the old activity and hold"
\* (completion-contract.md).
ReconciledIsClosed ==
  \A i \in DOMAIN recons : recons[i].disposition = "target_moved" =>
    acts[i].state \in {"completed", "canceled"} /\ acts[i].hold # "held"
=============================================================================
