------------------------------ MODULE Coordinator -------------------------------
(***************************************************************************)
(* The coordination service: task ownership composed with the resources,   *)
(* reservations and producer jobs its attempts use, and what makes the     *)
(* composition correct.  The two halves share the attempts table: jobs.rs   *)
(* extends leases, and coordination.rs asks whether jobs have ended.        *)
(***************************************************************************)
EXTENDS Coordination, Jobs

Init ==
  /\ now = 0
  /\ policy \in Policies
  /\ projectArchived = FALSE
  /\ sessions = [s \in Sessions |-> "open"]
  /\ tasks = [t \in Tasks |-> [lifecycle |-> "open", generation |-> 0, current |-> None,
                               blocked |-> FALSE, shelf |-> "listed", needs |-> {}]]
  /\ attempts = [a \in {} |-> None]
  /\ decisions = [t \in Tasks |-> "settled"]
  /\ resources = [r \in {} |-> None]
  /\ reservations = [v \in {} |-> None]
  /\ jobs = [j \in {} |-> None]

Next == CoordinationNext \/ JobsNext

Spec == Init /\ [][Next]_vars

---------------------------------------------------------------------------
(* Safety.                                                                  *)

\* Every table holds rows of its type under ids the service handed out.
TypeOK ==
  /\ now \in Nat
  /\ policy \in Policies
  /\ projectArchived \in BOOLEAN
  /\ sessions \in [Sessions -> {"open", "closed", "revoked"}]
  /\ tasks \in [Tasks -> TaskRow]
  /\ DOMAIN attempts \subseteq AttemptIds
  /\ attempts \in [DOMAIN attempts -> AttemptRow]
  /\ decisions \in [Tasks -> DecisionStates]
  /\ DOMAIN resources \subseteq Resources
  /\ resources \in [DOMAIN resources -> Capacities]
  /\ DOMAIN reservations \subseteq ReservationIds
  /\ reservations \in [DOMAIN reservations -> ReservationRow]
  /\ DOMAIN jobs \subseteq JobIds
  /\ jobs \in [DOMAIN jobs -> JobRow]
  /\ \A v \in DOMAIN reservations : reservations[v].attempt \in DOMAIN attempts
  /\ \A j \in DOMAIN jobs : /\ jobs[j].attempt \in DOMAIN attempts
                            /\ jobs[j].reservation \in DOMAIN reservations

\* The attempt a task names as current is the task's only active attempt, and
\* it carries the task's latest generation, the fencing token that owned()
\* compares: "two current owners are impossible" (coordination-contract.md).
CurrentOwner ==
  /\ \A a \in DOMAIN attempts : attempts[a].state = "active" =>
       tasks[attempts[a].task].current = a
  /\ \A t \in Tasks : tasks[t].current # None =>
       /\ tasks[t].current \in DOMAIN attempts
       /\ attempts[tasks[t].current].task = t
       /\ attempts[tasks[t].current].state = "active"
       /\ attempts[tasks[t].current].generation = tasks[t].generation
  /\ \A a \in DOMAIN attempts : attempts[a].generation <= tasks[attempts[a].task].generation
  /\ \A a, b \in DOMAIN attempts :
       attempts[a].task = attempts[b].task /\ attempts[a].generation = attempts[b].generation
       => a = b

\* An owned task is open and listed, and its project is not archived ("an
\* archived project never has a live owner", project_archive_change): no
\* cancellation, deletion, external completion or archive overtakes an owner.
OwnedIsOpen ==
  \A t \in Tasks : tasks[t].current # None =>
    /\ tasks[t].lifecycle = "open"
    /\ tasks[t].shelf = "listed"
    /\ ~projectArchived

\* Work starts after the work it depends on, and stays so: the prerequisites of
\* an owned task are done, and no edit adds one under its owner (task_not_editable).
PrereqsHonored ==
  \A t \in Tasks : tasks[t].current # None => PrereqsDone(t)

\* No sequence of edits makes tasks wait for each other (dependency_cycle): what a
\* prerequisite waits for, directly or not, never includes the task waiting for it.
DependenciesAcyclic ==
  \A t \in Tasks : \A d \in tasks[t].needs :
    \E S \in SUBSET Tasks :
      /\ d \in S /\ t \notin S
      /\ \A u \in S : tasks[u].needs \subseteq S

\* A task that may be claimed as ordinary work has left nothing behind: no
\* reservation is held and no producer of an earlier attempt may still run.
ReadyIsQuiescent == \A t \in Tasks : Status(t) = "ready" => Quiescent(t)

\* While an attempt may edit (mode work), every held reservation and every
\* producer that may still run on its task is its own; a predecessor's are
\* settled before recovery ends ("Prevent conflicting resource reuse until
\* recovery resolves the producer's state", coordination-contract.md).
WorkOwnsEvidence ==
  \A t \in Tasks :
    LET a == tasks[t].current IN
    a # None /\ attempts[a].mode = "work" =>
      /\ \A v \in DOMAIN reservations :
           reservations[v].state = "held" /\ TaskOfReservation(v) = t
           => reservations[v].attempt = a
      /\ \A j \in DOMAIN jobs : Unresolved(j) /\ TaskOfJob(j) = t => jobs[j].attempt = a

\* A producer that may still run occupies resources that are still held for
\* the attempt that started it, whatever became of that attempt.
ProducerReserved ==
  \A j \in DOMAIN jobs : Unresolved(j) =>
    /\ reservations[jobs[j].reservation].state = "held"
    /\ reservations[jobs[j].reservation].attempt = jobs[j].attempt

\* No resource is promised beyond its capacity, whatever operators do to
\* capacities while reservations are held; a held resource is never deleted.
CapacityRespected ==
  \A r \in Resources : HeldUnits(r) > 0 => r \in DOMAIN resources /\ HeldUnits(r) <= resources[r]

\* "Two implementations register the same editable checkout: refuse the second
\* registration" (coordination-contract.md), including work that has expired
\* but was not resolved.
CheckoutExclusive ==
  \A a, b \in DOMAIN attempts :
    /\ attempts[a].state \in {"active", "expired"}
    /\ attempts[b].state \in {"active", "expired"}
    /\ attempts[a].checkout # None
    /\ attempts[a].checkout = attempts[b].checkout
    => a = b

\* What register_checkout says it refuses: a "checkout [that] belongs to active or
\* unresolved earlier work", where unresolved work is work whose "producer
\* observations still require inspection and resolution"
\* (ensure_attempt_quiescent): nobody edits a worktree a producer may still use.
UnresolvedKeepsCheckout ==
  \A j \in DOMAIN jobs, b \in DOMAIN attempts :
    /\ Unresolved(j)
    /\ b # jobs[j].attempt
    /\ attempts[b].state = "active"
    => attempts[b].checkout # attempts[jobs[j].attempt].checkout

\* A resolved recovery attempt is labelled verified exactly when the expired
\* attempt it superseded had recorded a commit, and then continues from that
\* commit; the record it rests on never changes afterwards.
RecoveryEvidence ==
  \A a \in DOMAIN attempts :
    /\ attempts[a].evidence = "service_verified" =>
         \E p \in Predecessors(a) : /\ attempts[p].state = "expired"
                                    /\ attempts[p].revision # None
                                    /\ attempts[a].base = attempts[p].revision
    /\ attempts[a].evidence = "local_attestation" =>
         \A p \in Predecessors(a) : attempts[p].state = "expired" /\ attempts[p].revision = None

\* Who owns what: the tables are well formed, a task has one owner, and an owned task
\* is open (coordination.rs, claim, owned, archive_project).
OwnershipSound == TypeOK /\ CurrentOwner /\ OwnedIsOpen

\* What earlier attempts left behind: nothing of theirs runs or is held where new work
\* begins (jobs.rs; coordination.rs, ensure_attempt_quiescent).
EvidenceSound == ReadyIsQuiescent /\ WorkOwnsEvidence /\ ProducerReserved

\* The order of a project's tasks: no cycle, and no work before its prerequisites
\* (coordination.rs, claim and edit).
OrderSound == PrereqsHonored /\ DependenciesAcyclic

\* What attempts share: no resource is overbooked and no checkout is edited twice
\* (jobs.rs, reserve and update_resource; coordination.rs, register_checkout).
SharingSound == CapacityRespected /\ CheckoutExclusive

---------------------------------------------------------------------------
(* What a step may never do.                                                *)

\* Authority never returns: an attempt that lost it (deadline reached, released,
\* superseded, session closed, credential revoked) is never live again, so a
\* late heartbeat of the owner or of a job's reporter cannot resurrect it.
AuthorityNeverReturns ==
  [][\A a \in DOMAIN attempts : ~LiveAttempt(a) => ~LiveAttempt(a)']_vars

\* attempt_limit's comment: "Every write of attempts.expires_at (claims, ...
\* renewals and reporter renewals) is capped by it", under the policy in force
\* when the lease is written.
LeaseCapped ==
  [][\A a \in DOMAIN attempts' :
       (IF a \in DOMAIN attempts THEN attempts'[a].expires # attempts[a].expires ELSE TRUE)
       => WithinLimit(attempts'[a].expires, attempts'[a].created)]_vars

\* Once a task's evidence is settled, only a live owner working on it makes it
\* uncertain again: a late observation does not reopen a settled producer.
EvidenceStaysSettled ==
  [][\A t \in Tasks :
       Quiescent(t) /\ ~(\E a \in DOMAIN attempts : /\ tasks[t].current = a
                                                    /\ LiveAttempt(a)
                                                    /\ attempts[a].mode = "work")
       => Quiescent(t)']_vars

\* A recorded terminal result is never overwritten, and evidence that a
\* producer was launched is never replaced by not_started.
ResultStands ==
  [][\A j \in DOMAIN jobs :
       /\ jobs[j].state \in Finished => jobs'[j].state = jobs[j].state
       /\ jobs[j].launched => jobs'[j].launched /\ jobs'[j].state # "not_started"]_vars

---------------------------------------------------------------------------
(* The service implements the abstract ownership contract: a task's holder is *)
(* its current attempt while that attempt is live, and its token the          *)
(* generation.                                                                *)

Holder(t) ==
  IF tasks[t].current = None THEN None
  ELSE IF LiveAttempt(tasks[t].current) THEN tasks[t].current ELSE None

Contract == INSTANCE Ownership WITH
  Holders <- AttemptIds,
  holder <- [t \in Tasks |-> Holder(t)],
  token <- [t \in Tasks |-> tasks[t].generation],
  spent <- DOMAIN attempts

\* Every step of the service is a grant, a lapse of some holders, or invisible.
ImplementsOwnership == Contract!OwnershipSpec
=============================================================================
