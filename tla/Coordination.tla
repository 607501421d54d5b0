------------------------------ MODULE Coordination ------------------------------
(***************************************************************************)
(* The ownership protocol of crates/server/src/coordination.rs: claiming   *)
(* work or recovery, renewing and releasing a lease, checkpoints, recovery *)
(* resolution, checkout registration, and the operations on tasks,         *)
(* sessions and policy that race with them.  One action per handler; the   *)
(* caller's session is the first parameter where the handler uses it.      *)
(***************************************************************************)
EXTENDS CoordinatorState

---------------------------------------------------------------------------
(* The lease.                                                               *)

MayClaim(s, t, mode) ==
  /\ SessionOpen(s)
  /\ ~projectArchived
  /\ mode = "recovery" /\ policy.recovery = "manual" => s \in Humans
  /\ tasks[t].shelf = "listed"
  /\ Status(t) = IF mode = "work" THEN "ready" ELSE "recovery_required"

\* The claim that supersedes an attempt ends it first.
Superseded(t) ==
  [a \in DOMAIN attempts |->
     IF a = tasks[t].current /\ attempts[a].state = "active"
     THEN [attempts[a] EXCEPT !.state = "expired"]
     ELSE attempts[a]]

NewAttempt(s, t, mode) ==
  [task |-> t, session |-> s, generation |-> tasks[t].generation + 1,
   state |-> "active", mode |-> mode,
   expires |-> Capped(now + policy.lease, now), created |-> now,
   revision |-> None, checkout |-> None, evidence |-> "none", base |-> None]

\* A claim that leaves its predecessor active.
ClaimWithoutSuperseding(s, t, a, mode) ==
  /\ MayClaim(s, t, mode)
  /\ a \notin DOMAIN attempts
  /\ attempts' = Insert(attempts, a, NewAttempt(s, t, mode))
  /\ tasks' = [tasks EXCEPT ![t].current = a, ![t].generation = @ + 1]
  /\ UNCHANGED <<now, policy, projectArchived, sessions, decisions, jobVars>>

Claim(s, t, a, mode) ==
  /\ MayClaim(s, t, mode)
  /\ a \notin DOMAIN attempts
  /\ attempts' = Insert(Superseded(t), a, NewAttempt(s, t, mode))
  /\ tasks' = [tasks EXCEPT ![t].current = a, ![t].generation = @ + 1]
  /\ UNCHANGED <<now, policy, projectArchived, sessions, decisions, jobVars>>

Renew(s, a) ==
  /\ Owned(s, a)
  /\ MayExtend(a)
  /\ attempts' = [attempts EXCEPT
       ![a].expires = Capped(now + policy.lease, attempts[a].created)]
  /\ UNCHANGED <<now, policy, projectArchived, sessions, tasks, decisions, jobVars>>

\* rev is the pushed work-in-progress commit, or None for a legacy checkpoint.
Checkpoint(s, a, rev) ==
  /\ Owned(s, a)
  /\ attempts' = [attempts EXCEPT ![a].revision = rev]
  /\ UNCHANGED <<now, policy, projectArchived, sessions, tasks, decisions, jobVars>>

\* A release that requeues work without asking what it left behind.
ReleaseUnchecked(s, a, blocked) ==
  /\ Owned(s, a)
  /\ ~blocked => attempts[a].mode # "recovery"
  /\ attempts' = [attempts EXCEPT
       ![a].state = IF blocked THEN "blocked" ELSE "released",
       ![a].revision = None]
  /\ tasks' = [tasks EXCEPT ![attempts[a].task].current = None,
                            ![attempts[a].task].blocked = blocked]
  /\ UNCHANGED <<now, policy, projectArchived, sessions, decisions, jobVars>>

\* A blocked release may leave jobs and holds behind; an ordinary one may not,
\* and must not requeue work whose recovery inspection is unfinished.
Release(s, a, blocked) ==
  /\ Owned(s, a)
  /\ ~blocked => /\ Quiescent(attempts[a].task)
                 /\ attempts[a].mode # "recovery"
  /\ attempts' = [attempts EXCEPT
       ![a].state = IF blocked THEN "blocked" ELSE "released",
       ![a].revision = None]
  /\ tasks' = [tasks EXCEPT ![attempts[a].task].current = None,
                            ![attempts[a].task].blocked = blocked]
  /\ UNCHANGED <<now, policy, projectArchived, sessions, decisions, jobVars>>

---------------------------------------------------------------------------
(* Recovery.                                                                *)

\* The attempts a recovery claim may have superseded: the highest generation
\* below the recovery attempt's (at most one).
Predecessors(a) ==
  LET earlier == {p \in DOMAIN attempts : /\ attempts[p].task = attempts[a].task
                                          /\ attempts[p].generation < attempts[a].generation}
  IN {p \in earlier : \A q \in earlier : attempts[q].generation <= attempts[p].generation}

\* Evidence that accepts any fetched commit.
EstablishesAnyCommit(a, fetched, attested, label) ==
  IF \E p \in Predecessors(a) : attempts[p].revision # None
  THEN fetched # None /\ label = "service_verified"
  ELSE attested /\ label = "local_attestation"

\* establish: a recorded revision must be fetched back exactly from an expired
\* predecessor; otherwise the recoverer attests both inspections.
Establishes(a, fetched, attested, label) ==
  IF \E p \in Predecessors(a) : attempts[p].revision # None
  THEN /\ \A p \in Predecessors(a) : /\ attempts[p].state = "expired"
                                     /\ fetched = attempts[p].revision
       /\ label = "service_verified"
  ELSE attested /\ label = "local_attestation"

\* A resolution that does not settle the predecessor's producers and holds.
RecoveryResolutionUnchecked(s, a, fetched, attested, label) ==
  /\ Owned(s, a)
  /\ decisions[attempts[a].task] # "pending"
  /\ attempts[a].mode = "recovery"
  /\ Establishes(a, fetched, attested, label)
  /\ attempts' = [attempts EXCEPT ![a].mode = "work", ![a].revision = None,
                                  ![a].evidence = label, ![a].base = fetched]
  /\ UNCHANGED <<now, policy, projectArchived, sessions, tasks, decisions, jobVars>>

RecoveryResolution(s, a, fetched, attested, label) ==
  /\ Owned(s, a)
  /\ decisions[attempts[a].task] # "pending"
  /\ attempts[a].mode = "recovery"
  /\ Quiescent(attempts[a].task)
  /\ Establishes(a, fetched, attested, label)
  /\ attempts' = [attempts EXCEPT ![a].mode = "work", ![a].revision = None,
                                  ![a].evidence = label, ![a].base = fetched]
  /\ UNCHANGED <<now, policy, projectArchived, sessions, tasks, decisions, jobVars>>

\* Only live work protects its checkout.
CheckoutTakenByActive(a, c) ==
  \E b \in DOMAIN attempts \ {a} : attempts[b].checkout = c /\ attempts[b].state = "active"

\* checkout_in_use: live work, or an expired attempt not yet resolved.
CheckoutTaken(a, c) ==
  \E b \in DOMAIN attempts \ {a} :
     attempts[b].checkout = c /\ attempts[b].state \in {"active", "expired"}

RegisterCheckout(s, a, c) ==
  /\ Owned(s, a)
  /\ attempts[a].mode # "recovery"
  /\ Quiescent(attempts[a].task)
  /\ s \in Agents => c \in CheckoutsOn[s]
  /\ ~CheckoutTaken(a, c)
  /\ attempts[a].checkout = None
  /\ attempts' = [attempts EXCEPT ![a].checkout = c]
  /\ UNCHANGED <<now, policy, projectArchived, sessions, tasks, decisions, jobVars>>

---------------------------------------------------------------------------
(* Operations on tasks nobody owns.                                         *)

Unowned(t) == tasks[t].current = None /\ tasks[t].shelf # "deleted"

Unblock(t) ==
  /\ Unowned(t)
  /\ tasks[t].lifecycle = "open"
  /\ Quiescent(t)
  /\ tasks' = [tasks EXCEPT ![t].blocked = FALSE]
  /\ UNCHANGED <<now, policy, projectArchived, sessions, attempts, decisions, jobVars>>

\* A cycle check that only looks one dependency ahead.
ReachesDirectly(d, t) == d = t \/ t \in tasks[d].needs

\* dependency_cycles: t is d, or is reached from d through dependencies, that is,
\* t is in every set that holds d and the prerequisites of its members.
Reaches(d, t) ==
  \A S \in SUBSET Tasks :
    d \in S /\ (\A u \in S : tasks[u].needs \subseteq S) => t \in S

\* An edit that forgets that owned work is protected.
EditTaskOwned(t, lifecycle, needs) ==
  /\ tasks[t].lifecycle \in {"open", "planned"}
  /\ \A d \in needs : ~Reaches(d, t)
  /\ tasks' = [tasks EXCEPT ![t].lifecycle = lifecycle, ![t].needs = needs]
  /\ UNCHANGED <<now, policy, projectArchived, sessions, attempts, decisions, jobVars>>

\* The edit replaces the task's dependencies (set_dependencies).
EditTask(t, lifecycle, needs) ==
  /\ Unowned(t)
  /\ tasks[t].lifecycle \in {"open", "planned"}
  /\ \A d \in needs : ~Reaches(d, t)
  /\ tasks' = [tasks EXCEPT ![t].lifecycle = lifecycle, ![t].needs = needs]
  /\ UNCHANGED <<now, policy, projectArchived, sessions, attempts, decisions, jobVars>>

HasRetainedHistory(t) ==
  \/ \E a \in DOMAIN attempts : attempts[a].task = t
  \/ tasks[t].needs # {}
  \/ \E d \in Tasks : t \in tasks[d].needs

\* lifecycle_change, one action per requested change.
Archive(t) ==
  /\ Unowned(t)
  /\ tasks[t].shelf = "listed"
  /\ tasks' = [tasks EXCEPT ![t].shelf = "archived"]
  /\ UNCHANGED <<now, policy, projectArchived, sessions, attempts, decisions, jobVars>>

Restore(t) ==
  /\ Unowned(t)
  /\ tasks[t].shelf = "archived"
  /\ tasks' = [tasks EXCEPT ![t].shelf = "listed"]
  /\ UNCHANGED <<now, policy, projectArchived, sessions, attempts, decisions, jobVars>>

\* ensure_replacement: a named replacement is another live task.
HasReplacement(t) ==
  \E d \in Tasks \ {t} : /\ tasks[d].shelf = "listed"
                         /\ tasks[d].lifecycle \in {"open", "planned", "done"}

\* A cancellation recorded as a lifecycle of its own.
CancelAsArchived(t, replaced) ==
  /\ Unowned(t)
  /\ tasks[t].shelf = "listed"
  /\ tasks[t].lifecycle \in {"open", "planned"}
  /\ tasks' = [tasks EXCEPT ![t].lifecycle = "archived"]
  /\ UNCHANGED <<now, policy, projectArchived, sessions, attempts, decisions, jobVars>>

\* replaced: the request names a replacement task, so the record is retained.
Cancel(t, replaced) ==
  /\ Unowned(t)
  /\ tasks[t].shelf = "listed"
  /\ tasks[t].lifecycle \in {"open", "planned"}
  /\ replaced => HasReplacement(t)
  /\ tasks' = [tasks EXCEPT
       ![t].lifecycle = "canceled",
       ![t].shelf = IF replaced \/ HasRetainedHistory(t) THEN "archived" ELSE "deleted"]
  /\ UNCHANGED <<now, policy, projectArchived, sessions, attempts, decisions, jobVars>>

Delete(t) ==
  /\ Unowned(t)
  /\ tasks[t].shelf = "listed"
  /\ tasks[t].lifecycle \in {"planned", "canceled"}
  /\ ~HasRetainedHistory(t)
  /\ tasks' = [tasks EXCEPT ![t].shelf = "deleted"]
  /\ UNCHANGED <<now, policy, projectArchived, sessions, attempts, decisions, jobVars>>

CompleteTaskExternally(t) ==
  /\ Unowned(t)
  /\ tasks[t].shelf = "listed"
  /\ tasks[t].lifecycle = "open"
  /\ tasks' = [tasks EXCEPT ![t].lifecycle = "done", ![t].blocked = FALSE]
  /\ UNCHANGED <<now, policy, projectArchived, sessions, attempts, decisions, jobVars>>

---------------------------------------------------------------------------
(* Project, sessions, decisions and time.                                   *)

UpdatePolicy(p) ==
  /\ ~projectArchived
  /\ p # policy
  /\ policy' = p
  /\ UNCHANGED <<now, projectArchived, sessions, tasks, attempts, decisions, jobVars>>

\* An archive that does not look for attempts in flight.
ArchiveProjectInFlight ==
  /\ ~projectArchived
  /\ projectArchived' = TRUE
  /\ UNCHANGED <<now, policy, sessions, tasks, attempts, decisions, jobVars>>

ArchiveProject ==
  /\ ~projectArchived
  /\ \A t \in Tasks : tasks[t].shelf # "deleted" => tasks[t].current = None
  /\ projectArchived' = TRUE
  /\ UNCHANGED <<now, policy, sessions, tasks, attempts, decisions, jobVars>>

RestoreProject ==
  /\ projectArchived
  /\ projectArchived' = FALSE
  /\ UNCHANGED <<now, policy, sessions, tasks, attempts, decisions, jobVars>>

CloseSession(s) ==
  /\ SessionOpen(s)
  /\ sessions' = [sessions EXCEPT ![s] = IF s \in Agents THEN "closed" ELSE "revoked"]
  /\ UNCHANGED <<now, policy, projectArchived, tasks, attempts, decisions, jobVars>>

\* Revoking a credential closes every session opened with it.
RevokeCredential(c) ==
  /\ \E s \in Agents : CredentialOf[s] = c /\ sessions[s] # "revoked"
  /\ sessions' = [s \in Sessions |->
       IF s \in Agents /\ CredentialOf[s] = c THEN "revoked" ELSE sessions[s]]
  /\ UNCHANGED <<now, policy, projectArchived, tasks, attempts, decisions, jobVars>>

\* A scoped decision is requested, answered, reopened, expires or goes stale.
DecisionChanges(t, d) ==
  /\ d # decisions[t]
  /\ decisions' = [decisions EXCEPT ![t] = d]
  /\ UNCHANGED <<now, policy, projectArchived, sessions, tasks, attempts, jobVars>>

Tick ==
  /\ now < MaxTime
  /\ now' = now + 1
  /\ UNCHANGED <<policy, projectArchived, sessions, tasks, attempts, decisions, jobVars>>

CoordinationNext ==
  \/ \E s \in Sessions, t \in Tasks, a \in AttemptIds, mode \in {"work", "recovery"} :
       Claim(s, t, a, mode)
  \/ \E s \in Sessions, a \in DOMAIN attempts : Renew(s, a)
  \/ \E s \in Sessions, a \in DOMAIN attempts, rev \in Revisions \cup {None} :
       Checkpoint(s, a, rev)
  \/ \E s \in Sessions, a \in DOMAIN attempts, blocked \in BOOLEAN : Release(s, a, blocked)
  \/ \E s \in Sessions, a \in DOMAIN attempts, fetched \in Revisions \cup {None},
        attested \in BOOLEAN, label \in {"service_verified", "local_attestation"} :
       RecoveryResolution(s, a, fetched, attested, label)
  \/ \E s \in Sessions, a \in DOMAIN attempts, c \in Checkouts : RegisterCheckout(s, a, c)
  \/ \E t \in Tasks : Unblock(t) \/ Archive(t) \/ Restore(t) \/ Delete(t)
                      \/ CompleteTaskExternally(t)
  \/ \E t \in Tasks, lifecycle \in {"open", "planned"}, needs \in SUBSET Tasks :
       EditTask(t, lifecycle, needs)
  \/ \E t \in Tasks, replaced \in BOOLEAN : Cancel(t, replaced)
  \/ \E p \in Policies : UpdatePolicy(p)
  \/ ArchiveProject
  \/ RestoreProject
  \/ \E s \in Sessions : CloseSession(s)
  \/ \E c \in Credentials : RevokeCredential(c)
  \/ \E t \in DecisionTasks, d \in DecisionStates : DecisionChanges(t, d)
  \/ Tick
=============================================================================
