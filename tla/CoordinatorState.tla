---------------------------- MODULE CoordinatorState ----------------------------
(***************************************************************************)
(* The rows of the coordination service's SQLite database that ownership   *)
(* of a task depends on, and the questions its handlers ask of them.  Every *)
(* mutation runs in one BEGIN IMMEDIATE transaction (mutation.rs), so each  *)
(* handler of the modules that extend this one is a single atomic step, and *)
(* `now' is the protected time sampled under that writer lock.              *)
(*                                                                         *)
(* A table is a function whose domain is the set of inserted ids.          *)
(***************************************************************************)
EXTENDS Integers, FiniteSets, FiniteSetsExt

CONSTANTS
  Tasks,            \* tasks of one project
  Agents, Humans,   \* agent sessions and browser sessions
  Credentials,      \* credentials the agent sessions were opened with
  CredentialOf,     \* [Agents -> Credentials]
  AttemptIds, ReservationIds, JobIds,  \* ids the service may still hand out
  Resources,        \* globally shared resources
  Checkouts,        \* (workstation, worktree identity) pairs
  CheckoutsOn,      \* [Agents -> SUBSET Checkouts]: on the agent's workstation
  Revisions,        \* work-in-progress commits a checkpoint may record
  Policies,         \* project policies: [lease, maxAttempt, recovery]
  Requests,         \* resource sets a reservation may ask for
  Capacities,       \* capacities an operator may give a resource
  RenewWindows,     \* renew_for_seconds a job may declare
  ReporterLifetime, \* REPORTER_LIFETIME_MS
  DecisionTasks,    \* tasks a scoped decision may name
  MaxTime,          \* bound on the clock
  None              \* SQL NULL

Sessions == Agents \cup Humans

\* Every agent session was opened with one credential on one workstation.
ASSUME SessionAssumption ==
  /\ Agents \cap Humans = {}
  /\ CredentialOf \in [Agents -> Credentials]
  /\ CheckoutsOn \in [Agents -> SUBSET Checkouts]

\* SQL NULL is not an id, a checkout or a commit.
ASSUME NullAssumption == None \notin AttemptIds \cup Checkouts \cup Revisions

\* Policies as update_policy validates them: a lease is never empty, and a
\* max_attempt_seconds of 0 is no limit.
ASSUME PolicyAssumption ==
  /\ Policies \subseteq [lease : Nat \ {0}, maxAttempt : Nat, recovery : {"agent", "manual"}]
  /\ Policies # {}
  /\ RenewWindows \subseteq Nat
  /\ ReporterLifetime \in Nat
  /\ MaxTime \in Nat

ASSUME ResourceAssumption ==
  /\ Capacities \subseteq Nat \ {0}
  /\ Requests \subseteq [Resources -> Nat]

ASSUME DecisionAssumption == DecisionTasks \subseteq Tasks

VARIABLES
  now,             \* protected coordinator time
  policy,          \* the project's current policy
  projectArchived, \* projects.archived_at IS NOT NULL
  sessions,        \* open, closed (session only) or revoked (credential too)
  tasks, attempts, \* the tasks and attempts tables
  decisions,       \* how the scoped decisions that name a task stand
  resources,       \* capacity of every resource created so far
  reservations, jobs

vars == <<now, policy, projectArchived, sessions, tasks, attempts, decisions,
          resources, reservations, jobs>>

jobVars == <<resources, reservations, jobs>>

---------------------------------------------------------------------------
(* The tables' rows.                                                        *)

\* A stale decision (something in its scope changed, but nothing it judged) keeps
\* the task's status from being ready; a pending one blocks every guarded step.
DecisionStates == {"settled", "stale", "pending"}
Lifecycles == {"planned", "open", "done", "canceled"}
AttemptStates == {"active", "expired", "released", "blocked"}
JobStates == {"registered", "running", "unknown", "succeeded", "failed", "not_started"}
Finished == {"succeeded", "failed", "not_started"}

TaskRow == [lifecycle : Lifecycles, generation : Nat,
            current : AttemptIds \cup {None}, blocked : BOOLEAN,
            shelf : {"listed", "archived", "deleted"},
            needs : SUBSET Tasks]  \* its rows of task_dependencies

\* revision is that of the attempt's latest checkpoint; evidence and base are
\* what its recovery resolution recorded.
AttemptRow == [task : Tasks, session : Sessions, generation : Nat,
               state : AttemptStates, mode : {"work", "recovery"},
               expires : Int, created : Nat,
               revision : Revisions \cup {None},
               checkout : Checkouts \cup {None},
               evidence : {"none", "service_verified", "local_attestation"},
               base : Revisions \cup {None}]

ReservationRow == [attempt : AttemptIds, items : Requests,
                   state : {"held", "released", "resolved"}]

\* observed is last_sequence > 0; launched is the evidence, in some
\* observation, that the producer was started.
JobRow == [attempt : AttemptIds, reservation : ReservationIds, state : JobStates,
           observed : BOOLEAN, launched : BOOLEAN, reconciled : BOOLEAN,
           created : Nat, window : RenewWindows]

\* INSERT INTO table: a new row under a fresh id.
Insert(table, id, row) ==
  [k \in DOMAIN table \cup {id} |-> IF k = id THEN row ELSE table[k]]

---------------------------------------------------------------------------
(* Questions the handlers ask.                                              *)

SessionOpen(s) == sessions[s] = "open"

\* An attempt's authority: active, before its deadline (equality is expired),
\* and its session and credential still valid (the owner_authorized column).
LiveAttempt(a) ==
  /\ attempts[a].state = "active"
  /\ attempts[a].expires > now
  /\ SessionOpen(attempts[a].session)

\* owned(): the caller's session holds the current, live attempt.
Owned(s, a) ==
  /\ a \in DOMAIN attempts
  /\ SessionOpen(s)
  /\ attempts[a].session = s
  /\ LiveAttempt(a)
  /\ tasks[attempts[a].task].current = a
  /\ tasks[attempts[a].task].generation = attempts[a].generation

PrereqsDone(t) == \A p \in tasks[t].needs : tasks[p].lifecycle = "done"

\* A status that takes a live owner for a lost one.
StatusWithoutLease(t) ==
  CASE tasks[t].lifecycle # "open" -> tasks[t].lifecycle
    [] tasks[t].lifecycle = "open" /\ tasks[t].current # None -> "recovery_required"
    [] OTHER ->
         IF decisions[t] # "settled" \/ tasks[t].blocked \/ ~PrereqsDone(t)
         THEN "blocked" ELSE "ready"

\* Task::status, for tasks outside review and integration.
Status(t) ==
  CASE tasks[t].lifecycle # "open" -> tasks[t].lifecycle
    [] tasks[t].lifecycle = "open" /\ tasks[t].current # None ->
         IF LiveAttempt(tasks[t].current)
         THEN IF decisions[t] # "settled" THEN "blocked" ELSE "in_progress"
         ELSE "recovery_required"
    [] OTHER ->
         IF decisions[t] # "settled" \/ tasks[t].blocked \/ ~PrereqsDone(t)
         THEN "blocked" ELSE "ready"

\* A producer nobody has accounted for.
Unresolved(j) == jobs[j].state \notin Finished /\ ~jobs[j].reconciled

TaskOfJob(j) == attempts[jobs[j].attempt].task
TaskOfReservation(v) == attempts[reservations[v].attempt].task

\* ensure_attempt_quiescent: nothing of the task is held or still uncertain.
Quiescent(t) ==
  /\ \A v \in DOMAIN reservations :
       TaskOfReservation(v) = t => reservations[v].state # "held"
  /\ \A j \in DOMAIN jobs : TaskOfJob(j) = t => ~Unresolved(j)

\* The units of a resource that are held, one by one, and their number: the sum
\* over the held reservations.
UnitsHeld(r) ==
  UNION {{v} \X (1 .. reservations[v].items[r]) :
           v \in {w \in DOMAIN reservations : reservations[w].state = "held"}}

HeldUnits(r) == Cardinality(UnitsHeld(r))

\* attempt_limit: a max_attempt_seconds of 0 is no limit.
WithinLimit(expiry, created) ==
  policy.maxAttempt = 0 \/ expiry <= created + policy.maxAttempt

\* A renewal that grants the whole lease.
Uncapped(expiry, created) == expiry

Capped(expiry, created) ==
  IF WithinLimit(expiry, created) THEN expiry ELSE created + policy.maxAttempt

\* capped_renewal refuses once the lease already reaches the limit.
MayExtend(a) ==
  \/ policy.maxAttempt = 0
  \/ attempts[a].expires < attempts[a].created + policy.maxAttempt
=============================================================================
