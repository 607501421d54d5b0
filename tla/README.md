# A verification project for the agent coordinator

The agent coordinator lets several coding agents, and the people who run them,
share one backlog. A service keeps tasks, attempts, reservations, producer jobs,
decisions, reviews and integrations in one SQLite database. Programs on the
agents' workstations launch builds and tests, report on them, push candidates and
merge them. This directory holds TLA+ models of the parts in which order, failure
and time decide correctness, the TLC runs that check them on small instances, and
TLAPS proofs of the properties that matter most.

`PROJECT.json` lists the components, the runs, a mutant for every property that
is checked, the source lines behind every definition, the disagreements found
between code and documentation, and the hazards the properties are aimed at.
Paths below are relative to the repository.

## 1. The system

### Components, their state and their operations

| Component | State | Operations | Correct when |
| --- | --- | --- | --- |
| Task ownership, `crates/server/src/coordination.rs` | tasks, attempts, dependencies, checkouts, project policy | claim, renew, checkpoint, release, recovery claim and resolution, checkout registration, edit, archive, cancel, delete, external completion, policy update, project archive | one owner per task; lost authority never returns; work starts after its prerequisites; evidence is settled before somebody else works |
| Recovery evidence, `recovery_evidence.rs` | checkpoints' revisions | verified or attested recovery base | a recovery rests on the record of the attempt it superseded |
| Resources and jobs, `jobs.rs` | resources, reservations, jobs, reporters, observations | create and change resources, reserve, release, resolve, register a job, observe, reporter renewal | capacity holds; a producer that may run stays reserved; results stand |
| Scoped decisions, `knowledge.rs`, `attention.rs` | decisions, cycles, answers | create, answer, relay, reopen, timeout sweep | only an allow about the present work lets work proceed; humans decide what is reserved for them; reversible ones do proceed |
| Planning, `admission.rs`, `objectives.rs`, `imports.rs` | tasks' lifecycles and origins, the weekly count, objective children, import previews and records | create, edit, release from hold, set dependencies and children, preview, apply | the budget holds; prerequisites and objectives form no circle; an import does not undo what people did |
| Mutations and clock, `mutation.rs`, `state.rs`, `maintenance.rs`, `restore.rs` | receipts, authority epoch, clock high-water mark, restore holds | begin, replay, finish, clock incident and its reconciliation, compaction, idle closing, restore, attestation | a retried request is applied once; deadlines never move back; nothing from before a restore acts after it |
| Workflow, `workflow.rs`, `autonomy.rs` | submissions, activities, approvals, holds, intents, results | submit, review, authorize, claim and release an activity, publication intent, result, reconcile, finalize, reopen | what lands was approved as it is; one publisher per target; uncertainty keeps the hold |
| Integrator, `crates/integrator`, `integrator*.rs`, `reverts.rs` | queue, results, receipts, push authority, gates, reverts; `state.json` with tip, freezes, published results and reruns | merge, check, attribute failures, ask for authority, push with compare-and-swap, observe, revise, revert | what lands was approved and authorized; own landings are recognised, others are reported; undone work does not count as done; authors are blamed for what they broke |
| Accounts, `auth.rs`, `operator_access.rs`, `account_email.rs`, `password_reset.rs`, `passkey.rs` | accounts, password hashes, browser sessions, links, challenges | sign in, create and change operators, change and reset passwords, verify addresses, passkeys | a session rests on the present password of an enabled account; there is always an administrator |
| Credentials and sessions, `auth.rs` | principals, credentials, agent sessions, subagents | issue, rotate, revoke, delete, register, close | authority ends with the credential |
| Artifacts and backups, `artifacts.rs`, `backup.rs`, `cli/artifact_transfer.rs` | rows, blobs, staged parts, lock files, snapshots, the client's payload | reserve, upload, finalize, renew, delete, clean up, back up, restore | what is listed as available is there, as long as a lock file is its holder's; the quota holds; a snapshot is whole; an upload can be resumed |
| Guardian, `crates/local/src` | one job's state file, journal and outbox | prepare, register, launch, watch, report, reconnect | one launch; no observation lost, false or refused |
| Candidate push, `local/candidate_push.rs`, `integrator/push` | the launch's ref, the helper's lease and intent refs | checkpoint, import, scan, publish, confirm | one candidate per launch, no secret leaves that others had not published, the helper knows its own push |
| Publication of integrations, `local/git_workflow.rs`, `cli/main.rs` | the saved intent, the worktree, the session's pending mutation | prepare, publish, reconcile, finish | a result is pushed under authority and reported as it happened |
| Client sessions, `cli/main.rs`, `cli/state.rs`, `session_adoption.rs`, `mcp-transport` | session files, journals | connect, acknowledge, claim, run a job, retry, migrate, adopt | a lost answer is retried under the same key; grants keep an owner |
| Supervisor, `crates/supervisor` | launch records, clones, cost ledger, strikes, review records, launch directories | launch workers and reviewers, renew, settle, recover, report costs, sweep | a live launch is guarded; each launch is charged once; verdicts rest on evidence |
| Work selection, history and search, HTTP and MCP surface, web UI | see `PROJECT.json` | | |

### How they interact

Every mutation of the service runs in one `BEGIN IMMEDIATE` transaction that
samples the clock, authenticates the caller, looks for a receipt and then runs the
handler (`mutation.rs`). Handlers are therefore ordered by SQLite's writer lock,
and a handler is one atomic step in the models. What is not atomic is everything
between requests: a client reads, decides and writes later; leases expire, sessions
close, credentials are revoked and policies change in between; and producers,
guardians and reporters keep running when the attempt that started them is gone.
`coordination.rs` and `jobs.rs` share the attempts table: a reporter's heartbeat
extends a lease, and release and recovery ask whether the task's jobs have ended.
Decisions block tasks. The guardian talks to `jobs.rs` over an unreliable
connection and keeps its own durable record. So do the command line, the MCP
transport, the integrator and the supervisor: each saves what it is about to do,
asks the service, acts on a branch or a process, and saves what it saw. Several of
them may meet on one branch, in one directory or over one session file, with no
lock between them but a compare-and-swap, a lock file or a receipt. Passwords are
hashed, bodies received and files removed outside any transaction.

### What is hard

Claims racing expiry and recovery; requests of superseded owners; observations
that arrive late, twice and out of order, after the task was settled; operators
changing policies, capacities, dependencies and lifecycles under running work;
crashes between any two writes of a guardian, a supervisor, an integrator or a
command; answers to decisions whose scope has moved on; a push that lands after
everybody stopped waiting for it; a wall clock that steps and a database that goes
back to last week; a check that failed for somebody else's reason. The `hazards`
list of `PROJECT.json` names each at its line with the properties that watch it.

## 2. Modules

| Module | What it models |
| --- | --- |
| `CoordinatorState` | the rows ownership depends on and the questions handlers ask of them (`owned`, `status`, `ensure_attempt_quiescent`, the lease cap) |
| `Coordination` | the handlers of `coordination.rs`, `recovery_evidence.rs` and the session operations of `auth.rs`, one action each; time and decisions as environment |
| `Jobs` | the handlers of `jobs.rs` |
| `Coordinator` | their composition, its specification and properties |
| `Ownership` | the abstract contract: tasks are granted to fresh holders under growing tokens, and holders lapse |
| `Guardian` | one guardian and its job, the connection and the service's side of observations |
| `Decisions` | scoped decisions and the timeout sweep |
| `Workflow` | the completion workflow of `workflow.rs` with the review reconciliation of `autonomy.rs`, and the client that pushes the target branch |
| `ServiceClock` | the time handlers compare deadlines with: wall clock, counted time, high-water mark, incidents |
| `Delivery` | receipts, authority, restore and maintenance at the service, and the clients that save, send and retry mutations; extends `ServiceClock` |
| `Integrator` | the integrator's loop composed with the service endpoints it talks to, reverts included |
| `Attribution` | how the integrator decides on failed checks, against a forge that reruns jobs |
| `Accounts` | people: passwords, sign-ins, administration, mailed links, passkeys |
| `Credentials` | agents' credentials, sessions and subagents |
| `Artifacts` | artifact rows and files, lock files and their takeover, cleanup, backup and restore, the uploading client |
| `Planning` | admission, objectives, dependencies across both tables, imports |
| `Supervisor` | the implementer loop and its launch records |
| `Reviewer` | the reviewer side of the loop |
| `CostReport` | delivery of the cost ledger to `telemetry.rs` |
| `CandidatePush` | candidate checkpoints, directly or through the push helper |
| `Publisher` | the saved integration intent and the commands over it |
| `PushHelper` | launch directories, their locks and the sweep |
| `ClientSession` | the command line's saved sessions and what the service knows of them |
| `MC*` | instances for TLC; `MCHost`, `MCService` and `MCClients` run several modules side by side, one per behaviour |
| `CoordinatorProofs`, `WorkflowProofs`, `IntegratorProofs`, `DeliveryProofs`, `DecisionsProofs`, `HostProofs`, `ServiceProofs`, `ClientProofs` | theorems about `Coordinator`, `Workflow`, `Integrator`, `Delivery`, `MCDecisions`, `MCHost`, `MCService` and `MCClients` |

### Correspondence

*Coordinator.* A table is a function whose domain is the set of inserted ids; ids
are drawn from a constant set, which bounds the number of inserts. A task's row
keeps its lifecycle, generation, current attempt, whether `blocked_reason` is set,
its shelf (listed, archived, deleted) and its prerequisites. An attempt's row keeps
its owner's session, generation, state, mode, deadline, latest checkpoint revision,
checkout and what its recovery recorded. Titles, notes and other texts are left
out. `now` advances by `Tick`. Every action carries the guards of its handler in
order, including the ones in the helpers it calls. `Status` is `task_sql` and
`Task::status`; `Owned` is `owned`; a claim supersedes an active attempt whose
authority has ended as `expired`. Decisions are an environment here
(`DecisionChanges`): a task is settled, stale (its status is blocked, its guard is
not) or pending; module `Decisions` says how they come about. Sessions are open,
closed or revoked with their credential. Rows of tasks and of the project exist
from the start.

*Guardian.* The control of the process is a stack of continuations, the head being
the step it takes next; an empty stack is a process that is not running. The
state file and the journal are `disk` and `journal`; `commit_event` is two steps,
an append and a save, with a crash possible between them, and everything else the
process does durably is one save. `wire` holds every observation ever sent, any of
which may arrive at any time, again and again. The producer exits on its own
account. The service's side repeats the guards of `observe`.

*Decisions.* Tasks and the policy are sequences indexed by revision, so a pin is a
number and "changed" compares what two revisions say. A decision is the sequence
of its cycles. The generation an author read is a parameter of the answer.

*Workflow.* One project whose code tasks land on one target branch. An activity is
keyed by task, submission, kind and slot, which the schema makes unique; its record
joins the activity's row with its activity task, attempt, hold and authorization.
Reviews, intents, results and reconciliations are functions on activities, as in the
tables. The fields a submission is judged by are one number, the digest, and an
amendment proposes another. `busy` stands for unfinished jobs and held reservations
of an activity, `passed` for the receipts that `validate_check_jobs` accepts, and
`live` for a lease, session and credential in force: they end in `LapseActivity` at
any time. How the subject task is owned is the Coordinator's business; here an agent
claims it, contributes and submits. The push is two client steps: `Clear` is what
`publish_prepared` does up to its second look at the target, `EndPublish` the
compare-and-swap push, its failure, or its withdrawal. A client that dies after
clearance is one that never takes the second step, or takes it when the service has
long moved on. `landed` is the history of the target branch; a result is a function
of the candidate and the target it was built on, as the deterministic merge makes
it, so two integrations of one candidate may prepare the same result. An agent that
reconciles attests that the publisher has stopped; the model takes that as true, and
a human's reconciliation attests nothing.

*Delivery and ServiceClock.* True time, which nothing in the service reads, is
`elapsed`; the wall clock is that plus `skew`, and the process counts from an anchor.
`CommitSample` and `AbandonSample` are one call of `sample_clock` in a transaction
that commits or is dropped: the process remembers in both cases, the database only in
the first. A client is one provisioned credential; its mutations are numbered as it
saved them, and the number is the idempotency key. `flight` keeps a request whose
sender gave up, which the service may still handle. `db` is everything a backup holds,
so that a restore is an assignment followed by `invalidate_restored_state`. Handlers
themselves are three: claim, renew and release.

*Integrator.* A tip is the sequence of the changes it holds, so that ancestry is a
prefix; a result is what the deterministic merge makes of a candidate and a tip, and a
candidate's stack is the sequence of the changes under review it was branched from. The
loop is a program counter through `cycle`, `item_cycle`, `check_and_publish` and
`observe_and_close`, and `Abort` ends it at every step that asks the service, with
and without effect there. `state.json` is `tip`, `frozen` and `published`. Reviews are
one approval; whether an approver contributed is kept. `Attribution` takes up the
checks: a forge with one run per commit, whose attempts copy what passed, and a hidden
cause for every check to compare verdicts with.

*Supervisor, Reviewer, CostReport.* A step is what the loop does between two writes that
a crash can separate. A crash leaves files, records and processes; a reboot ends the
processes. Every write but the first record's may fail and is then only logged, so that
the record in memory (`mem`) is ahead of the one on disk, and the ledger, the strikes
file or the launch's files are as they were. The harness and `launch-root` are one
process. The reviewer's strikes live in memory, the implementer's in a file. A pass of
the report sends batches per project and appends what became of each; two passes may
overlap.

*Accounts, Credentials, Artifacts, Planning.* An operation that takes a password is
two steps: what it read, and the transaction that applies it. A hash is a number, and
`secretOf` gives its password. An artifact's row and blob are written by separate steps
under its lock file. A handler that finds the file of a dead holder looks at its age,
removes it by its path and creates its own, in three steps; a holder that ends, and the
sweep of old files, remove by path too, whoever's file is there by then. A request that is
dropped while a thread removes its files gives up the lock, and the thread goes on
(`Abandon`). What is assumed: a live holder ends before its own file is five minutes old
(the code ends an upload after two), and a mutation that was begun ends before the lock
file of its request is gone. Planning sees claims and reviews only as
stages of a task's work. The memberships of an objective are edges of the same graph as
the prerequisites; a task reaches another in it when every closed set that holds the one
holds the other. `saved` is the time of the last mutation of an artifact, which is what
the database has stored of the clock and a restore reads back.

*CandidatePush, Publisher, PushHelper, ClientSession.* The remote is external: a push
lands or not, its success is reported or not, and it may land when its process is gone.
`KnowsItsPush` therefore excepts the push that landed late (section 5). A commit is
known by the secrets in its history; the scan looks at the part of that history that no
ref of the remote advertises at that moment, and others may publish or delete such refs
at any time. In `Publisher` two sessions share the state file and its lock, and each
keeps one unanswered mutation; the owner's attestation that it has stopped is the flag
`retired`. In `PushHelper` an advisory lock goes with its process, and the removal of a
directory is two steps, of its lock file and of the rest, between which its process may
be killed. In `ClientSession` a copy is a session file in one state directory; commands
of one copy follow each other under its lock, and those of two copies of one session are
assumed not to overlap.

## 3. Runs

Every run finishes within five minutes on two cores.

| Run | Instance | Shows |
| --- | --- | --- |
| `ownership` | one task, an agent and a human, two attempts, two policies | `OwnershipSound` (`CurrentOwner`, `OwnedIsOpen`), `LeaseCapped`, and that the service refines `Ownership` |
| `jobs` | one task; two attempts, two reservations and a job whose reporter outlives its session, or three attempts that recover from each other's checkpoints | `EvidenceSound` (types, `ReadyIsQuiescent`, `WorkOwnsEvidence`, `ProducerReserved`), `RecoveryEvidence`, `EvidenceStaysSettled`, `ResultStands`, `AuthorityNeverReturns` |
| `dependencies` | three tasks, two attempts, one checkout, one resource of changing capacity | `OrderSound` (`PrereqsHonored`, `DependenciesAcyclic`), `SharingSound` (`CheckoutExclusive`, `CapacityRespected`) |
| `decisions` | one decision over two tasks, two contents and rules each, two generations; or three decisions and a batch of two | `AnswersSound` (`AllowJudgedCurrentWork`, `StatusNeverAhead`, `HumansDecide`), `WaitingProceeds` |
| `publication` | two code tasks on one target, one agent, two integrations each of up to two attempts, one check, one foreign push, authorization by hand | `PublicationSound` (types, `LandingsChecked`, `FinalizedIsLanded`, `UnsettledIntentHolds`), `AgentNonPublicationIsFinal` |
| `revision` | one code task, two agents and a human, two submissions, all five review modes, one change of policy, edits and amendments | `ReviewsSound` (`IntegrationApproved`, `ApprovalsIndependent`, `RevisionStartsQuiet`, `JudgedIsCurrent`), `AdvanceIsEarned` |
| `delivery` | one command line and one transport, two mutations each, one restore, two events | `MutationsSound` (types, `AtMostOnce`, `UncertainIsPending`, `CompactedIsExpired`), `AuthoritySound` (`LeaseNotExtended`, `PausedIsQuiet`, `OwnerHasSession`), `NothingComesLate` (`TransportGivesUpSafely`, `OldAuthorityIsVoid`) |
| `integrator` | two tasks whose candidates conflict, one of them privileged and one with a revert, two submissions, one disturbance | `LandingSafe`, `ProvenanceKept`, `PushesAreAuthorized`, `UndoneStaysUndone` |
| `host` | two launches with two faults, each a death, a failed call or a failed write; two reviews with one restart; three cost rows, one malformed, and two passes | `LaunchesSound`, `CostsSound`, `VerdictsEarned`, `RecordsSettle` |
| `service` | accounts in three scenarios, credentials, artifacts in three scenarios, attribution of two checks, planning in three scenarios | `AccountsSound`, `CredentialsSound`, `ArtifactsSound`, `AttributionSound`, `PlanningSound` |
| `clients` | one guardian; one launch with commits of which one holds a secret that others may publish; two sessions on one intent; three launch directories; two copies of session files | `LaunchedOnce`, `GuardianSound`, `LocalRecordStands`, `ExitIsRecorded`, `PushSound`, `IntentSound`, `LaunchDirSound`, `SavedSessionsSound` |
| `checkout_reuse` | two tasks, one checkout, one job | `UnresolvedKeepsCheckout` fails (section 5) |

A property whose name ends in `Sound` is a conjunction of invariants, each stated and
explained where its module defines it. In words, the ones not named above:

* `LaunchesSound`: a live launch keeps its record and its files and is the host's only
  one; a task that keeps exiting empty is launched no more often than the limits and the
  strikes that a fault kept from being counted allow.
* `CostsSound`: every launch is in the ledger before its events go, unless its row could
  not be appended, and once, unless the mark in its record was lost; a reviewer's once;
  the coordinator holds a row once; a row that is not sent again is stored, malformed
  or waits for its project.
* `AccountsSound`: a browser session rests on the present password of an enabled
  account, though passwords are verified outside the lock; there is always an
  administrator; a creation is answered with success only to whoever named its
  password; one link of a kind works, and only for the present address.
* `CredentialsSound`: an open session has a live credential, a subagent's session is of
  its parent's principal and under the name it was first given, and access that nobody
  chose is what was chosen for an earlier credential of the same principal.
* `ArtifactsSound`: what is available has its content and a backup finds the files it
  lists, but for artifacts that were renewed after their content was gone (`hollow`) or
  whose lock file was removed under a holder at work (`overtaken`); the quota holds, and
  an unfinished transfer still has its payload.
* `AttributionSound`: no author is sent back for what the target or the world outside
  broke, a broken candidate does not proceed, reruns are capped, and the integrator waits
  only for a rerun that was started.
* `PlanningSound`: budget, one graph without circles, a frozen scope that stays done,
  imports that respect later work.
* `PushSound`: one candidate per launch; the helper knows its push; no secret leaves that
  somebody else had not published before; what the command records was acknowledged.
* `IntentSound`: at most one push is started for an intent, nothing of ours lands after a
  reconciliation as not published, what is called published was seen, and the service is
  told what happened.
* `LaunchDirSound`: no sweep takes a directory from a live launch, a helper is watched,
  and a sweep removes all that dead launches had left.
* `SavedSessionsSound`: claims are made by agents that were shown the rules in force,
  grants keep an owner and are answered, a registered job is bound to its reporter or its
  registration is still pending.

### Bounds, and why they are enough

The clock is bounded by `MaxTime`; the durations of an instance are chosen below it so
that leases, limits and reporters expire within it, and the limit of an attempt falls
between two renewals. Two attempts of a task are a predecessor and a successor, which is
what fencing is about; recovery looks further back through a chain, so `jobs` has three.
Three tasks make the shortest cycle that no single edit closes by itself. Two tasks and
two units make a conflict over a resource. The guardian's heartbeats are bounded by
`MaxSequence`; its crashes and restarts are not bounded. One decision with two
generations is enough for an answer to be about an earlier cycle. Three decisions and a
batch of two are one that waits behind a full batch, which the sweep may answer or, when
the scopes of both have gone stale, may not: `WaitingProceeds` leaves out the decisions
that wait behind as many of those as the batch holds (`CrowdedOut`), and
those wait for ever (section 5). In the workflow two integration slots
are an intent and the replacement that follows its reconciliation, two attempts of one a
publisher and whoever takes over, and two submissions a candidate and its revision;
`MaxSubs`, `MaxSlot`, `MaxGen`, `MaxPolicies`, `MaxDigest` and `MaxForeign` bound them.
Publication and reviews are checked apart, since publication only asks whether the
reviews are satisfied: `publication` has no reviews, and `revision` does not leave a
state with a publication intent. Both stop after three claims of activities. All work in
them is code; what is not code has no publication to check.

In `delivery` two keys are a mutation and the one saved after it, two sessions a closed
one and its replacement; skews of 0, 1 and 2 with a tolerance of 1 are a clock that is
right, wrong within it and wrong beyond it. In `integrator` two conflicting tasks and
one revert are enough for a candidate to be built before and judged after another landed
or was undone; `MaxPublished = 2` lets the file forget. In `host` two launches are one
that a fault left and the next, and `MaxFaults = 2` lets one write fail and the loop die
after it; in `clients` one of two commits holds a secret, which the client does not
recognise and others may publish, two sessions an owner and whoever reconciles, three
directories a dead, a starting and a live launch. In `service` the scenario of backups
has one handler, which leaves no staged parts behind when it is idle; handlers that race
over one artifact, after a dead holder too, have a scenario of their own, the only one
in which lock files are left and taken over. `RuleEditing` lets agents cancel what
humans planned, where the project allows it.

Some instances have a constraint: a state beyond it is checked but not left. In
`jobs`, `dependencies` and `checkout_reuse` these are states in which a task or the
project was archived or closed, the subject of `ownership`; `jobs` keeps production and
recovery chains apart (`Apart`), `dependencies` resources and dependencies. `decisions`
leaves no state with four changes of tasks and policy (`FewChanges`), `delivery` none in
which time passes before a client is provisioned (`Provisioned`), and `integrator` lets
the first task be submitted first (`FirstFirst`).

`MCHost`, `MCService`, `MCClients` and `MCDecisions` put modules that share no state
side by side. The variable `part` says which of them a behaviour exercises; the others
stay in an initial state. This is a sum of state spaces and no composition.

Symmetry is used for ids, tasks, contents and rules, none of which is ordered or chosen
in the models. The only run with symmetry and a liveness property is `decisions`, whose
live part holds no value that is permuted.

Deadlock is not checked: the bounds on ids, revisions and time end every behaviour,
and a guardian whose job is finished has nothing left to do.

### Fairness

The safety specifications have none. `Guardian` assumes weak fairness of the
guardian's own steps: a process that is running is scheduled; nothing is assumed
of the connection, the service, the producer or restarts. `Decisions` assumes weak
fairness of the sweep, which `serve` runs every five minutes, and of time.
`Supervisor` assumes it of the loop's own steps, of the grace period of a record
without a pid, which is a duration, and of the exit of a launch, which the loop's
limit and the kill of its process group enforce. Faults are bounded: a host that
crashes forever, or never writes again, settles nothing.

## 4. Proofs

TLAPS checks every theorem for every value of the constants, under the named
assumptions only. TLC evaluates each assumption on the instances of the runs.

| Assumption | Says |
| --- | --- |
| `SessionAssumption`, `NullAssumption`, `PolicyAssumption`, `ResourceAssumption`, `DecisionAssumption` (`CoordinatorState`) | sessions are agents or humans, and each agent has a credential and checkouts; NULL is no id; policies, requests and capacities are as the handlers validate them |
| `MaxSequenceAssumption` (`Guardian`), `NoneAssumption`, `NothingAssumption` (`MCClients`) | bounds are numbers; no launch, process, commit or saved mutation is the value for none |
| `DecisionsAssumption` (`Decisions`) | decisions are numbered; what a decision may require and answer; bounds are numbers |
| `WorkflowAssumption` (`Workflow`) | agents are not humans; code tasks are tasks; modes are the code's five |
| `ClockAssumption` (`ServiceClock`), `DeliveryAssumption` (`Delivery`) | times are numbers; the two kinds of client are distinct |
| `MaxPublishedAssumption`, `IntegratorAssumption` (`Integrator`) | the file remembers at least one result; reverts are tasks of their own; none is no submission and no result |
| `HostAssumption` (`MCHost`) | limits are numbers; none is no pid, exit, record or lock |
| `NoNameAssumption`, `AttributionAssumption`, `StoreAssumption`, `AccountsAssumption`, `PlanningAssumption` (`MCService`) | finitely many artifacts, accounts and tasks; an account keeps at least one sign-in; budgets and quotas are numbers; none is no id, row or receipt |

Theorems about `MCHost`, `MCService`, `MCClients` and `MCDecisions` are about their
parts side by side, each in its scenarios: what they say of a part holds for every value
of its constants.

**Coordinator** (`CoordinatorProofs`).

* `TypeCorrect`: every table has rows of its type, and reservations and jobs refer
  to rows that exist.
* `OneOwner`, `OwnersWorkOnOpenTasks`: `CurrentOwner` and `OwnedIsOpen` are
  inductive together, relative to the type invariant.
* `NoResurrection`, `LeasesAreCapped`: from one lemma about every step
  (`LeaseStep`): an attempt keeps its identity, is never active again, and only a
  live attempt's deadline is written, within the limit. Time never goes back and
  sessions never reopen, so what is dead stays dead.
* `ServiceImplementsOwnership`: the initial state maps to the contract's; a claim
  maps to a grant; every other step to a lapse of some holders or to a stutter.
* `ProducersStayReserved`, `WorkIsFenced`, `ReadyTasksAreQuiescent`,
  `EvidenceReopenedOnlyByWork`: `ReadyIsQuiescent` is not inductive, since a task
  may become ready by an edit, a decision or a finished prerequisite without
  anybody looking at its evidence. It is strengthened to `Settled`: every unowned,
  unblocked task that is open or planned is quiescent. With `ProducerReserved`,
  `WorkOwnsEvidence` and `CurrentOwner` this is inductive.
* `NoDependencyCycle`, `WorkFollowsPrerequisites`: an edit is checked against the
  paths present when it is applied. For a task other than the edited one, the set
  that shows it is not reached is cut down to one without the edited task, or
  completed with what the edited task now needs.
* `SharingIsSound`: units are counted over the reservations that hold any, of which
  there are finitely many (`UnitsInv`); a new reservation adds what its guard left free.
* `RecoveriesRestOnEvidence`, `ResultsStand`: every step treats the attempts table as a
  history (`HistoryStep`): what an attempt that has ended recorded is never rewritten, so
  what a recovery read of its predecessor stays true (`RecoveryInv`). A producer is seen
  running at most once and its end stands (`LaunchedStarted`).
* `OwnershipIsSound`, `EvidenceIsSound`, `OrderIsSound`: the conjunctions the runs
  `ownership`, `jobs` and `dependencies` check, from the theorems above.

**Workstation** (`ClientProofs`). Each invariant says what a process knows at the step it
is about to take, and what files say once no process is there.

* `NeverRelaunched`: the phase recovery would read back is tied to the phase in memory,
  at most one journal event is beyond the saved state, and a spawn only happens under a
  durable launch intent of a job not launched before.
* `GuardianIsSound` (`Kept`, `Sound`): the durable outbox holds the newest observations
  without a gap, the service has accepted all before it and at most its head, only a head
  is ever sent, and every observation, sent or waiting, agrees with the phase and the
  producer. `RecordStands`: no save takes back what was recorded (`Follows`).
* `LaunchDirsAreSound` (`DirInv`): there is one sweeper, what it judged stale is a killed
  launch's and stays so until it is removed, and what it has not removed yet is still on
  its list.
* `IntentsAreSound` (`PubInv`): who may still push, what was seen on the branch, and what
  each session has told the service, for every step of every session that shares the
  intent.
* `CandidatesAreSound` (`CandInv`): every accepted candidate is the lease's, the ref names
  the lease or the intent the helper holds, what is scanned, on its way to the remote or
  landed holds only secrets that others had published by then (what the remote advertises
  is ours, and so already accounted for, or somebody else's), and what was recorded was
  acknowledged.
* `SavedSessionsAreSound` (`SesInv`): the session of a grant is in some copy's file, an
  unanswered claim is still pending in its copy, and a registered job is bound or the
  request that registered it is pending.

**Workflow** (`WorkflowProofs`). `WorkInv` is inductive. Its publication half says where
on the branch an intent's result was built (`IntentsTell`, `BranchGrows`), so that no
revision lands twice; that who was cleared to push still holds the target (`ClearedMay`,
`Held`); and that reconciliation closes what it settles (`ReconciledEnds`). Its review
half says that the completed reviews of a submission that stands are its approvals
(`Decided`), that nobody integrates what is in review (`Waiting`), that slots have no gaps
(`Dense`), and that what was handed back is quiet (`Superseded`). Steps that publish
nothing, judge nothing or move one row only are framed by `PubFrame`, `RevFrame` and
`RowFrame`; every other action has a lemma of its own. `PublicationIsSound`,
`NonPublicationIsFinal` and `ReviewsStand` follow; `AdvancesAreEarned` counts: completed
reviews and approvals are in bijection.

**Integrator** (`IntegratorProofs`). The forty steps of the system are reduced to the few
effects they have on the service's tables (`Effect`: a submission loses, gains or amends
its standing, a revert opens, a result is pinned, noted, granted or closed), and the
invariants about tables are proved once for each effect; those that tie the job at hand to
the tables rest on the few ways the cycle moves on (`WorkStep`, `Onward`).

* `LandingIsSafe`, `LandingsAreAuthorized`: `IInv`. A result is the merge of its candidate
  into the tip it names (`ResultsMerged`), whose stack is of reviewed changes
  (`StacksReviewed`); what the job at hand has passed is on record (`JobJudged`); and
  authority that is out is for one result of the submission that holds the target
  (`Authority`).
* `UndoneWorkStaysUndone`: `HistoryKnown` on top of it. A snapshot of the queue names what
  the finished reverts undid, authority is issued only for a result that adds something,
  and an integration that adds nothing goes on only with commits its snapshot does not name.
* `LandingsAreAccounted`: `Ledger`. Results are of tips that were recorded one after the
  other, and what a move of the target holds that no result in the file covers is
  reported, so that, whatever moved it, each commit of a recorded tip is a human's, was
  reported as unreviewed, or is in the range of a result that authority was issued for.
  No bound is needed.
* `ProvenanceIsKept`: `Ledger` and `Remembered`, as long as `FileSuffices`. What the target
  holds beyond the recorded tip is what others put there or a result still in the file, so
  nothing of the integrator's own is reported. The code keeps the last `MAX_PUBLISHED` (64)
  results whether or not they were recorded as landed, so some such hypothesis is needed:
  with a file of one result TLC violates `ProvenanceKept`. `FileSuffices` says that while a
  result is not recorded as landed, authority was issued for at most `MaxPublished` results
  since the tip it was computed on; with a file of one result, and with one of two, TLC
  reaches states on both sides of it. A forced push of the model goes back to a
  tip that was recorded before; section 5 has the one that keeps part of a result.

**Delivery** (`DeliveryProofs`). `DeliveryInv` says what a client remembers (`Remembered`),
what is on its way (`Sent`), what the database and every backup of it promise about
receipts and the compaction's cutoff (`Kept`), which credentials a database can hold
(`Known`), where the receipt of an effect is (`Receipted`), whom a live credential still
speaks for (`Fresh`), and how long a lease may last (`Granted`).

* `MutationsAreSound`: a request that takes effect finds no receipt of its key and leaves
  one; a receipt goes with the database that held the effect, and with its window.
* `AuthorityIsSound`: a lease is measured against the true time of its grant while the
  process that granted it counts, and against the durable mark once that process is gone.
* `NothingIsLate`: the transport gives up on a conflict only, which a live credential is
  told when the key has no receipt, and then nothing took effect (`Receipted`); what takes
  effect was saved under a live credential, and so since the last restore (`Fresh`).

**Decisions** (`DecisionsProofs`). `AnswersAreSound`: every recorded answer remembers the
generation it was read off and why its author might give it (`DecInv`). The argument is
made over a set of tasks, and serves both parts of the model: an action extends the
policies or the cycles (`Extends`), and whatever extends them keeps the invariant.

**Host** (`HostProofs`).

* `LaunchesAreSound` (`LoopInv`): a launch that runs, but for one whose loop died before
  it saved the pid (section 5), has a record of this boot with its pid, so recovery finds
  it alive, and recovery looks at every record before the loop claims; a pid whose save
  failed is known only to the loop, and its death leaves such a launch too. Strikes lag
  behind empty exits only by the exits that a death or a failed write kept from being
  counted.
* `VerdictsAreEarned` (`ReviewInv`): the poll's own review is undecided and its launch has
  ended before the verdict is read; events go only after their row.
* `CostsAreSound` (`LoopInv`, `ReviewInv`, and `ReportInv` for the passes): a launch whose
  files are gone passed the ledger, where its row was appended or is known to be missing
  (`unwritten`); it has a second row only when the mark was lost with the loop or could not
  be saved (`recounted`); what a pass stores or sets aside is accounted for, whatever it had
  planned to send.

**Service** (`ServiceProofs`).

* `CredentialsAreSound` (`CredInv`): credentials are issued in order, each to a principal;
  an open session has an issued credential that lives; a subagent's name has the parent
  that its principal's name has.
* `BlameIsSound` (`AttrInv`): a job's verdict is bound by its cause and by what had changed
  outside when its attempt began; the attempts on record are all but one just requested; a
  check an author is blamed for passed on the target in an attempt that began after the
  failure it explains.
* `ArtifactsAreSound` (`StoreInv`): unless the lock file of an artifact was removed under
  its holder (`overtaken`), whoever removes or publishes its content made the file that is
  there, and cleanup has seen that what it removes stays unavailable; the quota is
  held at the time of the last mutation, which every image carries along, and a backup that
  holds the guard finds every content its image lists.
* `AccountsAreSound` (`AccountsInv`): an account that was made has a password, and the hash
  a request works out off the lock is one that was made (`WorkTells`); an administrator is
  enabled (`SomeAdmin`); what the creation key has answered is the password it made
  (`OneAnswer`); a sign-in that lives rests on its account's present hash (`SignInsTell`);
  and only the newest link of a kind can work, the one that proved the address an account
  has (`LinksTell`).
* `PlanIsSound` (`PlanInv`): the admissions of every week are within the budget
  (`WithinBudget`), a held task is planned until a human releases it (`HoldTells`), and a
  task whose item an import keeps is as the import left it exactly while the import wrote
  last (`RecordsTell`). The graph is acyclic by closed sets: one lemma
  (`GraphStaysAcyclic`) shows it for a new list of prerequisites and for a new list of
  children, the two sides from which an edge is added.

### What the proofs changed

A proof attempt that failed showed where a model or a statement was wrong, and TLC
confirmed it on a larger instance: a limit of 0 is no limit, and a restored service counts
on from the time stored in the image, not from the wall clock alone. In `Integrator` a
candidate may be stacked on several others, so that its stack is a sequence; the cases of a
disposition overlapped; the approvals of what lands are stated of the push (`RangeApproved`
in `PushesAreAuthorized`), since they may be withdrawn once it has landed; and
`UndoneStaysUndone` is about a candidate that the target's history held when it was
integrated, since work that was undone may be landed again by a new commit.

Some definitions were restated so that they can be reasoned about, with the same meaning:
`Placed`, `UnitsHeld`, `BatchRows` and `Recorded`, and reachability in `Planning`
(`ClosedIn`, `ReachesIn`), which is by closed sets, as in `Coordination`.

### What is only model-checked

* `ProvenanceKept` in behaviours that outrun the file (not `FileSuffices`): there it is no
  theorem for every value of the constants, and the run `integrator`, which has such
  behaviours, shows it only within its bounds (section 5 says what can happen beyond them).
* The liveness properties `WaitingProceeds`, `RecordsSettle` and `ExitIsRecorded`, which
  are out of the prover's reach.

Every invariant and action property of the passing runs is stated by a theorem, the
refinement of `Ownership` included and `ProvenanceKept` under that hypothesis. What
mail, forge, branch and operating system do is in the models as environment, and the
theorems hold whatever it does there, and no further.

## 5. Disagreements between code and documentation

One is shown by a run and listed as a finding:

* `checkout_reuse`: an attempt released as blocked no longer protects its checkout,
  although its producer may still run there; the refusal in `register_checkout`
  speaks of "active or unresolved earlier work".

The others were met on the way. For the first twelve the property is stated in its module,
and TLC finds it violated when it is added to a configuration like the one named; no
run depends on it.

* `LockKeepsContent` (`Artifacts`, the races of `MCService.cfg`): two handlers that both
  saw a dead holder's lock file each remove what is at its path and create their own
  (`artifacts.rs:745`), so that both hold the lock: cleanup reads that an upload has
  lapsed, the other renews its retention, and cleanup removes its content. The lock is
  documented as what "prevents cleanup racing upload finalization or a retention change"
  (`book/src/docs/artifact-contract.md:40`). `ArtifactsSound` excepts an artifact whose
  lock file went while its holder worked.
* `CostRecorded` (`Supervisor`, `MCHost.cfg`): `cost::settle` only logs a failed append to
  the ledger (`cost.rs:238`), and `settle_cost` marks the record all the same
  (`record.rs:313`); the launch's events are then removed, and no row is ever written.
  `cost_recorded` is documented as "Whether the launch's cost is in the ledger"
  (`record.rs:60`). `CostKept` excepts these launches.
* `EveryDueAnswered` (`Decisions`, `NoneStarves` in `MCDecisions`, `MCDecisions.cfg`): the
  timeout sweep reads a batch of the oldest due decisions and skips stale and expired ones
  without taking them out of later batches (`attention.rs:376`). With as many of those as
  the batch holds, a hundred in the code, a current decision is never answered, while the
  comment at `attention.rs:342` says that every one is.
* `NeverStranded` (`Workflow`, `MCRevision.cfg` with work that is not code): relaxing the
  review mode cancels the last queued review of a submission whose approvals then suffice,
  but an amended submission is not advanced; nobody is left to decide it. `autonomy.rs:181`
  says that a policy change "never strands a candidate".
* `IntentReconcilable` (`Workflow`, `MCPublication.cfg` with one task, two agents and a
  human, the modes `agent` and `human`, two submissions, one slot, one claim of each
  activity and one change of policy): a review that was active when the mode no longer
  asked for it may ask for changes after publication intent (`workflow.rs:2589`). The
  hold stays, and after the next submission neither reconciliation accepts the intent.
* `CompletedStaysDone` (`Workflow`, same instance): such a review may also be decided
  after the integration was finalized; `review` does not look at the phase and moves the
  finished subject back to integration or revision.
* `FinalizedHoldClosed` (`Workflow`, `MCPublication.cfg` with one task, one agent and a
  human, no reviews, one submission and two slots): a human may
  reconcile a publication that was finalized meanwhile and so creates a replacement that
  holds the target for a finished task (`workflow.rs:3217`).
* `ReconciledIsClosed` (`Workflow`, same instance with `MaxForeign = 1`): reconciliation
  leaves an activity in `recovery_required` as it is (`workflow.rs:1396`), and it counts
  as unfinished work from then on.
* `StatusFollowsScope` (`Decisions`, `MCDecisions.cfg`): a task's status compares
  whole revisions and policies (`coordination.rs:548`) where the guard compares what
  was judged, so a priority edit blocks a task although "priority edits and other
  policy changes leave decisions current" (`knowledge.rs:1402`).
* `ReopeningUnblocksNothing` (`Decisions`, `MCDecisions.cfg`): reopening a decision
  with a smaller scope frees the tasks left out without an answer
  (`knowledge.rs:1315`).
* `NeverRespawned` (`Supervisor`, `MCHost.cfg`): a loop that dies between spawning a
  launch and saving its pid, or after that save failed, leaves a record that counts as
  dead after the grace period (`record.rs:28`), and the task is launched again beside
  it, while the header of `record.rs` says that a launch that may still run is never
  respawned. `LiveIsGuarded` excepts exactly these launches.
* `CompletedHasChildren` (`Planning`, `MCService.cfg`): an external completion
  (`coordination.rs:1181`) does not ask for an objective's required children, which
  "must finish before it can be claimed or completed" (guidance, `coordination.rs:2202`).

The rest were read in the code, and where a property would be disturbed by them its
comment names the exception:

* A loop that dies between the ledger row and the mark in its record, or cannot save the
  mark, counts a launch's cost twice (`record.rs:309-317`); `settle_cost` says that a retry
  never does (`recounted` in `CostKept`).
* Failed writes of the pid (`run_loop.rs:608`) and of the strikes (`unsubmitted.rs:178`) are
  only logged: the next loop may take the launch for a dead one, and a strike that was not
  written holds back no launch (`EmptyExitsBounded` counts them).
* The secret scan looks at what the remote does not advertise (`git_workflow.rs:1397`), as
  the test `secret_scan_trusts_only_refs_the_remote_advertises` (`git_workflow.rs:2443`)
  wants it: once somebody else has published a commit with a secret, the helper publishes
  and acknowledges it too. `NothingTaintedLeaves` is about who publishes a secret first.
* A removal that a dropped request had handed to a thread goes on without the artifact's
  lock (`artifacts.rs:1311`), and may take the content of an upload renewed meanwhile
  (`Abandon` in `Artifacts`, excepted as `overtaken`).
* A report that the service refuses counts as reported (`gates.rs:66`), so that
  `ProvenanceKept` says of a move that it was reported or refused.
* A reviewer launch that outlives its loop is settled after fifty minutes though it may
  still run (`outlived` in `Reviewer`). Any outcome but a requeue clears the strikes of a
  submission, a failed claim or release included (`review.rs:194`), where the comment
  at `review.rs:101` speaks of failures "since its last success".
* A crash of the supervisor between claim and record leaves an attempt, and a clone, that
  only the service's lease ends.
* A row of the ledger that the coordinator refuses as malformed is set aside and never
  sent again, by design.
* The command line clears a saved mutation on every refusal (`cli/main.rs:4130`), also
  when a retry is refused, for a revoked credential say, of what had taken effect before
  its answer was lost; the same request made again has another key, and "an interrupted
  response must not cause ... an extra claim" (`PLAN.md:119`). The transport keeps the
  mutation (`TransportGivesUpSafely`).
* A task held by the budget "is admitted when the week rolls over" (`admission.rs:224`);
  nothing admits it, only a human's release does.
* A revert's candidate that a revise sent back is "recorded as a new submission"
  (`integrator_reverts.rs:502`), but the integrator derives the request's key from its body
  (`integrator/src/service.rs:460`), so that the same commit on the same tip replays the
  earlier answer.
* When a result that was pushed and forgotten (`MAX_PUBLISHED`), or a forced rewrite that
  kept part of one, is found on the target, it is reported as somebody else's.
* A candidate push that lands after its helper gave it up makes every later push of that
  launch a lease conflict, while the header of `candidate_push.rs` (29-31) says that a
  request for the commit the helper pushed is accepted again; `KnowsItsPush` excepts it.
* `replace_closed_session` (`cli/main.rs:3819`) reasons that a closed session owns
  nothing; `close_session` (`auth.rs:1029`) closes sessions that do.
* A registration that is refused definitively leaves a saved session that `connect` never
  registers again.
* A launch directory whose lock file a killed teardown or a killed sweep had removed is not
  swept. A failed rename (`layout.rs:91`) leaves a staging directory until the next sweep.
* Renewing an artifact that had lapsed is not counted against the quota, and may follow
  the removal of its content (`hollow`, `renewed` in `Artifacts`).
* A canceled required child keeps its objective from being completed for good, and
  `validate_children` accepts children that are deleted or canceled.

## 6. Not modelled, and the plan

In the modelled components: creation of projects; grants that let agents edit; parked
tasks and supervisors' claims; integration holds as guards of policy updates and of new
decisions; rows written by earlier versions of the service. In the workflow: pending
decisions as a guard of activities, launch distinctness of reviewers, the revert floor
of the review mode, and the limit on agents' revisions. In planning: imported knowledge,
archived tasks, and which agent contributed. In artifacts: orphan cleanup, external
links, downloads, pruning of snapshots. In `Publisher`: the answer of `publish_prepared`
itself that a push did not land, which a late landing may follow, is told to nobody and
left unconstrained; only a reconciliation's is. In `ClientSession`: commands of two
copies of one session at once.

Whole components: work selection, history and search, and the HTTP and MCP surface
change no state or only append to it; the web UI, the sandbox, deployment, parsing,
rendering and cryptography decide nothing that order or failure could disturb.

What is worth proving next: the step by which the closed world of a part is opened, that
is, the `Delivery` contract (a mutation takes effect once, under authority in force) as the
assumption under which `ClientSession`, `Publisher` and `Supervisor` talk to the service;
and the composition of `Workflow` with the `Coordinator`, whose tasks' ownership it abstracts.
