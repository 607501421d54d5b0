--------------------------- MODULE CoordinatorProofs ----------------------------
(***************************************************************************)
(* Who owns a task, proved for every value of the constants: the tables'   *)
(* types; that a task's current attempt is its only active one, carries    *)
(* its latest generation, and exists only while the task is open, listed   *)
(* and its project not archived (CurrentOwner and OwnedIsOpen are          *)
(* inductive relative to the types); what a step may never do to a lease:  *)
(* nothing revives a dead attempt, and every deadline written respects the *)
(* project's max_attempt_seconds; and that the service implements          *)
(* Ownership.                                                              *)
(*                                                                         *)
(* Then, what attempts leave behind, wait for and share.                   *)
(*                                                                         *)
(* Producers and reservations outlive the attempts that created them: a    *)
(* task's evidence (held reservations, producers that may still run) is    *)
(* only ever added by a live owner in work mode, so a task is offered as   *)
(* ordinary work only when it has none.  ReadyIsQuiescent is not           *)
(* inductive: an unblocked task nobody owns may be planned, undecided or   *)
(* wait for prerequisites, and become ready without a look at its          *)
(* evidence.  Settled strengthens it to all those tasks.                   *)
(*                                                                         *)
(* Then: edits keep dependencies acyclic and an owned task's prerequisites *)
(* done; reservations never overbook a resource (counting units needs that *)
(* they are finitely many, UnitsInv); and every step treats the attempts   *)
(* table as a history (HistoryStep), from which follow that no checkout is *)
(* edited twice and that a recovery rests on a record that cannot change.  *)
(***************************************************************************)
EXTENDS Coordinator, FiniteSetTheorems, TLAPS

USE SessionAssumption, NullAssumption, PolicyAssumption, ResourceAssumption,
    DecisionAssumption

---------------------------------------------------------------------------
(* Types.                                                                   *)

LEMMA CappedType ==
  ASSUME TypeOK, NEW e \in Int, NEW c \in Nat
  PROVE  /\ Capped(e, c) \in Int
         /\ WithinLimit(Capped(e, c), c)
  BY DEF TypeOK, Capped, WithinLimit

LEMMA PairMax ==
  ASSUME NEW x \in Int, NEW y \in Int
  PROVE  /\ Max({x, y}) \in Int
         /\ Max({x, y}) = x \/ Max({x, y}) = y
  <1>1. \E m \in {x, y} : \A z \in {x, y} : m >= z
    OBVIOUS
  <1> QED BY <1>1 DEF Max

LEMMA PairMin ==
  ASSUME NEW x \in Int, NEW y \in Int
  PROVE  /\ Min({x, y}) \in Int
         /\ Min({x, y}) = x \/ Min({x, y}) = y
  <1>1. \E m \in {x, y} : \A z \in {x, y} : m <= z
    OBVIOUS
  <1> QED BY <1>1 DEF Min

LEMMA InitType == Init => TypeOK
  <1> SUFFICES ASSUME Init PROVE TypeOK
    OBVIOUS
  <1>1. tasks \in [Tasks -> TaskRow]
    BY DEF Init, TaskRow, Lifecycles
  <1>2. /\ DOMAIN attempts = {} /\ DOMAIN resources = {}
        /\ DOMAIN reservations = {} /\ DOMAIN jobs = {}
    BY DEF Init
  <1>3. /\ attempts \in [{} -> AttemptRow] /\ resources \in [{} -> Capacities]
        /\ reservations \in [{} -> ReservationRow] /\ jobs \in [{} -> JobRow]
    BY DEF Init
  <1> QED BY <1>1, <1>2, <1>3 DEF Init, TypeOK, DecisionStates

LEMMA ClaimType ==
  ASSUME TypeOK, NEW s \in Sessions, NEW t \in Tasks, NEW a \in AttemptIds,
         NEW mode \in {"work", "recovery"}, Claim(s, t, a, mode)
  PROVE  TypeOK'
  <1>1. NewAttempt(s, t, mode) \in AttemptRow
    <2>1. now + policy.lease \in Int /\ tasks[t].generation + 1 \in Nat
      BY DEF TypeOK, TaskRow
    <2> QED BY <2>1, CappedType DEF NewAttempt, AttemptRow, AttemptStates, TypeOK
  <1>2. /\ DOMAIN Superseded(t) = DOMAIN attempts
        /\ Superseded(t) \in [DOMAIN attempts -> AttemptRow]
    BY DEF Superseded, TypeOK, AttemptRow, AttemptStates
  <1>3. /\ DOMAIN attempts' = DOMAIN attempts \cup {a}
        /\ attempts' \in [DOMAIN attempts' -> AttemptRow]
    BY <1>1, <1>2 DEF Claim, TypeOK, Insert
  <1>4. tasks' \in [Tasks -> TaskRow]
    BY SMTT(30) DEF Claim, TypeOK, TaskRow
  <1> QED BY <1>3, <1>4 DEF Claim, TypeOK, jobVars

\* Steps that rewrite fields of one attempt leave every reference in place.
LEMMA AttemptUpdateType ==
  ASSUME TypeOK, DOMAIN attempts' = DOMAIN attempts,
         attempts' \in [DOMAIN attempts -> AttemptRow],
         UNCHANGED <<now, policy, projectArchived, sessions, decisions, jobVars>>,
         tasks' \in [Tasks -> TaskRow]
  PROVE  TypeOK'
  BY DEF TypeOK, jobVars

LEMMA RowType ==
  ASSUME TypeOK
  PROVE  /\ \A a \in DOMAIN attempts : attempts[a] \in AttemptRow
         /\ \A v \in DOMAIN reservations : reservations[v] \in ReservationRow
         /\ \A j \in DOMAIN jobs : jobs[j] \in JobRow
         /\ \A t \in Tasks : tasks[t] \in TaskRow
  BY DEF TypeOK

LEMMA LeaseStepType ==
  ASSUME TypeOK, NEW s \in Sessions, NEW a \in DOMAIN attempts
  PROVE  /\ Renew(s, a) => TypeOK'
         /\ \A rev \in Revisions \cup {None} : Checkpoint(s, a, rev) => TypeOK'
         /\ \A blocked \in BOOLEAN : Release(s, a, blocked) => TypeOK'
  <1>0. attempts[a] \in AttemptRow
    BY RowType
  <1>1. ASSUME Renew(s, a) PROVE TypeOK'
    <2> DEFINE e == Capped(now + policy.lease, attempts[a].created)
    <2>1. e \in Int
      <3>1. now + policy.lease \in Int /\ attempts[a].created \in Nat
        BY <1>0 DEF TypeOK, AttemptRow
      <3> QED BY <3>1, CappedType
    <2>2. attempts' = [attempts EXCEPT ![a].expires = e]
      BY <1>1 DEF Renew
    <2> HIDE DEF e
    <2>3. [attempts[a] EXCEPT !.expires = e] \in AttemptRow
      BY <1>0, <2>1 DEF AttemptRow
    <2>4. attempts' \in [DOMAIN attempts -> AttemptRow] /\ DOMAIN attempts' = DOMAIN attempts
      BY <2>2, <2>3 DEF TypeOK
    <2>5. tasks' \in [Tasks -> TaskRow]
      BY <1>1 DEF Renew, TypeOK
    <2> QED BY <1>1, <2>4, <2>5, AttemptUpdateType DEF Renew
  <1>2. ASSUME NEW rev \in Revisions \cup {None}, Checkpoint(s, a, rev) PROVE TypeOK'
    <2>1. [attempts[a] EXCEPT !.revision = rev] \in AttemptRow
      BY <1>0 DEF AttemptRow
    <2>2. attempts' \in [DOMAIN attempts -> AttemptRow] /\ DOMAIN attempts' = DOMAIN attempts
      BY <1>2, <2>1 DEF Checkpoint, TypeOK
    <2>3. tasks' \in [Tasks -> TaskRow]
      BY <1>2 DEF Checkpoint, TypeOK
    <2> QED BY <1>2, <2>2, <2>3, AttemptUpdateType DEF Checkpoint
  <1>3. ASSUME NEW blocked \in BOOLEAN, Release(s, a, blocked) PROVE TypeOK'
    <2> DEFINE row == [attempts[a] EXCEPT !.state = IF blocked THEN "blocked" ELSE "released",
                                          !.revision = None]
               t == attempts[a].task
               trow == [tasks[t] EXCEPT !.current = None, !.blocked = blocked]
    <2>1. row \in AttemptRow
      BY <1>0 DEF AttemptRow, AttemptStates
    <2>2. attempts' = [attempts EXCEPT ![a] = row]
      BY <1>3 DEF Release, TypeOK
    <2>3. t \in Tasks
      BY <1>0 DEF AttemptRow
    <2>4. trow \in TaskRow
      <3>1. tasks[t] \in TaskRow
        BY <2>3, RowType
      <3> HIDE DEF t
      <3> QED BY <3>1 DEF TaskRow
    <2>5. tasks' = [tasks EXCEPT ![t] = trow]
      BY <1>3, <2>3 DEF Release, TypeOK
    <2> HIDE DEF row, trow, t
    <2>6. attempts' \in [DOMAIN attempts -> AttemptRow] /\ DOMAIN attempts' = DOMAIN attempts
      BY <2>1, <2>2 DEF TypeOK
    <2>7. tasks' \in [Tasks -> TaskRow]
      BY <2>3, <2>4, <2>5 DEF TypeOK
    <2> QED BY <1>3, <2>6, <2>7, AttemptUpdateType DEF Release
  <1> QED BY <1>1, <1>2, <1>3

LEMMA RecoveryStepType ==
  ASSUME TypeOK, NEW s \in Sessions, NEW a \in DOMAIN attempts
  PROVE  /\ \A fetched \in Revisions \cup {None}, attested \in BOOLEAN,
               label \in {"service_verified", "local_attestation"} :
              RecoveryResolution(s, a, fetched, attested, label) => TypeOK'
         /\ \A c \in Checkouts : RegisterCheckout(s, a, c) => TypeOK'
  <1>0. attempts[a] \in AttemptRow
    BY RowType
  <1>1. ASSUME NEW fetched \in Revisions \cup {None}, NEW attested \in BOOLEAN,
               NEW label \in {"service_verified", "local_attestation"},
               RecoveryResolution(s, a, fetched, attested, label)
        PROVE  TypeOK'
    <2> DEFINE row == [attempts[a] EXCEPT !.mode = "work", !.revision = None,
                                          !.evidence = label, !.base = fetched]
    <2>1. row \in AttemptRow
      BY <1>0 DEF AttemptRow
    <2>2. attempts' = [attempts EXCEPT ![a] = row]
      BY <1>1 DEF RecoveryResolution, TypeOK
    <2> HIDE DEF row
    <2>3. attempts' \in [DOMAIN attempts -> AttemptRow] /\ DOMAIN attempts' = DOMAIN attempts
      BY <2>1, <2>2 DEF TypeOK
    <2>4. tasks' \in [Tasks -> TaskRow]
      BY <1>1 DEF RecoveryResolution, TypeOK
    <2> QED BY <1>1, <2>3, <2>4, AttemptUpdateType DEF RecoveryResolution
  <1>2. ASSUME NEW c \in Checkouts, RegisterCheckout(s, a, c) PROVE TypeOK'
    <2>1. [attempts[a] EXCEPT !.checkout = c] \in AttemptRow
      BY <1>0 DEF AttemptRow
    <2>2. attempts' \in [DOMAIN attempts -> AttemptRow] /\ DOMAIN attempts' = DOMAIN attempts
      BY <1>2, <2>1 DEF RegisterCheckout, TypeOK
    <2>3. tasks' \in [Tasks -> TaskRow]
      BY <1>2 DEF RegisterCheckout, TypeOK
    <2> QED BY <1>2, <2>2, <2>3, AttemptUpdateType DEF RegisterCheckout
  <1> QED BY <1>1, <1>2

\* The operations on tasks nobody owns write the tasks table only.
TaskOperation ==
  \/ \E t \in Tasks : Unblock(t) \/ Archive(t) \/ Restore(t) \/ Delete(t)
                      \/ CompleteTaskExternally(t)
  \/ \E t \in Tasks, lifecycle \in {"open", "planned"}, needs \in SUBSET Tasks :
       EditTask(t, lifecycle, needs)
  \/ \E t \in Tasks, replaced \in BOOLEAN : Cancel(t, replaced)

LEMMA TaskOperationType ==
  ASSUME TypeOK, TaskOperation
  PROVE  TypeOK'
  <1>1. UNCHANGED <<now, policy, projectArchived, sessions, attempts, decisions, jobVars>>
    BY DEF TaskOperation, Unblock, Archive, Restore, Delete, CompleteTaskExternally,
           EditTask, Cancel
  <1>2. \E t \in Tasks, row \in TaskRow : tasks' = [tasks EXCEPT ![t] = row]
    <2>1. ASSUME NEW t \in Tasks, NEW l \in Lifecycles, NEW b \in BOOLEAN,
                 NEW sh \in {"listed", "archived", "deleted"}, NEW n \in SUBSET Tasks,
                 \/ tasks' = [tasks EXCEPT ![t].blocked = b]
                 \/ tasks' = [tasks EXCEPT ![t].lifecycle = l, ![t].needs = n]
                 \/ tasks' = [tasks EXCEPT ![t].shelf = sh]
                 \/ tasks' = [tasks EXCEPT ![t].lifecycle = l, ![t].shelf = sh]
                 \/ tasks' = [tasks EXCEPT ![t].lifecycle = l, ![t].blocked = b]
          PROVE  \E row \in TaskRow : tasks' = [tasks EXCEPT ![t] = row]
      <3>0. tasks[t] \in TaskRow
        BY RowType
      <3>1. CASE tasks' = [tasks EXCEPT ![t].blocked = b]
        <4>1. [tasks[t] EXCEPT !.blocked = b] \in TaskRow
          BY <3>0 DEF TaskRow
        <4> QED BY <3>1, <4>1 DEF TypeOK
      <3>2. CASE tasks' = [tasks EXCEPT ![t].lifecycle = l, ![t].needs = n]
        <4>1. [tasks[t] EXCEPT !.lifecycle = l, !.needs = n] \in TaskRow
          BY <3>0 DEF TaskRow
        <4>2. tasks' = [tasks EXCEPT ![t] = [tasks[t] EXCEPT !.lifecycle = l, !.needs = n]]
          BY <3>2 DEF TypeOK
        <4> QED BY <4>1, <4>2
      <3>3. CASE tasks' = [tasks EXCEPT ![t].shelf = sh]
        <4>1. [tasks[t] EXCEPT !.shelf = sh] \in TaskRow
          BY <3>0 DEF TaskRow
        <4> QED BY <3>3, <4>1 DEF TypeOK
      <3>4. CASE tasks' = [tasks EXCEPT ![t].lifecycle = l, ![t].shelf = sh]
        <4>1. [tasks[t] EXCEPT !.lifecycle = l, !.shelf = sh] \in TaskRow
          BY <3>0 DEF TaskRow
        <4>2. tasks' = [tasks EXCEPT ![t] = [tasks[t] EXCEPT !.lifecycle = l, !.shelf = sh]]
          BY <3>4 DEF TypeOK
        <4> QED BY <4>1, <4>2
      <3>5. CASE tasks' = [tasks EXCEPT ![t].lifecycle = l, ![t].blocked = b]
        <4>1. [tasks[t] EXCEPT !.lifecycle = l, !.blocked = b] \in TaskRow
          BY <3>0 DEF TaskRow
        <4>2. tasks' = [tasks EXCEPT ![t] = [tasks[t] EXCEPT !.lifecycle = l, !.blocked = b]]
          BY <3>5 DEF TypeOK
        <4> QED BY <4>1, <4>2
      <3> QED BY <2>1, <3>1, <3>2, <3>3, <3>4, <3>5
    <2>2. ASSUME NEW t \in Tasks,
                 Unblock(t) \/ Archive(t) \/ Restore(t) \/ Delete(t) \/ CompleteTaskExternally(t)
          PROVE  \E row \in TaskRow : tasks' = [tasks EXCEPT ![t] = row]
      BY <2>1, <2>2 DEF Unblock, Archive, Restore, Delete, CompleteTaskExternally, Lifecycles
    <2>3. ASSUME NEW t \in Tasks, NEW lifecycle \in {"open", "planned"}, NEW needs \in SUBSET Tasks,
                 EditTask(t, lifecycle, needs)
          PROVE  \E row \in TaskRow : tasks' = [tasks EXCEPT ![t] = row]
      BY <2>1, <2>3 DEF EditTask, Lifecycles
    <2>4. ASSUME NEW t \in Tasks, NEW replaced \in BOOLEAN, Cancel(t, replaced)
          PROVE  \E row \in TaskRow : tasks' = [tasks EXCEPT ![t] = row]
      BY <2>1, <2>4 DEF Cancel, Lifecycles
    <2> QED BY <2>2, <2>3, <2>4 DEF TaskOperation
  <1>3. tasks' \in [Tasks -> TaskRow]
    BY <1>2 DEF TypeOK
  <1> QED BY <1>1, <1>3, AttemptUpdateType DEF TypeOK

\* Policy, project, sessions, decisions and time: no row of a table changes.
EnvironmentStep ==
  \/ \E p \in Policies : UpdatePolicy(p)
  \/ ArchiveProject
  \/ RestoreProject
  \/ \E s \in Sessions : CloseSession(s)
  \/ \E c \in Credentials : RevokeCredential(c)
  \/ \E t \in DecisionTasks, d \in DecisionStates : DecisionChanges(t, d)
  \/ Tick

LEMMA EnvironmentType ==
  ASSUME TypeOK, EnvironmentStep
  PROVE  TypeOK'
  <1>1. UNCHANGED <<tasks, attempts, jobVars>>
    BY DEF EnvironmentStep, UpdatePolicy, ArchiveProject, RestoreProject, CloseSession,
           RevokeCredential, DecisionChanges, Tick
  <1>5. projectArchived' \in BOOLEAN
    BY Zenon DEF EnvironmentStep, UpdatePolicy, ArchiveProject, RestoreProject, CloseSession,
           RevokeCredential, DecisionChanges, Tick, TypeOK
  <1>2. now' \in Nat /\ policy' \in Policies
    BY DEF EnvironmentStep, UpdatePolicy, ArchiveProject, RestoreProject, CloseSession,
           RevokeCredential, DecisionChanges, Tick, TypeOK
  <1>3. sessions' \in [Sessions -> {"open", "closed", "revoked"}]
    BY DEF EnvironmentStep, UpdatePolicy, ArchiveProject, RestoreProject, CloseSession,
           RevokeCredential, DecisionChanges, Tick, TypeOK
  <1>4. decisions' \in [Tasks -> DecisionStates]
    BY DEF EnvironmentStep, UpdatePolicy, ArchiveProject, RestoreProject, CloseSession,
           RevokeCredential, DecisionChanges, Tick, TypeOK
  <1> QED BY <1>1, <1>2, <1>3, <1>4, <1>5 DEF TypeOK, jobVars

LEMMA ResourceType ==
  ASSUME TypeOK, NEW r \in Resources
  PROVE  /\ \A capacity \in Capacities : CreateResource(r, capacity) => TypeOK'
         /\ \A capacity \in Capacities : UpdateResource(r, capacity) => TypeOK'
         /\ DeleteResource(r) => TypeOK'
  <1>1. ASSUME NEW capacity \in Capacities, CreateResource(r, capacity) PROVE TypeOK'
    BY <1>1 DEF CreateResource, Insert, TypeOK, coordinationVars
  <1>2. ASSUME NEW capacity \in Capacities, UpdateResource(r, capacity) PROVE TypeOK'
    BY <1>2 DEF UpdateResource, TypeOK, coordinationVars
  <1>3. ASSUME DeleteResource(r) PROVE TypeOK'
    BY <1>3 DEF DeleteResource, TypeOK, coordinationVars
  <1> QED BY <1>1, <1>2, <1>3

LEMMA ReservationType ==
  ASSUME TypeOK
  PROVE  /\ \A s \in Sessions, a \in DOMAIN attempts, v \in ReservationIds, items \in Requests :
              CreateReservation(s, a, v, items) => TypeOK'
         /\ \A s \in Sessions, a \in DOMAIN attempts, v \in DOMAIN reservations :
              ReleaseReservation(s, a, v) => TypeOK'
         /\ \A v \in DOMAIN reservations : ResolveReservation(v) => TypeOK'
  <1>1. ASSUME NEW s \in Sessions, NEW a \in DOMAIN attempts, NEW v \in ReservationIds,
               NEW items \in Requests, CreateReservation(s, a, v, items)
        PROVE  TypeOK'
    <2>1. [attempt |-> a, items |-> items, state |-> "held"] \in ReservationRow
      BY DEF ReservationRow, TypeOK
    <2>2. /\ DOMAIN reservations' = DOMAIN reservations \cup {v}
          /\ reservations' \in [DOMAIN reservations' -> ReservationRow]
          /\ \A k \in DOMAIN reservations' : reservations'[k].attempt \in DOMAIN attempts
      BY <1>1, <2>1 DEF CreateReservation, Insert, TypeOK
    <2> QED BY <1>1, <2>2 DEF CreateReservation, TypeOK, coordinationVars
  <1>2. ASSUME NEW v \in DOMAIN reservations, NEW st \in {"released", "resolved"},
               reservations' = [reservations EXCEPT ![v].state = st]
        PROVE  /\ DOMAIN reservations' = DOMAIN reservations
               /\ reservations' \in [DOMAIN reservations' -> ReservationRow]
               /\ \A k \in DOMAIN reservations' : reservations'[k].attempt \in DOMAIN attempts
    <2>1. [reservations[v] EXCEPT !.state = st] \in ReservationRow
      <3>1. reservations[v] \in ReservationRow
        BY RowType
      <3> QED BY <3>1 DEF ReservationRow
    <2>2. [reservations[v] EXCEPT !.state = st].attempt = reservations[v].attempt
      <3>1. reservations[v] \in ReservationRow
        BY RowType
      <3> QED BY <3>1 DEF ReservationRow
    <2> QED BY <1>2, <2>1, <2>2 DEF TypeOK
  <1>3. ASSUME NEW s \in Sessions, NEW a \in DOMAIN attempts, NEW v \in DOMAIN reservations,
               ReleaseReservation(s, a, v)
        PROVE  TypeOK'
    <2>1. reservations' = [reservations EXCEPT ![v].state = "released"]
      BY <1>3 DEF ReleaseReservation
    <2> QED BY <1>2, <1>3, <2>1 DEF ReleaseReservation, TypeOK, coordinationVars
  <1>4. ASSUME NEW v \in DOMAIN reservations, ResolveReservation(v)
        PROVE  TypeOK'
    <2>1. reservations' = [reservations EXCEPT ![v].state = "resolved"]
      BY <1>4 DEF ResolveReservation
    <2>2. ASSUME NEW j \in DOMAIN jobs
          PROVE  /\ [jobs[j] EXCEPT !.reconciled = TRUE] \in JobRow
                 /\ [jobs[j] EXCEPT !.reconciled = TRUE].attempt = jobs[j].attempt
                 /\ [jobs[j] EXCEPT !.reconciled = TRUE].reservation = jobs[j].reservation
      <3>1. jobs[j] \in JobRow
        BY RowType
      <3> QED BY <3>1 DEF JobRow
    <2>3. /\ DOMAIN jobs' = DOMAIN jobs
          /\ jobs' \in [DOMAIN jobs' -> JobRow]
          /\ \A j \in DOMAIN jobs' : /\ jobs'[j].attempt = jobs[j].attempt
                                     /\ jobs'[j].reservation = jobs[j].reservation
      BY <1>4, <2>2 DEF ResolveReservation, TypeOK
    <2> QED BY <1>2, <1>4, <2>1, <2>3 DEF ResolveReservation, TypeOK, coordinationVars
  <1> QED BY <1>1, <1>3, <1>4

LEMMA JobType ==
  ASSUME TypeOK
  PROVE  /\ \A s \in Sessions, a \in DOMAIN attempts, v \in DOMAIN reservations, j \in JobIds,
               window \in RenewWindows : RegisterJob(s, a, v, j, window) => TypeOK'
         /\ \A j \in DOMAIN jobs, state \in JobStates, process \in BOOLEAN :
              Observe(j, state, process) => TypeOK'
         /\ \A j \in DOMAIN jobs : ReporterRenew(j) => TypeOK'
  <1>1. ASSUME NEW s \in Sessions, NEW a \in DOMAIN attempts, NEW v \in DOMAIN reservations,
               NEW j \in JobIds, NEW window \in RenewWindows, RegisterJob(s, a, v, j, window)
        PROVE  TypeOK'
    <2>1. NewJob(a, v, window) \in JobRow
      BY DEF NewJob, JobRow, JobStates, TypeOK
    <2>2. /\ DOMAIN jobs' = DOMAIN jobs \cup {j}
          /\ jobs' \in [DOMAIN jobs' -> JobRow]
          /\ \A k \in DOMAIN jobs' : /\ jobs'[k].attempt \in DOMAIN attempts
                                     /\ jobs'[k].reservation \in DOMAIN reservations
      <3>1. NewJob(a, v, window).attempt = a /\ NewJob(a, v, window).reservation = v
        BY DEF NewJob
      <3> QED BY <1>1, <2>1, <3>1 DEF RegisterJob, Insert, TypeOK
    <2> QED BY <1>1, <2>2 DEF RegisterJob, TypeOK, coordinationVars
  <1>2. ASSUME NEW j \in DOMAIN jobs, NEW state \in JobStates, NEW process \in BOOLEAN,
               Observe(j, state, process)
        PROVE  TypeOK'
    <2>1. jobs[j] \in JobRow
      BY RowType
    <2>2. /\ Observed(j, state, process) \in JobRow
          /\ Observed(j, state, process).attempt = jobs[j].attempt
          /\ Observed(j, state, process).reservation = jobs[j].reservation
      BY <2>1 DEF Observed, JobRow
    <2>3. /\ DOMAIN jobs' = DOMAIN jobs
          /\ jobs' \in [DOMAIN jobs' -> JobRow]
          /\ \A k \in DOMAIN jobs' : /\ jobs'[k].attempt \in DOMAIN attempts
                                     /\ jobs'[k].reservation \in DOMAIN reservations
      BY <1>2, <2>2 DEF Observe, TypeOK
    <2> QED BY <1>2, <2>3 DEF Observe, TypeOK, coordinationVars
  <1>3. ASSUME NEW j \in DOMAIN jobs, ReporterRenew(j) PROVE TypeOK'
    <2> DEFINE a == jobs[j].attempt
               extension == Min({now + policy.lease, RenewUntil(j)})
               e == Max({attempts[a].expires, Capped(extension, attempts[a].created)})
    <2>1. a \in DOMAIN attempts
      BY DEF TypeOK
    <2>2. attempts[a] \in AttemptRow
      BY <2>1, RowType
    <2>3. extension \in Int
      <3>1. now + policy.lease \in Int
        BY DEF TypeOK
      <3>2. RenewUntil(j) \in Int
        <4>1. jobs[j] \in JobRow
          BY RowType
        <4>2. jobs[j].created \in Nat /\ jobs[j].window \in RenewWindows
          BY <4>1 DEF JobRow
        <4>3. jobs[j].window \in Nat
          BY <4>2
        <4> QED BY <4>2, <4>3 DEF RenewUntil
      <3> QED BY <3>1, <3>2, PairMin
    <2>4. e \in Int
      <3>1. Capped(extension, attempts[a].created) \in Int /\ attempts[a].expires \in Int
        BY <2>2, <2>3, CappedType DEF AttemptRow
      <3> HIDE DEF extension, a
      <3> QED BY <3>1, PairMax
    <2>5. attempts' = [attempts EXCEPT ![a].expires = e]
      BY <1>3, <2>1 DEF ReporterRenew
    <2> HIDE DEF e, extension
    <2>6. [attempts[a] EXCEPT !.expires = e] \in AttemptRow
      BY <2>2, <2>4 DEF AttemptRow
    <2>7. attempts' \in [DOMAIN attempts -> AttemptRow] /\ DOMAIN attempts' = DOMAIN attempts
      BY <2>1, <2>5, <2>6 DEF TypeOK
    <2> QED BY <1>3, <2>7 DEF ReporterRenew, TypeOK, coordinationVars
  <1> QED BY <1>1, <1>2, <1>3

LEMMA NextType == TypeOK /\ [Next]_vars => TypeOK'
  <1> SUFFICES ASSUME TypeOK, [Next]_vars PROVE TypeOK'
    OBVIOUS
  <1>1. CASE CoordinationNext
    <2>1. CASE TaskOperation \/ EnvironmentStep
      BY <2>1, TaskOperationType, EnvironmentType
    <2>2. CASE ~(TaskOperation \/ EnvironmentStep)
      BY <1>1, <2>2, ClaimType, LeaseStepType, RecoveryStepType
         DEF CoordinationNext, TaskOperation, EnvironmentStep
    <2> QED BY <2>1, <2>2
  <1>2. CASE JobsNext
    BY <1>2, ResourceType, ReservationType, JobType DEF JobsNext
  <1>3. CASE UNCHANGED vars
    BY <1>3 DEF vars, TypeOK
  <1> QED BY <1>1, <1>2, <1>3 DEF Next

\* Type correctness: every reachable database is well formed, and every
\* reservation and job refers to an attempt and a reservation that exist.
THEOREM TypeCorrect == Spec => []TypeOK
  BY InitType, NextType, PTL DEF Spec

---------------------------------------------------------------------------
(* Owners.                                                                  *)

OwnerInv == CurrentOwner /\ OwnedIsOpen

\* Steps that keep every attempt's task, state and generation.
AttemptsKeepOwner ==
  /\ DOMAIN attempts' = DOMAIN attempts
  /\ \A a \in DOMAIN attempts : /\ attempts'[a].task = attempts[a].task
                                /\ attempts'[a].state = attempts[a].state
                                /\ attempts'[a].generation = attempts[a].generation

LEMMA OwnerFrame ==
  ASSUME OwnerInv, AttemptsKeepOwner, TypeOK, UNCHANGED <<tasks, projectArchived>>
  PROVE  OwnerInv'
  <1>1. CurrentOwner'
    BY DEF OwnerInv, CurrentOwner, AttemptsKeepOwner, TypeOK, AttemptRow
  <1>2. OwnedIsOpen'
    BY DEF OwnerInv, OwnedIsOpen
  <1> QED BY <1>1, <1>2 DEF OwnerInv

LEMMA ClaimOwner ==
  ASSUME TypeOK, OwnerInv, NEW s \in Sessions, NEW t \in Tasks, NEW a \in AttemptIds,
         NEW mode \in {"work", "recovery"}, Claim(s, t, a, mode)
  PROVE  OwnerInv'
  <1> DEFINE row == NewAttempt(s, t, mode)
  <1>1. row.task = t /\ row.state = "active" /\ row.generation = tasks[t].generation + 1
    BY DEF NewAttempt
  <1>2. /\ DOMAIN attempts' = DOMAIN attempts \cup {a}
        /\ attempts'[a] = row
        /\ \A b \in DOMAIN attempts :
             attempts'[b] = IF b = tasks[t].current /\ attempts[b].state = "active"
                            THEN [attempts[b] EXCEPT !.state = "expired"]
                            ELSE attempts[b]
    BY DEF Claim, Insert, Superseded
  <1>3. \A b \in DOMAIN attempts : attempts[b] \in AttemptRow
    BY RowType
  <1>4. \A b \in DOMAIN attempts :
          /\ attempts'[b].task = attempts[b].task
          /\ attempts'[b].generation = attempts[b].generation
          /\ attempts'[b].state = IF b = tasks[t].current /\ attempts[b].state = "active"
                                  THEN "expired" ELSE attempts[b].state
    BY <1>2, <1>3 DEF AttemptRow
  <1>5. a \notin DOMAIN attempts /\ a # None
    BY DEF Claim
  <1>6. /\ tasks'[t].current = a
        /\ tasks'[t].generation = tasks[t].generation + 1
        /\ tasks'[t].lifecycle = tasks[t].lifecycle
        /\ tasks'[t].shelf = tasks[t].shelf
        /\ \A u \in Tasks \ {t} : tasks'[u] = tasks[u]
    BY DEF Claim, TypeOK, TaskRow
  <1>7. \A u \in Tasks : tasks[u].generation \in Nat
    BY RowType DEF TaskRow
  <1>8. \A b \in DOMAIN attempts : attempts[b].task \in Tasks /\ attempts[b].generation \in Nat
    BY <1>3 DEF AttemptRow
  <1> HIDE DEF row
  <1>9. CurrentOwner'
    <2>1. ASSUME NEW b \in DOMAIN attempts', attempts'[b].state = "active"
          PROVE  tasks'[attempts'[b].task].current = b
      BY <2>1, <1>1, <1>2, <1>4, <1>5, <1>6, <1>8 DEF OwnerInv, CurrentOwner
    <2>2. ASSUME NEW u \in Tasks, tasks'[u].current # None
          PROVE  /\ tasks'[u].current \in DOMAIN attempts'
                 /\ attempts'[tasks'[u].current].task = u
                 /\ attempts'[tasks'[u].current].state = "active"
                 /\ attempts'[tasks'[u].current].generation = tasks'[u].generation
      <3>1. CASE u = t
        BY <3>1, <1>1, <1>2, <1>6
      <3>2. CASE u # t
        <4>1. /\ tasks[u].current \in DOMAIN attempts
              /\ attempts[tasks[u].current].task = u
              /\ attempts[tasks[u].current].state = "active"
              /\ attempts[tasks[u].current].generation = tasks[u].generation
          BY <2>2, <3>2, <1>6 DEF OwnerInv, CurrentOwner
        <4>2. tasks[u].current # tasks[t].current
          <5>1. tasks[u].current # None
            BY <2>2, <3>2, <1>6
          <5>2. tasks[t].current # None => attempts[tasks[t].current].task = t
            BY DEF OwnerInv, CurrentOwner
          <5> QED BY <3>2, <4>1, <5>1, <5>2
        <4> QED BY <4>1, <4>2, <3>2, <1>2, <1>4, <1>6
      <3> QED BY <3>1, <3>2

  <2>3. \A b \in DOMAIN attempts' :
          attempts'[b].generation <= tasks'[attempts'[b].task].generation
      BY <1>1, <1>2, <1>4, <1>6, <1>7, <1>8 DEF OwnerInv, CurrentOwner
    <2>4. ASSUME NEW b \in DOMAIN attempts', NEW c \in DOMAIN attempts',
                 attempts'[b].task = attempts'[c].task,
                 attempts'[b].generation = attempts'[c].generation
          PROVE  b = c
      BY <2>4, <1>1, <1>2, <1>4, <1>7, <1>8 DEF OwnerInv, CurrentOwner
    <2> QED BY <2>1, <2>2, <2>3, <2>4 DEF CurrentOwner
  <1>10. OwnedIsOpen'
    <2>1. tasks[t].shelf = "listed" /\ ~projectArchived
      BY DEF Claim, MayClaim
    <2>2. tasks[t].lifecycle = "open"
      <3>1. Status(t) \in {"ready", "recovery_required"}
        BY DEF Claim, MayClaim
      <3>2. tasks[t].lifecycle \in {"planned", "open", "done", "canceled"}
        BY RowType DEF TaskRow, Lifecycles
      <3> QED BY <3>1, <3>2 DEF Status
    <2> QED BY <1>6, <2>1, <2>2 DEF OwnerInv, OwnedIsOpen, Claim
  <1> QED BY <1>9, <1>10 DEF OwnerInv

LEMMA ReleaseOwner ==
  ASSUME TypeOK, OwnerInv, NEW s \in Sessions, NEW a \in DOMAIN attempts, NEW blocked \in BOOLEAN,
         Release(s, a, blocked)
  PROVE  OwnerInv'
  <1> DEFINE t == attempts[a].task
  <1>1. attempts[a] \in AttemptRow /\ t \in Tasks /\ tasks[t] \in TaskRow
    BY RowType DEF AttemptRow
  <1>2. tasks[t].current = a
    BY DEF Release, Owned
  <1>3. /\ DOMAIN attempts' = DOMAIN attempts
        /\ attempts'[a].state \in {"blocked", "released"}
        /\ attempts'[a].task = t
        /\ attempts'[a].generation = attempts[a].generation
        /\ \A b \in DOMAIN attempts \ {a} : attempts'[b] = attempts[b]
    BY <1>1 DEF Release, TypeOK, AttemptRow
  <1>4. /\ tasks'[t].current = None
        /\ tasks'[t].generation = tasks[t].generation
        /\ \A u \in Tasks \ {t} : tasks'[u] = tasks[u]
    BY <1>1 DEF Release, TypeOK, TaskRow
  <1>5. \A b \in DOMAIN attempts : attempts[b].task \in Tasks
    BY RowType DEF AttemptRow
  <1> HIDE DEF t
  <1>6. CurrentOwner'
    <2>1. ASSUME NEW b \in DOMAIN attempts', attempts'[b].state = "active"
          PROVE  tasks'[attempts'[b].task].current = b
      <3>1. b \in DOMAIN attempts \ {a} /\ attempts'[b] = attempts[b]
        BY <2>1, <1>3
      <3>2. tasks[attempts[b].task].current = b
        BY <2>1, <3>1 DEF OwnerInv, CurrentOwner
      <3>3. attempts[b].task # t
        BY <3>1, <3>2, <1>2
      <3> QED BY <3>1, <3>2, <3>3, <1>4, <1>5
    <2>2. ASSUME NEW u \in Tasks, tasks'[u].current # None
          PROVE  /\ tasks'[u].current \in DOMAIN attempts'
                 /\ attempts'[tasks'[u].current].task = u
                 /\ attempts'[tasks'[u].current].state = "active"
                 /\ attempts'[tasks'[u].current].generation = tasks'[u].generation
      <3>1. u # t /\ tasks'[u] = tasks[u]
        BY <2>2, <1>4
      <3>2. /\ tasks[u].current \in DOMAIN attempts
            /\ attempts[tasks[u].current].task = u
            /\ attempts[tasks[u].current].state = "active"
            /\ attempts[tasks[u].current].generation = tasks[u].generation
        BY <2>2, <3>1 DEF OwnerInv, CurrentOwner
      <3>3. tasks[u].current # a
        BY <3>1, <3>2 DEF t
      <3> QED BY <3>1, <3>2, <3>3, <1>3
    <2>3. \A b \in DOMAIN attempts : /\ attempts'[b].task = attempts[b].task
                                     /\ attempts'[b].generation = attempts[b].generation
      BY <1>3 DEF t
    <2>4. \A u \in Tasks : tasks'[u].generation = tasks[u].generation
      BY <1>4

  <2>5. \A b \in DOMAIN attempts' :
          attempts'[b].generation <= tasks'[attempts'[b].task].generation
      BY <2>3, <2>4, <1>3, <1>5 DEF OwnerInv, CurrentOwner
    <2>6. \A b, c \in DOMAIN attempts' :
            attempts'[b].task = attempts'[c].task
              /\ attempts'[b].generation = attempts'[c].generation
            => b = c
      BY <2>3, <1>3 DEF OwnerInv, CurrentOwner
    <2> QED BY <2>1, <2>2, <2>5, <2>6 DEF CurrentOwner
  <1>7. OwnedIsOpen'
    BY <1>4 DEF OwnerInv, OwnedIsOpen, Release
  <1> QED BY <1>6, <1>7 DEF OwnerInv

\* An operation on a task nobody owns changes none of what ownership depends on.
LEMMA TaskOperationKeeps ==
  ASSUME TypeOK, TaskOperation
  PROVE  /\ \E t \in Tasks : /\ tasks[t].current = None
                             /\ tasks'[t].current = tasks[t].current
                             /\ tasks'[t].generation = tasks[t].generation
                             /\ \A u \in Tasks \ {t} : tasks'[u] = tasks[u]
         /\ attempts' = attempts
         /\ projectArchived' = projectArchived
  <1>1. ASSUME NEW t \in Tasks,
               Unblock(t) \/ Archive(t) \/ Restore(t) \/ Delete(t) \/ CompleteTaskExternally(t)
        PROVE  /\ tasks[t].current = None
               /\ tasks'[t].current = tasks[t].current
               /\ tasks'[t].generation = tasks[t].generation
               /\ \A u \in Tasks \ {t} : tasks'[u] = tasks[u]
    BY <1>1 DEF Unblock, Archive, Restore, Delete, CompleteTaskExternally, Unowned,
                TypeOK, TaskRow
  <1>2. ASSUME NEW t \in Tasks, NEW lifecycle \in {"open", "planned"}, NEW needs \in SUBSET Tasks,
               EditTask(t, lifecycle, needs)
        PROVE  /\ tasks[t].current = None
               /\ tasks'[t].current = tasks[t].current
               /\ tasks'[t].generation = tasks[t].generation
               /\ \A u \in Tasks \ {t} : tasks'[u] = tasks[u]
    BY <1>2 DEF EditTask, Unowned, TypeOK, TaskRow
  <1>3. ASSUME NEW t \in Tasks, NEW replaced \in BOOLEAN, Cancel(t, replaced)
        PROVE  /\ tasks[t].current = None
               /\ tasks'[t].current = tasks[t].current
               /\ tasks'[t].generation = tasks[t].generation
               /\ \A u \in Tasks \ {t} : tasks'[u] = tasks[u]
    BY <1>3 DEF Cancel, Unowned, TypeOK, TaskRow
  <1>4. attempts' = attempts /\ projectArchived' = projectArchived
    BY DEF TaskOperation, Unblock, Archive, Restore, Delete, CompleteTaskExternally,
           EditTask, Cancel
  <1>5. \E t \in Tasks : /\ tasks[t].current = None
                         /\ tasks'[t].current = tasks[t].current
                         /\ tasks'[t].generation = tasks[t].generation
                         /\ \A u \in Tasks \ {t} : tasks'[u] = tasks[u]
    BY <1>1, <1>2, <1>3 DEF TaskOperation
  <1> QED BY <1>4, <1>5

LEMMA TaskOperationOwner ==
  ASSUME TypeOK, OwnerInv, TaskOperation
  PROVE  OwnerInv'
  <1>1. PICK t \in Tasks :
          /\ tasks[t].current = None
          /\ tasks'[t].current = tasks[t].current
          /\ tasks'[t].generation = tasks[t].generation
          /\ \A u \in Tasks \ {t} : tasks'[u] = tasks[u]
    BY TaskOperationKeeps
  <1>2. attempts' = attempts /\ projectArchived' = projectArchived
    BY TaskOperationKeeps
  <1>3. \A u \in Tasks : /\ tasks'[u].current = tasks[u].current
                         /\ tasks'[u].generation = tasks[u].generation
    BY <1>1
  <1>4. \A b \in DOMAIN attempts : attempts[b].task \in Tasks
    BY RowType DEF AttemptRow
  <1>5. CurrentOwner'
    BY <1>2, <1>3, <1>4 DEF OwnerInv, CurrentOwner
  <1>6. OwnedIsOpen'
    BY <1>1, <1>2 DEF OwnerInv, OwnedIsOpen
  <1> QED BY <1>5, <1>6 DEF OwnerInv

LEMMA EnvironmentOwner ==
  ASSUME TypeOK, OwnerInv, EnvironmentStep
  PROVE  OwnerInv'
  <1>1. UNCHANGED <<tasks, attempts>>
    BY DEF EnvironmentStep, UpdatePolicy, ArchiveProject, RestoreProject, CloseSession,
           RevokeCredential, DecisionChanges, Tick
  <1>2. CurrentOwner'
    BY <1>1 DEF OwnerInv, CurrentOwner
  <1>3. \/ projectArchived' = projectArchived
        \/ ~projectArchived'
        \/ ArchiveProject
    BY DEF EnvironmentStep, UpdatePolicy, RestoreProject, CloseSession,
           RevokeCredential, DecisionChanges, Tick
  <1>4. OwnedIsOpen'
    <2>1. CASE ArchiveProject
      BY <1>1, <2>1 DEF ArchiveProject, OwnerInv, OwnedIsOpen
    <2>2. CASE ~ArchiveProject
      BY <1>1, <1>3, <2>2 DEF OwnerInv, OwnedIsOpen
    <2> QED BY <2>1, <2>2
  <1> QED BY <1>2, <1>4 DEF OwnerInv

\* Lease, checkpoint, recovery and job steps keep who owns what.
LEMMA OtherStepsOwner ==
  ASSUME TypeOK,
         \/ \E s \in Sessions, a \in DOMAIN attempts :
               \/ Renew(s, a)
               \/ \E rev \in Revisions \cup {None} : Checkpoint(s, a, rev)
               \/ \E fetched \in Revisions \cup {None}, attested \in BOOLEAN,
                     label \in {"service_verified", "local_attestation"} :
                    RecoveryResolution(s, a, fetched, attested, label)
               \/ \E c \in Checkouts : RegisterCheckout(s, a, c)
         \/ JobsNext
  PROVE  AttemptsKeepOwner /\ UNCHANGED <<tasks, projectArchived>>
  <1>1. ASSUME NEW s \in Sessions, NEW a \in DOMAIN attempts,
               \/ Renew(s, a)
               \/ \E rev \in Revisions \cup {None} : Checkpoint(s, a, rev)
               \/ \E fetched \in Revisions \cup {None}, attested \in BOOLEAN,
                     label \in {"service_verified", "local_attestation"} :
                    RecoveryResolution(s, a, fetched, attested, label)
               \/ \E c \in Checkouts : RegisterCheckout(s, a, c)
        PROVE  AttemptsKeepOwner /\ UNCHANGED <<tasks, projectArchived>>
    <2>1. attempts[a] \in AttemptRow
      BY RowType
    <2>2. CASE Renew(s, a)
      BY <2>1, <2>2 DEF Renew, AttemptsKeepOwner, AttemptRow, TypeOK
    <2>3. ASSUME NEW rev \in Revisions \cup {None}, Checkpoint(s, a, rev)
          PROVE  AttemptsKeepOwner /\ UNCHANGED <<tasks, projectArchived>>
      BY <2>1, <2>3 DEF Checkpoint, AttemptsKeepOwner, AttemptRow, TypeOK
    <2>4. ASSUME NEW fetched \in Revisions \cup {None}, NEW attested \in BOOLEAN,
                 NEW label \in {"service_verified", "local_attestation"},
                 RecoveryResolution(s, a, fetched, attested, label)
          PROVE  AttemptsKeepOwner /\ UNCHANGED <<tasks, projectArchived>>
      BY <2>1, <2>4 DEF RecoveryResolution, AttemptsKeepOwner, AttemptRow, TypeOK
    <2>5. ASSUME NEW c \in Checkouts, RegisterCheckout(s, a, c)
          PROVE  AttemptsKeepOwner /\ UNCHANGED <<tasks, projectArchived>>
      BY <2>1, <2>5 DEF RegisterCheckout, AttemptsKeepOwner, AttemptRow, TypeOK
    <2> QED BY <1>1, <2>2, <2>3, <2>4, <2>5
  <1>2. ASSUME NEW j \in DOMAIN jobs, ReporterRenew(j)
        PROVE  AttemptsKeepOwner /\ UNCHANGED <<tasks, projectArchived>>
    <2>1. jobs[j].attempt \in DOMAIN attempts
      BY DEF TypeOK
    <2>2. attempts[jobs[j].attempt] \in AttemptRow
      BY <2>1, RowType
    <2>3. PICK e : attempts' = [attempts EXCEPT ![jobs[j].attempt].expires = e]
      BY <1>2 DEF ReporterRenew
    <2>4. AttemptsKeepOwner
      BY <2>1, <2>2, <2>3 DEF AttemptsKeepOwner, AttemptRow, TypeOK
    <2> QED BY <1>2, <2>4 DEF ReporterRenew, coordinationVars
  <1>3. CASE JobsNext /\ ~(\E j \in DOMAIN jobs : ReporterRenew(j))
    <2>1. attempts' = attempts /\ UNCHANGED <<tasks, projectArchived>>
      BY <1>3 DEF JobsNext, CreateResource, UpdateResource, DeleteResource, CreateReservation,
         ReleaseReservation, ResolveReservation, RegisterJob, Observe, coordinationVars
    <2> QED BY <2>1 DEF AttemptsKeepOwner
  <1> QED BY <1>1, <1>2, <1>3

LEMMA NextOwner == TypeOK /\ OwnerInv /\ [Next]_vars => OwnerInv'
  <1> SUFFICES ASSUME TypeOK, OwnerInv, [Next]_vars PROVE OwnerInv'
    OBVIOUS
  <1>1. CASE CoordinationNext
    <2>1. CASE TaskOperation \/ EnvironmentStep
      BY <2>1, TaskOperationOwner, EnvironmentOwner
    <2>2. CASE ~(TaskOperation \/ EnvironmentStep)
      BY <1>1, <2>2, ClaimOwner, ReleaseOwner, OtherStepsOwner, OwnerFrame
         DEF CoordinationNext, TaskOperation, EnvironmentStep
    <2> QED BY <2>1, <2>2
  <1>2. CASE JobsNext
    BY <1>2, OtherStepsOwner, OwnerFrame
  <1>3. CASE UNCHANGED vars
    BY <1>3 DEF vars, OwnerInv, CurrentOwner, OwnedIsOpen
  <1> QED BY <1>1, <1>2, <1>3 DEF Next

LEMMA InitOwner == Init => OwnerInv
  BY DEF Init, OwnerInv, CurrentOwner, OwnedIsOpen

\* "Two current owners are impossible": in every reachable state the attempt a
\* task names is its only active one and carries its latest generation.
THEOREM OneOwner == Spec => []CurrentOwner
  <1>1. OwnerInv => CurrentOwner
    BY DEF OwnerInv
  <1> QED BY <1>1, InitOwner, NextOwner, TypeCorrect, PTL DEF Spec

\* "An archived project never has a live owner", and no owned task is canceled,
\* deleted, archived or completed by somebody else.
THEOREM OwnersWorkOnOpenTasks == Spec => []OwnedIsOpen
  <1>1. OwnerInv => OwnedIsOpen
    BY DEF OwnerInv
  <1> QED BY <1>1, InitOwner, NextOwner, TypeCorrect, PTL DEF Spec

\* Who owns what, in every reachable state: the tables are well formed, a task has one
\* owner, and an owned task is open.
THEOREM OwnershipIsSound == Spec => []OwnershipSound
  <1>1. TypeOK /\ CurrentOwner /\ OwnedIsOpen => OwnershipSound
    BY DEF OwnershipSound
  <1> QED BY <1>1, TypeCorrect, OneOwner, OwnersWorkOnOpenTasks, PTL

---------------------------------------------------------------------------
(* Leases.                                                                  *)

\* What every step guarantees about an existing attempt: its identity is kept,
\* it never becomes active again, and only a live attempt's deadline is written,
\* within the limit.
LeaseStep(a) ==
  /\ a \in DOMAIN attempts'
  /\ attempts'[a].session = attempts[a].session
  /\ attempts'[a].created = attempts[a].created
  /\ attempts'[a].state = "active" => attempts[a].state = "active"
  /\ attempts'[a].expires # attempts[a].expires =>
       /\ LiveAttempt(a)
       /\ WithinLimit(attempts'[a].expires, attempts[a].created)

LEMMA ClaimLease ==
  ASSUME TypeOK, NEW s \in Sessions, NEW t \in Tasks, NEW b \in AttemptIds,
         NEW mode \in {"work", "recovery"}, Claim(s, t, b, mode), NEW a \in DOMAIN attempts
  PROVE  LeaseStep(a)
  <1>1. a # b /\ attempts[a] \in AttemptRow
    BY RowType DEF Claim
  <1>2. a \in DOMAIN attempts' /\ attempts'[a] = Superseded(t)[a]
    BY <1>1 DEF Claim, Insert, Superseded
  <1> QED BY <1>1, <1>2 DEF Superseded, LeaseStep, AttemptRow

LEMMA RenewLease ==
  ASSUME TypeOK, NEW s \in Sessions, NEW b \in DOMAIN attempts, Renew(s, b),
         NEW a \in DOMAIN attempts
  PROVE  LeaseStep(a)
  <1>1. attempts[b] \in AttemptRow
    BY RowType
  <1> DEFINE e == Capped(now + policy.lease, attempts[b].created)
  <1>2. WithinLimit(e, attempts[b].created)
    <2>1. now + policy.lease \in Int /\ attempts[b].created \in Nat
      BY <1>1 DEF TypeOK, AttemptRow
    <2> QED BY <2>1, CappedType
  <1>3. LiveAttempt(b)
    BY DEF Renew, Owned
  <1>4. attempts' = [attempts EXCEPT ![b].expires = e]
    BY DEF Renew
  <1> HIDE DEF e
  <1> QED BY <1>1, <1>2, <1>3, <1>4 DEF LeaseStep, AttemptRow, TypeOK

LEMMA ReporterRenewLease ==
  ASSUME TypeOK, NEW j \in DOMAIN jobs, ReporterRenew(j), NEW a \in DOMAIN attempts
  PROVE  LeaseStep(a)
  <1> DEFINE b == jobs[j].attempt
             extension == Min({now + policy.lease, RenewUntil(j)})
             cap == Capped(extension, attempts[b].created)
             e == Max({attempts[b].expires, cap})
  <1>1. b \in DOMAIN attempts /\ attempts[b] \in AttemptRow
    BY RowType DEF TypeOK
  <1>2. extension \in Int
    <2>1. now + policy.lease \in Int
      BY DEF TypeOK
    <2>2. jobs[j].created \in Nat /\ jobs[j].window \in Nat
      <3>1. jobs[j] \in JobRow
        BY RowType
      <3>2. jobs[j].window \in RenewWindows
        BY <3>1 DEF JobRow
      <3> QED BY <3>1, <3>2 DEF JobRow
    <2>3. RenewUntil(j) \in Int
      BY <2>2 DEF RenewUntil
    <2> QED BY <2>1, <2>3, PairMin
  <1>3. cap \in Int /\ WithinLimit(cap, attempts[b].created) /\ attempts[b].expires \in Int
    BY <1>1, <1>2, CappedType DEF AttemptRow
  <1>4. e = attempts[b].expires \/ e = cap
    <2> HIDE DEF cap, b
    <2> QED BY <1>3, PairMax
  <1>5. LiveAttempt(b)
    BY DEF ReporterRenew, ReporterCanRenew, Owned
  <1>6. attempts' = [attempts EXCEPT ![b].expires = e]
    BY <1>1 DEF ReporterRenew
  <1> HIDE DEF e, cap, extension, b
  <1> QED BY <1>1, <1>3, <1>4, <1>5, <1>6 DEF LeaseStep, AttemptRow, TypeOK

LEMMA WriteLease ==
  ASSUME TypeOK, NEW s \in Sessions, NEW b \in DOMAIN attempts, NEW a \in DOMAIN attempts,
         \/ \E rev \in Revisions \cup {None} : Checkpoint(s, b, rev)
         \/ \E blocked \in BOOLEAN : Release(s, b, blocked)
         \/ \E fetched \in Revisions \cup {None}, attested \in BOOLEAN,
              label \in {"service_verified", "local_attestation"} :
              RecoveryResolution(s, b, fetched, attested, label)
         \/ \E c \in Checkouts : RegisterCheckout(s, b, c)
  PROVE  LeaseStep(a)
  <1>0. attempts[b] \in AttemptRow
    BY RowType
  <1>1. ASSUME NEW rev \in Revisions \cup {None}, Checkpoint(s, b, rev)
        PROVE  LeaseStep(a)
    BY <1>0, <1>1 DEF Checkpoint, LeaseStep, AttemptRow, TypeOK
  <1>2. ASSUME NEW blocked \in BOOLEAN, Release(s, b, blocked)
        PROVE  LeaseStep(a)
    BY <1>0, <1>2 DEF Release, LeaseStep, AttemptRow, TypeOK
  <1>3. ASSUME NEW fetched \in Revisions \cup {None}, NEW attested \in BOOLEAN,
               NEW label \in {"service_verified", "local_attestation"},
               RecoveryResolution(s, b, fetched, attested, label)
        PROVE  LeaseStep(a)
    BY <1>0, <1>3 DEF RecoveryResolution, LeaseStep, AttemptRow, TypeOK
  <1>4. ASSUME NEW c \in Checkouts, RegisterCheckout(s, b, c)
        PROVE  LeaseStep(a)
    BY <1>0, <1>4 DEF RegisterCheckout, LeaseStep, AttemptRow, TypeOK
  <1> QED BY <1>1, <1>2, <1>3, <1>4

LEMMA NextLease ==
  ASSUME TypeOK, [Next]_vars, NEW a \in DOMAIN attempts
  PROVE  LeaseStep(a)
  <1>1. ASSUME attempts' = attempts PROVE LeaseStep(a)
    BY <1>1 DEF LeaseStep
  <1>2. CASE CoordinationNext
    <2>1. CASE TaskOperation
      BY <2>1, <1>1 DEF TaskOperation, Unblock, Archive, Restore, Delete,
         CompleteTaskExternally, EditTask, Cancel
    <2>2. CASE EnvironmentStep
      BY <2>2, <1>1 DEF EnvironmentStep, UpdatePolicy, ArchiveProject, RestoreProject,
         CloseSession, RevokeCredential, DecisionChanges, Tick
    <2>3. CASE ~TaskOperation /\ ~EnvironmentStep
      BY <1>2, <2>3, ClaimLease, RenewLease, WriteLease
         DEF CoordinationNext, TaskOperation, EnvironmentStep
    <2> QED BY <2>1, <2>2, <2>3
  <1>3. CASE JobsNext
    <2>1. CASE \E j \in DOMAIN jobs : ReporterRenew(j)
      BY <2>1, ReporterRenewLease
    <2>2. CASE ~(\E j \in DOMAIN jobs : ReporterRenew(j))
      BY <1>1, <1>3, <2>2 DEF JobsNext, CreateResource, UpdateResource, DeleteResource,
         CreateReservation, ReleaseReservation, ResolveReservation, RegisterJob, Observe,
         coordinationVars
    <2> QED BY <2>1, <2>2
  <1>4. CASE UNCHANGED vars
    BY <1>1, <1>4 DEF vars
  <1> QED BY <1>2, <1>3, <1>4 DEF Next

\* Time does not run backwards and a closed session is never reopened.
LEMMA NextClock ==
  ASSUME TypeOK, [Next]_vars
  PROVE  now' >= now /\ \A s \in Sessions : sessions'[s] = "open" => sessions[s] = "open"
  <1>1. CASE UNCHANGED <<now, sessions>>
    BY <1>1 DEF TypeOK
  <1>2. CASE Tick
    BY <1>2 DEF Tick, TypeOK
  <1>3. CASE \E s \in Sessions : CloseSession(s)
    BY <1>3 DEF CloseSession, TypeOK
  <1>4. CASE \E c \in Credentials : RevokeCredential(c)
    BY <1>4 DEF RevokeCredential, TypeOK
  <1>5. CASE CoordinationNext /\ ~Tick /\ ~(\E s \in Sessions : CloseSession(s))
             /\ ~(\E c \in Credentials : RevokeCredential(c))
    BY ZenonT(60), <1>1, <1>5 DEF CoordinationNext, Claim, Renew, Checkpoint, Release, RecoveryResolution,
       RegisterCheckout, Unblock, Archive, Restore, Delete, CompleteTaskExternally, EditTask,
       Cancel, UpdatePolicy, ArchiveProject, RestoreProject, DecisionChanges
  <1>6. CASE JobsNext
    BY <1>1, <1>6 DEF JobsNext, CreateResource, UpdateResource, DeleteResource,
       CreateReservation, ReleaseReservation, ResolveReservation, RegisterJob, Observe,
       ReporterRenew, coordinationVars
  <1>7. CASE UNCHANGED vars
    BY <1>1, <1>7 DEF vars
  <1> QED BY <1>2, <1>3, <1>4, <1>5, <1>6, <1>7 DEF Next

LEMMA DeadStaysDead ==
  ASSUME TypeOK, TypeOK', [Next]_vars, NEW a \in DOMAIN attempts, ~LiveAttempt(a)
  PROVE  ~LiveAttempt(a)'
  <1>1. attempts[a] \in AttemptRow /\ a \in DOMAIN attempts'
    BY RowType, NextLease DEF LeaseStep
  <1>2. attempts'[a] \in AttemptRow
    BY <1>1 DEF TypeOK
  <1>3. attempts[a].expires \in Int /\ attempts[a].session \in Sessions /\ now \in Nat
          /\ now' \in Nat
    BY <1>1 DEF AttemptRow, TypeOK
  <1> QED BY <1>3, NextLease, NextClock DEF LeaseStep, LiveAttempt, SessionOpen

\* Authority never returns: no step of the owner, of a producer's reporter, of an
\* operator or of the clock makes a dead attempt live again.
THEOREM NoResurrection == Spec => AuthorityNeverReturns
  <1>1. TypeOK /\ TypeOK' /\ [Next]_vars
        => [\A a \in DOMAIN attempts : ~LiveAttempt(a) => ~LiveAttempt(a)']_vars
    BY DeadStaysDead
  <1> QED BY <1>1, TypeCorrect, PTL DEF Spec, AuthorityNeverReturns

LEMMA DeadlineWritten ==
  ASSUME TypeOK, [Next]_vars, NEW a \in DOMAIN attempts',
         IF a \in DOMAIN attempts THEN attempts'[a].expires # attempts[a].expires ELSE TRUE
  PROVE  WithinLimit(attempts'[a].expires, attempts'[a].created)
  <1>1. CASE a \in DOMAIN attempts
    BY <1>1, NextLease DEF LeaseStep
  <1>2. CASE a \notin DOMAIN attempts
    <2>1. PICK s \in Sessions, t \in Tasks, b \in AttemptIds, mode \in {"work", "recovery"} :
            Claim(s, t, b, mode)
      <3>1. ASSUME TaskOperation PROVE attempts' = attempts
        BY <3>1, TaskOperationKeeps
      <3>2. ASSUME EnvironmentStep PROVE attempts' = attempts
        BY <3>2 DEF EnvironmentStep, UpdatePolicy, ArchiveProject, RestoreProject,
           CloseSession, RevokeCredential, DecisionChanges, Tick
      <3>3. ASSUME NEW s \in Sessions, NEW b \in DOMAIN attempts, NEW blocked \in BOOLEAN,
                   Release(s, b, blocked)
            PROVE  DOMAIN attempts' = DOMAIN attempts
        BY <3>3 DEF Release, TypeOK
      <3> QED BY <1>2, <3>1, <3>2, <3>3, OtherStepsOwner
          DEF Next, CoordinationNext, TaskOperation, EnvironmentStep, AttemptsKeepOwner, vars
    <2>2. a = b /\ attempts'[a] = NewAttempt(s, t, mode)
      BY <1>2, <2>1 DEF Claim, Insert, Superseded
    <2>3. now + policy.lease \in Int /\ now \in Nat
      BY DEF TypeOK
    <2>4. WithinLimit(Capped(now + policy.lease, now), now)
      BY <2>3, CappedType
    <2>5. /\ attempts'[a].expires = Capped(now + policy.lease, now)
          /\ attempts'[a].created = now
      BY <2>2 DEF NewAttempt
    <2> QED BY <2>4, <2>5
  <1> QED BY <1>1, <1>2

\* Every deadline a claim, a renewal or a reporter's renewal writes respects the
\* project's max_attempt_seconds.
THEOREM LeasesAreCapped == Spec => LeaseCapped
  <1>1. TypeOK /\ [Next]_vars
        => [\A a \in DOMAIN attempts' :
              (IF a \in DOMAIN attempts THEN attempts'[a].expires # attempts[a].expires ELSE TRUE)
              => WithinLimit(attempts'[a].expires, attempts'[a].created)]_vars
    BY DeadlineWritten
  <1> QED BY <1>1, TypeCorrect, PTL DEF Spec, LeaseCapped

---------------------------------------------------------------------------
(* Refinement.                                                              *)

\* A claim grants a task nobody holds, and the new attempt is live at once.
LEMMA ClaimGrants ==
  ASSUME TypeOK, OwnerInv, NEW s \in Sessions, NEW t \in Tasks, NEW a \in AttemptIds,
         NEW mode \in {"work", "recovery"}, Claim(s, t, a, mode)
  PROVE  Contract!Grant(t, a)
  <1>1. \A u \in Tasks : tasks[u] \in TaskRow
    BY RowType
  <1>2. Holder(t) = None
    <2>1. Status(t) \in {"ready", "recovery_required"}
      BY DEF Claim, MayClaim
    <2>2. tasks[t].lifecycle \in {"planned", "open", "done", "canceled"}
      BY <1>1 DEF TaskRow, Lifecycles
    <2> QED BY <2>1, <2>2 DEF Status, Holder
  <1>3. a \notin DOMAIN attempts /\ a # None
    BY DEF Claim
  <1>4. /\ DOMAIN attempts' = DOMAIN attempts \cup {a}
        /\ attempts'[a] = NewAttempt(s, t, mode)
        /\ \A b \in DOMAIN attempts : b # tasks[t].current => attempts'[b] = attempts[b]
    BY <1>3 DEF Claim, Insert, Superseded
  <1>5. /\ tasks'[t].current = a
        /\ tasks' = [tasks EXCEPT ![t] = tasks'[t]]
        /\ tasks'[t].generation = tasks[t].generation + 1
        /\ \A u \in Tasks \ {t} : tasks'[u] = tasks[u]
    BY DEF Claim, TypeOK, TaskRow
  <1>6. Holder(t)' = a
    <2>1. Capped(now + policy.lease, now) > now
      <3>1. /\ now \in Nat /\ policy.lease \in Nat \ {0} /\ policy.maxAttempt \in Nat
        BY DEF TypeOK
      <3> QED BY <3>1 DEF Capped, WithinLimit
    <2>2. /\ attempts'[a].state = "active" /\ attempts'[a].session = s
          /\ attempts'[a].expires = Capped(now + policy.lease, now)
      BY <1>4 DEF NewAttempt
    <2>3. now' = now /\ sessions' = sessions /\ sessions[s] = "open"
      BY DEF Claim, MayClaim, SessionOpen
    <2> QED BY <1>3, <1>5, <2>1, <2>2, <2>3 DEF Holder, LiveAttempt, SessionOpen
  <1>7. ASSUME NEW u \in Tasks \ {t} PROVE Holder(u)' = Holder(u)
    <2>1. tasks'[u] = tasks[u] /\ now' = now /\ sessions' = sessions
      BY <1>5 DEF Claim
    <2>2. CASE tasks[u].current = None
      BY <2>1, <2>2 DEF Holder
    <2>3. CASE tasks[u].current # None
      <3>1. /\ tasks[u].current \in DOMAIN attempts
            /\ attempts[tasks[u].current].task = u
            /\ tasks[t].current # None => attempts[tasks[t].current].task = t
        BY <2>3 DEF OwnerInv, CurrentOwner
      <3>2. attempts'[tasks[u].current] = attempts[tasks[u].current]
        BY <1>4, <2>3, <3>1
      <3> QED BY <2>1, <2>3, <3>2 DEF Holder, LiveAttempt, SessionOpen
    <2> QED BY <2>2, <2>3
  <1>8. [u \in Tasks |-> Holder(u)]' = [[u \in Tasks |-> Holder(u)] EXCEPT ![t] = a]
    BY <1>6, <1>7
  <1>9. [u \in Tasks |-> tasks[u].generation]'
        = [[u \in Tasks |-> tasks[u].generation] EXCEPT ![t] = @ + 1]
    BY <1>5
  <1> QED BY <1>2, <1>3, <1>4, <1>8, <1>9 DEF Contract!Grant

\* Any other step keeps every task's attempt or takes it away.
LEMMA OtherStepsKeepOrEnd ==
  ASSUME TypeOK, [Next]_vars,
         ~\E s \in Sessions, t \in Tasks, a \in AttemptIds, mode \in {"work", "recovery"} :
            Claim(s, t, a, mode)
  PROVE  /\ DOMAIN attempts' = DOMAIN attempts
         /\ \A t \in Tasks : /\ tasks'[t].current \in {tasks[t].current, None}
                             /\ tasks'[t].generation = tasks[t].generation
  <1> DEFINE P == /\ DOMAIN attempts' = DOMAIN attempts
                  /\ \A t \in Tasks : /\ tasks'[t].current \in {tasks[t].current, None}
                                      /\ tasks'[t].generation = tasks[t].generation
  <1>1. ASSUME TaskOperation PROVE P
    BY <1>1, TaskOperationKeeps
  <1>2. ASSUME EnvironmentStep PROVE P
    BY <1>2 DEF EnvironmentStep, UpdatePolicy, ArchiveProject, RestoreProject,
       CloseSession, RevokeCredential, DecisionChanges, Tick
  <1>3. ASSUME NEW s \in Sessions, NEW b \in DOMAIN attempts, NEW blocked \in BOOLEAN,
               Release(s, b, blocked)
        PROVE  P
    <2>1. attempts[b] \in AttemptRow /\ attempts[b].task \in Tasks
      BY RowType DEF AttemptRow
    <2>2. DOMAIN attempts' = DOMAIN attempts
      BY <1>3 DEF Release, TypeOK
    <2>3. \A t \in Tasks : /\ tasks'[t].current \in {tasks[t].current, None}
                           /\ tasks'[t].generation = tasks[t].generation
      BY <1>3, <2>1 DEF Release, TypeOK, TaskRow
    <2> QED BY <2>2, <2>3
  <1>4. ASSUME UNCHANGED vars PROVE P
    BY <1>4 DEF vars
  <1>5. ASSUME AttemptsKeepOwner, UNCHANGED <<tasks, projectArchived>> PROVE P
    BY <1>5 DEF AttemptsKeepOwner
  <1> HIDE DEF P
  <1>6. P
    BY <1>1, <1>2, <1>3, <1>4, <1>5, OtherStepsOwner
       DEF Next, CoordinationNext, TaskOperation, EnvironmentStep
  <1> QED BY <1>6 DEF P

\* Every step of the service is a step of the contract or changes nothing in it.
LEMMA NextRefines ==
  ASSUME TypeOK, TypeOK', OwnerInv, OwnerInv', [Next]_vars
  PROVE  [Contract!OwnershipNext]_(Contract!ownershipVars)
  <1>1. CASE \E s \in Sessions, t \in Tasks, a \in AttemptIds, mode \in {"work", "recovery"} :
               Claim(s, t, a, mode)
    BY <1>1, ClaimGrants DEF Contract!OwnershipNext
  <1>2. CASE ~\E s \in Sessions, t \in Tasks, a \in AttemptIds, mode \in {"work", "recovery"} :
               Claim(s, t, a, mode)
    <2>1. /\ DOMAIN attempts' = DOMAIN attempts
          /\ [t \in Tasks |-> tasks[t].generation]' = [t \in Tasks |-> tasks[t].generation]
          /\ \A t \in Tasks : tasks'[t].current \in {tasks[t].current, None}
      BY <1>2, OtherStepsKeepOrEnd
    <2>2. ASSUME NEW t \in Tasks PROVE Holder(t)' \in {Holder(t), None}
      <3>1. tasks[t].current # None => tasks[t].current \in DOMAIN attempts
        BY DEF OwnerInv, CurrentOwner
      <3>2. \A a \in DOMAIN attempts : ~LiveAttempt(a) => ~LiveAttempt(a)'
        BY DeadStaysDead
      <3> QED BY <2>1, <3>1, <3>2 DEF Holder
    <2> DEFINE T == {t \in Tasks : Holder(t) # None /\ Holder(t)' = None}
    <2>3. [t \in Tasks |-> Holder(t)]' = [t \in Tasks |-> IF t \in T THEN None ELSE Holder(t)]
      BY <2>2
    <2>4. CASE T = {}
      BY <2>1, <2>3, <2>4 DEF Contract!ownershipVars
    <2>5. CASE T # {}
      <3>1. Contract!Lapse(T)
        BY <2>1, <2>3, <2>5 DEF Contract!Lapse
      <3> QED BY <3>1 DEF Contract!OwnershipNext
    <2> QED BY <2>4, <2>5
  <1> QED BY <1>1, <1>2

LEMMA InitRefines == Init => Contract!OwnershipInit
  BY DEF Init, Contract!OwnershipInit, Holder

\* The service implements the ownership contract: every task has at most one
\* holder, granted with a fresh, greater token, and a lapsed holder is gone.
THEOREM ServiceImplementsOwnership == Spec => ImplementsOwnership
  <1>1. Spec => []OwnerInv
    BY InitOwner, NextOwner, TypeCorrect, PTL DEF Spec
  <1> QED BY <1>1, InitRefines, NextRefines, TypeCorrect, PTL
          DEF Spec, ImplementsOwnership, Contract!OwnershipSpec

---------------------------------------------------------------------------
(* Evidence.                                                                *)

Claimable(t) ==
  /\ tasks[t].current = None
  /\ tasks[t].blocked = FALSE
  /\ tasks[t].lifecycle \in {"open", "planned"}

Settled == \A t \in Tasks : Claimable(t) => Quiescent(t)

EvidenceInv == ProducerReserved /\ Settled /\ WorkOwnsEvidence

\* The only attempt that may add evidence to its task.
LiveWorker(a) ==
  /\ a \in DOMAIN attempts
  /\ LiveAttempt(a)
  /\ tasks[attempts[a].task].current = a
  /\ attempts[a].mode = "work"

\* What every step guarantees: evidence is old, or a live worker's.
EvidenceStep ==
  /\ DOMAIN attempts \subseteq DOMAIN attempts'
  /\ \A a \in DOMAIN attempts : attempts'[a].task = attempts[a].task
  /\ \A v \in DOMAIN reservations' : reservations'[v].state = "held" =>
       \/ /\ v \in DOMAIN reservations
          /\ reservations[v].state = "held"
          /\ reservations'[v].attempt = reservations[v].attempt
       \/ LiveWorker(reservations'[v].attempt)
  /\ \A j \in DOMAIN jobs' : Unresolved(j)' =>
       \/ /\ j \in DOMAIN jobs
          /\ Unresolved(j)
          /\ jobs'[j].attempt = jobs[j].attempt
       \/ LiveWorker(jobs'[j].attempt)

\* A task becomes claimable, or its current attempt a worker, only when the
\* task is quiescent and the step leaves the evidence alone.
TaskStep ==
  \A t \in Tasks :
    /\ Claimable(t)' => Claimable(t) \/ (Quiescent(t) /\ UNCHANGED jobVars)
    /\ tasks'[t].current # None /\ attempts'[tasks'[t].current].mode = "work" =>
         \/ /\ tasks'[t].current = tasks[t].current
            /\ attempts[tasks[t].current].mode = "work"
         \/ Quiescent(t) /\ UNCHANGED jobVars

LEMMA ReferencesType ==
  ASSUME TypeOK
  PROVE  /\ \A v \in DOMAIN reservations : /\ reservations[v].attempt \in DOMAIN attempts
                                           /\ TaskOfReservation(v) \in Tasks
         /\ \A j \in DOMAIN jobs : /\ jobs[j].attempt \in DOMAIN attempts
                                   /\ jobs[j].reservation \in DOMAIN reservations
                                   /\ TaskOfJob(j) \in Tasks
  BY RowType DEF TypeOK, TaskOfReservation, TaskOfJob, AttemptRow

LEMMA QuiescentKept ==
  ASSUME TypeOK, TypeOK', EvidenceStep, NEW t \in Tasks, Quiescent(t),
         (UNCHANGED jobVars) \/ ~\E a \in DOMAIN attempts : LiveWorker(a) /\ attempts[a].task = t
  PROVE  Quiescent(t)'
  <1>1. CASE UNCHANGED jobVars
    <2>1. \A v \in DOMAIN reservations : TaskOfReservation(v)' = TaskOfReservation(v)
      BY <1>1, ReferencesType DEF jobVars, TaskOfReservation, EvidenceStep
    <2>2. \A j \in DOMAIN jobs : /\ TaskOfJob(j)' = TaskOfJob(j)
                                 /\ Unresolved(j)' = Unresolved(j)
      BY <1>1, ReferencesType DEF jobVars, TaskOfJob, Unresolved, EvidenceStep
    <2> QED BY <1>1, <2>1, <2>2 DEF jobVars, Quiescent
  <1>2. CASE ~\E a \in DOMAIN attempts : LiveWorker(a) /\ attempts[a].task = t
    <2>1. ASSUME NEW v \in DOMAIN reservations', TaskOfReservation(v)' = t,
                 reservations'[v].state = "held"
          PROVE  FALSE
      <3>1. CASE LiveWorker(reservations'[v].attempt)
        <4>1. attempts[reservations'[v].attempt].task = t
          BY <2>1, <3>1 DEF TaskOfReservation, EvidenceStep, LiveWorker
        <4> QED BY <1>2, <3>1, <4>1 DEF LiveWorker
      <3>2. CASE /\ v \in DOMAIN reservations
                 /\ reservations[v].state = "held"
                 /\ reservations'[v].attempt = reservations[v].attempt
        <4>1. TaskOfReservation(v) = t
          BY <2>1, <3>2, ReferencesType DEF TaskOfReservation, EvidenceStep
        <4> QED BY <3>2, <4>1 DEF Quiescent
      <3> QED BY <2>1, <3>1, <3>2 DEF EvidenceStep
    <2>2. ASSUME NEW j \in DOMAIN jobs', TaskOfJob(j)' = t, Unresolved(j)'
          PROVE  FALSE
      <3>1. CASE LiveWorker(jobs'[j].attempt)
        <4>1. attempts[jobs'[j].attempt].task = t
          BY <2>2, <3>1 DEF TaskOfJob, EvidenceStep, LiveWorker
        <4> QED BY <1>2, <3>1, <4>1 DEF LiveWorker
      <3>2. CASE /\ j \in DOMAIN jobs
                 /\ Unresolved(j)
                 /\ jobs'[j].attempt = jobs[j].attempt
        <4>1. TaskOfJob(j) = t
          BY <2>2, <3>2, ReferencesType DEF TaskOfJob, EvidenceStep
        <4> QED BY <3>2, <4>1 DEF Quiescent
      <3> QED BY <2>2, <3>1, <3>2 DEF EvidenceStep
    <2> QED BY <2>1, <2>2 DEF Quiescent
  <1> QED BY <1>1, <1>2

LEMMA SettledKept ==
  ASSUME TypeOK, TypeOK', EvidenceStep, TaskStep, OwnerInv, Settled
  PROVE  Settled'
  <1> SUFFICES ASSUME NEW t \in Tasks, Claimable(t)' PROVE Quiescent(t)'
    BY DEF Settled
  <1>1. CASE Quiescent(t) /\ UNCHANGED jobVars
    BY <1>1, QuiescentKept
  <1>2. CASE Claimable(t)
    <2>1. ~\E a \in DOMAIN attempts : LiveWorker(a) /\ attempts[a].task = t
      BY <1>2, NullAssumption DEF LiveWorker, Claimable, TypeOK
    <2> QED BY <1>2, <2>1, QuiescentKept DEF Settled
  <1> QED BY <1>1, <1>2 DEF TaskStep

LEMMA WorkOwnsKept ==
  ASSUME TypeOK, TypeOK', EvidenceStep, TaskStep, WorkOwnsEvidence
  PROVE  WorkOwnsEvidence'
  <1> SUFFICES ASSUME NEW t \in Tasks, tasks'[t].current # None,
                      attempts'[tasks'[t].current].mode = "work"
               PROVE  /\ \A v \in DOMAIN reservations' :
                           reservations'[v].state = "held" /\ TaskOfReservation(v)' = t
                           => reservations'[v].attempt = tasks'[t].current
                      /\ \A j \in DOMAIN jobs' :
                           Unresolved(j)' /\ TaskOfJob(j)' = t
                           => jobs'[j].attempt = tasks'[t].current
    BY DEF WorkOwnsEvidence
  <1>1. CASE Quiescent(t) /\ UNCHANGED jobVars
    <2>1. Quiescent(t)'
      BY <1>1, QuiescentKept
    <2> QED BY <2>1 DEF Quiescent
  <1>2. CASE /\ tasks'[t].current = tasks[t].current
             /\ attempts[tasks[t].current].mode = "work"
    <2>1. ASSUME NEW v \in DOMAIN reservations', reservations'[v].state = "held",
                 TaskOfReservation(v)' = t
          PROVE  reservations'[v].attempt = tasks[t].current
      <3>1. CASE LiveWorker(reservations'[v].attempt)
        BY <2>1, <3>1 DEF TaskOfReservation, EvidenceStep, LiveWorker
      <3>2. CASE /\ v \in DOMAIN reservations
                 /\ reservations[v].state = "held"
                 /\ reservations'[v].attempt = reservations[v].attempt
        <4>1. TaskOfReservation(v) = t
          BY <2>1, <3>2, ReferencesType DEF TaskOfReservation, EvidenceStep
        <4> QED BY <1>2, <3>2, <4>1 DEF WorkOwnsEvidence
      <3> QED BY <2>1, <3>1, <3>2 DEF EvidenceStep
    <2>2. ASSUME NEW j \in DOMAIN jobs', Unresolved(j)', TaskOfJob(j)' = t
          PROVE  jobs'[j].attempt = tasks[t].current
      <3>1. CASE LiveWorker(jobs'[j].attempt)
        BY <2>2, <3>1 DEF TaskOfJob, EvidenceStep, LiveWorker
      <3>2. CASE /\ j \in DOMAIN jobs
                 /\ Unresolved(j)
                 /\ jobs'[j].attempt = jobs[j].attempt
        <4>1. TaskOfJob(j) = t
          BY <2>2, <3>2, ReferencesType DEF TaskOfJob, EvidenceStep
        <4> QED BY <1>2, <3>2, <4>1 DEF WorkOwnsEvidence
      <3> QED BY <2>2, <3>1, <3>2 DEF EvidenceStep
    <2> QED BY <1>2, <2>1, <2>2
  <1> QED BY <1>1, <1>2 DEF TaskStep

---------------------------------------------------------------------------
(* The steps of coordination.rs leave the evidence alone.                   *)

LEMMA EvidenceFrame ==
  ASSUME TypeOK, UNCHANGED jobVars, DOMAIN attempts \subseteq DOMAIN attempts',
         \A a \in DOMAIN attempts : attempts'[a].task = attempts[a].task
  PROVE  EvidenceStep /\ (ProducerReserved => ProducerReserved')
  BY DEF EvidenceStep, ProducerReserved, jobVars, Unresolved

LEMMA ClaimEvidence ==
  ASSUME TypeOK, OwnerInv, Settled, NEW s \in Sessions, NEW t \in Tasks, NEW a \in AttemptIds,
         NEW mode \in {"work", "recovery"}, Claim(s, t, a, mode)
  PROVE  EvidenceStep /\ TaskStep /\ (ProducerReserved => ProducerReserved')
  <1>1. a \notin DOMAIN attempts /\ a # None /\ UNCHANGED jobVars
    BY DEF Claim
  <1>2. /\ DOMAIN attempts' = DOMAIN attempts \cup {a}
        /\ attempts'[a].mode = mode
        /\ \A b \in DOMAIN attempts :
             attempts'[b] = IF b = tasks[t].current /\ attempts[b].state = "active"
                            THEN [attempts[b] EXCEPT !.state = "expired"]
                            ELSE attempts[b]
    BY <1>1 DEF Claim, Insert, Superseded, NewAttempt
  <1>3. \A b \in DOMAIN attempts : /\ attempts'[b].task = attempts[b].task
                                   /\ attempts'[b].mode = attempts[b].mode
    BY <1>2, RowType DEF AttemptRow
  <1>4. /\ tasks'[t].current = a
        /\ \A u \in Tasks \ {t} : tasks'[u] = tasks[u]
    BY DEF Claim, TypeOK, TaskRow
  <1>5. mode = "work" => Claimable(t)
    <2>1. tasks[t] \in TaskRow
      BY RowType
    <2>2. mode = "work" => Status(t) = "ready"
      BY DEF Claim, MayClaim
    <2>3. Status(t) = "ready" => tasks[t].lifecycle = "open" /\ tasks[t].current = None
                                 /\ tasks[t].blocked = FALSE
      BY <2>1 DEF Status, TaskRow, Lifecycles
    <2> QED BY <2>2, <2>3 DEF Claimable
  <1>6. TaskStep
    <2> SUFFICES ASSUME NEW u \in Tasks
                 PROVE  /\ Claimable(u)' => Claimable(u) \/ (Quiescent(u) /\ UNCHANGED jobVars)
                        /\ tasks'[u].current # None /\ attempts'[tasks'[u].current].mode = "work" =>
                             \/ /\ tasks'[u].current = tasks[u].current
                                /\ attempts[tasks[u].current].mode = "work"
                             \/ Quiescent(u) /\ UNCHANGED jobVars
      BY DEF TaskStep
    <2>1. CASE u = t
      BY <2>1, <1>1, <1>2, <1>4, <1>5 DEF Claimable, Settled
    <2>2. CASE u # t
      <3>1. tasks'[u] = tasks[u]
        BY <2>2, <1>4
      <3>2. tasks[u].current # None => tasks[u].current \in DOMAIN attempts
        BY DEF OwnerInv, CurrentOwner
      <3> QED BY <3>1, <3>2, <1>3 DEF Claimable
    <2> QED BY <2>1, <2>2
  <1> QED BY <1>1, <1>2, <1>3, <1>6, EvidenceFrame

LEMMA ReleaseEvidence ==
  ASSUME TypeOK, OwnerInv, NEW s \in Sessions, NEW a \in DOMAIN attempts, NEW blocked \in BOOLEAN,
         Release(s, a, blocked)
  PROVE  EvidenceStep /\ TaskStep /\ (ProducerReserved => ProducerReserved')
  <1> DEFINE t == attempts[a].task
  <1>1. attempts[a] \in AttemptRow /\ t \in Tasks /\ tasks[t] \in TaskRow
    BY RowType DEF AttemptRow
  <1>2. UNCHANGED jobVars /\ DOMAIN attempts' = DOMAIN attempts
    BY DEF Release, TypeOK
  <1>3. \A b \in DOMAIN attempts : /\ attempts'[b].task = attempts[b].task
                                   /\ attempts'[b].mode = attempts[b].mode
    BY <1>1 DEF Release, TypeOK, AttemptRow
  <1>4. /\ tasks'[t].current = None
        /\ tasks'[t].blocked = blocked
        /\ \A u \in Tasks \ {t} : tasks'[u] = tasks[u]
    BY <1>1 DEF Release, TypeOK, TaskRow
  <1>5. blocked = FALSE => Quiescent(t)
    BY DEF Release
  <1> HIDE DEF t
  <1>6. ASSUME NEW u \in Tasks
        PROVE  /\ Claimable(u)' => Claimable(u) \/ (Quiescent(u) /\ UNCHANGED jobVars)
               /\ tasks'[u].current # None /\ attempts'[tasks'[u].current].mode = "work" =>
                    \/ /\ tasks'[u].current = tasks[u].current
                       /\ attempts[tasks[u].current].mode = "work"
                    \/ Quiescent(u) /\ UNCHANGED jobVars
    <2>1. CASE u = t
      BY <2>1, <1>2, <1>4, <1>5 DEF Claimable
    <2>2. CASE u # t
      <3>1. tasks'[u] = tasks[u]
        BY <2>2, <1>4
      <3>2. tasks[u].current # None => tasks[u].current \in DOMAIN attempts
        BY DEF OwnerInv, CurrentOwner
      <3> QED BY <3>1, <3>2, <1>3 DEF Claimable
    <2> QED BY <2>1, <2>2
  <1>7. TaskStep
    BY <1>6 DEF TaskStep
  <1> QED BY <1>2, <1>3, <1>7, EvidenceFrame

LEMMA RecoveryEvidenceStep ==
  ASSUME TypeOK, OwnerInv, NEW s \in Sessions, NEW a \in DOMAIN attempts,
         NEW fetched \in Revisions \cup {None}, NEW attested \in BOOLEAN,
         NEW label \in {"service_verified", "local_attestation"},
         RecoveryResolution(s, a, fetched, attested, label)
  PROVE  EvidenceStep /\ TaskStep /\ (ProducerReserved => ProducerReserved')
  <1>1. attempts[a] \in AttemptRow
    BY RowType
  <1>2. UNCHANGED jobVars /\ tasks' = tasks /\ DOMAIN attempts' = DOMAIN attempts
    BY DEF RecoveryResolution, TypeOK
  <1>3. \A b \in DOMAIN attempts : /\ attempts'[b].task = attempts[b].task
                                   /\ b # a => attempts'[b].mode = attempts[b].mode
    BY <1>1 DEF RecoveryResolution, TypeOK, AttemptRow
  <1>4. Quiescent(attempts[a].task)
    BY DEF RecoveryResolution
  <1>5. ASSUME NEW u \in Tasks
        PROVE  /\ Claimable(u)' => Claimable(u)
               /\ tasks'[u].current # None /\ attempts'[tasks'[u].current].mode = "work" =>
                    \/ /\ tasks'[u].current = tasks[u].current
                       /\ attempts[tasks[u].current].mode = "work"
                    \/ Quiescent(u) /\ UNCHANGED jobVars
    <2>1. tasks[u].current # None => /\ tasks[u].current \in DOMAIN attempts
                                     /\ attempts[tasks[u].current].task = u
      BY DEF OwnerInv, CurrentOwner
    <2>2. Claimable(u)' => Claimable(u)
      BY <1>2 DEF Claimable
    <2> QED BY <2>1, <2>2, <1>2, <1>3, <1>4
  <1>6. TaskStep
    BY <1>5 DEF TaskStep
  <1> QED BY <1>2, <1>3, <1>6, EvidenceFrame

\* Steps that keep the tasks table and every attempt's task and mode.
LEMMA TaskStepFrame ==
  ASSUME OwnerInv, tasks' = tasks, DOMAIN attempts' = DOMAIN attempts,
         \A b \in DOMAIN attempts : attempts'[b].mode = attempts[b].mode
  PROVE  TaskStep
  <1>1. \A t \in Tasks : tasks[t].current # None => tasks[t].current \in DOMAIN attempts
    BY DEF OwnerInv, CurrentOwner
  <1> QED BY <1>1 DEF TaskStep, Claimable

LEMMA LeaseEvidence ==
  ASSUME TypeOK, OwnerInv, NEW s \in Sessions, NEW a \in DOMAIN attempts,
         \/ Renew(s, a)
         \/ \E rev \in Revisions \cup {None} : Checkpoint(s, a, rev)
         \/ \E c \in Checkouts : RegisterCheckout(s, a, c)
  PROVE  EvidenceStep /\ TaskStep /\ (ProducerReserved => ProducerReserved')
  <1>1. attempts[a] \in AttemptRow
    BY RowType
  <1> DEFINE P == /\ UNCHANGED jobVars /\ tasks' = tasks /\ DOMAIN attempts' = DOMAIN attempts
                  /\ \A b \in DOMAIN attempts : /\ attempts'[b].task = attempts[b].task
                                                /\ attempts'[b].mode = attempts[b].mode
  <1>2. ASSUME Renew(s, a) PROVE P
    BY <1>1, <1>2 DEF Renew, TypeOK, AttemptRow
  <1>3. ASSUME NEW rev \in Revisions \cup {None}, Checkpoint(s, a, rev) PROVE P
    BY <1>1, <1>3 DEF Checkpoint, TypeOK, AttemptRow
  <1>4. ASSUME NEW c \in Checkouts, RegisterCheckout(s, a, c) PROVE P
    BY <1>1, <1>4 DEF RegisterCheckout, TypeOK, AttemptRow
  <1> HIDE DEF P
  <1>5. P
    BY <1>2, <1>3, <1>4
  <1> QED BY <1>5, EvidenceFrame, TaskStepFrame DEF P

LEMMA ReporterRenewEvidence ==
  ASSUME TypeOK, OwnerInv, NEW j \in DOMAIN jobs, ReporterRenew(j)
  PROVE  EvidenceStep /\ TaskStep /\ (ProducerReserved => ProducerReserved')
  <1> DEFINE a == jobs[j].attempt
  <1>1. a \in DOMAIN attempts /\ attempts[a] \in AttemptRow
    BY RowType DEF TypeOK
  <1>2. PICK e : attempts' = [attempts EXCEPT ![a].expires = e]
    BY DEF ReporterRenew
  <1>3. UNCHANGED <<tasks, jobVars>>
    BY DEF ReporterRenew, coordinationVars, jobVars
  <1> HIDE DEF a
  <1>4. /\ DOMAIN attempts' = DOMAIN attempts
        /\ \A b \in DOMAIN attempts : /\ attempts'[b].task = attempts[b].task
                                      /\ attempts'[b].mode = attempts[b].mode
    BY <1>1, <1>2 DEF TypeOK, AttemptRow
  <1> QED BY <1>3, <1>4, EvidenceFrame, TaskStepFrame

\* An unowned task becomes claimable only through Unblock, which asks.
LEMMA TaskOperationEvidence ==
  ASSUME TypeOK, OwnerInv, TaskOperation
  PROVE  EvidenceStep /\ TaskStep /\ (ProducerReserved => ProducerReserved')
  <1>1. attempts' = attempts /\ UNCHANGED jobVars
    BY DEF TaskOperation, Unblock, Archive, Restore, Delete, CompleteTaskExternally,
           EditTask, Cancel
  <1> DEFINE Q(t) ==
        /\ tasks[t].current = None /\ tasks'[t].current = None
        /\ \A u \in Tasks \ {t} : tasks'[u] = tasks[u]
        /\ \/ Quiescent(t)
           \/ tasks'[t].lifecycle \notin {"open", "planned"}
           \/ /\ tasks'[t].blocked = tasks[t].blocked
              /\ tasks'[t].lifecycle \in {"open", "planned"} =>
                   tasks[t].lifecycle \in {"open", "planned"}
  <1>2. \E t \in Tasks : Q(t)
    <2>1. ASSUME NEW t \in Tasks, Unblock(t) PROVE Q(t)
      BY <2>1 DEF Unblock, Unowned, TypeOK, TaskRow
    <2>2. ASSUME NEW t \in Tasks, Archive(t) \/ Restore(t) \/ Delete(t) PROVE Q(t)
      BY <2>2 DEF Archive, Restore, Delete, Unowned, TypeOK, TaskRow
    <2>3. ASSUME NEW t \in Tasks, CompleteTaskExternally(t) PROVE Q(t)
      BY <2>3 DEF CompleteTaskExternally, Unowned, TypeOK, TaskRow
    <2>4. ASSUME NEW t \in Tasks, NEW lifecycle \in {"open", "planned"}, NEW needs \in SUBSET Tasks,
                 EditTask(t, lifecycle, needs)
          PROVE  Q(t)
      BY <2>4 DEF EditTask, Unowned, TypeOK, TaskRow
    <2>5. ASSUME NEW t \in Tasks, NEW replaced \in BOOLEAN, Cancel(t, replaced)
          PROVE  Q(t)
      BY <2>5 DEF Cancel, Unowned, TypeOK, TaskRow
    <2> HIDE DEF Q
    <2> QED BY <2>1, <2>2, <2>3, <2>4, <2>5 DEF TaskOperation
  <1>3. TaskStep
    <2>1. PICK t \in Tasks : Q(t)
      BY <1>2
    <2>2. ASSUME NEW u \in Tasks
          PROVE  /\ Claimable(u)' => Claimable(u) \/ (Quiescent(u) /\ UNCHANGED jobVars)
                 /\ tasks'[u].current = tasks[u].current
      BY <1>1, <2>1 DEF Claimable
    <2> QED BY <1>1, <2>2 DEF TaskStep
  <1> QED BY <1>1, <1>3, EvidenceFrame

LEMMA EnvironmentEvidence ==
  ASSUME TypeOK, OwnerInv, EnvironmentStep \/ UNCHANGED vars
  PROVE  EvidenceStep /\ TaskStep /\ (ProducerReserved => ProducerReserved')
  <1>1. UNCHANGED <<tasks, attempts, jobVars>>
    BY DEF EnvironmentStep, UpdatePolicy, ArchiveProject, RestoreProject, CloseSession,
           RevokeCredential, DecisionChanges, Tick, vars, jobVars
  <1> QED BY <1>1, EvidenceFrame, TaskStepFrame

---------------------------------------------------------------------------
(* The steps of jobs.rs.                                                    *)

LEMMA ReservationEvidence ==
  ASSUME TypeOK, NEW s \in Sessions, NEW a \in DOMAIN attempts
  PROVE  /\ \A v \in ReservationIds, items \in Requests : CreateReservation(s, a, v, items) =>
              EvidenceStep /\ (ProducerReserved => ProducerReserved')
         /\ \A v \in DOMAIN reservations : ReleaseReservation(s, a, v) =>
              EvidenceStep /\ (ProducerReserved => ProducerReserved')
  <1>1. ASSUME NEW v \in ReservationIds, NEW items \in Requests, CreateReservation(s, a, v, items)
        PROVE  EvidenceStep /\ (ProducerReserved => ProducerReserved')
    <2>1. LiveWorker(a)
      BY <1>1 DEF CreateReservation, Owned, LiveWorker
    <2>2. /\ v \notin DOMAIN reservations
          /\ DOMAIN reservations' = DOMAIN reservations \cup {v}
          /\ reservations'[v].attempt = a
          /\ \A w \in DOMAIN reservations : reservations'[w] = reservations[w]
      BY <1>1 DEF CreateReservation, Insert
    <2>3. UNCHANGED <<attempts, jobs>>
      BY <1>1 DEF CreateReservation
    <2>4. \A j \in DOMAIN jobs : /\ jobs[j].reservation \in DOMAIN reservations
                                 /\ Unresolved(j)' = Unresolved(j)
      BY <2>3, ReferencesType DEF Unresolved
    <2> QED BY <2>1, <2>2, <2>3, <2>4 DEF EvidenceStep, ProducerReserved
  <1>2. ASSUME NEW v \in DOMAIN reservations, ReleaseReservation(s, a, v)
        PROVE  EvidenceStep /\ (ProducerReserved => ProducerReserved')
    <2>1. reservations[v] \in ReservationRow
      BY RowType
    <2>2. /\ DOMAIN reservations' = DOMAIN reservations
          /\ reservations'[v].state = "released"
          /\ \A w \in DOMAIN reservations \ {v} : reservations'[w] = reservations[w]
      BY <1>2, <2>1 DEF ReleaseReservation, ReservationRow, TypeOK
    <2>3. UNCHANGED <<attempts, jobs>>
      BY <1>2 DEF ReleaseReservation
    <2>4. \A j \in DOMAIN jobs : /\ jobs[j].reservation \in DOMAIN reservations
                                 /\ Unresolved(j)' = Unresolved(j)
                                 /\ Unresolved(j) => jobs[j].reservation # v
      BY <1>2, <2>3, ReferencesType DEF Unresolved, ReleaseReservation, UnresolvedOn
    <2> QED BY <2>2, <2>3, <2>4 DEF EvidenceStep, ProducerReserved
  <1> QED BY <1>1, <1>2

LEMMA ResolveEvidence ==
  ASSUME TypeOK, NEW v \in DOMAIN reservations, ResolveReservation(v)
  PROVE  EvidenceStep /\ (ProducerReserved => ProducerReserved')
  <1>1. reservations[v] \in ReservationRow /\ \A j \in DOMAIN jobs : jobs[j] \in JobRow
    BY RowType
  <1>2. /\ DOMAIN reservations' = DOMAIN reservations
        /\ reservations'[v].state = "resolved"
        /\ \A w \in DOMAIN reservations \ {v} : reservations'[w] = reservations[w]
    BY <1>1 DEF ResolveReservation, ReservationRow, TypeOK
  <1>3. /\ DOMAIN jobs' = DOMAIN jobs /\ UNCHANGED attempts
        /\ \A j \in DOMAIN jobs : jobs'[j] = IF j \in UnresolvedOn(v)
                                            THEN [jobs[j] EXCEPT !.reconciled = TRUE] ELSE jobs[j]
    BY DEF ResolveReservation
  <1>4. ASSUME NEW j \in DOMAIN jobs
        PROVE  /\ jobs'[j].attempt = jobs[j].attempt
               /\ jobs'[j].reservation = jobs[j].reservation
               /\ Unresolved(j)' => Unresolved(j) /\ jobs[j].reservation # v
    <2>1. jobs[j] \in JobRow
      BY <1>1
    <2>2. CASE j \in UnresolvedOn(v)
      <3>1. /\ jobs'[j].attempt = jobs[j].attempt
            /\ jobs'[j].reservation = jobs[j].reservation
            /\ jobs'[j].reconciled = TRUE
        BY <1>3, <2>1, <2>2 DEF JobRow
      <3> QED BY <3>1 DEF Unresolved
    <2>3. CASE j \notin UnresolvedOn(v)
      BY <1>3, <2>3 DEF UnresolvedOn, Unresolved
    <2> QED BY <2>2, <2>3
  <1>5. \A j \in DOMAIN jobs : jobs[j].reservation \in DOMAIN reservations
    BY ReferencesType
  <1> QED BY <1>2, <1>3, <1>4, <1>5 DEF EvidenceStep, ProducerReserved

LEMMA JobEvidence ==
  ASSUME TypeOK
  PROVE  /\ \A s \in Sessions, a \in DOMAIN attempts, v \in DOMAIN reservations, j \in JobIds,
               window \in RenewWindows : RegisterJob(s, a, v, j, window) =>
              EvidenceStep /\ (ProducerReserved => ProducerReserved')
         /\ \A j \in DOMAIN jobs, state \in JobStates, process \in BOOLEAN :
              Observe(j, state, process) => EvidenceStep /\ (ProducerReserved => ProducerReserved')
  <1>1. ASSUME NEW s \in Sessions, NEW a \in DOMAIN attempts, NEW v \in DOMAIN reservations,
               NEW j \in JobIds, NEW window \in RenewWindows, RegisterJob(s, a, v, j, window)
        PROVE  EvidenceStep /\ (ProducerReserved => ProducerReserved')
    <2>1. LiveWorker(a) /\ v \in HeldBy(a)
      BY <1>1 DEF RegisterJob, Owned, LiveWorker
    <2>2. /\ j \notin DOMAIN jobs
          /\ DOMAIN jobs' = DOMAIN jobs \cup {j}
          /\ jobs'[j].attempt = a /\ jobs'[j].reservation = v
          /\ \A k \in DOMAIN jobs : jobs'[k] = jobs[k]
      BY <1>1 DEF RegisterJob, Insert, NewJob
    <2>3. UNCHANGED <<attempts, reservations>>
      BY <1>1 DEF RegisterJob
    <2>4. \A k \in DOMAIN jobs : Unresolved(k)' = Unresolved(k)
      BY <2>2 DEF Unresolved
    <2> QED BY <2>1, <2>2, <2>3, <2>4 DEF EvidenceStep, ProducerReserved, HeldBy
  <1>2. ASSUME NEW j \in DOMAIN jobs, NEW state \in JobStates, NEW process \in BOOLEAN,
               Observe(j, state, process)
        PROVE  EvidenceStep /\ (ProducerReserved => ProducerReserved')
    <2>1. jobs[j] \in JobRow
      BY RowType
    <2>2. /\ DOMAIN jobs' = DOMAIN jobs
          /\ jobs'[j] = Observed(j, state, process)
          /\ \A k \in DOMAIN jobs \ {j} : jobs'[k] = jobs[k]
      BY <1>2 DEF Observe, TypeOK
    <2>3. /\ jobs'[j].attempt = jobs[j].attempt
          /\ jobs'[j].reservation = jobs[j].reservation
          /\ jobs'[j].reconciled = jobs[j].reconciled
      BY <2>1, <2>2 DEF Observed, JobRow
    <2>4. jobs[j].state \notin Finished
      BY <1>2 DEF Observe, MayObserve
    <2>5. \A k \in DOMAIN jobs : /\ Unresolved(k)' => Unresolved(k)
                                 /\ jobs'[k].attempt = jobs[k].attempt
                                 /\ jobs'[k].reservation = jobs[k].reservation
      BY <2>2, <2>3, <2>4 DEF Unresolved
    <2>6. UNCHANGED <<attempts, reservations>>
      BY <1>2 DEF Observe
    <2> QED BY <2>2, <2>5, <2>6 DEF EvidenceStep, ProducerReserved
  <1> QED BY <1>1, <1>2

LEMMA JobsNextEvidence ==
  ASSUME TypeOK, OwnerInv, JobsNext
  PROVE  EvidenceStep /\ TaskStep /\ (ProducerReserved => ProducerReserved')
  <1>1. CASE \E j \in DOMAIN jobs : ReporterRenew(j)
    BY <1>1, ReporterRenewEvidence
  <1>2. CASE ~\E j \in DOMAIN jobs : ReporterRenew(j)
    <2>1. UNCHANGED <<tasks, attempts>>
      BY <1>2 DEF JobsNext, CreateResource, UpdateResource, DeleteResource,
         CreateReservation, ReleaseReservation, ResolveReservation, RegisterJob, Observe,
         coordinationVars
    <2>2. TaskStep
      BY <2>1, TaskStepFrame
    <2>3. ASSUME UNCHANGED <<attempts, reservations, jobs>>
          PROVE  EvidenceStep /\ (ProducerReserved => ProducerReserved')
      BY <2>3 DEF EvidenceStep, ProducerReserved, Unresolved
    <2>4. EvidenceStep /\ (ProducerReserved => ProducerReserved')
      <3>1. CASE \/ \E r \in Resources, capacity \in Capacities :
                     CreateResource(r, capacity) \/ UpdateResource(r, capacity)
                 \/ \E r \in Resources : DeleteResource(r)
        BY <2>3, <3>1 DEF CreateResource, UpdateResource, DeleteResource
      <3>2. CASE \/ \E s \in Sessions, a \in DOMAIN attempts, v \in ReservationIds,
                        items \in Requests : CreateReservation(s, a, v, items)
                 \/ \E s \in Sessions, a \in DOMAIN attempts, v \in DOMAIN reservations :
                        ReleaseReservation(s, a, v)
        BY <3>2, ReservationEvidence
      <3>3. CASE \E v \in DOMAIN reservations : ResolveReservation(v)
        BY <3>3, ResolveEvidence
      <3>4. CASE \/ \E s \in Sessions, a \in DOMAIN attempts, v \in DOMAIN reservations,
                        j \in JobIds, window \in RenewWindows : RegisterJob(s, a, v, j, window)
                 \/ \E j \in DOMAIN jobs, state \in JobStates, process \in BOOLEAN :
                        Observe(j, state, process)
        BY <3>4, JobEvidence
      <3> QED BY <1>2, <3>1, <3>2, <3>3, <3>4 DEF JobsNext
    <2> QED BY <2>2, <2>4
  <1> QED BY <1>1, <1>2

LEMMA NextEvidence ==
  ASSUME TypeOK, OwnerInv, Settled, [Next]_vars
  PROVE  EvidenceStep /\ TaskStep /\ (ProducerReserved => ProducerReserved')
  <1>1. CASE CoordinationNext
    BY <1>1, ClaimEvidence, ReleaseEvidence, RecoveryEvidenceStep, LeaseEvidence,
       TaskOperationEvidence, EnvironmentEvidence
       DEF CoordinationNext, TaskOperation, EnvironmentStep
  <1>2. CASE JobsNext
    BY <1>2, JobsNextEvidence
  <1>3. CASE UNCHANGED vars
    BY <1>3, EnvironmentEvidence
  <1> QED BY <1>1, <1>2, <1>3 DEF Next

---------------------------------------------------------------------------
(* The theorems.                                                            *)

LEMMA EvidenceInductive ==
  TypeOK /\ TypeOK' /\ OwnerInv /\ EvidenceInv /\ [Next]_vars => EvidenceInv'
  <1> SUFFICES ASSUME TypeOK, TypeOK', OwnerInv, EvidenceInv, [Next]_vars
               PROVE  EvidenceInv'
    OBVIOUS
  <1>1. EvidenceStep /\ TaskStep /\ ProducerReserved'
    BY NextEvidence DEF EvidenceInv
  <1>2. Settled'
    BY <1>1, SettledKept DEF EvidenceInv
  <1>3. WorkOwnsEvidence'
    BY <1>1, WorkOwnsKept DEF EvidenceInv
  <1> QED BY <1>1, <1>2, <1>3 DEF EvidenceInv

LEMMA InitEvidence == Init => EvidenceInv
  BY DEF Init, EvidenceInv, ProducerReserved, Settled, Quiescent, WorkOwnsEvidence

LEMMA EvidenceInvariant == Spec => [](OwnerInv /\ EvidenceInv)
  <1>1. Spec => []OwnerInv
    BY InitOwner, NextOwner, TypeCorrect, PTL DEF Spec
  <1> QED BY <1>1, InitEvidence, EvidenceInductive, TypeCorrect, PTL DEF Spec

\* While an attempt may edit, every held reservation and every producer that may
\* still run on its task is its own.
THEOREM WorkIsFenced == Spec => []WorkOwnsEvidence
  <1>1. EvidenceInv => WorkOwnsEvidence
    BY DEF EvidenceInv
  <1> QED BY <1>1, EvidenceInvariant, PTL

\* A producer that may still run keeps its attempt's reservation held.
THEOREM ProducersStayReserved == Spec => []ProducerReserved
  <1>1. EvidenceInv => ProducerReserved
    BY DEF EvidenceInv
  <1> QED BY <1>1, EvidenceInvariant, PTL

\* A task offered as ordinary work has no held reservation and no producer that
\* may still run.
THEOREM ReadyTasksAreQuiescent == Spec => []ReadyIsQuiescent
  <1>1. TypeOK /\ EvidenceInv => ReadyIsQuiescent
    <2> SUFFICES ASSUME TypeOK, EvidenceInv, NEW t \in Tasks, Status(t) = "ready"
                 PROVE  Quiescent(t)
      BY DEF ReadyIsQuiescent
    <2>1. tasks[t] \in TaskRow
      BY RowType
    <2>2. Claimable(t)
      BY <2>1 DEF Status, Claimable, TaskRow, Lifecycles
    <2> QED BY <2>2 DEF EvidenceInv, Settled
  <1> QED BY <1>1, EvidenceInvariant, TypeCorrect, PTL

\* Settled evidence is reopened only by a live owner at work, never by a late
\* observation or by an owner that is gone.
THEOREM EvidenceReopenedOnlyByWork == Spec => EvidenceStaysSettled
  <1>1. TypeOK /\ TypeOK' /\ OwnerInv /\ EvidenceInv /\ [Next]_vars =>
        [\A t \in Tasks :
           Quiescent(t) /\ ~(\E a \in DOMAIN attempts : /\ tasks[t].current = a
                                                        /\ LiveAttempt(a)
                                                        /\ attempts[a].mode = "work")
           => Quiescent(t)']_vars
    <2> SUFFICES ASSUME TypeOK, TypeOK', OwnerInv, EvidenceInv, [Next]_vars, NEW t \in Tasks,
                        Quiescent(t),
                        ~(\E a \in DOMAIN attempts : /\ tasks[t].current = a
                                                     /\ LiveAttempt(a)
                                                     /\ attempts[a].mode = "work")
                 PROVE  Quiescent(t)'
      OBVIOUS
    <2>1. ~\E a \in DOMAIN attempts : LiveWorker(a) /\ attempts[a].task = t
      BY DEF LiveWorker
    <2>2. EvidenceStep
      BY NextEvidence DEF EvidenceInv
    <2> QED BY <2>1, <2>2, QuiescentKept
  <1> QED BY <1>1, EvidenceInvariant, TypeCorrect, PTL DEF Spec, EvidenceStaysSettled

\* Nothing of earlier attempts runs or is held where new work begins.
THEOREM EvidenceIsSound == Spec => []EvidenceSound
  <1>1. ReadyIsQuiescent /\ WorkOwnsEvidence /\ ProducerReserved => EvidenceSound
    BY DEF EvidenceSound
  <1> QED BY <1>1, ReadyTasksAreQuiescent, WorkIsFenced, ProducersStayReserved, PTL

---------------------------------------------------------------------------
(* The order of tasks.                                                      *)

\* What an edit does to the dependencies.
NeedsEdited(t, needs) ==
  /\ tasks[t].current = None /\ tasks'[t].current = None
  /\ \A d \in needs : ~Reaches(d, t)
  /\ tasks'[t].needs = needs
  /\ tasks'[t].lifecycle = "done" <=> tasks[t].lifecycle = "done"
  /\ \A u \in Tasks \ {t} : tasks'[u] = tasks[u]

\* What every other step does to the tasks: dependencies stay, done stays done,
\* and only a ready task gets an owner.
NeedsKept ==
  \A t \in Tasks :
    /\ tasks'[t].needs = tasks[t].needs
    /\ tasks[t].lifecycle = "done" => tasks'[t].lifecycle = "done"
    /\ tasks'[t].current # None => tasks[t].current # None \/ PrereqsDone(t)

LEMMA ClaimNeeds ==
  ASSUME TypeOK, NEW s \in Sessions, NEW t \in Tasks, NEW a \in AttemptIds,
         NEW mode \in {"work", "recovery"}, Claim(s, t, a, mode)
  PROVE  NeedsKept
  <1>1. /\ tasks'[t] = [tasks[t] EXCEPT !.current = a, !.generation = @ + 1]
        /\ \A u \in Tasks \ {t} : tasks'[u] = tasks[u]
    BY DEF Claim, TypeOK, TaskRow
  <1>2. tasks[t] \in TaskRow
    BY RowType
  <1>3. tasks[t].current # None \/ PrereqsDone(t)
    BY <1>2 DEF Claim, MayClaim, Status, Lifecycles, TaskRow
  <1>4. tasks'[t].needs = tasks[t].needs /\ tasks'[t].lifecycle = tasks[t].lifecycle
    BY <1>1, <1>2 DEF TaskRow
  <1> QED BY <1>1, <1>3, <1>4 DEF NeedsKept

LEMMA ReleaseNeeds ==
  ASSUME TypeOK, NEW s \in Sessions, NEW a \in DOMAIN attempts, NEW blocked \in BOOLEAN,
         Release(s, a, blocked)
  PROVE  NeedsKept
  <1> DEFINE t == attempts[a].task
  <1>1. t \in Tasks
    BY RowType DEF AttemptRow
  <1>2. tasks[t] \in TaskRow
    BY <1>1, RowType
  <1>3. /\ tasks'[t] = [tasks[t] EXCEPT !.current = None, !.blocked = blocked]
        /\ \A u \in Tasks \ {t} : tasks'[u] = tasks[u]
    BY <1>1 DEF Release, TypeOK, TaskRow
  <1>4. /\ tasks'[t].needs = tasks[t].needs
        /\ tasks'[t].lifecycle = tasks[t].lifecycle
        /\ tasks'[t].current = None
    BY <1>2, <1>3 DEF TaskRow
  <1> HIDE DEF t
  <1> QED BY <1>1, <1>3, <1>4 DEF NeedsKept

LEMMA TaskOperationNeeds ==
  ASSUME TypeOK, TaskOperation
  PROVE  NeedsKept \/ \E t \in Tasks, needs \in SUBSET Tasks : NeedsEdited(t, needs)
  <1>1. ASSUME NEW t \in Tasks,
               Unblock(t) \/ Archive(t) \/ Restore(t) \/ Delete(t) \/ CompleteTaskExternally(t)
        PROVE  NeedsKept
    <2>1. /\ tasks'[t].needs = tasks[t].needs
          /\ tasks'[t].lifecycle \in {tasks[t].lifecycle, "done"}
          /\ tasks'[t].current = tasks[t].current
          /\ \A u \in Tasks \ {t} : tasks'[u] = tasks[u]
      BY <1>1 DEF Unblock, Archive, Restore, Delete, CompleteTaskExternally, TypeOK, TaskRow
    <2> QED BY <2>1 DEF NeedsKept
  <1>2. ASSUME NEW t \in Tasks, NEW replaced \in BOOLEAN, Cancel(t, replaced)
        PROVE  NeedsKept
    <2>1. /\ tasks'[t].needs = tasks[t].needs
          /\ tasks[t].lifecycle # "done"
          /\ tasks'[t].current = tasks[t].current
          /\ \A u \in Tasks \ {t} : tasks'[u] = tasks[u]
      BY <1>2 DEF Cancel, TypeOK, TaskRow
    <2> QED BY <2>1 DEF NeedsKept
  <1>3. ASSUME NEW t \in Tasks, NEW lifecycle \in {"open", "planned"}, NEW needs \in SUBSET Tasks,
               EditTask(t, lifecycle, needs)
        PROVE  NeedsEdited(t, needs)
    BY <1>3 DEF EditTask, Unowned, NeedsEdited, TypeOK, TaskRow
  <1> QED BY <1>1, <1>2, <1>3 DEF TaskOperation

LEMMA StepNeeds ==
  ASSUME TypeOK, [Next]_vars
  PROVE  NeedsKept \/ \E t \in Tasks, needs \in SUBSET Tasks : NeedsEdited(t, needs)
  <1>1. CASE tasks' = tasks
    BY <1>1 DEF NeedsKept
  <1>2. CASE CoordinationNext /\ ~TaskOperation
    <2>1. CASE \E s \in Sessions, t \in Tasks, a \in AttemptIds, mode \in {"work", "recovery"} :
                 Claim(s, t, a, mode)
      BY <2>1, ClaimNeeds
    <2>2. CASE \E s \in Sessions, a \in DOMAIN attempts, blocked \in BOOLEAN :
                 Release(s, a, blocked)
      BY <2>2, ReleaseNeeds
    <2>3. CASE /\ ~(\E s \in Sessions, t \in Tasks, a \in AttemptIds,
                       mode \in {"work", "recovery"} : Claim(s, t, a, mode))
               /\ ~(\E s \in Sessions, a \in DOMAIN attempts, blocked \in BOOLEAN :
                      Release(s, a, blocked))
      <3>1. tasks' = tasks
        BY <1>2, <2>3 DEF CoordinationNext, TaskOperation, Renew, Checkpoint, RecoveryResolution,
           RegisterCheckout, UpdatePolicy, ArchiveProject, RestoreProject, CloseSession,
           RevokeCredential, DecisionChanges, Tick
      <3> QED BY <1>1, <3>1
    <2> QED BY <2>1, <2>2, <2>3
  <1>3. CASE TaskOperation
    BY <1>3, TaskOperationNeeds
  <1>4. CASE JobsNext
    <2>1. tasks' = tasks
      BY <1>4 DEF JobsNext, CreateResource, UpdateResource, DeleteResource, CreateReservation,
         ReleaseReservation, ResolveReservation, RegisterJob, Observe, ReporterRenew,
         coordinationVars
    <2> QED BY <1>1, <2>1
  <1> QED BY <1>1, <1>2, <1>3, <1>4 DEF Next, vars

\* A set closed under the prerequisites of its members.
Closed(S) == S \in SUBSET Tasks /\ \A u \in S : tasks[u].needs \subseteq S

\* An edit that adds no path back to the edited task closes no cycle.  For u # t
\* the witness that e does not reach u is a set S closed before the edit; it is
\* cut down to a set without t, or completed with what t now needs.
LEMMA EditKeepsAcyclic ==
  ASSUME TypeOK, DependenciesAcyclic, NEW t \in Tasks, NEW needs \in SUBSET Tasks,
         NeedsEdited(t, needs)
  PROVE  DependenciesAcyclic'
  <1>1. ASSUME NEW d \in Tasks, NEW u \in Tasks, ~Reaches(d, u)
        PROVE  \E S : Closed(S) /\ d \in S /\ u \notin S
    BY <1>1 DEF Reaches, Closed
  <1>2. \A v \in Tasks : \A e \in tasks[v].needs : \E S : Closed(S) /\ e \in S /\ v \notin S
    BY DEF DependenciesAcyclic, Closed
  <1>3. ASSUME NEW S, Closed(S), t \notin S
        PROVE  Closed(S)'
    BY <1>3 DEF Closed, NeedsEdited
  <1>4. ASSUME NEW d \in needs
        PROVE  \E S : Closed(S)' /\ d \in S /\ t \notin S
    <2>1. PICK S : Closed(S) /\ d \in S /\ t \notin S
      BY <1>1, <1>4 DEF NeedsEdited
    <2>2. Closed(S)'
      BY <2>1, <1>3
    <2> QED BY <2>1, <2>2
  <1>5. ASSUME NEW u \in Tasks \ {t}, NEW e \in tasks[u].needs
        PROVE  \E S : Closed(S)' /\ e \in S /\ u \notin S
    <2>1. PICK S : Closed(S) /\ e \in S /\ u \notin S
      BY <1>2, <1>5
    <2>2. CASE \E W : Closed(W) /\ u \in W /\ t \notin W
      <3>1. PICK W : Closed(W) /\ u \in W /\ t \notin W
        BY <2>2
      <3>2. Closed(S \cap W) /\ t \notin S \cap W
        BY <2>1, <3>1 DEF Closed
      <3>3. e \in S \cap W /\ u \notin S \cap W
        BY <1>5, <2>1, <3>1 DEF Closed
      <3> QED BY <3>2, <3>3, <1>3
    <2>3. CASE ~(\E W : Closed(W) /\ u \in W /\ t \notin W)
      <3>1. PICK W \in SUBSET Tasks : needs \subseteq W /\ u \notin W /\ Closed(W)
        <4> DEFINE U == {w \in Tasks : \E V \in SUBSET Tasks : Closed(V) /\ t \notin V /\ w \in V}
        <4>1. ASSUME NEW d \in needs PROVE d \in U
          <5>1. PICK V : Closed(V) /\ d \in V /\ t \notin V
            BY <1>1, <4>1 DEF NeedsEdited
          <5>2. V \in SUBSET Tasks
            BY <5>1 DEF Closed
          <5> QED BY <5>1, <5>2
        <4>2. ASSUME NEW w \in U PROVE tasks[w].needs \subseteq U
          <5>1. PICK V \in SUBSET Tasks : Closed(V) /\ t \notin V /\ w \in V
            BY <4>2
          <5>2. tasks[w].needs \subseteq V
            BY <5>1 DEF Closed
          <5> QED BY <5>1, <5>2
        <4>3. U \in SUBSET Tasks /\ u \notin U
          BY <2>3
        <4> HIDE DEF U
        <4>4. needs \subseteq U /\ u \notin U /\ Closed(U)
          BY <4>1, <4>2, <4>3 DEF Closed
        <4> QED BY <4>3, <4>4
      <3>2. Closed(S \cup W)'
        <4>1. S \cup W \in SUBSET Tasks
          BY <2>1 DEF Closed
        <4>2. ASSUME NEW w \in S \cup W PROVE tasks'[w].needs \subseteq S \cup W
          <5>1. CASE w = t
            BY <3>1, <5>1 DEF NeedsEdited
          <5>2. CASE w # t
            <6>1. tasks'[w].needs = tasks[w].needs
              BY <4>1, <5>2 DEF NeedsEdited
            <6> QED BY <2>1, <3>1, <6>1 DEF Closed
          <5> QED BY <5>1, <5>2
        <4> QED BY <4>1, <4>2 DEF Closed
      <3> QED BY <2>1, <3>1, <3>2
    <2> QED BY <2>2, <2>3
  <1>6. \A v \in Tasks : \A e \in tasks'[v].needs : \E S : Closed(S)' /\ e \in S /\ v \notin S
    BY <1>4, <1>5 DEF NeedsEdited
  <1> QED BY <1>6 DEF DependenciesAcyclic, Closed

\* However tasks are edited, no task ends up waiting for itself.
THEOREM NoDependencyCycle == Spec => []DependenciesAcyclic
  <1>1. Init => DependenciesAcyclic
    BY DEF Init, DependenciesAcyclic
  <1>2. ASSUME TypeOK, DependenciesAcyclic, [Next]_vars
        PROVE  DependenciesAcyclic'
    <2>1. CASE NeedsKept
      BY <1>2, <2>1, RowType DEF NeedsKept, DependenciesAcyclic, TaskRow
    <2> QED BY <1>2, <2>1, StepNeeds, EditKeepsAcyclic
  <1> QED BY <1>1, <1>2, TypeCorrect, PTL DEF Spec

\* An owned task's prerequisites are done, whatever was edited before or after.
THEOREM WorkFollowsPrerequisites == Spec => []PrereqsHonored
  <1>1. Init => PrereqsHonored
    BY DEF Init, PrereqsHonored
  <1>2. ASSUME TypeOK, PrereqsHonored, [Next]_vars
        PROVE  PrereqsHonored'
    <2>0. \A u \in Tasks : tasks[u].needs \subseteq Tasks
      BY <1>2, RowType DEF TaskRow
    <2>1. CASE NeedsKept
      BY <1>2, <2>0, <2>1 DEF NeedsKept, PrereqsHonored, PrereqsDone
    <2>2. ASSUME NEW t \in Tasks, NEW needs \in SUBSET Tasks, NeedsEdited(t, needs)
          PROVE  PrereqsHonored'
      BY <1>2, <2>0, <2>2 DEF NeedsEdited, PrereqsHonored, PrereqsDone
    <2> QED BY <1>2, <2>1, <2>2, StepNeeds
  <1> QED BY <1>1, <1>2, TypeCorrect, PTL DEF Spec

\* However tasks are edited, claimed and completed, their order holds: no cycle, and no
\* work before its prerequisites.
THEOREM OrderIsSound == Spec => []OrderSound
  <1>1. PrereqsHonored /\ DependenciesAcyclic => OrderSound
    BY DEF OrderSound
  <1> QED BY <1>1, WorkFollowsPrerequisites, NoDependencyCycle, PTL

---------------------------------------------------------------------------
(* What attempts share.                                                     *)

\* Units leave with their reservation, and come with a new one.
LEMMA UnitsFinite ==
  ASSUME NEW S, IsFiniteSet(S), NEW v, NEW n \in Nat
  PROVE  /\ IsFiniteSet(S \cup ({v} \X (1 .. n)))
         /\ Cardinality(S \cup ({v} \X (1 .. n))) <= Cardinality(S) + n
         /\ n = 0 => S \cup ({v} \X (1 .. n)) = S
  <1> DEFINE I == 1 .. n
             T == {v} \X I
  <1>1. IsFiniteSet(I) /\ Cardinality(I) = n
    <2>1. 1 \in Int /\ n \in Int
      OBVIOUS
    <2>2. IsFiniteSet(I) /\ Cardinality(I) = IF 1 > n THEN 0 ELSE n - 1 + 1
      BY <2>1, FS_Interval
    <2> QED BY <2>2
  <1>2. IsFiniteSet({v}) /\ Cardinality({v}) = 1
    BY FS_Singleton
  <1> HIDE DEF I
  <1>3. IsFiniteSet(T) /\ Cardinality(T) = n
    BY <1>1, <1>2, FS_Product
  <1>4. n = 0 => T = {}
    BY <1>1, FS_EmptySet
  <1> HIDE DEF T
  <1>5. IsFiniteSet(S \cup T) /\ Cardinality(S \cup T) = Cardinality(S) + n - Cardinality(S \cap T)
    BY <1>3, FS_Union
  <1>6. Cardinality(S \cap T) \in Nat /\ Cardinality(S) \in Nat
    <2>1. S \cap T \in SUBSET S
      OBVIOUS
    <2>2. IsFiniteSet(S \cap T)
      BY <2>1, FS_Subset
    <2> QED BY <2>2, FS_CardinalityType
  <1> QED BY <1>4, <1>5, <1>6 DEF T, I

\* The units held are finitely many, which makes counting them meaningful.
UnitsInv == (\A r \in Resources : IsFiniteSet(UnitsHeld(r))) /\ CapacityRespected

\* Fewer reservations are held, and no resource is taken from those that are.
LEMMA UnitsLeave ==
  ASSUME TypeOK, TypeOK', UnitsInv,
         \A r \in Resources : UnitsHeld(r)' \subseteq UnitsHeld(r),
         \A r \in Resources : r \in DOMAIN resources /\ UnitsHeld(r)' # {} =>
           r \in DOMAIN resources' /\ resources'[r] >= HeldUnits(r)
  PROVE  UnitsInv'
  <1> SUFFICES ASSUME NEW r \in Resources
               PROVE  /\ IsFiniteSet(UnitsHeld(r)')
                      /\ HeldUnits(r)' > 0 =>
                           r \in DOMAIN resources' /\ HeldUnits(r)' <= resources'[r]
    BY DEF UnitsInv, CapacityRespected
  <1>1. IsFiniteSet(UnitsHeld(r)) /\ UnitsHeld(r)' \in SUBSET UnitsHeld(r)
    BY DEF UnitsInv
  <1>2. IsFiniteSet(UnitsHeld(r)') /\ Cardinality(UnitsHeld(r)') <= Cardinality(UnitsHeld(r))
    BY <1>1, FS_Subset
  <1>3. Cardinality(UnitsHeld(r)) \in Nat /\ Cardinality(UnitsHeld(r)') \in Nat
    BY <1>1, <1>2, FS_CardinalityType
  <1>4. ASSUME HeldUnits(r)' > 0
        PROVE  r \in DOMAIN resources' /\ HeldUnits(r)' <= resources'[r]
    <2>1. UnitsHeld(r)' # {} /\ HeldUnits(r) > 0
      BY <1>2, <1>3, <1>4, FS_EmptySet DEF HeldUnits
    <2>2. r \in DOMAIN resources' /\ resources'[r] >= HeldUnits(r)
      BY <2>1 DEF UnitsInv, CapacityRespected
    <2>3. resources'[r] \in Nat
      BY <2>2 DEF TypeOK
    <2> QED BY <1>2, <1>3, <2>2, <2>3 DEF HeldUnits
  <1> QED BY <1>2, <1>4

\* A new reservation takes what Available found free.
LEMMA UnitsTaken ==
  ASSUME TypeOK, TypeOK', UnitsInv, NEW s \in Sessions, NEW a \in DOMAIN attempts,
         NEW v \in ReservationIds, NEW items \in Requests, CreateReservation(s, a, v, items)
  PROVE  UnitsInv'
  <1> SUFFICES ASSUME NEW r \in Resources
               PROVE  /\ IsFiniteSet(UnitsHeld(r)')
                      /\ HeldUnits(r)' > 0 =>
                           r \in DOMAIN resources' /\ HeldUnits(r)' <= resources'[r]
    BY DEF UnitsInv, CapacityRespected
  <1>0. items[r] \in Nat /\ IsFiniteSet(UnitsHeld(r)) /\ HeldUnits(r) \in Nat
    BY FS_CardinalityType DEF UnitsInv, HeldUnits
  <1>1. /\ v \notin DOMAIN reservations
        /\ DOMAIN reservations' = DOMAIN reservations \cup {v}
        /\ reservations'[v] = [attempt |-> a, items |-> items, state |-> "held"]
        /\ \A w \in DOMAIN reservations : reservations'[w] = reservations[w]
    BY DEF CreateReservation, Insert
  <1>2. UnitsHeld(r)' = UnitsHeld(r) \cup ({v} \X (1 .. items[r]))
    <2> DEFINE Before == {w \in DOMAIN reservations : reservations[w].state = "held"}
               After == {w \in DOMAIN reservations' : reservations'[w].state = "held"}
    <2>1. reservations'[v].state = "held" /\ reservations'[v].items = items
      BY <1>1
    <2>2. After = Before \cup {v}
      BY <1>1, <2>1
    <2>3. \A w \in Before : reservations'[w].items[r] = reservations[w].items[r]
      BY <1>1
    <2>4. UnitsHeld(r) = UNION {{w} \X (1 .. reservations[w].items[r]) : w \in Before}
      BY DEF UnitsHeld
    <2>5. UnitsHeld(r)' = UNION {{w} \X (1 .. reservations'[w].items[r]) : w \in After}
      BY DEF UnitsHeld
    <2> HIDE DEF Before, After
    <2>6. ASSUME NEW x PROVE x \in UnitsHeld(r)' <=> x \in UnitsHeld(r) \cup ({v} \X (1 .. items[r]))
      <3>1. x \in UnitsHeld(r)' <=> \E w \in After : x \in {w} \X (1 .. reservations'[w].items[r])
        BY <2>5
      <3>2. x \in UnitsHeld(r) <=> \E w \in Before : x \in {w} \X (1 .. reservations[w].items[r])
        BY <2>4
      <3>3. (\E w \in After : x \in {w} \X (1 .. reservations'[w].items[r]))
              <=> \/ \E w \in Before : x \in {w} \X (1 .. reservations'[w].items[r])
                  \/ x \in {v} \X (1 .. items[r])
        BY <2>1, <2>2
      <3>4. (\E w \in Before : x \in {w} \X (1 .. reservations'[w].items[r]))
              <=> \E w \in Before : x \in {w} \X (1 .. reservations[w].items[r])
        BY <2>3
      <3> QED BY <3>1, <3>2, <3>3, <3>4
    <2> QED BY <2>6
  <1>3. /\ IsFiniteSet(UnitsHeld(r)') /\ HeldUnits(r)' <= HeldUnits(r) + items[r]
        /\ items[r] = 0 => HeldUnits(r)' = HeldUnits(r)
    <2> DEFINE n == items[r]
               S == UnitsHeld(r)
    <2>1. IsFiniteSet(S) /\ n \in Nat
      BY <1>0
    <2> HIDE DEF n, S
    <2>2. /\ IsFiniteSet(S \cup ({v} \X (1 .. n)))
          /\ Cardinality(S \cup ({v} \X (1 .. n))) <= Cardinality(S) + n
          /\ n = 0 => S \cup ({v} \X (1 .. n)) = S
      BY <2>1, UnitsFinite
    <2>3. S \cup ({v} \X (1 .. n)) = UnitsHeld(r)'
      BY <1>2 DEF S, n
    <2>4. /\ IsFiniteSet(UnitsHeld(r)') /\ Cardinality(UnitsHeld(r)') <= Cardinality(S) + n
          /\ n = 0 => UnitsHeld(r)' = S
      BY <2>2, <2>3
    <2> QED BY <2>4 DEF HeldUnits, S, n
  <1>4. HeldUnits(r)' \in Nat
    BY <1>3, FS_CardinalityType DEF HeldUnits
  <1>5. resources' = resources /\ Available(items)
    BY DEF CreateReservation
  <1>6. r \in DOMAIN resources => resources[r] \in Nat
    BY DEF TypeOK
  <1>7. CASE items[r] = 0
    BY <1>3, <1>5, <1>7 DEF UnitsInv, CapacityRespected
  <1>8. CASE items[r] > 0
    <2>1. r \in DOMAIN resources /\ HeldUnits(r) + items[r] <= resources[r]
      BY <1>5, <1>8 DEF Available
    <2> QED BY <1>0, <1>3, <1>4, <1>5, <1>6, <2>1
  <1> QED BY <1>0, <1>3, <1>7, <1>8

\* A reservation that ends gives its units back, and no other changes.
LEMMA UnitsReturned ==
  ASSUME TypeOK, NEW v \in DOMAIN reservations, NEW state \in {"released", "resolved"},
         reservations' = [reservations EXCEPT ![v].state = state], NEW r
  PROVE  UnitsHeld(r)' \subseteq UnitsHeld(r)
  <1>1. reservations[v] \in ReservationRow
    BY RowType
  <1>2. /\ DOMAIN reservations' = DOMAIN reservations
        /\ reservations'[v].state # "held"
        /\ \A w \in DOMAIN reservations \ {v} : reservations'[w] = reservations[w]
    BY <1>1 DEF ReservationRow, TypeOK
  <1> QED BY <1>2 DEF UnitsHeld

LEMMA NextUnits == TypeOK /\ TypeOK' /\ UnitsInv /\ [Next]_vars => UnitsInv'
  <1> SUFFICES ASSUME TypeOK, TypeOK', UnitsInv, [Next]_vars PROVE UnitsInv'
    OBVIOUS
  <1>0. \A r \in Resources : /\ HeldUnits(r) \in Nat
                             /\ UnitsHeld(r) # {} => r \in DOMAIN resources /\ HeldUnits(r) <= resources[r]
    <2> SUFFICES ASSUME NEW r \in Resources
                 PROVE  /\ HeldUnits(r) \in Nat
                        /\ UnitsHeld(r) # {} => r \in DOMAIN resources /\ HeldUnits(r) <= resources[r]
      OBVIOUS
    <2>1. IsFiniteSet(UnitsHeld(r))
      BY DEF UnitsInv
    <2>2. HeldUnits(r) \in Nat /\ (UnitsHeld(r) # {} => HeldUnits(r) # 0)
      BY <2>1, FS_CardinalityType, FS_EmptySet DEF HeldUnits
    <2> QED BY <2>2 DEF UnitsInv, CapacityRespected
  <1>1. ASSUME UNCHANGED <<resources, reservations>> PROVE UnitsInv'
    <2>1. \A r \in Resources : UnitsHeld(r)' = UnitsHeld(r)
      BY <1>1 DEF UnitsHeld
    <2> QED BY <1>1, <2>1 DEF UnitsInv, CapacityRespected, HeldUnits
  <1>2. ASSUME reservations' = reservations,
               \A r \in Resources : r \in DOMAIN resources /\ UnitsHeld(r) # {} =>
                 r \in DOMAIN resources' /\ resources'[r] >= HeldUnits(r)
        PROVE  UnitsInv'
    <2>1. \A r \in Resources : UnitsHeld(r)' = UnitsHeld(r)
      BY <1>2 DEF UnitsHeld
    <2> QED BY <1>2, <2>1, UnitsLeave
  <1>3. CASE CoordinationNext \/ UNCHANGED vars
    <2>1. UNCHANGED <<resources, reservations>>
      BY ZenonT(60), <1>3 DEF CoordinationNext, Claim, Renew, Checkpoint, Release, RecoveryResolution,
         RegisterCheckout, Unblock, Archive, Restore, Delete, CompleteTaskExternally, EditTask,
         Cancel, UpdatePolicy, ArchiveProject, RestoreProject, CloseSession, RevokeCredential,
         DecisionChanges, Tick, vars, jobVars
    <2> QED BY <1>1, <2>1
  <1>4. ASSUME NEW r \in Resources, NEW capacity \in Capacities, CreateResource(r, capacity)
        PROVE  UnitsInv'
    <2>1. reservations' = reservations /\ DOMAIN resources' = DOMAIN resources \cup {r}
          /\ \A q \in DOMAIN resources : resources'[q] = resources[q]
      BY <1>4 DEF CreateResource, Insert
    <2>2. \A q \in DOMAIN resources : resources[q] \in Nat
      BY DEF TypeOK
    <2> QED BY <1>0, <1>2, <2>1, <2>2
  <1>5. ASSUME NEW r \in Resources, NEW capacity \in Capacities, UpdateResource(r, capacity)
        PROVE  UnitsInv'
    <2>1. /\ reservations' = reservations /\ DOMAIN resources' = DOMAIN resources
          /\ resources'[r] = capacity /\ capacity >= HeldUnits(r)
          /\ \A q \in DOMAIN resources \ {r} : resources'[q] = resources[q]
      BY <1>5 DEF UpdateResource, TypeOK
    <2>2. \A q \in DOMAIN resources : resources[q] \in Nat
      BY DEF TypeOK
    <2> QED BY <1>0, <1>2, <2>1, <2>2
  <1>6. ASSUME NEW r \in Resources, DeleteResource(r) PROVE UnitsInv'
    <2>1. /\ reservations' = reservations /\ DOMAIN resources' = DOMAIN resources \ {r}
          /\ \A q \in DOMAIN resources \ {r} : resources'[q] = resources[q]
      BY <1>6 DEF DeleteResource
    <2>2. \A q \in DOMAIN resources : resources[q] \in Nat
      BY DEF TypeOK
    <2>3. UnitsHeld(r) = {}
      BY <1>6 DEF DeleteResource, UnitsHeld
    <2> QED BY <1>0, <1>2, <2>1, <2>2, <2>3
  <1>7. ASSUME NEW s \in Sessions, NEW a \in DOMAIN attempts, NEW v \in ReservationIds,
               NEW items \in Requests, CreateReservation(s, a, v, items)
        PROVE  UnitsInv'
    BY <1>7, UnitsTaken
  <1>8. ASSUME NEW v \in DOMAIN reservations, NEW state \in {"released", "resolved"},
               reservations' = [reservations EXCEPT ![v].state = state], resources' = resources
        PROVE  UnitsInv'
    <2>1. \A r \in Resources : UnitsHeld(r)' \subseteq UnitsHeld(r)
      BY <1>8, UnitsReturned
    <2>2. \A r \in Resources : r \in DOMAIN resources => resources[r] \in Nat
      BY DEF TypeOK
    <2> QED BY <1>0, <1>8, <2>1, <2>2, UnitsLeave
  <1>9. ASSUME NEW s \in Sessions, NEW a \in DOMAIN attempts, NEW v \in DOMAIN reservations,
               ReleaseReservation(s, a, v)
        PROVE  UnitsInv'
    BY <1>8, <1>9 DEF ReleaseReservation
  <1>10. ASSUME NEW v \in DOMAIN reservations, ResolveReservation(v) PROVE UnitsInv'
    BY <1>8, <1>10 DEF ResolveReservation
  <1>11. CASE \/ \E s \in Sessions, a \in DOMAIN attempts, v \in DOMAIN reservations,
                    j \in JobIds, window \in RenewWindows : RegisterJob(s, a, v, j, window)
              \/ \E j \in DOMAIN jobs, state \in JobStates, process \in BOOLEAN :
                    Observe(j, state, process)
              \/ \E j \in DOMAIN jobs : ReporterRenew(j)
    <2>1. UNCHANGED <<resources, reservations>>
      BY <1>11 DEF RegisterJob, Observe, ReporterRenew
    <2> QED BY <1>1, <2>1
  <1> QED BY <1>3, <1>4, <1>5, <1>6, <1>7, <1>9, <1>10, <1>11 DEF Next, JobsNext

---------------------------------------------------------------------------
(* What a step does to the attempts table: it is a history.  Ended attempts are *)
(* frozen, evidence is written once and only by a recovery that established it, *)
(* a checkout is taken by one attempt at a time, and a new attempt comes after  *)
(* every earlier one of its task.                                               *)

Latest(p, t) ==
  /\ attempts[p].task = t
  /\ \A q \in DOMAIN attempts : attempts[q].task = t =>
       attempts[q].generation <= attempts[p].generation

RowStep(a) ==
  /\ a \in DOMAIN attempts'
  /\ attempts'[a].task = attempts[a].task
  /\ attempts'[a].generation = attempts[a].generation
  /\ attempts[a].state # "active" => attempts'[a] = attempts[a]
  /\ attempts'[a].mode = "recovery" => attempts[a].mode = "recovery"
  /\ <<attempts'[a].evidence, attempts'[a].base>> # <<attempts[a].evidence, attempts[a].base>> =>
       /\ attempts[a].mode = "recovery"
       /\ \E attested \in BOOLEAN :
            Establishes(a, attempts'[a].base, attested, attempts'[a].evidence)
  /\ attempts'[a].checkout # attempts[a].checkout =>
       /\ ~CheckoutTaken(a, attempts'[a].checkout)
       /\ \A b \in DOMAIN attempts \ {a} : attempts'[b] = attempts[b]

NewRow(a) ==
  /\ attempts'[a].evidence = "none" /\ attempts'[a].checkout = None
  /\ \A b \in DOMAIN attempts : attempts[b].task = attempts'[a].task =>
       attempts[b].generation < attempts'[a].generation
  /\ attempts'[a].mode = "recovery" =>
       \E p \in DOMAIN attempts : Latest(p, attempts'[a].task) /\ attempts'[p].state = "expired"

HistoryStep ==
  /\ \A a \in DOMAIN attempts : RowStep(a)
  /\ \A a \in DOMAIN attempts' \ DOMAIN attempts : NewRow(a)
  /\ \A a, b \in DOMAIN attempts' \ DOMAIN attempts : a = b

\* A claim ends the attempt it supersedes, and comes after it.
LEMMA ClaimHistory ==
  ASSUME TypeOK, OwnerInv, NEW s \in Sessions, NEW t \in Tasks, NEW a \in AttemptIds,
         NEW mode \in {"work", "recovery"}, Claim(s, t, a, mode)
  PROVE  HistoryStep
  <1> DEFINE row == NewAttempt(s, t, mode)
  <1>1. /\ row.task = t /\ row.generation = tasks[t].generation + 1 /\ row.mode = mode
        /\ row.evidence = "none" /\ row.checkout = None
    BY DEF NewAttempt
  <1>2. /\ DOMAIN attempts' = DOMAIN attempts \cup {a} /\ a \notin DOMAIN attempts
        /\ attempts'[a] = row
        /\ \A b \in DOMAIN attempts :
             attempts'[b] = IF b = tasks[t].current /\ attempts[b].state = "active"
                            THEN [attempts[b] EXCEPT !.state = "expired"]
                            ELSE attempts[b]
    BY DEF Claim, Insert, Superseded
  <1>3. \A b \in DOMAIN attempts : attempts[b] \in AttemptRow
    BY RowType
  <1>4. \A b \in DOMAIN attempts : RowStep(b)
    BY <1>2, <1>3 DEF RowStep, AttemptRow
  <1>5. tasks[t].generation \in Nat
    BY DEF TypeOK, TaskRow
  <1>6. \A b \in DOMAIN attempts : attempts[b].task = t =>
          attempts[b].generation \in Nat /\ attempts[b].generation <= tasks[t].generation
    BY <1>3 DEF OwnerInv, CurrentOwner, AttemptRow
  <1>7. ASSUME mode = "recovery"
        PROVE  \E p \in DOMAIN attempts : Latest(p, t) /\ attempts'[p].state = "expired"
    <2>1. tasks[t].current # None
      <3>1. Status(t) = "recovery_required"
        BY <1>7 DEF Claim, MayClaim
      <3>2. tasks[t].lifecycle # "recovery_required"
        BY DEF TypeOK, TaskRow, Lifecycles
      <3> QED BY <3>1, <3>2 DEF Status
    <2> DEFINE p == tasks[t].current
    <2>2. /\ p \in DOMAIN attempts /\ attempts[p].task = t /\ attempts[p].state = "active"
          /\ attempts[p].generation = tasks[t].generation
      BY <2>1 DEF OwnerInv, CurrentOwner
    <2>3. attempts'[p].state = "expired"
      BY <1>2, <1>3, <2>2 DEF AttemptRow
    <2>4. Latest(p, t)
      BY <1>6, <2>2 DEF Latest
    <2> QED BY <2>2, <2>3, <2>4
  <1>8. NewRow(a)
    BY <1>1, <1>2, <1>5, <1>6, <1>7 DEF NewRow
  <1> QED BY <1>2, <1>4, <1>8 DEF HistoryStep

\* The writes to one attempt's row.
LEMMA WriteHistory ==
  ASSUME NEW a \in DOMAIN attempts, DOMAIN attempts' = DOMAIN attempts,
         \A b \in DOMAIN attempts \ {a} : attempts'[b] = attempts[b], RowStep(a)
  PROVE  HistoryStep
  BY DEF HistoryStep, RowStep

LEMMA AttemptHistory ==
  ASSUME TypeOK, NEW s \in Sessions, NEW a \in DOMAIN attempts,
         \/ Renew(s, a)
         \/ \E rev \in Revisions \cup {None} : Checkpoint(s, a, rev)
         \/ \E blocked \in BOOLEAN : Release(s, a, blocked)
         \/ \E fetched \in Revisions \cup {None}, attested \in BOOLEAN,
               label \in {"service_verified", "local_attestation"} :
              RecoveryResolution(s, a, fetched, attested, label)
         \/ \E c \in Checkouts : RegisterCheckout(s, a, c)
  PROVE  HistoryStep
  <1>0. attempts[a] \in AttemptRow
    BY RowType
  <1>1. CASE Renew(s, a)
    <2>1. /\ DOMAIN attempts' = DOMAIN attempts
          /\ \A b \in DOMAIN attempts \ {a} : attempts'[b] = attempts[b]
      BY <1>1 DEF Renew
    <2>2. RowStep(a)
      BY <1>0, <1>1 DEF Renew, Owned, LiveAttempt, RowStep, AttemptRow
    <2> QED BY <2>1, <2>2, WriteHistory
  <1>2. ASSUME NEW rev \in Revisions \cup {None}, Checkpoint(s, a, rev) PROVE HistoryStep
    <2>1. /\ DOMAIN attempts' = DOMAIN attempts
          /\ \A b \in DOMAIN attempts \ {a} : attempts'[b] = attempts[b]
      BY <1>2 DEF Checkpoint
    <2>2. RowStep(a)
      BY <1>0, <1>2 DEF Checkpoint, Owned, LiveAttempt, RowStep, AttemptRow
    <2> QED BY <2>1, <2>2, WriteHistory
  <1>3. ASSUME NEW blocked \in BOOLEAN, Release(s, a, blocked) PROVE HistoryStep
    <2>1. /\ DOMAIN attempts' = DOMAIN attempts
          /\ \A b \in DOMAIN attempts \ {a} : attempts'[b] = attempts[b]
      BY <1>3 DEF Release
    <2>2. RowStep(a)
      BY <1>0, <1>3 DEF Release, Owned, LiveAttempt, RowStep, AttemptRow
    <2> QED BY <2>1, <2>2, WriteHistory
  <1>4. ASSUME NEW fetched \in Revisions \cup {None}, NEW attested \in BOOLEAN,
               NEW label \in {"service_verified", "local_attestation"},
               RecoveryResolution(s, a, fetched, attested, label)
        PROVE  HistoryStep
    <2>1. /\ DOMAIN attempts' = DOMAIN attempts
          /\ \A b \in DOMAIN attempts \ {a} : attempts'[b] = attempts[b]
      BY <1>4 DEF RecoveryResolution
    <2>2. /\ attempts'[a] = [attempts[a] EXCEPT !.mode = "work", !.revision = None,
                                                !.evidence = label, !.base = fetched]
          /\ attempts[a].state = "active" /\ attempts[a].mode = "recovery"
          /\ Establishes(a, fetched, attested, label)
      BY <1>4 DEF RecoveryResolution, Owned, LiveAttempt
    <2>3. /\ attempts'[a].evidence = label /\ attempts'[a].base = fetched
          /\ attempts'[a].mode = "work"
          /\ attempts'[a].checkout = attempts[a].checkout
          /\ attempts'[a].task = attempts[a].task
          /\ attempts'[a].generation = attempts[a].generation
      BY <1>0, <2>2 DEF AttemptRow
    <2>4. RowStep(a)
      BY <2>1, <2>2, <2>3 DEF RowStep
    <2> QED BY <2>1, <2>4, WriteHistory
  <1>5. ASSUME NEW c \in Checkouts, RegisterCheckout(s, a, c) PROVE HistoryStep
    <2>1. /\ DOMAIN attempts' = DOMAIN attempts
          /\ \A b \in DOMAIN attempts \ {a} : attempts'[b] = attempts[b]
      BY <1>5 DEF RegisterCheckout
    <2>2. /\ attempts'[a] = [attempts[a] EXCEPT !.checkout = c]
          /\ attempts[a].state = "active" /\ ~CheckoutTaken(a, c)
      BY <1>5 DEF RegisterCheckout, Owned, LiveAttempt
    <2>3. RowStep(a)
      BY <1>0, <2>1, <2>2 DEF RowStep, AttemptRow
    <2> QED BY <2>1, <2>3, WriteHistory
  <1> QED BY <1>1, <1>2, <1>3, <1>4, <1>5

LEMMA NextHistory ==
  ASSUME TypeOK, OwnerInv, [Next]_vars
  PROVE  HistoryStep
  <1>1. ASSUME attempts' = attempts PROVE HistoryStep
    BY <1>1 DEF HistoryStep, RowStep
  <1>2. ASSUME NEW j \in DOMAIN jobs, ReporterRenew(j) PROVE HistoryStep
    <2> DEFINE a == jobs[j].attempt
    <2>1. a \in DOMAIN attempts /\ attempts[a] \in AttemptRow
      BY ReferencesType, RowType
    <2>2. /\ DOMAIN attempts' = DOMAIN attempts
          /\ \A b \in DOMAIN attempts \ {a} : attempts'[b] = attempts[b]
          /\ attempts[a].state = "active"
      BY <1>2 DEF ReporterRenew, ReporterCanRenew, Owned, LiveAttempt
    <2>3. RowStep(a)
      BY <1>2, <2>1, <2>2 DEF ReporterRenew, RowStep, AttemptRow
    <2> QED BY <2>1, <2>2, <2>3, WriteHistory
  <1>3. CASE TaskOperation \/ EnvironmentStep \/ UNCHANGED vars
    <2>1. attempts' = attempts
      BY <1>3 DEF TaskOperation, Unblock, Archive, Restore, Delete, CompleteTaskExternally,
         EditTask, Cancel, EnvironmentStep, UpdatePolicy, ArchiveProject, RestoreProject,
         CloseSession, RevokeCredential, DecisionChanges, Tick, vars
    <2> QED BY <1>1, <2>1
  <1>4. CASE JobsNext
    <2>1. attempts' = attempts \/ \E j \in DOMAIN jobs : ReporterRenew(j)
      BY <1>4 DEF JobsNext, CreateResource, UpdateResource, DeleteResource,
         CreateReservation, ReleaseReservation, ResolveReservation, RegisterJob, Observe
    <2> QED BY <1>1, <1>2, <2>1
  <1>5. CASE CoordinationNext
    <2>1. CASE \E s \in Sessions, t \in Tasks, a \in AttemptIds, mode \in {"work", "recovery"} :
                 Claim(s, t, a, mode)
      BY <2>1, ClaimHistory
    <2>2. CASE \E s \in Sessions, a \in DOMAIN attempts :
                 \/ Renew(s, a)
                 \/ \E rev \in Revisions \cup {None} : Checkpoint(s, a, rev)
                 \/ \E blocked \in BOOLEAN : Release(s, a, blocked)
                 \/ \E fetched \in Revisions \cup {None}, attested \in BOOLEAN,
                       label \in {"service_verified", "local_attestation"} :
                      RecoveryResolution(s, a, fetched, attested, label)
                 \/ \E c \in Checkouts : RegisterCheckout(s, a, c)
      BY <2>2, AttemptHistory
    <2>3. CASE TaskOperation \/ EnvironmentStep
      BY <1>3, <2>3
    <2> QED BY <1>5, <2>1, <2>2, <2>3 DEF CoordinationNext, TaskOperation, EnvironmentStep
  <1> QED BY <1>3, <1>4, <1>5 DEF Next

---------------------------------------------------------------------------
(* Checkouts: one that is in use afterwards was so before, but for one attempt *)
(* whose new checkout nobody used.                                             *)

LEMMA NextCheckouts ==
  TypeOK /\ OwnerInv /\ CheckoutExclusive /\ [Next]_vars => CheckoutExclusive'
  <1> SUFFICES ASSUME TypeOK, OwnerInv, CheckoutExclusive, [Next]_vars,
                      NEW a \in DOMAIN attempts', NEW b \in DOMAIN attempts', a # b,
                      attempts'[a].state \in {"active", "expired"},
                      attempts'[b].state \in {"active", "expired"},
                      attempts'[a].checkout # None,
                      attempts'[a].checkout = attempts'[b].checkout
               PROVE  FALSE
    BY DEF CheckoutExclusive
  <1>1. HistoryStep
    BY NextHistory
  <1>2. a \in DOMAIN attempts /\ b \in DOMAIN attempts
    BY <1>1 DEF HistoryStep, NewRow
  <1>3. /\ attempts[a].state \in {"active", "expired"}
        /\ attempts[b].state \in {"active", "expired"}
    BY <1>1, <1>2 DEF HistoryStep, RowStep
  <1>4. CASE /\ attempts'[a].checkout = attempts[a].checkout
             /\ attempts'[b].checkout = attempts[b].checkout
    BY <1>2, <1>3, <1>4 DEF CheckoutExclusive
  <1>5. CASE attempts'[a].checkout # attempts[a].checkout
    BY <1>1, <1>2, <1>3, <1>5 DEF HistoryStep, RowStep, CheckoutTaken
  <1>6. CASE attempts'[b].checkout # attempts[b].checkout
    BY <1>1, <1>2, <1>3, <1>6 DEF HistoryStep, RowStep, CheckoutTaken
  <1> QED BY <1>4, <1>5, <1>6

---------------------------------------------------------------------------
(* Recovery evidence.  What a recovery rests on is the record of an attempt that *)
(* has ended, so it never changes.                                               *)

\* Whoever is still recovering inspects work that has ended.
RecoveryInv ==
  /\ RecoveryEvidence
  /\ \A a \in DOMAIN attempts : attempts[a].mode = "recovery" =>
       \A p \in Predecessors(a) : attempts[p].state = "expired"

\* The attempt before a given one is settled when that one is created.
LEMMA PredecessorsStay ==
  ASSUME TypeOK, TypeOK', HistoryStep, NEW a \in DOMAIN attempts
  PROVE  Predecessors(a)' = Predecessors(a)
  <1> DEFINE Earlier == {p \in DOMAIN attempts : /\ attempts[p].task = attempts[a].task
                                                 /\ attempts[p].generation < attempts[a].generation}
  <1>1. \A b \in DOMAIN attempts : /\ b \in DOMAIN attempts'
                                   /\ attempts'[b].task = attempts[b].task
                                   /\ attempts'[b].generation = attempts[b].generation
    BY DEF HistoryStep, RowStep
  <1>2. ASSUME NEW p \in DOMAIN attempts' \ DOMAIN attempts,
               attempts'[p].task = attempts[a].task,
               attempts'[p].generation < attempts[a].generation
        PROVE  FALSE
    <2>1. attempts[a].generation < attempts'[p].generation
      BY <1>2 DEF HistoryStep, NewRow
    <2>2. attempts[a].generation \in Nat /\ attempts'[p].generation \in Nat
      BY DEF TypeOK, AttemptRow
    <2> QED BY <1>2, <2>1, <2>2
  <1>3. Earlier' = Earlier
    BY <1>1, <1>2
  <1>4. \A p \in Earlier : attempts'[p].generation = attempts[p].generation
    BY <1>1
  <1>5. Predecessors(a) = {p \in Earlier : \A q \in Earlier :
                             attempts[q].generation <= attempts[p].generation}
    BY DEF Predecessors
  <1>6. Predecessors(a)' = {p \in Earlier' : \A q \in Earlier' :
                              attempts'[q].generation <= attempts'[p].generation}
    BY DEF Predecessors
  <1> HIDE DEF Earlier
  <1> QED BY <1>3, <1>4, <1>5, <1>6

LEMMA NextRecovery ==
  TypeOK /\ TypeOK' /\ OwnerInv /\ OwnerInv' /\ RecoveryInv /\ [Next]_vars => RecoveryInv'
  <1> SUFFICES ASSUME TypeOK, TypeOK', OwnerInv, OwnerInv', RecoveryInv, [Next]_vars
               PROVE  RecoveryInv'
    OBVIOUS
  <1>1. HistoryStep
    BY NextHistory
  <1>2. \A a \in DOMAIN attempts : Predecessors(a)' = Predecessors(a)
    BY <1>1, PredecessorsStay
  <1>3. \A a \in DOMAIN attempts : \A p \in Predecessors(a) :
          p \in DOMAIN attempts /\ (attempts[p].state = "expired" => attempts'[p] = attempts[p])
    BY <1>1 DEF HistoryStep, RowStep, Predecessors
  <1>4. ASSUME NEW a \in DOMAIN attempts, attempts'[a].mode = "recovery",
               NEW p \in Predecessors(a)'
        PROVE  attempts'[p].state = "expired"
    BY <1>1, <1>2, <1>3, <1>4 DEF HistoryStep, RowStep, RecoveryInv
  <1>5. ASSUME NEW a \in DOMAIN attempts' \ DOMAIN attempts, attempts'[a].mode = "recovery",
               NEW p \in Predecessors(a)'
        PROVE  attempts'[p].state = "expired"
    <2>1. PICK k \in DOMAIN attempts : Latest(k, attempts'[a].task) /\ attempts'[k].state = "expired"
      BY <1>1, <1>5 DEF HistoryStep, NewRow
    <2>2. /\ p \in DOMAIN attempts' /\ attempts'[p].task = attempts'[a].task
          /\ attempts'[p].generation < attempts'[a].generation
          /\ \A q \in DOMAIN attempts' :
               /\ attempts'[q].task = attempts'[a].task
               /\ attempts'[q].generation < attempts'[a].generation
               => attempts'[q].generation <= attempts'[p].generation
      BY DEF Predecessors
    <2>3. \A q \in DOMAIN attempts' : attempts'[q].generation \in Nat
      BY DEF TypeOK, AttemptRow
    <2>4. p \in DOMAIN attempts
      BY <1>1, <2>2, <2>3 DEF HistoryStep
    <2>5. /\ attempts'[k].task = attempts'[a].task
          /\ attempts'[k].generation < attempts'[a].generation
      BY <1>1, <2>1 DEF HistoryStep, RowStep, NewRow, Latest
    <2>6. attempts'[p].generation <= attempts'[k].generation
      BY <1>1, <2>1, <2>2, <2>4 DEF HistoryStep, RowStep, Latest
    <2>7. attempts'[k].generation <= attempts'[p].generation
      BY <1>1, <2>2, <2>5 DEF HistoryStep, RowStep
    <2>8. attempts'[p].generation = attempts'[k].generation
      BY <1>1, <2>1, <2>3, <2>4, <2>6, <2>7 DEF HistoryStep, RowStep
    <2>9. p = k
      BY <1>1, <2>1, <2>2, <2>5, <2>8 DEF OwnerInv, CurrentOwner, HistoryStep, RowStep
    <2> QED BY <2>1, <2>9
  <1>6. ASSUME NEW a \in DOMAIN attempts', attempts'[a].evidence = "service_verified"
        PROVE  \E p \in Predecessors(a)' : /\ attempts'[p].state = "expired"
                                           /\ attempts'[p].revision # None
                                           /\ attempts'[a].base = attempts'[p].revision
    <2>1. a \in DOMAIN attempts
      BY <1>1, <1>6 DEF HistoryStep, NewRow
    <2>2. \E p \in Predecessors(a) : /\ attempts[p].state = "expired"
                                     /\ attempts[p].revision # None
                                     /\ attempts'[a].base = attempts[p].revision
      <3>1. CASE /\ attempts'[a].evidence = attempts[a].evidence
                 /\ attempts'[a].base = attempts[a].base
        BY <1>6, <2>1, <3>1 DEF RecoveryInv, RecoveryEvidence
      <3>2. CASE ~(/\ attempts'[a].evidence = attempts[a].evidence
                   /\ attempts'[a].base = attempts[a].base)
        <4>1. \E attested \in BOOLEAN : Establishes(a, attempts'[a].base, attested, "service_verified")
          BY <1>1, <1>6, <2>1, <3>2 DEF HistoryStep, RowStep
        <4> QED BY <4>1 DEF Establishes
      <3> QED BY <3>1, <3>2
    <2> QED BY <1>2, <1>3, <2>1, <2>2
  <1>7. ASSUME NEW a \in DOMAIN attempts', attempts'[a].evidence = "local_attestation",
               NEW p \in Predecessors(a)'
        PROVE  attempts'[p].state = "expired" /\ attempts'[p].revision = None
    <2>1. a \in DOMAIN attempts /\ p \in Predecessors(a)
      BY <1>1, <1>2, <1>7 DEF HistoryStep, NewRow
    <2>2. attempts[p].state = "expired" /\ attempts[p].revision = None
      <3>1. CASE /\ attempts'[a].evidence = attempts[a].evidence
                 /\ attempts'[a].base = attempts[a].base
        BY <1>7, <2>1, <3>1 DEF RecoveryInv, RecoveryEvidence
      <3>2. CASE ~(/\ attempts'[a].evidence = attempts[a].evidence
                   /\ attempts'[a].base = attempts[a].base)
        <4>1. /\ attempts[a].mode = "recovery"
              /\ \E attested \in BOOLEAN :
                   Establishes(a, attempts'[a].base, attested, "local_attestation")
          BY <1>1, <1>7, <2>1, <3>2 DEF HistoryStep, RowStep
        <4> QED BY <2>1, <4>1 DEF Establishes, RecoveryInv
      <3> QED BY <3>1, <3>2
    <2> QED BY <1>3, <2>1, <2>2
  <1> QED BY <1>4, <1>5, <1>6, <1>7 DEF RecoveryInv, RecoveryEvidence

---------------------------------------------------------------------------
(* Results.                                                                 *)

\* A producer somebody saw running is never reported as not started.
LaunchedStarted == \A j \in DOMAIN jobs : jobs[j].launched => jobs[j].state # "not_started"

\* What one step does to one job's row.
JobStep(j) ==
  /\ j \in DOMAIN jobs'
  /\ jobs[j].state \in Finished => jobs'[j].state = jobs[j].state
  /\ jobs[j].launched => jobs'[j].launched
  /\ (jobs[j].launched => jobs[j].state # "not_started") =>
       (jobs'[j].launched => jobs'[j].state # "not_started")

LEMMA NextResults ==
  ASSUME TypeOK, [Next]_vars
  PROVE  /\ \A j \in DOMAIN jobs : JobStep(j)
         /\ \A j \in DOMAIN jobs' \ DOMAIN jobs : ~jobs'[j].launched
  <1> DEFINE Goal == /\ \A j \in DOMAIN jobs : JobStep(j)
                     /\ \A j \in DOMAIN jobs' \ DOMAIN jobs : ~jobs'[j].launched
  <1> SUFFICES Goal
    OBVIOUS
  <1>0. \A j \in DOMAIN jobs : jobs[j] \in JobRow
    BY DEF TypeOK
  <1>1. ASSUME jobs' = jobs PROVE Goal
    BY <1>1 DEF JobStep
  <1>2. ASSUME NEW s \in Sessions, NEW a \in DOMAIN attempts, NEW v \in DOMAIN reservations,
               NEW j \in JobIds, NEW window \in RenewWindows, RegisterJob(s, a, v, j, window)
        PROVE  Goal
    <2>1. /\ DOMAIN jobs' = DOMAIN jobs \cup {j} /\ j \notin DOMAIN jobs
          /\ jobs'[j] = NewJob(a, v, window)
          /\ \A k \in DOMAIN jobs : jobs'[k] = jobs[k]
      BY <1>2 DEF RegisterJob, Insert
    <2>2. ~NewJob(a, v, window).launched
      BY DEF NewJob
    <2> QED BY <2>1, <2>2 DEF JobStep
  <1>3. ASSUME NEW j \in DOMAIN jobs, NEW state \in JobStates, NEW process \in BOOLEAN,
               Observe(j, state, process)
        PROVE  Goal
    <2>1. /\ DOMAIN jobs' = DOMAIN jobs
          /\ jobs'[j] = Observed(j, state, process)
          /\ \A k \in DOMAIN jobs \ {j} : jobs'[k] = jobs[k]
      BY <1>3 DEF Observe
    <2>2. jobs[j] \in JobRow /\ jobs[j].launched \in BOOLEAN
      BY <1>0 DEF JobRow
    <2>3. /\ Observed(j, state, process).state = state
          /\ Observed(j, state, process).launched = (jobs[j].launched \/ process \/ state = "running")
      BY <2>2 DEF Observed, JobRow
    <2>4. /\ jobs[j].state \notin Finished
          /\ state = "not_started" => ~process /\ ~jobs[j].launched
      BY <1>3 DEF Observe, MayObserve
    <2>5. JobStep(j)
      BY <2>1, <2>2, <2>3, <2>4 DEF JobStep
    <2> QED BY <2>1, <2>5 DEF JobStep
  <1>4. ASSUME NEW v \in DOMAIN reservations, ResolveReservation(v) PROVE Goal
    <2>1. /\ DOMAIN jobs' = DOMAIN jobs
          /\ \A j \in DOMAIN jobs : /\ jobs'[j].state = jobs[j].state
                                    /\ jobs'[j].launched = jobs[j].launched
      BY <1>0, <1>4 DEF ResolveReservation, JobRow
    <2> QED BY <2>1 DEF JobStep
  <1>5. CASE CoordinationNext \/ UNCHANGED vars
    <2>1. jobs' = jobs
      BY ZenonT(60), <1>5 DEF CoordinationNext, Claim, Renew, Checkpoint, Release, RecoveryResolution,
         RegisterCheckout, Unblock, Archive, Restore, Delete, CompleteTaskExternally, EditTask,
         Cancel, UpdatePolicy, ArchiveProject, RestoreProject, CloseSession, RevokeCredential,
         DecisionChanges, Tick, vars, jobVars
    <2> QED BY <1>1, <2>1
  <1>6. CASE JobsNext
    <2>1. \/ jobs' = jobs
          \/ \E s \in Sessions, a \in DOMAIN attempts, v \in DOMAIN reservations, j \in JobIds,
                window \in RenewWindows : RegisterJob(s, a, v, j, window)
          \/ \E j \in DOMAIN jobs, state \in JobStates, process \in BOOLEAN :
                Observe(j, state, process)
          \/ \E v \in DOMAIN reservations : ResolveReservation(v)
      BY <1>6 DEF JobsNext, CreateResource, UpdateResource, DeleteResource,
         CreateReservation, ReleaseReservation, ReporterRenew
    <2> HIDE DEF Goal
    <2> QED BY <1>1, <1>2, <1>3, <1>4, <2>1
  <1> QED BY <1>5, <1>6 DEF Next

---------------------------------------------------------------------------
(* The theorems.                                                            *)

LEMMA OwnerInvariant == Spec => []OwnerInv
  BY InitOwner, NextOwner, TypeCorrect, PTL DEF Spec

\* No resource is overbooked and no checkout is edited twice, for any number of
\* attempts, resources and units (reserve, update_resource, register_checkout).
THEOREM SharingIsSound == Spec => []SharingSound
  <1>1. Init => UnitsInv /\ CheckoutExclusive
    <2> SUFFICES ASSUME Init PROVE UnitsInv /\ CheckoutExclusive
      OBVIOUS
    <2>1. DOMAIN reservations = {} /\ DOMAIN attempts = {}
      BY DEF Init
    <2>2. \A r \in Resources : UnitsHeld(r) = {}
      BY <2>1 DEF UnitsHeld
    <2>3. IsFiniteSet({}) /\ Cardinality({}) = 0
      BY FS_EmptySet
    <2>4. \A r \in Resources : IsFiniteSet(UnitsHeld(r)) /\ HeldUnits(r) = 0
      BY <2>2, <2>3 DEF HeldUnits
    <2>5. UnitsInv
      BY <2>4 DEF UnitsInv, CapacityRespected
    <2> QED BY <2>1, <2>5 DEF CheckoutExclusive
  <1>2. UnitsInv /\ CheckoutExclusive => SharingSound
    BY DEF UnitsInv, SharingSound
  <1> QED BY <1>1, <1>2, NextUnits, NextCheckouts, TypeCorrect, OwnerInvariant, PTL DEF Spec

\* A resolved recovery is labelled verified exactly when the expired attempt it
\* superseded had recorded a commit, for any number of attempts: the attempt before a
\* given one is fixed when that one is claimed, and frozen once it has expired
\* (recovery.rs, establish; coordination.rs, claim).
THEOREM RecoveriesRestOnEvidence == Spec => []RecoveryEvidence
  <1>1. Init => RecoveryInv
    <2>1. Init => DOMAIN attempts = {}
      BY DEF Init
    <2> QED BY <2>1 DEF RecoveryInv, RecoveryEvidence
  <1>2. RecoveryInv => RecoveryEvidence
    BY DEF RecoveryInv
  <1> QED BY <1>1, <1>2, NextRecovery, TypeCorrect, OwnerInvariant, PTL DEF Spec

\* A recorded terminal result is never overwritten, and evidence of a launch is never
\* replaced by not_started (jobs.rs, observe).
THEOREM ResultsStand == Spec => ResultStands
  <1>1. Init => LaunchedStarted
    <2>1. Init => DOMAIN jobs = {}
      BY DEF Init
    <2> QED BY <2>1 DEF LaunchedStarted
  <1>2. TypeOK /\ LaunchedStarted /\ [Next]_vars => LaunchedStarted'
    BY NextResults DEF LaunchedStarted, JobStep
  <1>3. TypeOK /\ LaunchedStarted /\ [Next]_vars =>
          [\A j \in DOMAIN jobs :
             /\ jobs[j].state \in Finished => jobs'[j].state = jobs[j].state
             /\ jobs[j].launched => jobs'[j].launched /\ jobs'[j].state # "not_started"]_vars
    BY NextResults DEF LaunchedStarted, JobStep
  <1> QED BY <1>1, <1>2, <1>3, TypeCorrect, PTL DEF Spec, ResultStands
=============================================================================
