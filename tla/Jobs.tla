---------------------------------- MODULE Jobs ----------------------------------
(***************************************************************************)
(* Shared resources, reservations and producer jobs                        *)
(* (crates/server/src/jobs.rs).  A producer is a process on the agent's    *)
(* workstation that may outlive the agent's session; its reporter writes   *)
(* observations and extends the lease with a credential of its own.        *)
(***************************************************************************)
EXTENDS CoordinatorState

coordinationVars == <<now, policy, projectArchived, sessions, tasks, decisions>>

---------------------------------------------------------------------------
(* Resources, changed by a human operator.                                  *)

CreateResource(r, capacity) ==
  /\ r \notin DOMAIN resources
  /\ resources' = Insert(resources, r, capacity)
  /\ UNCHANGED <<coordinationVars, attempts, reservations, jobs>>

\* A capacity change that forgets the units already held.
UpdateResourceBelowHolds(r, capacity) ==
  /\ r \in DOMAIN resources
  /\ resources' = [resources EXCEPT ![r] = capacity]
  /\ UNCHANGED <<coordinationVars, attempts, reservations, jobs>>

UpdateResource(r, capacity) ==
  /\ r \in DOMAIN resources
  /\ capacity >= HeldUnits(r)
  /\ resources' = [resources EXCEPT ![r] = capacity]
  /\ UNCHANGED <<coordinationVars, attempts, reservations, jobs>>

DeleteResource(r) ==
  /\ r \in DOMAIN resources
  /\ \A v \in DOMAIN reservations : reservations[v].items[r] = 0
  /\ resources' = [q \in DOMAIN resources \ {r} |-> resources[q]]
  /\ UNCHANGED <<coordinationVars, attempts, reservations, jobs>>

---------------------------------------------------------------------------
(* Reservations.                                                            *)

HeldBy(a) ==
  {v \in DOMAIN reservations : reservations[v].attempt = a /\ reservations[v].state = "held"}

\* All or nothing: every requested resource exists and has the units free.
Available(items) ==
  \A r \in Resources : items[r] > 0 => /\ r \in DOMAIN resources
                                       /\ HeldUnits(r) + items[r] <= resources[r]

CreateReservation(s, a, v, items) ==
  /\ Owned(s, a)
  /\ attempts[a].mode = "work"
  /\ HeldBy(a) = {}
  /\ Available(items)
  /\ v \notin DOMAIN reservations
  /\ reservations' = Insert(reservations, v,
                            [attempt |-> a, items |-> items, state |-> "held"])
  /\ UNCHANGED <<coordinationVars, attempts, resources, jobs>>

UnresolvedOn(v) == {j \in DOMAIN jobs : jobs[j].reservation = v /\ Unresolved(j)}

\* The owner of the task's current attempt a releases its own reservation, or a
\* predecessor's while it is recovering the task.
MayRelease(s, a, v) ==
  /\ Owned(s, a)
  /\ tasks[TaskOfReservation(v)].current = a
  /\ reservations[v].attempt = a \/ attempts[a].mode = "recovery"
  /\ reservations[v].state = "held"

\* A release that does not look for running producers.
ReleaseReservationUnchecked(s, a, v) ==
  /\ MayRelease(s, a, v)
  /\ reservations' = [reservations EXCEPT ![v].state = "released"]
  /\ UNCHANGED <<coordinationVars, attempts, resources, jobs>>

ReleaseReservation(s, a, v) ==
  /\ MayRelease(s, a, v)
  /\ UnresolvedOn(v) = {}
  /\ reservations' = [reservations EXCEPT ![v].state = "released"]
  /\ UNCHANGED <<coordinationVars, attempts, resources, jobs>>

\* A human vouches for the physical resource and every producer on it.
ResolveReservation(v) ==
  /\ reservations[v].state = "held"
  /\ jobs' = [j \in DOMAIN jobs |->
       IF j \in UnresolvedOn(v) THEN [jobs[j] EXCEPT !.reconciled = TRUE] ELSE jobs[j]]
  /\ reservations' = [reservations EXCEPT ![v].state = "resolved"]
  /\ UNCHANGED <<coordinationVars, attempts, resources>>

---------------------------------------------------------------------------
(* Jobs and their reporters.                                                *)

NewJob(a, v, window) ==
  [attempt |-> a, reservation |-> v, state |-> "registered", observed |-> FALSE,
   launched |-> FALSE, reconciled |-> FALSE, created |-> now, window |-> window]

RegisterJob(s, a, v, j, window) ==
  /\ Owned(s, a)
  /\ attempts[a].mode = "work"
  /\ s \in Agents
  /\ attempts[a].checkout # None
  /\ v \in HeldBy(a)
  /\ j \notin DOMAIN jobs
  /\ jobs' = Insert(jobs, j, NewJob(a, v, window))
  /\ UNCHANGED <<coordinationVars, attempts, resources, reservations>>

\* ReporterAuth::verify: the reporter outlives its session, not its credential.
ReporterValid(j) ==
  /\ jobs[j].created + ReporterLifetime > now
  /\ sessions[attempts[jobs[j].attempt].session] # "revoked"

\* Guards that forget that a terminal result is final.
MayObserveAfterTerminal(j, state, process) ==
  /\ ReporterValid(j)
  /\ state = "not_started" => ~process /\ ~jobs[j].launched
  /\ state = "registered" => ~jobs[j].observed

\* validate_observation and the guards of observe; process is whether the
\* observation carries a pid or a start time.
MayObserve(j, state, process) ==
  /\ ReporterValid(j)
  /\ jobs[j].state \notin Finished
  /\ state = "not_started" => ~process /\ ~jobs[j].launched
  /\ state = "registered" => ~jobs[j].observed

Observed(j, state, process) ==
  [jobs[j] EXCEPT !.state = state, !.observed = TRUE,
                  !.launched = @ \/ process \/ state = "running"]

\* An observation that trusts a fresh report over a human's reconciliation.
ObserveReopening(j, state, process) ==
  /\ MayObserve(j, state, process)
  /\ jobs' = [jobs EXCEPT ![j] = [Observed(j, state, process) EXCEPT !.reconciled = FALSE]]
  /\ UNCHANGED <<coordinationVars, attempts, resources, reservations>>

\* Redeliveries of an accepted sequence replay the recorded answer.
Observe(j, state, process) ==
  /\ MayObserve(j, state, process)
  /\ jobs' = [jobs EXCEPT ![j] = Observed(j, state, process)]
  /\ UNCHANGED <<coordinationVars, attempts, resources, reservations>>

RenewUntil(j) == jobs[j].created + jobs[j].window

ReporterCanRenew(j) ==
  /\ RenewUntil(j) > now
  /\ Owned(attempts[jobs[j].attempt].session, jobs[j].attempt)
  /\ attempts[jobs[j].attempt].mode = "work"
  /\ reservations[jobs[j].reservation].state = "held"
  /\ Unresolved(j)

\* A renewal that only asks whether the renewal window is open.
ReporterRenewUnfenced(j) ==
  LET a == jobs[j].attempt
      extension == Min({now + policy.lease, RenewUntil(j)})
  IN /\ ReporterValid(j)
     /\ RenewUntil(j) > now
     /\ MayExtend(a)
     /\ attempts' = [attempts EXCEPT
          ![a].expires = Max({@, Capped(extension, attempts[a].created)})]
     /\ UNCHANGED <<coordinationVars, resources, reservations, jobs>>

ReporterRenew(j) ==
  LET a == jobs[j].attempt
      extension == Min({now + policy.lease, RenewUntil(j)})
  IN /\ ReporterValid(j)
     /\ ReporterCanRenew(j)
     /\ MayExtend(a)
     /\ attempts' = [attempts EXCEPT
          ![a].expires = Max({@, Capped(extension, attempts[a].created)})]
     /\ UNCHANGED <<coordinationVars, resources, reservations, jobs>>

JobsNext ==
  \/ \E r \in Resources, capacity \in Capacities :
       CreateResource(r, capacity) \/ UpdateResource(r, capacity)
  \/ \E r \in Resources : DeleteResource(r)
  \/ \E s \in Sessions, a \in DOMAIN attempts, v \in ReservationIds, items \in Requests :
       CreateReservation(s, a, v, items)
  \/ \E s \in Sessions, a \in DOMAIN attempts, v \in DOMAIN reservations :
       ReleaseReservation(s, a, v)
  \/ \E v \in DOMAIN reservations : ResolveReservation(v)
  \/ \E s \in Sessions, a \in DOMAIN attempts, v \in DOMAIN reservations, j \in JobIds,
        window \in RenewWindows : RegisterJob(s, a, v, j, window)
  \/ \E j \in DOMAIN jobs, state \in JobStates, process \in BOOLEAN :
       Observe(j, state, process)
  \/ \E j \in DOMAIN jobs : ReporterRenew(j)
=============================================================================
