------------------------------ MODULE ServiceClock ------------------------------
(***************************************************************************)
(* Service time (crates/server/src/state.rs).  Deadlines are compared with  *)
(* a time that never goes back: the largest of the wall clock, the durable   *)
(* high-water mark and the time the running process has counted itself.     *)
(*                                                                         *)
(* A step that reads the time samples it under SQLite's writer lock.  What   *)
(* the sample learned stays in the process whether or not the transaction    *)
(* commits; the durable mark moves only with a commit.                       *)
(***************************************************************************)
EXTENDS Integers

CONSTANTS
  Tolerance,   \* MATERIAL_CLOCK_ROLLBACK_MS
  Skews,       \* how far ahead of the true time the wall clock may be
  MaxElapsed   \* bound

ASSUME ClockAssumption ==
  /\ Tolerance \in Nat /\ MaxElapsed \in Nat
  /\ Skews \subseteq Nat

VARIABLES
  elapsed,   \* true time; nothing in the service reads it
  skew,      \* error of the wall clock
  runtime,   \* ClockRuntime: its anchor's lead over the true time; the process's own
             \* high-water mark never passes what it counts from the anchor
  stored,    \* clock_state.last_safe_time_ms
  paused,    \* clock_state.status = 'clock_reconciliation'
  incident   \* clock_state.incident_id, numbered

clockVars == <<elapsed, skew, runtime, stored, paused, incident>>

Later(a, b) == IF a >= b THEN a ELSE b

ClockTypeOK ==
  /\ {elapsed, stored, incident} \subseteq Nat
  /\ skew \in Skews /\ paused \in BOOLEAN
  /\ runtime \in Int

Started(time) == time - elapsed

ClockInit ==
  /\ skew \in Skews
  /\ elapsed = 0 /\ stored = 0 /\ incident = 0
  /\ paused = FALSE
  /\ runtime = 0

Raw == elapsed + skew

\* A process that remembers its anchor and does not count.
CountedNothing == runtime

\* The time the process has counted since its anchor.
Counted == elapsed + runtime

Expected == Later(Counted, stored)
Rollback == ~paused /\ Raw + Tolerance < Expected
SafeNow == Later(Expected, Raw)

\* The anchor moves only for a jump ahead of what the process counted.
Anchored == IF SafeNow > Counted THEN Started(SafeNow) ELSE runtime

\* A sample that records the wall clock.
CommitSampleRaw ==
  /\ stored' = Raw
  /\ paused' = (paused \/ Rollback)
  /\ incident' = IF Rollback THEN incident + 1 ELSE incident
  /\ runtime' = Anchored
  /\ UNCHANGED <<elapsed, skew>>

\* sample_clock in a transaction that commits, and in one that does not.
CommitSample ==
  /\ stored' = SafeNow
  /\ paused' = (paused \/ Rollback)
  /\ incident' = IF Rollback THEN incident + 1 ELSE incident
  /\ runtime' = Anchored
  /\ UNCHANGED <<elapsed, skew>>

AbandonSample ==
  /\ runtime' = Anchored
  /\ UNCHANGED <<elapsed, skew, stored, paused, incident>>

\* reconcile_clock by an administrator, for the incident its author read: the
\* wall clock must have caught up with everything the process has counted.
ReconcileClock(read) ==
  /\ paused /\ read = incident
  /\ Raw >= SafeNow
  /\ paused' = FALSE
  /\ stored' = Raw
  /\ runtime' = Started(Raw)
  /\ UNCHANGED <<elapsed, skew, incident>>

\* recover_clock, run on the host by a process of its own that starts from the
\* durable mark; the serving process keeps its view.
RecoverClock ==
  /\ paused
  /\ Raw >= stored
  /\ paused' = FALSE
  /\ stored' = Raw
  /\ UNCHANGED <<elapsed, skew, runtime, incident>>

\* open_internal: a new process starts from the durable mark.
OpenService ==
  /\ runtime' = Started(stored)
  /\ UNCHANGED <<elapsed, skew, stored, paused, incident>>

Elapse ==
  /\ elapsed < MaxElapsed
  /\ elapsed' = elapsed + 1
  /\ UNCHANGED <<skew, runtime, stored, paused, incident>>

StepWallClock(s) ==
  /\ s # skew
  /\ skew' = s
  /\ UNCHANGED <<elapsed, runtime, stored, paused, incident>>
=============================================================================
