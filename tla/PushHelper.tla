----------------------------- MODULE PushHelper -----------------------------
(***************************************************************************)
(* launch-root (supervisor/push_helper.rs and push_helper/layout.rs): each   *)
(* implementer launch has a directory with a lock of its own, a helper that   *)
(* serves its pushes from it, and the launch itself.  Directories that a      *)
(* killed launch-root left behind are swept by the next one.  Several         *)
(* launch-roots run on a host, and any of them may be killed at any step.     *)
(***************************************************************************)
EXTENDS Naturals, FiniteSets

CONSTANTS
    Roots,         \* launch-root processes; each names its own directory
    MaxKills,      \* bound: launch-roots killed
    Nobody

VARIABLES
    doing,         \* what each launch-root does next
    sweeper,       \* who holds the .sweep lock
    listed,        \* directories the sweeper has still to judge
    stale,         \* the one it judged stale
    dir,           \* each directory: none, staging, placed or, half removed, bare
    lock,          \* its .lock: none, free or held
    helper,        \* its helper: off, starting, serving or told to stop
    lost,          \* history: directories removed under a live launch-root
    doomed,        \* history: what dead launch-roots had left when the sweep began
    kills

helperVars == <<doing, sweeper, listed, stale, dir, lock, helper, lost, doomed, kills>>

files == <<dir, lock, lost>>
sweep == <<sweeper, listed, stale, doomed>>

HelperInit ==
    /\ doing = [r \in Roots |-> "begin"]
    /\ sweeper = Nobody /\ listed = {} /\ stale = Nobody
    /\ dir = [r \in Roots |-> "none"] /\ lock = [r \in Roots |-> "none"]
    /\ helper = [r \in Roots |-> "off"]
    /\ lost = {} /\ doomed = {} /\ kills = 0

Goes(r, to) == doing' = [doing EXCEPT ![r] = to]

\* A launch-root that is gone, its locks with it.
Dead(r) == doing[r] \in {"ended", "killed"}

\* Its lock file is closed: the lock is held no more.
Released(r) == IF lock[r] = "held" THEN [lock EXCEPT ![r] = "free"] ELSE lock

\* A launch-root that still has use for its directory.
Lives(r) == doing[r] \notin {"begin", "remove", "ended", "killed"}

----------------------------------------------------------------------------
(* Sweeping and building, under the .sweep lock *)

\* Mutated form: the sweep lock keeps nobody out.
SweepLockShared(r) == sweeper' = r

\* sweep_lock waits for whoever is sweeping or building.
SweepLock(r) == sweeper = Nobody /\ sweeper' = r

\* Mutated form: a build without a lock is not recognised.
IsStaleByLock(d) == lock[d] = "free"

\* is_stale: an abandoned build, or a directory whose lock exists and is free.
IsStale(d) == dir[d] = "staging" \/ lock[d] = "free"

BeginSweep(r) ==
    /\ doing[r] = "begin"
    /\ SweepLock(r)
    /\ listed' = {d \in Roots : dir[d] # "none"}
    /\ Goes(r, "sweep")
    /\ doomed' = {d \in Roots : Dead(d) /\ dir[d] \in {"staging", "placed"}}
    /\ UNCHANGED <<stale, files, helper, kills>>

JudgeEntry(r, d) ==
    /\ doing[r] = "sweep" /\ stale = Nobody /\ d \in listed
    /\ listed' = listed \ {d}
    /\ stale' = IF IsStale(d) THEN d ELSE Nobody
    /\ UNCHANGED <<doing, sweeper, doomed, files, helper, kills>>

\* remove_dir_all of the stale directory, entry by entry: its lock file may go first.
RemoveStaleLock(r) ==
    /\ doing[r] = "sweep" /\ stale # Nobody /\ lock[stale] # "none"
    /\ dir' = IF dir[stale] = "placed" THEN [dir EXCEPT ![stale] = "bare"] ELSE dir
    /\ lock' = [lock EXCEPT ![stale] = "none"]
    /\ lost' = IF Lives(stale) THEN lost \cup {stale} ELSE lost
    /\ UNCHANGED <<doing, sweep, helper, kills>>

\* Then the rest; a vanished directory is skipped.
RemoveStale(r) ==
    /\ doing[r] = "sweep" /\ stale # Nobody
    /\ dir' = [dir EXCEPT ![stale] = "none"]
    /\ lock' = [lock EXCEPT ![stale] = "none"]
    /\ lost' = IF Lives(stale) THEN lost \cup {stale} ELSE lost
    /\ stale' = Nobody
    /\ UNCHANGED <<doing, sweeper, listed, doomed, helper, kills>>

\* The sweep fails, and with it create.
SweepFails(r) ==
    /\ doing[r] = "sweep"
    /\ sweeper' = Nobody /\ listed' = {} /\ stale' = Nobody
    /\ Goes(r, "ended")
    /\ UNCHANGED <<doomed, files, helper, kills>>

\* build, first the directory: under the staging name.
BuildStaging(r) ==
    /\ doing[r] = "sweep" /\ listed = {} /\ stale = Nobody
    /\ dir' = [dir EXCEPT ![r] = "staging"]
    /\ Goes(r, "lock")
    /\ UNCHANGED <<sweep, lock, lost, helper, kills>>

\* Mutated form: the directory is in place before its lock is taken.
BuildLockLate(r) ==
    /\ doing[r] = "lock"
    /\ dir' = [dir EXCEPT ![r] = "placed"]
    /\ lock' = [lock EXCEPT ![r] = "free"]
    /\ Goes(r, "helper")
    /\ sweeper' = Nobody
    /\ UNCHANGED <<listed, stale, doomed, lost, helper, kills>>

\* build, then its lock, held from here on.
BuildLock(r) ==
    /\ doing[r] = "lock"
    /\ lock' = [lock EXCEPT ![r] = "held"]
    /\ Goes(r, "place")
    /\ UNCHANGED <<sweep, dir, lost, helper, kills>>

\* The rename into place; the sweep lock is dropped with create's scope.
Place(r) ==
    /\ doing[r] = "place"
    /\ dir' = [dir EXCEPT ![r] = "placed"]
    /\ sweeper' = Nobody
    /\ Goes(r, "helper")
    /\ UNCHANGED <<listed, stale, doomed, lock, lost, helper, kills>>

\* A failure while building removes what was built, as far as it can; a rename
\* that fails leaves it.
BuildFails(r) ==
    /\ doing[r] \in {"lock", "place"}
    /\ \/ dir' = [dir EXCEPT ![r] = "none"] /\ lock' = [lock EXCEPT ![r] = "none"]
       \/ lock' = Released(r) /\ UNCHANGED dir
    /\ sweeper' = Nobody
    /\ Goes(r, "ended")
    /\ UNCHANGED <<listed, stale, doomed, lost, helper, kills>>

----------------------------------------------------------------------------
(* The helper and the launch *)

\* start_helper, or its failure.
StartHelper(r) ==
    /\ doing[r] = "helper"
    /\ \/ helper' = [helper EXCEPT ![r] = "starting"] /\ Goes(r, "await")
       \/ Goes(r, "remove") /\ UNCHANGED helper
    /\ UNCHANGED <<sweep, files, kills>>

\* The helper publishes its socket in the directory.
PublishSocket(r) ==
    /\ helper[r] = "starting" /\ dir[r] = "placed"
    /\ helper' = [helper EXCEPT ![r] = "serving"]
    /\ UNCHANGED <<doing, sweep, files, kills>>

\* The helper exits by itself, or because it was told to.
HelperExits(r) ==
    /\ helper[r] # "off"
    /\ helper' = [helper EXCEPT ![r] = "off"]
    /\ UNCHANGED <<doing, sweep, files, kills>>

\* await_socket: served, gone, or not in time.
AwaitSocket(r) ==
    /\ doing[r] = "await"
    /\ \/ helper[r] = "serving" /\ Goes(r, "launch")
       \/ helper[r] # "serving" /\ Goes(r, "stop")
    /\ UNCHANGED <<sweep, files, helper, kills>>

\* run_launch returns, whatever the outcome.
RunLaunch(r) ==
    /\ doing[r] = "launch"
    /\ Goes(r, "stop")
    /\ UNCHANGED <<sweep, files, helper, kills>>

\* stop: SIGTERM, then SIGKILL; the helper is reaped.
StopHelper(r) ==
    /\ doing[r] = "stop"
    /\ helper' = [helper EXCEPT ![r] = "off"]
    /\ Goes(r, "remove")
    /\ UNCHANGED <<sweep, files, kills>>

\* remove_dir_all, entry by entry: the lock file may go before the rest.
RemoveLockFile(r) ==
    /\ doing[r] = "remove" /\ dir[r] = "placed"
    /\ dir' = [dir EXCEPT ![r] = "bare"] /\ lock' = [lock EXCEPT ![r] = "none"]
    /\ UNCHANGED <<doing, sweep, lost, helper, kills>>

\* Then the rest; a failed removal is only reported, and the lock is let go.
Remove(r) ==
    /\ doing[r] = "remove"
    /\ \/ dir' = [dir EXCEPT ![r] = "none"] /\ lock' = [lock EXCEPT ![r] = "none"]
       \/ lock' = Released(r) /\ UNCHANGED dir
    /\ Goes(r, "ended")
    /\ UNCHANGED <<sweep, lost, helper, kills>>

\* launch-root is killed: its locks are released and its helper, which asked
\* for it, gets SIGTERM.
Kill(r) ==
    /\ doing[r] \notin {"begin", "ended", "killed"} /\ kills < MaxKills
    /\ kills' = kills + 1
    /\ Goes(r, "killed")
    /\ lock' = Released(r)
    /\ helper' = IF helper[r] = "off" THEN helper ELSE [helper EXCEPT ![r] = "told"]
    /\ IF sweeper = r THEN sweeper' = Nobody /\ listed' = {} /\ stale' = Nobody
                      ELSE UNCHANGED <<sweeper, listed, stale>>
    /\ UNCHANGED <<dir, lost, doomed>>

HelperNext ==
    \E r \in Roots :
      \/ BeginSweep(r) \/ (\E d \in Roots : JudgeEntry(r, d)) \/ RemoveStaleLock(r)
      \/ RemoveStale(r) \/ SweepFails(r) \/ BuildStaging(r) \/ BuildLock(r) \/ Place(r) \/ BuildFails(r)
      \/ StartHelper(r) \/ PublishSocket(r) \/ HelperExits(r) \/ AwaitSocket(r) \/ RunLaunch(r)
      \/ StopHelper(r) \/ RemoveLockFile(r) \/ Remove(r) \/ Kill(r)

----------------------------------------------------------------------------

\* No sweep removes the directory of a launch-root that still runs, in whatever
\* order launch-roots sweep, build, end and are killed (layout.rs, create).
LiveDirStays ==
    /\ lost = {}
    /\ \A r \in Roots : doing[r] \in {"helper", "await", "launch", "stop"} =>
                            dir[r] = "placed" /\ lock[r] = "held"

\* A helper that runs belongs to a running launch-root or was told to stop, and
\* no helper is left when its directory is removed by its own launch-root
\* (push_helper.rs, serve_launch and stop).
HelperIsWatched ==
    \A r \in Roots :
        /\ helper[r] \in {"starting", "serving"} => doing[r] \in {"await", "launch", "stop"}
        /\ doing[r] \in {"remove", "ended"} => helper[r] = "off"


\* What a dead launch-root left behind under a lock before a sweep began, or as an
\* unfinished build, is gone when the sweeper builds its own (layout.rs, sweep_stale).
SweepIsWhole ==
    \A r \in Roots : doing[r] \in {"lock", "place"} =>
                        \A d \in doomed \ {r} : dir[d] = "none"

LaunchDirSound == LiveDirStays /\ HelperIsWatched /\ SweepIsWhole
=============================================================================
