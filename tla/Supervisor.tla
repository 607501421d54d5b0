----------------------------- MODULE Supervisor -----------------------------
(***************************************************************************)
(* The implementer side of the host supervisor's loop                      *)
(* (crates/supervisor/src/run_loop.rs and run_loop/).  The loop polls the   *)
(* coordinator, claims a task, spawns one launch of an agent harness,       *)
(* renews its lease until it exits, accounts for its cost, releases the     *)
(* attempt and removes the launch's files.  What must survive a crash is a  *)
(* launch record, the cost ledger and the strikes file; each step below is  *)
(* what the loop does between two writes that a crash can separate.  A      *)
(* write may also fail: every failure but that of the first record is only  *)
(* logged, and the loop goes on with what it holds in memory.               *)
(*                                                                         *)
(* A launch is numbered by the order in which the loop plans it.  The       *)
(* harness and launch-root are one process here, which outlives the loop    *)
(* when the loop dies without a reboot (deploy/agentc, sysvinit hosts).     *)
(***************************************************************************)
EXTENDS Integers

CONSTANTS
    Tasks,             \* the tasks `next' can suggest
    MaxLaunches,       \* bound: launches the loop plans
    MaxFaults,         \* bound: deaths of the loop, failed calls to the service and
                       \* failed writes and removals of the loop's files
    EmptyExitLimit,    \* [run] empty_exit_limit
    TotalLimit,        \* [run] empty_exit_total_limit
    MaxReleaseTries,   \* record::MAX_RELEASE_TRIES
    None               \* no record, no launch

VARIABLES
    pc,          \* where the loop is; "off" when no loop runs
    cur,         \* the launch the loop is busy with, or None
    todo,        \* records recover has still to look at
    blocked,     \* recover found a launch that may still run
    mem,         \* the LaunchRecord the loop holds in memory, or None
    watch,       \* what supervise knows: drain, submitted, code
    stopping,    \* SIGTERM or SIGINT was received
    planned,     \* launches planned so far
    launch,      \* launch -> its task
    files,       \* launch -> clone and run: "none", "ready", "started", "terminal"
    record,      \* launch -> LaunchRecord on disk, or None
    proc,        \* launch -> the process: "none", "live", or how it ended
    attempt,     \* launch -> its attempt at the service
    rows,        \* launch -> rows in costs.jsonl
    strikes,     \* unsubmitted.json: task -> count, and the total
    crashes, callFailures, writeFailures,
    untracked,   \* history: launches running on when their loop died without a saved pid
    unwritten,   \* history: launches of which a row could not be appended
    recounted,   \* history: launches whose row was written and not marked in the record
    streak       \* history: task -> empty exits in a row, and the total

vars == <<pc, cur, todo, blocked, mem, watch, stopping, planned, launch, files,
          record, proc, attempt, rows, strikes, crashes, callFailures,
          writeFailures, untracked, unwritten, recounted, streak>>

Launches == 1..MaxLaunches

Total == "total"

Exits == {"exit0", "exit1"}

NoWatch == [drain |-> FALSE, submitted |-> FALSE, code |-> None]

NewRecord == [pid |-> FALSE, thisBoot |-> TRUE, young |-> TRUE,
              released |-> FALSE, failures |-> 0, costed |-> FALSE]

Records == {l \in Launches : record[l] # None}

LiveLaunches == {l \in Launches : proc[l] = "live"}

TypeOK ==
    /\ pc \in {"off", "recover", "admit", "claim", "record",
               "spawn", "savepid", "watch", "cost", "markcost",
               "judge", "forgive", "release", "finish", "discard", "unrecord", "idle"}
    /\ cur \in Launches \cup {None}
    /\ todo \subseteq Launches
    /\ {blocked, stopping} \subseteq BOOLEAN
    /\ files \in [Launches -> {"none", "ready", "started", "terminal"}]
    /\ proc \in [Launches -> {"none", "live", "killed"} \cup Exits]
    /\ attempt \in [Launches -> {"none", "active", "submitted", "ended"}]
    /\ rows \in [Launches -> 0..(MaxFaults + 1)]
    /\ strikes \in [Tasks \cup {Total} -> 0..MaxLaunches]

Init ==
    /\ pc = "off" /\ cur = None /\ todo = {} /\ blocked = FALSE
    /\ mem = None /\ watch = NoWatch /\ stopping = FALSE /\ planned = 0
    /\ launch = [l \in Launches |-> None]
    /\ files = [l \in Launches |-> "none"]
    /\ record = [l \in Launches |-> None]
    /\ proc = [l \in Launches |-> "none"]
    /\ attempt = [l \in Launches |-> "none"]
    /\ rows = [l \in Launches |-> 0]
    /\ strikes = [t \in Tasks \cup {Total} |-> 0]
    /\ crashes = 0 /\ callFailures = 0 /\ writeFailures = 0
    /\ untracked = {} /\ unwritten = {} /\ recounted = {}
    /\ streak = [t \in Tasks \cup {Total} |-> 0]

disk == <<files, record, rows, strikes>>
world == <<proc, attempt, stopping, crashes, callFailures>>
history == <<untracked, unwritten, recounted, streak>>
control == <<todo, blocked, watch, planned, launch>>
kept == <<mem, writeFailures>>

Faults == crashes + callFailures + writeFailures

\* A write or a removal fails.
WriteFails ==
    /\ Faults < MaxFaults
    /\ writeFailures' = writeFailures + 1

\* LaunchRecord::save replaces the file, or leaves it.
Saves(r) ==
    \/ record' = [record EXCEPT ![cur] = r] /\ UNCHANGED writeFailures
    \/ WriteFails /\ UNCHANGED record

(***************************************************************************)
(* Start and recovery                                                      *)
(***************************************************************************)

\* sweep_terminal: terminal runs that no record speaks for.
Swept == [l \in Launches |->
            IF record[l] = None /\ files[l] = "terminal" THEN "none" ELSE files[l]]

\* reset_retries: the release of every record but those in stuck, which could not
\* be saved, may be tried again.
RetriesReset(stuck) == [l \in Launches |->
    IF record[l] = None \/ l \in stuck THEN record[l] ELSE [record[l] EXCEPT !.failures = 0]]

\* The loop starts: sweep, reset the retries, then the first poll.
StartLoop ==
    /\ pc = "off"
    /\ pc' = "recover"
    /\ files' = Swept
    /\ \/ record' = RetriesReset({}) /\ UNCHANGED writeFailures
       \/ /\ WriteFails
          /\ \E l \in Records : record[l].failures > 0 /\ record' = RetriesReset({l})
    /\ todo' = Records
    /\ blocked' = FALSE
    /\ stopping' = FALSE
    /\ cur' = None
    /\ watch' = NoWatch
    /\ UNCHANGED <<mem, planned, launch, proc, attempt, rows, strikes,
                   crashes, callFailures, history>>

\* Mutated form of MayBeAlive: the process of a record with a pid is not looked up.
MayBeAliveUnspawned(l) == record[l].thisBoot /\ ~record[l].pid /\ record[l].young

\* record::may_be_alive, on a host whose boot id and start times are readable.
MayBeAlive(l) ==
    /\ record[l].thisBoot
    /\ IF record[l].pid THEN proc[l] = "live" ELSE record[l].young

\* recover passes over a record: its launch may still run, or the loop gave up on it.
RecoverSkips(l) ==
    /\ pc = "recover" /\ l \in todo
    /\ MayBeAlive(l) \/ record[l].failures >= MaxReleaseTries
    /\ todo' = todo \ {l}
    /\ blocked' = (blocked \/ MayBeAlive(l))
    /\ UNCHANGED <<pc, cur, watch, planned, launch, disk, world, kept, history>>

\* Mutated form of RecoverSettles: the launch's cost is not settled.
RecoverSettlesUncosted(l) ==
    /\ pc = "recover" /\ l \in todo
    /\ ~MayBeAlive(l) /\ record[l].failures < MaxReleaseTries
    /\ todo' = todo \ {l}
    /\ cur' = l
    /\ watch' = NoWatch
    /\ mem' = record[l]
    /\ pc' = "release"
    /\ UNCHANGED <<blocked, planned, launch, disk, world, writeFailures, history>>

\* recover settles a record: settle_cost, release and discard, as the steps below.
RecoverSettles(l) ==
    /\ pc = "recover" /\ l \in todo
    /\ ~MayBeAlive(l) /\ record[l].failures < MaxReleaseTries
    /\ todo' = todo \ {l}
    /\ cur' = l
    /\ watch' = NoWatch
    /\ mem' = record[l]
    /\ pc' = IF record[l].costed THEN "release" ELSE "cost"
    /\ UNCHANGED <<blocked, planned, launch, disk, world, writeFailures, history>>

Recovered ==
    /\ pc = "recover" /\ todo = {}
    /\ pc' = IF blocked THEN "idle" ELSE "admit"
    /\ UNCHANGED <<cur, control, disk, world, kept, history>>

\* Whether the loop settles a record it found, rather than its own launch.
Recovering == watch = NoWatch

(***************************************************************************)
(* Admission and the launch                                                *)
(***************************************************************************)

\* strikes.task_hold and total_hold.
TaskHeld(t) == EmptyExitLimit > 0 /\ strikes[t] >= EmptyExitLimit

TotalHeld == TotalLimit > 0 /\ strikes[Total] >= TotalLimit

\* The poll ends without a launch: health::admit refuses (kill switch, daily
\* cap, no usable vendor), the disk is full, every launch is held, or `next'
\* has no task to offer.
NothingToLaunch ==
    /\ pc = "admit"
    /\ pc' = "idle"
    /\ UNCHANGED <<cur, control, disk, world, kept, history>>

\* A task the service offers has no open attempt; a submission may have been
\* sent back since.
Offered(t) ==
    \A l \in Launches : launch[l] = t
                           => attempt[l] # "active"

\* iterate_reporting plans a launch of the suggested task; create makes its
\* clone and run.
PlanLaunch(t) ==
    /\ pc = "admit" /\ ~TotalHeld
    /\ planned < MaxLaunches
    /\ Offered(t) /\ ~TaskHeld(t)
    /\ LET l == planned + 1
       IN /\ planned' = l /\ cur' = l
          /\ launch' = [launch EXCEPT ![l] = t]
          /\ files' = [files EXCEPT ![l] = "ready"]
    /\ watch' = [NoWatch EXCEPT !.code = "failed"]
    /\ pc' = "claim"
    /\ UNCHANGED <<todo, blocked, record, rows, strikes, world, kept, history>>

\* The claim: refused when the loop is stopping; its reply may be lost after
\* the service granted it, and then nothing on this host knows the attempt.
ClaimFails ==
    /\ pc = "claim"
    /\ pc' = "finish"
    /\ attempt' \in {attempt} \cup
         (IF stopping THEN {} ELSE {[attempt EXCEPT ![cur] = "active"]})
    /\ UNCHANGED <<cur, control, disk, proc, stopping, crashes,
                   callFailures, kept, history>>

Claim ==
    /\ pc = "claim" /\ ~stopping
    /\ Offered(launch[cur])
    /\ attempt' = [attempt EXCEPT ![cur] = "active"]
    /\ pc' = "record"
    /\ UNCHANGED <<cur, control, disk, proc, stopping, crashes,
                   callFailures, kept, history>>

\* The record is written before anything is spawned; where it cannot be, nothing is.
SaveRecord ==
    /\ pc = "record"
    /\ mem' = NewRecord
    /\ Saves(mem')
    /\ pc' = IF record' = record THEN "cost" ELSE "spawn"
    /\ UNCHANGED <<cur, control, files, rows, strikes, world, history>>

\* prepare_claimed or the spawn fails: nothing runs, the attempt is released.
PrepareFails ==
    /\ pc = "spawn"
    /\ pc' = "cost"
    /\ UNCHANGED <<cur, control, disk, world, kept, history>>

\* prepare_claimed, then launch-root is spawned in a process group of its own.
Spawn ==
    /\ pc = "spawn"
    /\ proc' = [proc EXCEPT ![cur] = "live"]
    /\ pc' = "savepid"
    /\ UNCHANGED <<cur, control, disk, attempt, stopping, crashes,
                   callFailures, kept, history>>

\* run_claimed adds the pid and start time to the record.
SavePid ==
    /\ pc = "savepid"
    /\ mem' = [mem EXCEPT !.pid = TRUE]
    /\ Saves(mem')
    /\ pc' = "watch"
    /\ UNCHANGED <<cur, control, files, rows, strikes, world, history>>

(***************************************************************************)
(* supervise: drain and renew                                              *)
(***************************************************************************)

\* A stop request or a failed gate (no event, no checkpoint, budget spent):
\* SIGTERM, and no more renewals.
Drain ==
    /\ pc = "watch" /\ ~watch.drain
    /\ watch' = [watch EXCEPT !.drain = TRUE]
    /\ UNCHANGED <<pc, cur, todo, blocked, planned, launch, disk, world, kept,
                   history>>

\* A renewal the service refuses for good; the attempt's state, if it can be
\* read, says whether the agent submitted it.
RenewRefused(read) ==
    /\ pc = "watch" /\ ~watch.drain
    /\ attempt[cur] # "active"
    /\ ~read => Faults < MaxFaults
    /\ callFailures' = callFailures + IF read THEN 0 ELSE 1
    /\ watch' = [watch EXCEPT !.drain = TRUE,
                              !.submitted = read /\ attempt[cur] = "submitted"]
    /\ UNCHANGED <<pc, cur, todo, blocked, planned, launch, disk, proc, attempt,
                   stopping, crashes, kept, history>>

\* SIGKILL once a draining launch outlives its grace.
Kill ==
    /\ pc = "watch" /\ watch.drain /\ proc[cur] = "live"
    /\ proc' = [proc EXCEPT ![cur] = "killed"]
    /\ UNCHANGED <<pc, cur, control, disk, attempt, stopping,
                   crashes, callFailures, kept, history>>

Cleared(s, t) == [s EXCEPT ![t] = 0, ![Total] = 0]

Counted(s, t) == [s EXCEPT ![t] = @ + 1, ![Total] = @ + 1]

\* supervise returns once launch-root has exited.
SeeExit ==
    /\ pc = "watch" /\ proc[cur] # "live"
    /\ watch' = [watch EXCEPT !.code = proc[cur]]
    /\ streak' = IF proc[cur] = "exit0" /\ ~watch.drain /\ attempt[cur] # "submitted"
                    THEN Counted(streak, launch[cur]) ELSE streak
    /\ pc' = "cost"
    /\ UNCHANGED <<cur, todo, blocked, planned, launch, disk, world, kept,
                   untracked, unwritten, recounted>>

(***************************************************************************)
(* The end of a launch, found by its own loop or by recovery               *)
(***************************************************************************)

\* cost::settle: one ledger row, whatever the launch spent.  A row that cannot be
\* appended is only logged.
SettleCost ==
    /\ pc = "cost"
    /\ \/ rows' = [rows EXCEPT ![cur] = @ + 1] /\ UNCHANGED <<writeFailures, unwritten>>
       \/ WriteFails /\ unwritten' = unwritten \cup {cur} /\ UNCHANGED rows
    /\ pc' = "markcost"
    /\ UNCHANGED <<cur, control, mem, files, record, strikes, world, untracked,
                   recounted, streak>>

\* settle_cost marks the record, so that a retry does not count it again, whether or
\* not the row was appended.
MarkCost ==
    /\ pc = "markcost"
    /\ mem' = [mem EXCEPT !.costed = TRUE]
    /\ Saves(mem')
    /\ recounted' = recounted \cup IF writeFailures' = writeFailures THEN {} ELSE {cur}
    /\ pc' = IF Recovering THEN "release" ELSE "judge"
    /\ UNCHANGED <<cur, control, files, rows, strikes, world, untracked, unwritten,
                   streak>>

\* submitted: a refused renewal showed it, or the attempt's state does.
Submitted ==
    /\ pc = "judge"
    /\ \/ watch.submitted
       \/ watch.code # "failed" /\ attempt[cur] = "submitted"
    /\ Saves([mem EXCEPT !.released = TRUE])
    /\ mem' = None
    /\ pc' = "forgive"
    /\ UNCHANGED <<cur, control, files, rows, strikes, world, history>>

\* unsubmitted::submitted: the task's strikes and the total are forgotten.
Forgive ==
    /\ pc = "forgive"
    /\ \/ strikes' = Cleared(strikes, launch[cur]) /\ UNCHANGED writeFailures
       \/ WriteFails /\ UNCHANGED strikes
    /\ streak' = Cleared(streak, launch[cur])
    /\ pc' = "finish"
    /\ UNCHANGED <<cur, control, mem, files, record, rows, world, untracked,
                   unwritten, recounted>>

\* Mutated form of EmptyExit: only an exit after a drain counts.
EmptyExitDrained == watch.code = "exit0" /\ watch.drain

\* evidence: an exit 0 by itself without a submission is a strike.
EmptyExit == watch.code = "exit0" /\ ~watch.drain

\* The launch did not submit, or its state could not be read twice.
NotSubmitted ==
    /\ pc = "judge"
    /\ ~watch.submitted
    /\ LET unread == attempt[cur] = "submitted" /\ watch.code # "failed"
       IN /\ unread => Faults < MaxFaults
          /\ callFailures' = callFailures + IF unread THEN 1 ELSE 0
    /\ \/ /\ strikes' = IF EmptyExit THEN Counted(strikes, launch[cur]) ELSE strikes
          /\ UNCHANGED writeFailures
       \/ EmptyExit /\ WriteFails /\ UNCHANGED strikes
    /\ pc' = "release"
    /\ UNCHANGED <<cur, control, mem, files, record, rows, proc, attempt,
                   stopping, crashes, history>>

\* The loop goes on to the next record it found, or ends the poll.
DoneWithLaunch ==
    /\ pc' = IF Recovering THEN "recover" ELSE "idle"
    /\ cur' = None /\ watch' = NoWatch

\* Where a settled launch goes on: its own loop checks the markers first.
Afterwards == IF Recovering THEN "discard" ELSE "finish"

\* record::release: a conflict means the attempt has ended already.
Release ==
    /\ pc = "release" /\ ~mem.released
    /\ attempt' = IF attempt[cur] # "active"
                    THEN attempt ELSE [attempt EXCEPT ![cur] = "ended"]
    /\ Saves([mem EXCEPT !.released = TRUE])
    /\ mem' = None
    /\ pc' = Afterwards
    /\ UNCHANGED <<cur, control, files, rows, strikes, proc,
                   stopping, crashes, callFailures, history>>

\* settle finds the attempt released by an earlier poll.
ReleasedBefore ==
    /\ pc = "release" /\ mem.released
    /\ mem' = None
    /\ pc' = Afterwards
    /\ UNCHANGED <<cur, control, disk, world, writeFailures, history>>

\* The release fails: it is counted, and everything is kept for the next poll.
ReleaseFails ==
    /\ pc = "release" /\ ~mem.released
    /\ Faults < MaxFaults
    /\ callFailures' = callFailures + 1
    /\ Saves([mem EXCEPT !.failures = @ + 1])
    /\ mem' = None
    /\ IF Recovering THEN DoneWithLaunch
         ELSE pc' = "finish" /\ UNCHANGED <<cur, watch>>
    /\ UNCHANGED <<todo, blocked, planned, launch, files, rows, strikes, proc,
                   attempt, stopping, crashes, history>>

\* finish and remove_finished: an unreleased attempt, or a started run without
\* a terminal marker, keeps its clone, run and record.
Finish ==
    /\ pc = "finish"
    /\ IF \/ record[cur] # None /\ ~record[cur].released
          \/ files[cur] = "started"
         THEN DoneWithLaunch
         ELSE pc' = "discard" /\ UNCHANGED <<cur, watch>>
    /\ UNCHANGED <<todo, blocked, planned, launch, disk, world, kept, history>>

\* The clone and the run are removed, then the record.
Discard ==
    /\ pc = "discard"
    /\ files' = [files EXCEPT ![cur] = "none"]
    /\ pc' = "unrecord"
    /\ UNCHANGED <<cur, control, record, rows, strikes, world, kept, history>>

\* The removal stops at an error: the record stays for the next poll.
DiscardFails ==
    /\ pc = "discard"
    /\ WriteFails
    /\ files' \in {files, [files EXCEPT ![cur] = "none"]}
    /\ DoneWithLaunch
    /\ UNCHANGED <<todo, blocked, planned, launch, mem, record, rows, strikes, world, history>>

\* The record's file goes, or stays for the next poll.
RemoveRecord ==
    /\ pc = "unrecord"
    /\ \/ record' = [record EXCEPT ![cur] = None] /\ UNCHANGED writeFailures
       \/ WriteFails /\ UNCHANGED record
    /\ DoneWithLaunch
    /\ UNCHANGED <<todo, blocked, planned, launch, mem, files, rows, strikes, world,
                   history>>

\* Mutated form of NextPoll: only a start of the loop recovers.
NextPollBlind ==
    /\ pc = "idle"
    /\ pc' = IF stopping THEN "off" ELSE "recover"
    /\ todo' = {} /\ blocked' = FALSE
    /\ UNCHANGED <<cur, watch, planned, launch, disk, world, kept, history>>

\* idle: the next poll, or the end of a loop that was asked to stop.
NextPoll ==
    /\ pc = "idle"
    /\ pc' = IF stopping THEN "off" ELSE "recover"
    /\ todo' = Records /\ blocked' = FALSE
    /\ UNCHANGED <<cur, watch, planned, launch, disk, world, kept, history>>

(***************************************************************************)
(* The launch, the service, the operator and the host                      *)
(***************************************************************************)

loop == <<pc, cur, todo, blocked, watch, planned, launch, mem, writeFailures>>

\* launch-root passes its checks and marks the run started.
HarnessStarts(l) ==
    /\ proc[l] = "live" /\ files[l] = "ready"
    /\ files' = [files EXCEPT ![l] = "started"]
    /\ UNCHANGED <<loop, record, rows, strikes, world, history>>

\* launch-root ends: the harness exited, its leftovers were killed and the run
\* was marked terminal; or the launch was refused before it started.
LaunchExits(l, code) ==
    /\ proc[l] = "live"
    /\ files[l] = "ready" => code # "exit0"
    /\ proc' = [proc EXCEPT ![l] = code]
    /\ files' = IF files[l] = "started"
                  THEN [files EXCEPT ![l] = "terminal"] ELSE files
    /\ UNCHANGED <<loop, record, rows, strikes, attempt,
                   stopping, crashes, callFailures, history>>

\* The agent submits its attempt.
AgentSubmits(l) ==
    /\ proc[l] = "live" /\ files[l] = "started" /\ attempt[l] = "active"
    /\ attempt' = [attempt EXCEPT ![l] = "submitted"]
    /\ UNCHANGED <<loop, disk, proc, stopping, crashes, callFailures,
                   history>>

\* The agent releases its attempt, or the lease lapses or is revoked.
AttemptEnds(l) ==
    /\ attempt[l] = "active"
    /\ attempt' = [attempt EXCEPT ![l] = "ended"]
    /\ UNCHANGED <<loop, disk, proc, stopping, crashes, callFailures,
                   history>>

\* Two minutes pass over a record without a pid.
GracePasses(l) ==
    /\ record[l] # None /\ record[l].young /\ ~record[l].pid /\ record[l].thisBoot
    /\ pc # "off" => cur # l
    /\ record' = [record EXCEPT ![l].young = FALSE]
    /\ UNCHANGED <<loop, files, rows, strikes, world, history>>

RequestStop ==
    /\ pc # "off" /\ ~stopping
    /\ stopping' = TRUE
    /\ UNCHANGED <<loop, disk, proc, attempt, crashes, callFailures, history>>

\* The loop is gone with what it held in memory; a crash between two writes
\* leaves the next loop without the second.
Down ==
    /\ pc' = "off" /\ cur' = None
    /\ todo' = {} /\ blocked' = FALSE /\ watch' = NoWatch /\ stopping' = FALSE
    /\ mem' = None
    /\ UNCHANGED <<planned, launch, writeFailures, unwritten, streak>>
    /\ recounted' = recounted \cup IF pc = "markcost" THEN {cur} ELSE {}

\* The loop dies; its launch does not.
Crash ==
    /\ pc # "off" /\ Faults < MaxFaults
    /\ crashes' = crashes + 1
    /\ Down
    /\ untracked' = untracked \cup
         {l \in LiveLaunches : record[l] = None \/ ~record[l].pid}
    /\ UNCHANGED <<disk, proc, attempt, callFailures>>

\* The host reboots: every process is gone and every record is of another boot.
Reboot ==
    /\ Faults < MaxFaults
    /\ crashes' = crashes + 1
    /\ Down
    /\ proc' = [l \in Launches |-> IF proc[l] = "live" THEN "killed" ELSE proc[l]]
    /\ record' = [l \in Launches |->
         IF record[l] = None THEN None ELSE [record[l] EXCEPT !.thisBoot = FALSE]]
    /\ UNCHANGED <<files, rows, strikes, attempt, callFailures, untracked>>

LoopStep ==
    \/ StartLoop \/ Recovered \/ NothingToLaunch \/ ClaimFails \/ Claim
    \/ SaveRecord \/ PrepareFails \/ Spawn \/ SavePid \/ Drain \/ Kill
    \/ SeeExit \/ SettleCost \/ MarkCost \/ Submitted \/ Forgive \/ NotSubmitted \/ Release
    \/ ReleasedBefore \/ ReleaseFails \/ Finish \/ Discard \/ DiscardFails
    \/ RemoveRecord \/ NextPoll
    \/ \E l \in Launches : RecoverSkips(l) \/ RecoverSettles(l)
    \/ \E t \in Tasks : PlanLaunch(t)
    \/ \E read \in BOOLEAN : RenewRefused(read)

Surroundings ==
    \/ \E l \in Launches :
         \/ HarnessStarts(l) \/ AgentSubmits(l) \/ AttemptEnds(l)
         \/ GracePasses(l)
         \/ \E code \in Exits : LaunchExits(l, code)
    \/ RequestStop \/ Crash \/ Reboot

Next == LoopStep \/ Surroundings

\* The init system restarts a loop that died, the loop keeps polling, a record
\* grows old, and a harness ends by itself sooner or later.
Fairness ==
    /\ WF_vars(LoopStep)
    /\ \A l \in Launches :
         /\ WF_vars(GracePasses(l))
         /\ WF_vars(\E code \in Exits : LaunchExits(l, code))

Spec == Init /\ [][Next]_vars /\ Fairness

(***************************************************************************)
(* Properties                                                              *)
(***************************************************************************)

\* While a launch runs, its clone, its run and its record stay, and the host
\* runs no other: recovery and the sweep never take a live launch for a dead
\* one, whatever crashed before (record.rs).  The exception is a launch whose
\* loop died while its pid was not saved: between the spawn and the save, or after
\* a save that failed.
LiveIsGuarded ==
    /\ \A l \in LiveLaunches \ untracked : files[l] # "none" /\ record[l] # None
    /\ \A l, m \in LiveLaunches \ untracked : l = m

\* The same without the exception, as the header of record.rs states it: a
\* launch that may still run on this boot is never respawned and blocks claims.
\* The code does not meet it (README, section 5); no run checks it.
NeverRespawned ==
    /\ \A l \in LiveLaunches : files[l] # "none" /\ record[l] # None
    /\ \A l, m \in LiveLaunches : l = m

\* The events a launch leaves are removed only once its cost is in the ledger,
\* unless its row could not be appended, which the loop only logs; and it is there
\* once, unless the loop died between the ledger and the record or could not save
\* the record then.
CostKept ==
    \A l \in Launches :
        /\ files[l] = "none" /\ proc[l] # "none" => rows[l] >= 1 \/ l \in unwritten
        /\ rows[l] > 1 => l \in recounted

\* A record that says so has its cost in the ledger, as the comment on cost_recorded
\* has it (record.rs).  The code sets the field although the row could not be
\* appended (README, section 5).
CostRecorded ==
    \A l \in Launches : record[l] # None /\ record[l].costed => rows[l] >= 1

\* A task that keeps exiting without a submission is launched no more than the
\* limit allows, where one is set; only a loop that dies before it counts an exit, or
\* cannot write the count, adds one.
EmptyExitsBounded ==
    /\ EmptyExitLimit > 0 => \A t \in Tasks : streak[t] <= EmptyExitLimit + crashes + writeFailures
    /\ TotalLimit > 0 => streak[Total] <= TotalLimit + crashes + writeFailures

\* Every launch record is settled and removed in the end, however often the
\* loop died, unless its release failed as often as the loop may try.
RecordsSettle ==
    \A l \in Launches :
        (record[l] # None) ~> (record[l] = None \/ record[l].failures >= MaxReleaseTries)
=============================================================================
