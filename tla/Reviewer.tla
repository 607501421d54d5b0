------------------------------ MODULE Reviewer ------------------------------
(***************************************************************************)
(* The reviewer side of the host supervisor (run_loop/review.rs,            *)
(* live_review.rs, review_cost.rs).  Each poll settles the reviewer         *)
(* launches that an earlier loop left behind, asks for one review, claims   *)
(* it, runs a reviewer launch, checks its verdict and posts it, or releases *)
(* the review.  A reviewer launch has no implementer record: the loop       *)
(* writes a ReviewLaunch before it spawns and removes it once the launch's  *)
(* cost is in the ledger.  Failed verdicts are counted in memory.           *)
(***************************************************************************)
EXTENDS Naturals, FiniteSets

CONSTANTS
    Submissions,       \* the submissions waiting for a review
    MaxReviews,        \* bound: reviews claimed
    MaxRestarts,       \* bound: crashes and reboots
    MaxCallErrors,     \* bound: failed claims, decisions, releases and appends
    ReviewAttempts,    \* [run] review_attempts
    Nothing            \* no record, no review

VARIABLES
    at,          \* where the poll is; "down" when no loop runs
    now,         \* the review the poll is busy with, or Nothing
    own,         \* the review is the poll's own, not one it recovers
    left,        \* records the poll has still to look at
    taken,       \* reviews claimed so far
    review,      \* review -> [submission, state]: the claim at the service
    entry,       \* review -> ReviewLaunch on disk, or Nothing
    run,         \* review -> clone and run: "none", "empty", "events"
    reviewer,    \* review -> the launch: "none", "live", "dead"
    verdict,     \* review -> what the launch's final output holds
    ledger,      \* review -> reviewer rows in costs.jsonl
    failed,      \* submission -> failed verdicts counted since its last success
    restarts, errors,
    outlived,    \* history: launches still running when recover settled them
    inARow       \* history: submission -> failed verdicts in a row, as counted

reviewVars == <<at, now, own, left, taken, review, entry, run, reviewer, verdict, ledger,
                failed, restarts, errors, outlived, inARow>>

Reviews == 1..MaxReviews

Verdicts == {"none", "approve", "bare", "changes"}

NoReview == [submission |-> Nothing, state |-> "none"]

ReviewTypeOK ==
    /\ at \in {"down", "settle", "next", "polled", "record", "launch", "wait",
               "cost", "remove", "unrecord", "judge", "release"}
    /\ now \in Reviews \cup {Nothing}
    /\ \A r \in Reviews : review[r].state \in
          {"none", "held", "decided", "released", "lapsed"}
    /\ run \in [Reviews -> {"none", "empty", "events"}]
    /\ reviewer \in [Reviews -> {"none", "live", "dead"}]
    /\ verdict \in [Reviews -> Verdicts]
    /\ failed \in [Submissions -> 0..MaxReviews]

ReviewInit ==
    /\ at = "down" /\ now = Nothing /\ own = FALSE /\ left = {} /\ taken = 0
    /\ review = [r \in Reviews |-> NoReview]
    /\ entry = [r \in Reviews |-> Nothing]
    /\ run = [r \in Reviews |-> "none"]
    /\ reviewer = [r \in Reviews |-> "none"]
    /\ verdict = [r \in Reviews |-> "none"]
    /\ ledger = [r \in Reviews |-> 0]
    /\ failed = [s \in Submissions |-> 0]
    /\ restarts = 0 /\ errors = 0
    /\ outlived = {}
    /\ inARow = [s \in Submissions |-> 0]

onDisk == <<entry, run, ledger>>
launchState == <<reviewer, verdict>>
counts == <<failed, outlived, inARow>>
budgets == <<restarts, errors>>

\* A call or a write fails: at most MaxCallErrors times.
Fails == errors < MaxCallErrors /\ errors' = errors + 1

\* A poll begins with the records on disk.
StartReviewer ==
    /\ at \in {"down", "polled"}
    /\ at' = "settle" /\ now' = Nothing
    /\ left' = {r \in Reviews : entry[r] # Nothing}
    /\ own' = FALSE
    /\ UNCHANGED <<taken, review, onDisk, launchState, counts, budgets>>

\* may_be_waited_for: recorded on this boot, no more than 50 minutes ago.
MayBeWaitedFor(r) == entry[r].sameBoot /\ entry[r].recent

\* Mutated form of Settled: the ledger is not searched first.
SettledAgain(r) == IF run[r] # "events" THEN ledger ELSE [ledger EXCEPT ![r] = @ + 1]

\* settle_review: the ledger holds at most one reviewer row of a session; a
\* launch that wrote no events adds none.
Settled(r) ==
    IF run[r] # "events" \/ ledger[r] > 0
      THEN ledger ELSE [ledger EXCEPT ![r] = @ + 1]

\* review_cost::recover takes up the records that nobody can be waiting for.
RecoverReview(r) ==
    /\ at = "settle" /\ r \in left
    /\ left' = left \ {r}
    /\ IF MayBeWaitedFor(r)
         THEN UNCHANGED <<at, now, outlived>>
         ELSE /\ at' = "cost" /\ now' = r
              /\ outlived' = outlived \cup IF reviewer[r] = "live" THEN {r} ELSE {}
    /\ UNCHANGED <<own, taken, review, onDisk, launchState, failed, inARow, budgets>>

ReviewsRecovered ==
    /\ at = "settle" /\ left = {}
    /\ at' = "next"
    /\ UNCHANGED <<own, now, left, taken, review, onDisk, launchState, counts, budgets>>

\* A submission held after review_attempts failed verdicts is not claimed.
Claimable(s) ==
    /\ failed[s] < ReviewAttempts
    /\ \A r \in Reviews : review[r].submission = s
                             => review[r].state \in {"released", "lapsed"}

\* next offers nothing, or only what this host holds.
NoReviewToClaim ==
    /\ at = "next"
    /\ at' = "polled"
    /\ UNCHANGED <<own, now, left, taken, review, onDisk, launchState, counts, budgets>>

\* claim_review in a fresh session, through a checkout the CLI verifies.
ClaimReview(s) ==
    /\ at = "next" /\ taken < MaxReviews /\ Claimable(s)
    /\ taken' = taken + 1 /\ now' = taken + 1
    /\ review' = [review EXCEPT ![taken + 1] = [submission |-> s, state |-> "held"]]
    /\ own' = TRUE
    /\ at' = "record"
    /\ UNCHANGED <<left, onDisk, launchState, counts, budgets>>

\* The claim fails: the submission changed, the call failed, or its reply named
\* no attempt, which is then released.  The submission's count is cleared.
ClaimReviewFails(s) ==
    /\ at = "next" /\ Claimable(s)
    /\ Fails
    /\ failed' = [failed EXCEPT ![s] = 0]
    /\ inARow' = [inARow EXCEPT ![s] = 0]
    /\ at' = "polled"
    /\ UNCHANGED <<outlived, own, now, left, taken, review, onDisk, launchState, restarts>>

\* run_reviewer writes the record before it clones and spawns.
SaveReviewLaunch ==
    /\ at = "record"
    /\ entry' = [entry EXCEPT ![now] =
                   [sameBoot |-> TRUE, recent |-> TRUE]]
    /\ at' = "launch"
    /\ UNCHANGED <<own, now, left, taken, review, run, ledger, launchState, counts, budgets>>

\* The candidate ref moved, or the clone or the preparation failed.
LaunchReviewFails ==
    /\ at = "launch"
    /\ run' \in {run, [run EXCEPT ![now] = "empty"]}
    /\ at' = "cost"
    /\ UNCHANGED <<own, now, left, taken, review, entry, ledger, launchState, counts, budgets>>

LaunchReview ==
    /\ at = "launch"
    /\ run' = [run EXCEPT ![now] = "empty"]
    /\ reviewer' = [reviewer EXCEPT ![now] = "live"]
    /\ at' = "wait"
    /\ UNCHANGED <<own, now, left, taken, review, entry, ledger, verdict, counts, budgets>>

\* The launch writes its event stream, and ends with some final output.
ReviewerWrites(r) ==
    /\ reviewer[r] = "live" /\ run[r] = "empty"
    /\ run' = [run EXCEPT ![r] = "events"]
    /\ UNCHANGED <<own, at, now, left, taken, review, entry, ledger, launchState, counts, budgets>>

ReviewerEnds(r, v) ==
    /\ reviewer[r] = "live"
    /\ run[r] # "events" => v = "none"
    /\ reviewer' = [reviewer EXCEPT ![r] = "dead"]
    /\ verdict' = [verdict EXCEPT ![r] = v]
    /\ UNCHANGED <<own, at, now, left, taken, review, onDisk, counts, budgets>>

\* wait_beating returns: the launch ended, or was killed after 45 minutes or on
\* a stop request.
WaitEnds ==
    /\ at = "wait"
    /\ reviewer' = [reviewer EXCEPT ![now] = "dead"]
    /\ at' = "cost"
    /\ UNCHANGED <<own, now, left, taken, review, onDisk, verdict, counts, budgets>>

\* The launch's cost is settled, by its own loop or by recover; when the ledger
\* cannot be written, the record and the run are kept.
SettleReview ==
    /\ at = "cost"
    /\ ledger' = Settled(now)
    /\ at' = "remove"
    /\ UNCHANGED <<own, now, left, taken, review, entry, run, launchState, counts, budgets>>

SettleReviewFails ==
    /\ at = "cost" /\ Settled(now) # ledger
    /\ Fails
    /\ at' = IF own THEN "judge" ELSE "settle"
    /\ UNCHANGED <<own, now, left, taken, review, onDisk, launchState, counts, restarts>>

\* The clone, the run and the mirror branch go, then the record.
DiscardReview ==
    /\ at = "remove"
    /\ run' = [run EXCEPT ![now] = "none"]
    /\ at' = "unrecord"
    /\ UNCHANGED <<now, own, left, taken, review, entry, ledger, launchState, counts, budgets>>

RemoveReviewLaunch ==
    /\ at = "unrecord"
    /\ entry' = [entry EXCEPT ![now] = Nothing]
    /\ at' = IF own THEN "judge" ELSE "settle"
    /\ UNCHANGED <<now, own, left, taken, review, run, ledger, launchState, counts, budgets>>

\* Mutated form of Postable: an approval needs no evidence.
PostableAny(v) == v # "none"

\* Verdict::check: an approval carries evidence for every criterion.
Postable(v) == v \in {"approve", "changes"}

\* judge: the verdict is posted for the claimed submission.
Decide ==
    /\ at = "judge"
    /\ Postable(verdict[now])
    /\ review[now].state = "held"
    /\ review' = [review EXCEPT ![now].state = "decided"]
    /\ failed' = [failed EXCEPT ![review[now].submission] = 0]
    /\ inARow' = [inARow EXCEPT ![review[now].submission] = 0]
    /\ at' = "polled" /\ now' = Nothing
    /\ UNCHANGED <<outlived, own, left, taken, onDisk, launchState, budgets>>

\* No verdict can be posted: there is none, it lacks evidence, the decision is
\* refused (the claim lapsed) or the call fails.
NoVerdict ==
    /\ at = "judge"
    /\ \/ ~Postable(verdict[now]) /\ UNCHANGED errors
       \/ review[now].state # "held" /\ UNCHANGED errors
       \/ Fails
    /\ at' = "release"
    /\ UNCHANGED <<own, now, left, taken, review, onDisk, launchState, counts, restarts>>

\* requeue: the review is released and the failed verdict counted.
Requeue ==
    /\ at = "release"
    /\ review[now].state = "held"
    /\ review' = [review EXCEPT ![now].state = "released"]
    /\ failed' = [failed EXCEPT ![review[now].submission] = @ + 1]
    /\ inARow' = [inARow EXCEPT ![review[now].submission] = @ + 1]
    /\ at' = "polled" /\ now' = Nothing
    /\ UNCHANGED <<outlived, own, left, taken, onDisk, launchState, budgets>>

\* The release fails, or the claim lapsed first: the count is cleared.
RequeueFails ==
    /\ at = "release"
    /\ IF review[now].state = "held" THEN Fails ELSE UNCHANGED errors
    /\ failed' = [failed EXCEPT ![review[now].submission] = 0]
    /\ inARow' = [inARow EXCEPT ![review[now].submission] = 0]
    /\ at' = "polled" /\ now' = Nothing
    /\ UNCHANGED <<outlived, own, left, taken, review, onDisk, launchState, restarts>>

ReviewLapses(r) ==
    /\ review[r].state = "held"
    /\ review' = [review EXCEPT ![r].state = "lapsed"]
    /\ UNCHANGED <<own, at, now, left, taken, onDisk, launchState, counts, budgets>>

\* Fifty minutes pass over a record that no loop is working on.
RecordAges(r) ==
    /\ entry[r] # Nothing /\ entry[r].recent /\ entry[r].sameBoot
    /\ at # "down" => now # r
    /\ entry' = [entry EXCEPT ![r].recent = FALSE]
    /\ UNCHANGED <<own, at, now, left, taken, review, run, ledger, launchState, counts, budgets>>

\* The loop dies, and with a reboot every launch; the counts were in memory.
ReviewerDies(reboot) ==
    /\ at # "down" \/ reboot
    /\ restarts < MaxRestarts
    /\ restarts' = restarts + 1
    /\ at' = "down" /\ now' = Nothing /\ own' = FALSE /\ left' = {}
    /\ entry' = [r \in Reviews |-> IF entry[r] = Nothing THEN Nothing
         ELSE [entry[r] EXCEPT !.sameBoot = @ /\ ~reboot]]
    /\ reviewer' = [r \in Reviews |->
         IF reboot /\ reviewer[r] = "live" THEN "dead" ELSE reviewer[r]]
    /\ failed' = [s \in Submissions |-> 0]
    /\ inARow' = [s \in Submissions |-> 0]
    /\ UNCHANGED <<outlived, taken, review, run, ledger, verdict, errors>>

ReviewNext ==
    \/ StartReviewer \/ ReviewsRecovered \/ NoReviewToClaim \/ SaveReviewLaunch
    \/ LaunchReviewFails \/ LaunchReview \/ WaitEnds \/ SettleReview
    \/ SettleReviewFails \/ DiscardReview \/ RemoveReviewLaunch \/ Decide \/ NoVerdict \/ Requeue
    \/ RequeueFails
    \/ \E s \in Submissions : ClaimReview(s) \/ ClaimReviewFails(s)
    \/ \E r \in Reviews :
         \/ RecoverReview(r) \/ ReviewerWrites(r) \/ ReviewLapses(r) \/ RecordAges(r)
         \/ \E v \in Verdicts : ReviewerEnds(r, v)
    \/ \E reboot \in BOOLEAN : ReviewerDies(reboot)

(***************************************************************************)
(* Properties                                                              *)
(***************************************************************************)

\* A reviewer launch is in the ledger at most once, whichever of the loop that
\* ran it, a retry and a later recovery settled it; and its events go only
\* after its row is in the ledger, so that no reviewer's spend is lost
\* (review_cost.rs), unless it outlived the loop and its record's 50 minutes.
ReviewCostOnce ==
    \A r \in Reviews :
        /\ ledger[r] <= 1
        /\ verdict[r] # "none" /\ run[r] = "none" /\ r \notin outlived
              => ledger[r] = 1

\* A review is decided only on a launch that left a verdict with evidence, and
\* a submission whose verdicts keep failing costs no more launches than
\* review_attempts (review.rs).
VerdictsEarned ==
    /\ \A r \in Reviews : review[r].state = "decided" => verdict[r] \in {"approve", "changes"}
    /\ \A s \in Submissions : inARow[s] <= ReviewAttempts
=============================================================================
