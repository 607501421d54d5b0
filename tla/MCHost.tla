------------------------------- MODULE MCHost -------------------------------
(***************************************************************************)
(* One host: the implementer loop, the reviewer side and the reporting of   *)
(* the ledger.  The three share no state but the ledger file, of which each *)
(* launch has its own rows; a behaviour exercises one of them (part), so    *)
(* that the state spaces add up instead of multiplying.                     *)
(***************************************************************************)
EXTENDS Naturals, FiniteSets, Sequences, TLC

CONSTANTS
    Tasks, MaxLaunches, MaxFaults, EmptyExitLimit, TotalLimit,
    MaxReleaseTries, None,
    Submissions, MaxReviews, MaxRestarts, MaxCallErrors, ReviewAttempts, Nothing,
    Passes, Rows, Invalid, Batch, MaxOutages, Idle, p1, p2

VARIABLES
    part,
    pc, cur, todo, blocked, mem, watch, stopping, planned, launch, files, record,
    proc, attempt, rows, strikes, crashes, callFailures, writeFailures, untracked,
    unwritten, recounted, streak,
    at, now, own, left, taken, review, entry, run, reviewer, verdict, ledger,
    failed, restarts, errors, outlived, inARow,
    written, reported, setAside, stored, projects, pass, outages

\* The first and the last row are of one project, the second of another.
ProjectOf == [r \in Rows |-> IF r = 2 THEN p2 ELSE p1]

Implementer == INSTANCE Supervisor
ReviewSide == INSTANCE Reviewer
Reporting == INSTANCE CostReport

\* The bounds and the limits are numbers, and None and Nothing stand for no launch,
\* record, exit code and review.
ASSUME HostAssumption ==
    /\ MaxLaunches \in Nat /\ MaxFaults \in Nat
    /\ EmptyExitLimit \in Nat /\ TotalLimit \in Nat
    /\ MaxReviews \in Nat /\ ReviewAttempts \in Nat
    /\ "total" \notin Tasks
    /\ None \notin Nat /\ None \notin {"failed", "killed", "exit0", "exit1"}
    /\ None \notin [pid : BOOLEAN, thisBoot : BOOLEAN, young : BOOLEAN,
                    released : BOOLEAN, failures : Nat, costed : BOOLEAN]
    /\ Nothing \notin Nat
    /\ Nothing \notin [sameBoot : BOOLEAN, recent : BOOLEAN]

loopVars == <<pc, cur, todo, blocked, mem, watch, stopping, planned, launch, files,
              record, proc, attempt, rows, strikes, crashes, callFailures,
              writeFailures, untracked, unwritten, recounted, streak>>
reviewVars == <<at, now, own, left, taken, review, entry, run, reviewer, verdict,
                ledger, failed, restarts, errors, outlived, inARow>>
reportVars == <<written, reported, setAside, stored, projects, pass, outages>>
all == <<part, loopVars, reviewVars, reportVars>>

Init ==
    /\ part \in {"implementer", "reviewer", "report"}
    /\ Implementer!Init /\ ReviewSide!ReviewInit /\ Reporting!ReportInit
    /\ part # "report" => projects = {}

Next ==
    \/ /\ part = "implementer" /\ Implementer!Next
       /\ UNCHANGED <<part, reviewVars, reportVars>>
    \/ /\ part = "reviewer" /\ ReviewSide!ReviewNext
       /\ UNCHANGED <<part, loopVars, reportVars>>
    \/ /\ part = "report" /\ Reporting!ReportNext
       /\ UNCHANGED <<part, loopVars, reviewVars>>

InImplementer(A) ==
    part = "implementer" /\ A /\ UNCHANGED <<part, reviewVars, reportVars>>

\* The fairness of Supervisor.
Spec ==
    /\ Init /\ [][Next]_all
    /\ WF_all(InImplementer(Implementer!LoopStep))
    /\ \A l \in 1..MaxLaunches :
         /\ WF_all(InImplementer(Implementer!GracePasses(l)))
         /\ WF_all(InImplementer(\E code \in Implementer!Exits : Implementer!LaunchExits(l, code)))

\* While a launch runs, its files and its record stay and the host runs no other,
\* whatever crashed before; a task that keeps exiting empty is launched no more than
\* the limit allows (record.rs, recover; unsubmitted.rs).
LaunchesSound ==
    Implementer!TypeOK /\ Implementer!LiveIsGuarded /\ Implementer!EmptyExitsBounded

\* Every launch, of an implementer or a reviewer, is in the ledger once before its
\* events go, but for rows and marks that could not be written, and the coordinator holds each of its rows once; a row that is not sent
\* again is stored, malformed or waits for its project (cost.rs, review_cost.rs,
\* report.rs, telemetry.rs).
CostsSound ==
    /\ Implementer!CostKept
    /\ ReviewSide!ReviewTypeOK /\ ReviewSide!ReviewCostOnce
    /\ Reporting!RowsAccounted

\* A decision rests on a verdict with evidence, and failing verdicts cost a
\* bounded number of launches (review.rs).
VerdictsEarned == ReviewSide!VerdictsEarned

\* A record marked as costed has its row in the ledger, as cost_recorded is documented
\* (record.rs); the code marks it although the row could not be appended.
CostRecorded == Implementer!CostRecorded

\* Every launch record is settled in the end (recover on every poll).
RecordsSettle == Implementer!RecordsSettle
=============================================================================
