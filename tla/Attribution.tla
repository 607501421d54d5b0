---------------------------- MODULE Attribution ----------------------------
(***************************************************************************)
(* How the integrator decides on the required checks of a result R          *)
(* (crates/integrator/src/publish.rs checks_gate, attribution.rs, flake.rs, *)
(* and the rerun records of state.rs).  A cycle polls R's checks, asks for  *)
(* reruns, and sends a reproduced failure back to the author only when the  *)
(* same check passed on the target tip X after R had first failed.          *)
(* The forge is modelled from how checks.rs uses it: all checks are jobs of *)
(* one workflow run per commit, a rerun of the failed jobs copies the jobs  *)
(* that passed, a rerun of one job copies the others, and a rerun is        *)
(* refused while the run is going.  Each check has a hidden cause, which    *)
(* decides how its jobs end, so that a verdict can be compared with it.     *)
(***************************************************************************)
EXTENDS Naturals, Sequences, FiniteSets

CONSTANTS
    Checks,     \* the roster's required checks
    Causes,     \* what may be wrong with a check (a subset of AllCauses)
    MaxReruns,  \* MAX_RERUNS
    MaxCrashes, \* bound: deaths of the integrator
    MaxBreaks   \* bound: changes outside both commits (0 or 1)

AllCauses == {"nothing", "candidate", "target", "outside", "flaky"}

VARIABLES
    cause,     \* check -> why it fails, if it does
    outside,   \* changes outside the commits so far
    runs,      \* commit -> its run's attempts: check -> [out, will, after], where
               \* after counts the attempts of R that had started before the job
    memory,    \* commit -> [count, attempt], the rerun record of its run
    cycle,     \* the integrator: [pc, seen, todo, of, author, wait]
    decision,  \* pending, blocked, proceed or author
    blamed,    \* the checks the author was sent back for
    crashes

attributionVars == <<cause, outside, runs, memory, cycle, decision, blamed, crashes>>

Commits == {"R", "X"}

IdleCycle == [pc |-> "idle", seen |-> 0, todo |-> {}, of |-> "none", author |-> {}, wait |-> FALSE]

AttributionInit ==
    /\ cause \in [Checks -> Causes]
    /\ outside = 0
    /\ runs = [k \in Commits |-> <<>>]
    /\ memory = [k \in Commits |-> [count |-> 0, attempt |-> 0]]
    /\ cycle = IdleCycle
    /\ decision = "pending" /\ blamed = {}
    /\ crashes = 0

----------------------------------------------------------------------------
(* The forge *)

\* How a job of check c that starts now on commit k will end.
Ends(k, c) ==
    CASE cause[c] = "nothing" -> {"pass"}
      [] cause[c] = "candidate" -> {IF k = "R" THEN "fail" ELSE "pass"}
      [] cause[c] = "target" -> {"fail"}
      [] cause[c] = "outside" -> {IF outside > 0 THEN "fail" ELSE "pass"}
      [] OTHER -> {"pass", "fail"}

Latest(k) == runs[k][Len(runs[k])]

Going(k) == runs[k] # <<>> /\ \E c \in Checks : Latest(k)[c].out = "going"

\* A new attempt of k's run in which the jobs of redone start and others are copied.
Attempt(k, redone) ==
    /\ \E ends \in [Checks -> {"pass", "fail"}] :
         /\ \A c \in Checks : IF c \in redone THEN ends[c] \in Ends(k, c) ELSE ends[c] = "pass"
         /\ runs' = [runs EXCEPT ![k] = Append(@, [c \in Checks |->
              IF c \in redone
                THEN [out |-> "going", will |-> ends[c], after |-> Len(runs["R"])]
                ELSE Latest(k)[c]])]

\* A push starts the run of its commit.
StartRun(k) ==
    /\ runs[k] = <<>>
    /\ Attempt(k, Checks)
    /\ UNCHANGED <<cause, outside, memory, cycle, decision, blamed, crashes>>

\* A job ends, with its result or cancelled.
EndJob(k, c) ==
    /\ runs[k] # <<>> /\ Latest(k)[c].out = "going"
    /\ \E out \in {Latest(k)[c].will, "none"} :
         runs' = [runs EXCEPT ![k][Len(runs[k])][c].out = out]
    /\ UNCHANGED <<cause, outside, memory, cycle, decision, blamed, crashes>>

\* An advisory database, a toolchain or a runner image changes, for good.
ChangeOutside ==
    /\ outside < MaxBreaks
    /\ outside' = outside + 1
    /\ UNCHANGED <<cause, runs, memory, cycle, decision, blamed, crashes>>

----------------------------------------------------------------------------
(* The pure rules of flake.rs *)

\* The attempts of check c on commit k that ended in out.
With(k, c, out) == {i \in DOMAIN runs[k] : runs[k][i][c].out = out}

\* The reruns requested for k's run are at their cap.
Spent(k) == memory[k].count >= MaxReruns

\* verdict: the latest attempt decides, and a failure reproduces at two.
Verdict(c) ==
    CASE Latest("R")[c].out = "pass" -> IF With("R", c, "fail") = {} THEN "passed" ELSE "flaky"
      [] Latest("R")[c].out = "fail" /\ Cardinality(With("R", c, "fail")) >= 2 -> "reproduced"
      [] OTHER -> IF Spent("R") THEN "undecided" ELSE "rerun"

Judged(verdict) == {c \in Checks : Verdict(c) = verdict}

\* R's first failed attempt of c.
FirstFailure(c) == CHOOSE i \in With("R", c, "fail") : \A j \in With("R", c, "fail") : i <= j

\* Mutated form: any pass on the target counts.
FreshAny(c, i) == TRUE

\* A pass on X counts when it started after R had first failed.
Fresh(c, i) == runs["X"][i][c].after >= FirstFailure(c)

\* on_target and blame: the latest attempt with a result on X.
Blame(c) ==
    LET decided == With("X", c, "pass") \cup With("X", c, "fail")
        latest == CHOOSE i \in decided : \A j \in decided : j <= i
    IN IF decided = {}
         THEN IF With("X", c, "going") # {} THEN "wait" ELSE "unverified"
       ELSE IF latest \in With("X", c, "fail") THEN "target"
       ELSE IF Fresh(c, latest) THEN "author"
       ELSE IF Latest("X")[c].out = "going" THEN "wait"
       ELSE "refresh"

----------------------------------------------------------------------------
(* A cycle *)

\* A rerun was requested of the latest attempt seen, and no newer one appeared.
InFlight(k) == memory[k].count > 0 /\ memory[k].attempt >= Len(runs[k])

\* checks_gate: one poll of R, once every latest attempt has completed.
Poll ==
    /\ cycle.pc = "idle" /\ decision \in {"pending", "blocked"}
    /\ runs["R"] # <<>> /\ ~Going("R") /\ ~InFlight("R")
    /\ LET pc == IF Judged("rerun") # {} THEN "rerun"
                 ELSE IF Judged("reproduced") # {} THEN "attribute" ELSE "idle"
       IN /\ cycle' = [IdleCycle EXCEPT !.pc = pc, !.seen = Len(runs["R"]),
                         !.todo = IF pc = "attribute" THEN Judged("reproduced") ELSE {}]
          /\ decision' = IF pc # "idle" THEN "pending"
                         ELSE IF Judged("undecided") # {} THEN "blocked" ELSE "proceed"
    /\ UNCHANGED <<cause, outside, runs, memory, blamed, crashes>>

Record(k, attempt) ==
    memory' = [memory EXCEPT ![k] = [count |-> @.count + 1, attempt |-> attempt]]

\* Mutated form: the request is recorded before the forge has answered.
RequestRerunRecorded ==
    /\ cycle.pc = "rerun"
    /\ Record("R", cycle.seen)
    /\ \/ /\ ~Going("R") /\ Attempt("R", {c \in Checks : Latest("R")[c].out # "pass"})
          /\ cycle' = IdleCycle /\ UNCHANGED decision
       \/ cycle' = IdleCycle /\ decision' = "blocked" /\ UNCHANGED runs
    /\ UNCHANGED <<cause, outside, blamed, crashes>>

\* rerun: accepted, or refused and the subject is skipped until the next cycle.
RequestRerun ==
    /\ cycle.pc = "rerun"
    /\ \/ /\ Attempt("R", {c \in Checks : Latest("R")[c].out # "pass"})
          /\ cycle' = [cycle EXCEPT !.pc = "record"]
          /\ UNCHANGED decision
       \/ /\ cycle' = IdleCycle /\ decision' = "blocked"
          /\ UNCHANGED runs
    /\ UNCHANGED <<cause, outside, memory, blamed, crashes>>

RecordRerun ==
    /\ cycle.pc = "record"
    /\ Record("R", cycle.seen)
    /\ cycle' = IdleCycle
    /\ UNCHANGED <<cause, outside, runs, decision, blamed, crashes>>

\* target_state of one reproduced failure: X's checks are polled now.
Attribute(c) ==
    LET blame == Blame(c)
        refreshing == blame = "refresh" /\ ~InFlight("X") /\ ~Spent("X")
    IN
    /\ cycle.pc = "attribute" /\ c \in cycle.todo
    /\ cycle' = [cycle EXCEPT
         !.todo = @ \ {c},
         !.pc = IF refreshing THEN "refresh" ELSE "attribute",
         !.of = IF refreshing THEN c ELSE "none",
         !.seen = IF refreshing THEN Len(runs["X"]) ELSE @,
         !.author = IF blame = "author" THEN @ \cup {c} ELSE @,
         !.wait = @ \/ blame = "wait" \/ (blame = "refresh" /\ InFlight("X"))]
    /\ UNCHANGED <<cause, outside, runs, memory, decision, blamed, crashes>>

\* refresh_target: the job is rerun on X; a run that is going makes the gate
\* wait, any other refusal leaves X unverified.
RequestRefresh ==
    /\ cycle.pc = "refresh"
    /\ \/ /\ Going("X")
          /\ cycle' = [cycle EXCEPT !.pc = "attribute", !.of = "none", !.wait = TRUE]
          /\ UNCHANGED runs
       \/ /\ ~Going("X")
          /\ Attempt("X", {cycle.of})
          /\ cycle' = [cycle EXCEPT !.pc = "record_target"]
       \/ /\ cycle' = [cycle EXCEPT !.pc = "attribute", !.of = "none"]
          /\ UNCHANGED runs
    /\ UNCHANGED <<cause, outside, memory, decision, blamed, crashes>>

RecordRefresh ==
    /\ cycle.pc = "record_target"
    /\ Record("X", cycle.seen)
    /\ cycle' = [cycle EXCEPT !.pc = "attribute", !.of = "none", !.wait = TRUE]
    /\ UNCHANGED <<cause, outside, runs, decision, blamed, crashes>>

\* The author gets the failures that pass on X, whatever the others say.
Conclude ==
    /\ cycle.pc = "attribute" /\ cycle.todo = {}
    /\ decision' = IF cycle.author # {} THEN "author"
                   ELSE IF cycle.wait THEN "pending" ELSE "blocked"
    /\ blamed' = cycle.author
    /\ cycle' = IdleCycle
    /\ UNCHANGED <<cause, outside, runs, memory, crashes>>

\* The integrator dies and starts again with what it had saved.
IntegratorDies ==
    /\ cycle.pc # "idle" /\ crashes < MaxCrashes
    /\ crashes' = crashes + 1
    /\ cycle' = IdleCycle
    /\ UNCHANGED <<cause, outside, runs, memory, decision, blamed>>

AttributionNext ==
    \/ \E k \in Commits : StartRun(k) \/ \E c \in Checks : EndJob(k, c)
    \/ ChangeOutside
    \/ Poll \/ RequestRerun \/ RecordRerun
    \/ \E c \in Checks : Attribute(c)
    \/ RequestRefresh \/ RecordRefresh \/ Conclude \/ IntegratorDies

----------------------------------------------------------------------------

\* The author is sent back only for a check that the candidate breaks, or that
\* fails by chance: never for what the target or a change outside both commits
\* breaks, whenever that change happens between the attempts.
InnocentNotBlamed == \A c \in blamed : cause[c] \in {"candidate", "flaky"}

\* No result goes on to publication with a check that its commits break.
BrokenNeverProceeds ==
    decision = "proceed" => \A c \in Checks : cause[c] \notin {"candidate", "target"}

\* A run is rerun no more often than the cap, and once more per request whose
\* record died with the integrator.
RerunsCapped == \A k \in Commits : Len(runs[k]) <= 1 + MaxReruns + crashes

\* A gate that waits for a requested rerun waits for one the forge has started:
\* when no job is going, no requested rerun is outstanding.
WaitsForSomething ==
    cycle.pc = "idle" /\ ~Going("R") /\ ~Going("X") => ~InFlight("R") /\ ~InFlight("X")

AttributionSound ==
    InnocentNotBlamed /\ BrokenNeverProceeds /\ RerunsCapped /\ WaitsForSomething
=============================================================================
