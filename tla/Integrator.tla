----------------------------- MODULE Integrator -----------------------------
(***************************************************************************)
(* The deterministic integrator (crates/integrator) and the service        *)
(* endpoints it talks to (crates/server/src/integrator*.rs, reverts.rs).   *)
(*                                                                         *)
(* The integrator is one sequential loop that polls the service for        *)
(* approved submissions, computes the result R of merging a candidate into *)
(* the target's tip X, has R checked, asks for push authority, pushes R    *)
(* with a lease on X and attests what it then sees on the target.  It may  *)
(* die, or lose an answer of the service, at every step; only the file     *)
(* state.json survives (tip, frozen, published).  Meanwhile authors        *)
(* revise, humans reopen, gates are decided, reverts are requested and     *)
(* other people push to the same target.                                   *)
(*                                                                         *)
(* Commits.  A change stands for one reviewed commit, <<subject, number>>. *)
(* A tip is the sequence of the changes it holds, so that "is an ancestor  *)
(* of" is IsPrefix and merging a contained candidate gives the tip itself. *)
(***************************************************************************)
EXTENDS Naturals, Sequences, SequencesExt, FiniteSets, TLC

CONSTANTS
    Tasks,          \* implementation tasks
    Undo,           \* bound: the one revert task of some of them, a function
    Agent, Human,   \* authors of commits pushed past the service
    None,           \* "no value"
    Clashes,        \* pairs of tasks whose candidates conflict textually
    Privileged,     \* tasks whose candidates change a gated path
    MaxSubmissions, \* bound: submissions of the implementation tasks
    MaxDisturbances,\* bound: pushes by others, forced pushes, agents' revises,
                    \* humans' reopens and reverts, together
    MaxPublished    \* MAX_PUBLISHED: results remembered in state.json

ASSUME MaxPublishedAssumption == MaxPublished \in Nat \ {0}

VARIABLES
    \* the remote target branch; what the integrator and what others put on it
    target, ours, theirs,
    \* state.json of the integrator
    tip, frozen, published,
    \* the running cycle: where it is, X, the rest of the queue, the job at
    \* hand, the tip it observed for it
    pc, x, queue, job, seen,
    \* the service's database
    phase, subs, results, hold, revert, reported, answered,
    \* what the bounds have left
    budget

remote == <<target, ours, theirs>>
disk == <<tip, frozen, published>>
cycle == <<pc, x, queue, job, seen>>
service == <<phase, subs, results, hold, revert, reported, answered>>
vars == <<remote, disk, cycle, service, budget>>

-----------------------------------------------------------------------------
(* Subjects, submissions, commits                                          *)

Revertible == DOMAIN Undo
Undos == {Undo[t] : t \in Revertible}
Subjects == Tasks \cup Undos
Commits == (Subjects \cup {Agent, Human}) \X Nat

\* Reverts are tasks of their own; "no value" is neither a submission nor a
\* result.
ASSUME IntegratorAssumption ==
    /\ Revertible \subseteq Tasks
    /\ Undos \cap Tasks = {}
    /\ None \notin Subjects \X Nat
    /\ None \notin [s : Subjects, n : Nat, t0 : Seq(Commits)]
    /\ MaxSubmissions \in Nat /\ MaxDisturbances \in Nat

Contents(h) == Range(h)

\* A candidate: its change, the base its review saw, the changes under review
\* that its branch is stacked on, in order.
Candidate(c, b, o) == [cand |-> c, base |-> b, on |-> o]

\* A submission: "ok" is the standing of its approvals ("contributor": an
\* approver also worked on the task it is stacked on), "by" whether a
\* human or an agent (integrator, reviewer or author) superseded it, "req" its deferred revise, "withdraw" that revise's reason code.
Submission(k) ==
    [cand |-> k.cand, base |-> k.base, on |-> k.on, ok |-> "none",
     by |-> "nobody", req |-> "none", withdraw |-> FALSE]

Current(s) == Len(subs[s])
Sub(s, n) == subs[s][n]
StillCurrent(s, n) == n = Current(s) /\ Sub(s, n).by = "nobody"

\* The part of a candidate's stack that h lacks: h contains the ancestors of
\* what it contains.
Missing(h, k) ==
    LET there == {i \in DOMAIN k.on : k.on[i] \in Contents(h)}
    IN  SubSeq(k.on, Cardinality(there) + 1, Len(k.on))

\* The merge of a candidate into h (deterministic, the identity when h
\* contains it already).
Merged(h, k) == IF k.cand \in Contents(h) THEN h
                ELSE h \o Missing(h, k) \o <<k.cand>>

Conflicts(h, k) ==
    \E d \in Contents(h) \ Contents(k.base) : {d[1], k.cand[1]} \in Clashes

\* The commits a result adds to its target: t0..R.
LandingRange(t0, r) == Contents(r) \ Contents(t0)

-----------------------------------------------------------------------------
(* Results, push authority, reverts                                        *)

Key(s, n, t0) == [s |-> s, n |-> n, t0 |-> t0]
Keys == DOMAIN results
KeysOf(s, n) == {k \in Keys : k.s = s /\ k.n = n}
Issued(s, n) == {k \in KeysOf(s, n) : results[k].issued}

NewResult(r) == [r |-> r, issued |-> FALSE, granted |-> FALSE,
                 receipt |-> "none", gate |-> "none", landed |-> FALSE]

\* An approved, current candidate awaiting integration.
Eligible(s) == /\ phase[s] = "integration"
               /\ Sub(s, Current(s)).ok # "none"

\* A revert without a live candidate, which the integrator has to compute.
AwaitsCandidate(v) == /\ v \in Undos
                      /\ revert[v].mode = "mechanical"
                      /\ phase[v] = "work"

\* Mutated form: a revert is forgotten once it has landed.
LiveRevertsOpen ==
    {v \in Undos : revert[v].of # None /\ phase[v] \notin {"canceled", "done"}}

\* Reverts that are not canceled, and the commits they undo or are to undo.
LiveReverts == {v \in Undos : revert[v].of # None /\ phase[v] # "canceled"}

RevertedRange(v) == LandingRange(revert[v].of.t0, results[revert[v].of].r)
Reverted == UNION {RevertedRange(v) : v \in LiveReverts}

\* Whether the commits of a result that adds nothing were undone by a revert.
RevertedHits(k, r) ==
    /\ r = k.t0
    /\ Sub(k.s, k.n).cand \in Reverted

-----------------------------------------------------------------------------
\* The first tip the integrator ever sees is recorded as it is: the model
\* starts there.
Init ==
    /\ target = <<>> /\ ours = {} /\ theirs = {}
    /\ tip = target /\ frozen = FALSE /\ published = <<>>
    /\ pc = "idle" /\ x = <<>> /\ queue = {} /\ job = None /\ seen = None
    /\ phase = [s \in Subjects |-> IF s \in Tasks THEN "work" ELSE "absent"]
    /\ subs = [s \in Subjects |-> <<>>]
    /\ results = <<>>
    /\ hold = None
    /\ revert = [v \in Undos |-> [of |-> None, mode |-> "mechanical",
                                  reviewed |-> TRUE]]
    /\ reported = {}
    /\ answered = {}
    /\ budget = [submit |-> MaxSubmissions, disturb |-> MaxDisturbances]

Spend(b) == /\ budget[b] > 0
            /\ budget' = [budget EXCEPT ![b] = @ - 1]

EndCycle == /\ pc' = "idle" /\ x' = <<>> /\ queue' = {}
            /\ job' = None /\ seen' = None

\* Blocked, Refused and Failed steps are logged and skip the item.
Skip == /\ pc' = "pick" /\ job' = None /\ seen' = None
        /\ UNCHANGED <<x, queue>>

-----------------------------------------------------------------------------
(* A cycle: the queue, then the target                                     *)

\* An eligible submission with the tips it has results for.
QueueItem(s) == [s |-> s, n |-> Current(s), reverted |-> Reverted,
                 known |-> {k.t0 : k \in KeysOf(s, Current(s))},
                 held |-> {k.t0 : k \in Issued(s, Current(s))}]

PendingRevert(v) == [s |-> v, n |-> 0, reverted |-> {}, known |-> {},
                     held |-> {}]

\* GET queue: a snapshot of the eligible submissions with their results and
\* of the reverts that await a candidate.
ReadQueue ==
    /\ pc = "idle"
    /\ pc' = "watch"
    /\ queue' = {QueueItem(s) : s \in {s \in Subjects : Eligible(s)}}
                \cup {PendingRevert(v) : v \in {v \in Undos : AwaitsCandidate(v)}}
    /\ UNCHANGED <<x, job, seen, remote, disk, service, budget>>

\* Whether h continues the recorded tip: anything else is a rewrite.
Descends(h) == IsPrefix(tip, h)

\* Observes X and compares it with the recorded tip.
WatchTarget ==
    /\ pc = "watch"
    /\ \/ /\ frozen \/ ~Descends(target)
          /\ frozen' = TRUE
          /\ EndCycle
       \/ /\ ~frozen /\ Descends(target)
          /\ x' = target
          /\ pc' = IF tip = target THEN "pick" ELSE "classify"
          /\ UNCHANGED <<frozen, queue, job, seen>>
    /\ UNCHANGED <<tip, published, remote, service, budget>>

\* Mutated form: a move that holds a landing of ours is taken for ours.
OutOfBandWhole ==
    IF \E p \in Range(published) : IsPrefix(p.r, x) /\ ~IsPrefix(p.r, tip)
    THEN {} ELSE {c \in LandingRange(tip, x) : c[1] # Human}

\* The agents' commits of the move that no result of this integrator landed.
OutOfBand ==
    LET moved == LandingRange(tip, x)
        own == {p \in Range(published) : IsPrefix(p.r, x) /\ ~IsPrefix(p.r, tip)}
    IN  {c \in moved \ UNION {LandingRange(p.t0, p.r) : p \in own} :
            c[1] # Human}

\* Reports an unreviewed landing; the move is settled once the report is
\* stored or refused (both count as reported: a refusal is final for the
\* loop), otherwise the target is held for this cycle.
ClassifyMove ==
    /\ pc = "classify"
    /\ \/ /\ reported' = reported \cup OutOfBand
          /\ pc' = "record"
          /\ UNCHANGED <<x, queue, job, seen>>
       \/ /\ OutOfBand # {}
          /\ EndCycle
          /\ UNCHANGED reported
    /\ UNCHANGED <<remote, disk, phase, subs, results, hold, revert, answered,
                   budget>>

RecordTip ==
    /\ pc = "record"
    /\ tip' = x
    /\ pc' = "pick"
    /\ UNCHANGED <<frozen, published, x, queue, job, seen, remote, service,
                   budget>>

HeldElsewhere(i) == {t0 \in i.held : t0 # x}

\* Takes the next item: a revert, a result of another tip that still holds
\* push authority (it is observed first), or the integration on X.
PickItem ==
    /\ pc = "pick"
    /\ \/ \E i \in queue :
            LET held == HeldElsewhere(i) IN
            /\ queue' = queue \ {i}
            /\ job' = [s |-> i.s, n |-> i.n, reverted |-> i.reverted,
                       known |-> i.known, why |-> "none",
                       t0 |-> IF held = {} THEN x ELSE CHOOSE t0 \in held : TRUE]
            /\ pc' = IF i.n = 0 THEN "revert"
                     ELSE IF held = {} THEN "pin" ELSE "observe"
            /\ UNCHANGED <<x, seen>>
       \/ queue = {} /\ EndCycle
    /\ UNCHANGED <<remote, disk, service, budget>>

JobKey == Key(job.s, job.n, job.t0)
JobSub == Sub(job.s, job.n)
JobResult == Merged(x, JobSub)

\* The loop dies, or a call to the service fails, which aborts the cycle; a
\* missing branch rule ends it as well.
Abort == /\ pc # "idle"
         /\ EndCycle
         /\ UNCHANGED <<remote, disk, service, budget>>

\* A git command of one item fails: the item is skipped.
GitFails == /\ pc \in {"revert", "pin", "gate", "checks", "observe"}
            /\ Skip
            /\ UNCHANGED <<remote, disk, service, budget>>

-----------------------------------------------------------------------------
(* Superseding a submission                                                *)

\* Mutated form: the hold on the target outlives the submission.
SupersededHolding(s, who) ==
    /\ subs' = [subs EXCEPT ![s][Current(s)].by = who]
    /\ phase' = [phase EXCEPT ![s] = "work"]
    /\ UNCHANGED hold

Superseded(s, who) ==
    /\ subs' = [subs EXCEPT ![s][Current(s)].by = who]
    /\ phase' = [phase EXCEPT ![s] = "work"]
    /\ hold' = IF hold = <<s, Current(s)>> THEN None ELSE hold

\* The integrator's own revise: refused while push authority is outstanding.
Revisable(s, n) == /\ phase[s] = "integration" /\ StillCurrent(s, n)
                   /\ Issued(s, n) = {}

RevertedInHistory(s, n) ==
    ({Sub(s, n).cand} \cup UNION {LandingRange(k.t0, results[k].r) :
                                     k \in KeysOf(s, n)}) \cap Reverted # {}

IntegratorRevise ==
    /\ pc = "revise"
    /\ \/ /\ Revisable(job.s, job.n)
          /\ job.why = "reverted" => RevertedInHistory(job.s, job.n)
          /\ Superseded(job.s, "agent")
          /\ EndCycle
       \/ /\ ~Revisable(job.s, job.n)
                \/ (job.why = "reverted" /\ ~RevertedInHistory(job.s, job.n))
          /\ Skip
          /\ UNCHANGED <<phase, subs, hold>>
    /\ UNCHANGED <<results, revert, reported, answered, remote, disk, budget>>

-----------------------------------------------------------------------------
(* Reverts                                                                 *)

\* not-mechanical: the revert becomes implementation work, unless a push of
\* its candidate in review or integration may be under way.
Convertible(v) == /\ revert[v].mode = "mechanical"
                  /\ phase[v] \in {"work", "review", "integration"}
                  /\ phase[v] # "work" => Issued(v, Current(v)) = {}

Convert(v) ==
    /\ revert' = [revert EXCEPT ![v].mode = "not_mechanical"]
    /\ phase' = [phase EXCEPT ![v] = "converted"]
    /\ subs' = IF phase[v] = "work" THEN subs
               ELSE [subs EXCEPT ![v][Current(v)].by = "agent"]
    /\ hold' = IF hold = <<v, Current(v)>> THEN None ELSE hold

\* candidate: recorded as the revert's submission, in review unless a human
\* asked for the revert.
RecordCandidate(v, h) ==
    LET k == Candidate(<<v, Len(h)>>, h, <<>>)
        s == [Submission(k) EXCEPT
                !.ok = IF revert[v].reviewed THEN "none" ELSE "clean"]
    IN  /\ subs' = [subs EXCEPT ![v] = Append(@, s)]
        /\ phase' = [phase EXCEPT ![v] = IF revert[v].reviewed THEN "review"
                                         ELSE "integration"]
        /\ answered' = answered \cup {<<v, h>>}

\* The revert of R on h: clean only when R is in h and not undone there.
CleanRevert(v, h) == /\ IsPrefix(results[revert[v].of].r, h)
                     /\ ~\E c \in Contents(h) : c[1] = v

\* A candidate posted before for the same tip has the same idempotency key, so
\* the service replays its answer.
RevertStep ==
    LET v == job.s
        clean == CleanRevert(v, x)
    IN  /\ pc = "revert"
        /\ \/ /\ clean /\ <<v, x>> \in answered
              /\ EndCycle
              /\ UNCHANGED <<phase, subs, hold, revert, answered>>
           \/ /\ clean /\ <<v, x>> \notin answered /\ AwaitsCandidate(v)
              /\ RecordCandidate(v, x)
              /\ EndCycle
              /\ UNCHANGED <<hold, revert>>
           \/ /\ clean /\ <<v, x>> \notin answered /\ ~AwaitsCandidate(v)
              /\ Skip
              /\ UNCHANGED <<phase, subs, hold, revert, answered>>
           \/ /\ Convertible(v)
              /\ Convert(v)
              /\ EndCycle
              /\ UNCHANGED answered
           \/ /\ ~Convertible(v)
              /\ Skip
              /\ UNCHANGED <<phase, subs, hold, revert, answered>>
        /\ UNCHANGED <<results, reported, remote, disk, budget>>

\* The checks of a mechanical revert failed for its own fault.
RevertCheckFailed ==
    /\ pc = "unmechanical"
    /\ \/ Convertible(job.s) /\ Convert(job.s) /\ EndCycle
       \/ /\ ~Convertible(job.s) /\ Skip
          /\ UNCHANGED <<phase, subs, hold, revert>>
    /\ UNCHANGED <<results, reported, answered, remote, disk, budget>>

-----------------------------------------------------------------------------
(* Integration of one item on X                                            *)

\* The service stores one result for each (submission, tip), of an eligible
\* submission, unless it adds only commits that a revert undid.
Pinnable(k, r) == /\ Eligible(k.s) /\ StillCurrent(k.s, k.n)
                  /\ k \notin Keys
                  /\ ~RevertedHits(k, r)

\* Computes R and pins it for (submission, X). A conflict, and a candidate
\* whose commits a revert undid, go back to the author.
PinResult ==
    LET r == JobResult
        eligible == Eligible(job.s) /\ StillCurrent(job.s, job.n)
        fresh == Pinnable(JobKey, r)
        onward == IF r = x THEN "observe" ELSE "gate"
        Send(why) == /\ job' = [job EXCEPT !.why = why]
                     /\ pc' = "revise"
                     /\ UNCHANGED <<x, queue, seen, results>>
    IN  /\ pc = "pin"
        /\ IF Conflicts(x, JobSub) THEN Send("conflict")
           ELSE IF r = x /\ JobSub.cand \in job.reverted THEN Send("reverted")
           ELSE IF x \in job.known \/ (eligible /\ JobKey \in Keys) \/ fresh
           THEN /\ pc' = onward
                /\ results' = IF fresh /\ x \notin job.known
                              THEN [k \in Keys \cup {JobKey} |->
                                      IF k = JobKey THEN NewResult(r) ELSE results[k]]
                              ELSE results
                /\ UNCHANGED <<x, queue, job, seen>>
           ELSE IF eligible THEN Send("reverted")
           ELSE Skip /\ UNCHANGED results
        /\ UNCHANGED <<phase, subs, hold, revert, reported, answered, remote,
                       disk, budget>>

Gated(t0, r) == \E c \in LandingRange(t0, r) :
                    c[1] \in Privileged \cup {Undo[t] : t \in Privileged \cap Revertible}

\* A change of a gated path is reported once for each result and waits for
\* a human's decision.
PrivilegeGate ==
    LET gate == results[JobKey].gate IN
    /\ pc = "gate"
    /\ \/ /\ Gated(x, JobResult) /\ gate # "allow"
          /\ results' = [results EXCEPT ![JobKey].gate =
                            IF @ = "none" THEN "open" ELSE @]
          /\ Skip
       \/ /\ ~Gated(x, JobResult) \/ gate = "allow"
          /\ pc' = "checks"
          /\ UNCHANGED <<results, x, queue, job, seen>>
    /\ UNCHANGED <<phase, subs, hold, revert, reported, answered, remote, disk,
                   budget>>

\* The service's record of the checks of R: the last run decides.
Receipt(c) == results' = [results EXCEPT ![JobKey].receipt = c]

\* Polls the required checks on R and records their receipts; who is blamed
\* for a failure is decided in module Attribution. A rerun may turn either
\* outcome, so every poll may see any of them.
ChecksGate ==
    /\ pc = "checks"
    /\ \/ UNCHANGED results /\ EndCycle
       \/ Receipt("pass") /\ pc' = "authority" /\ UNCHANGED <<x, queue, job, seen>>
       \/ Receipt("fail") /\ Skip
       \/ /\ Receipt("fail")
          /\ IF job.s \in Undos THEN pc' = "unmechanical" /\ UNCHANGED job
             ELSE pc' = "revise" /\ job' = [job EXCEPT !.why = "checks"]
          /\ UNCHANGED <<x, queue, seen>>
    /\ UNCHANGED <<phase, subs, hold, revert, reported, answered, remote, disk,
                   budget>>

\* Submissions of other tasks whose commits the result would land.
Foreign(k) ==
    LET range == LandingRange(k.t0, results[k].r) IN
    {f \in UNION {{s} \X (1..Current(s)) : s \in Subjects \ {k.s}} :
        \/ Sub(f[1], f[2]).cand \in range
        \/ \E o \in KeysOf(f[1], f[2]) :
              LandingRange(o.t0, results[o].r) \cap range # {}}

\* Approved or integrated, and not superseded.
Settled(f) == /\ Sub(f[1], f[2]).by = "nobody"
              /\ phase[f[1]] = "done" \/ Sub(f[1], f[2]).ok # "none"

\* Mutated form: nobody looks at the commits the candidate is stacked on.
JudgedAlone(k) ==
    /\ results[k].gate \in {"none", "allow"}
    /\ Eligible(k.s) /\ StillCurrent(k.s, k.n)
    /\ Issued(k.s, k.n) \subseteq {k}
    /\ results[k].receipt = "pass"

\* Every refusal of push-authority that has no side effect.
Judged(k) ==
    /\ results[k].gate \in {"none", "allow"}
    /\ Eligible(k.s) /\ StillCurrent(k.s, k.n)
    /\ Issued(k.s, k.n) \subseteq {k}
    /\ results[k].receipt = "pass"
    /\ \A f \in Foreign(k) : Settled(f)

\* An approver who contributed to the landed work voids the approval.
ContributorApproved(k) == Foreign(k) # {} /\ Sub(k.s, k.n).ok = "contributor"

\* The approval is void: the submission goes back to its reviewers.
ReturnToReview(k) == /\ phase' = [phase EXCEPT ![k.s] = "review"]
                     /\ subs' = [subs EXCEPT ![k.s][k.n].ok = "none"]

HeldByOther(k) == hold \notin {None, <<k.s, k.n>>}

TakeHold(k) == hold' = <<k.s, k.n>>

\* push-authority: a grant takes the target's hold and stays outstanding
\* until the next observation.
PushAuthority ==
    LET k == JobKey
        held == HeldByOther(k)
    IN  /\ pc = "authority"
        /\ \/ /\ ~Judged(k) \/ (~ContributorApproved(k) /\ held)
              /\ Skip
              /\ UNCHANGED <<phase, subs, results, hold>>
           \/ /\ Judged(k) /\ ContributorApproved(k)
              /\ ReturnToReview(k)
              /\ EndCycle
              /\ UNCHANGED <<results, hold>>
           \/ /\ Judged(k) /\ ~ContributorApproved(k) /\ ~held
              /\ TakeHold(k)
              /\ results' = [results EXCEPT ![k].issued = TRUE,
                                                ![k].granted = TRUE]
              /\ pc' = "publish"
              /\ UNCHANGED <<phase, subs, x, queue, job, seen>>
        /\ UNCHANGED <<revert, reported, answered, remote, disk, budget>>

\* Remembers R durably before it is pushed.
RecordPublished ==
    LET entry == [r |-> results[JobKey].r, t0 |-> x]
        list == Append(published, entry)
        excess == Len(list) - MaxPublished
    IN  /\ pc = "publish"
        /\ published' = IF \E p \in Range(published) : p.r = entry.r
                        THEN published
                        ELSE IF excess > 0 THEN SubSeq(list, excess + 1, Len(list))
                        ELSE list
        /\ pc' = "push"
        /\ UNCHANGED <<tip, frozen, x, queue, job, seen, remote, service,
                       budget>>

\* Pushes R with a lease on X. The push may fail, or not be tried because
\* the authority's time is up or the target moved.
Push ==
    /\ pc = "push"
    /\ \/ /\ target = x
          /\ target' = results[JobKey].r
          /\ ours' = ours \cup LandingRange(x, results[JobKey].r)
       \/ UNCHANGED <<target, ours>>
    /\ pc' = "observe"
    /\ UNCHANGED <<theirs, x, queue, job, seen, disk, service, budget>>

\* Reads the tip again, whatever became of the push.
ObserveTip ==
    /\ pc = "observe"
    /\ seen' = target
    /\ pc' = "attest"
    /\ UNCHANGED <<x, queue, job, remote, disk, service, budget>>

Ancestry(k, h) == IF IsPrefix(results[k].r, h) THEN "contained"
                  ELSE IF h = k.t0 THEN "equal_t0" ELSE "moved"

Disposition(k, h) ==
    IF Ancestry(k, h) = "equal_t0" THEN "not_published"
    ELSE IF Ancestry(k, h) = "moved" THEN "target_moved"
    ELSE IF ~StillCurrent(k.s, k.n) THEN "published_after_reopen"
    ELSE IF results[k].r = k.t0 THEN "already_contained"
    ELSE "published"

\* Only the result that holds push authority may end it, and only such a
\* result may be observed as published.
Observable(k, d) ==
    /\ phase[k.s] # "done"
    /\ Issued(k.s, k.n) \subseteq {k}
    /\ d = "published" => results[k].issued

\* What becomes of a revise that waited for the push.
SettledRevise(k, d) ==
    LET s == Sub(k.s, k.n) IN
    IF s.req # "pending" THEN s
    ELSE IF ~StillCurrent(k.s, k.n) THEN [s EXCEPT !.req = "moot"]
    ELSE IF d \in {"published", "already_contained"}
    THEN [s EXCEPT !.req = "follow_up"]
    ELSE [s EXCEPT !.req = "applied", !.by = "agent"]

\* The urgent revert of an author's withdrawal that lost to the push (a
\* revert of a revert is beyond the model's bound).
Withdrawn(k, d) == /\ d = "published" /\ k.s \in Revertible
                   /\ Sub(k.s, k.n).req = "pending" /\ Sub(k.s, k.n).withdraw
                   /\ revert[Undo[k.s]].of = None

NewRevert(v, k, reviewed) ==
    revert' = [revert EXCEPT ![v] = [of |-> k, mode |-> "mechanical",
                                     reviewed |-> reviewed]]

\* The state change a disposition implies.
ApplyDisposition(k, d) ==
    LET s == SettledRevise(k, d)
        landed == d \in {"published", "already_contained"}
    IN  /\ results' = [results EXCEPT ![k].issued = FALSE,
                                      ![k].landed = @ \/ d = "published"]
        /\ hold' = IF hold = <<k.s, k.n>> THEN None ELSE hold
        /\ subs' = [subs EXCEPT ![k.s][k.n] = s]
        /\ phase' = [y \in Subjects |->
                        CASE y = k.s /\ landed -> "done"
                          [] y = k.s /\ s.req = "applied"
                                     /\ Sub(k.s, k.n).req = "pending" -> "work"
                          [] Withdrawn(k, d) /\ y = Undo[k.s] -> "work"
                          [] OTHER -> phase[y]]
        /\ IF Withdrawn(k, d) THEN NewRevert(Undo[k.s], k, TRUE)
           ELSE UNCHANGED revert

\* Attests the observed tip. A tip that does not descend from the recorded
\* one freezes the target once the answer is there; the answer may be lost,
\* or the loop die, before the freeze is saved.
Attest ==
    LET k == JobKey
        d == Disposition(k, seen)
    IN  /\ pc = "attest"
        /\ \/ /\ Observable(k, d)
              /\ ApplyDisposition(k, d)
              /\ frozen' \in {frozen, frozen \/ ~Descends(seen)}
              /\ EndCycle
           \/ /\ ~Observable(k, d)
              /\ Skip
              /\ UNCHANGED <<results, hold, subs, phase, revert, frozen>>
        /\ UNCHANGED <<tip, published, reported, answered, remote, budget>>

-----------------------------------------------------------------------------
(* Everyone else                                                           *)

\* The branch of a submission: what its candidate is stacked on, and it.
Branch(k) == Append(k.on, k.cand)

\* A candidate of new commits, possibly stacked on another task's, or of
\* commits that landed before.
Submit(t) ==
    \E k \in {Candidate(<<t, Current(t) + 1>>, target, o) :
                o \in {<<>>} \cup {Branch(Sub(u, Current(u))) :
                         u \in {u \in Tasks \ {t} : phase[u] = "review"}}}
             \cup UNION {{Candidate(Sub(u, n).cand, target, Sub(u, n).on) :
                             n \in {n \in 1..Current(u) : Sub(u, n).cand \in ours}} :
                         u \in Tasks \ {t}} :
        /\ phase[t] = "work"
        /\ Spend("submit")
        /\ subs' = [subs EXCEPT ![t] = Append(@, Submission(k))]
        /\ phase' = [phase EXCEPT ![t] = "review"]
        /\ UNCHANGED <<results, hold, revert, reported, answered, remote, disk,
                       cycle>>

Approve(s) ==
    /\ phase[s] = "review"
    /\ \E ok \in {"clean"} \cup
                 (IF Sub(s, Current(s)).on = <<>> THEN {} ELSE {"contributor"}) :
          subs' = [subs EXCEPT ![s][Current(s)].ok = ok]
    /\ phase' = [phase EXCEPT ![s] = "integration"]
    /\ UNCHANGED <<results, hold, revert, reported, answered, remote, disk,
                   cycle, budget>>

\* A review that requests changes; on a mechanical revert it cancels it.
RequestChanges(s) ==
    /\ phase[s] = "review"
    /\ subs' = [subs EXCEPT ![s][Current(s)].by = "agent"]
    /\ phase' = [phase EXCEPT ![s] = IF s \in Undos THEN "canceled" ELSE "work"]
    /\ hold' = IF hold = <<s, Current(s)>> THEN None ELSE hold
    /\ UNCHANGED <<results, revert, reported, answered, remote, disk, cycle,
                   budget>>

\* Mutated form: an agent's revise does not wait for the push.
AgentReviseNow(s) ==
    /\ phase[s] \in {"review", "integration"}
    /\ Spend("disturb")
    /\ Superseded(s, "agent")
    /\ UNCHANGED <<results, revert, reported, answered, remote, disk, cycle>>

\* An agent's revise is deferred while push authority is outstanding.
AgentRevise(s) ==
    \E withdraw \in BOOLEAN :
        /\ phase[s] \in {"review", "integration"}
        /\ Spend("disturb")
        /\ \/ /\ Issued(s, Current(s)) = {}
              /\ Superseded(s, "agent")
           \/ /\ Issued(s, Current(s)) # {}
              /\ Sub(s, Current(s)).req = "none"
              /\ subs' = [subs EXCEPT ![s][Current(s)].req = "pending",
                                      ![s][Current(s)].withdraw = withdraw]
              /\ UNCHANGED <<phase, hold>>
        /\ UNCHANGED <<results, revert, reported, answered, remote, disk, cycle>>

\* A human's reopen is not.
HumanReopen(s) ==
    /\ phase[s] \in {"review", "integration"}
    /\ Spend("disturb")
    /\ Superseded(s, "human")
    /\ UNCHANGED <<results, revert, reported, answered, remote, disk, cycle>>

ResolveGate(k, decision) ==
    /\ results[k].gate = "open"
    /\ results' = [results EXCEPT ![k].gate = decision]
    /\ UNCHANGED <<phase, subs, hold, revert, reported, answered, remote, disk,
                   cycle, budget>>

\* Only a published result is reverted, and once at a time.
RevertTarget(k) == /\ k.s \in Revertible
                   /\ results[k].landed /\ phase[k.s] = "done"
                   /\ revert[Undo[k.s]].of = None

\* A revert of a published result, reviewed unless a human asks for it.
RequestRevert(k, reviewed) ==
    /\ RevertTarget(k)
    /\ Spend("disturb")
    /\ NewRevert(Undo[k.s], k, reviewed)
    /\ phase' = [phase EXCEPT ![Undo[k.s]] = "work"]
    /\ UNCHANGED <<subs, results, hold, reported, answered, remote, disk, cycle>>

\* Somebody pushes to the target: commits of their own, or a candidate.
ForeignPush ==
    \E h \in {Append(target, <<who, budget.disturb>>) : who \in {Agent, Human}}
             \cup {Merged(target, Sub(s, Current(s))) :
                     s \in {s \in Subjects : phase[s] \in {"review", "integration"}}} :
        /\ h # target
        /\ Spend("disturb")
        /\ target' = h
        /\ theirs' = theirs \cup LandingRange(target, h)
        /\ UNCHANGED <<ours, service, disk, cycle>>

\* A forced push takes the target back to a tip it had before.
RewriteTarget ==
    \E h \in {<<>>, tip} \cup {k.t0 : k \in Keys} :
        /\ IsStrictPrefix(h, target)
        /\ Spend("disturb")
        /\ target' = h
        /\ UNCHANGED <<ours, theirs, service, disk, cycle>>

-----------------------------------------------------------------------------
Loop ==
    \/ ReadQueue \/ WatchTarget \/ ClassifyMove \/ RecordTip \/ PickItem
    \/ RevertStep \/ RevertCheckFailed \/ IntegratorRevise
    \/ PinResult \/ PrivilegeGate \/ ChecksGate \/ PushAuthority
    \/ RecordPublished \/ Push \/ ObserveTip \/ Attest
    \/ Abort \/ GitFails

Others ==
    \/ \E t \in Tasks : Submit(t)
    \/ \E s \in Subjects :
         Approve(s) \/ RequestChanges(s) \/ AgentRevise(s) \/ HumanReopen(s)
    \/ \E k \in Keys :
         \/ \E d \in {"allow", "deny"} : ResolveGate(k, d)
         \/ \E reviewed \in BOOLEAN : RequestRevert(k, reviewed)
    \/ ForeignPush \/ RewriteTarget

Next == Loop \/ Others

Spec == Init /\ [][Next]_vars

-----------------------------------------------------------------------------
(* What must hold                                                          *)

TypeOK ==
    /\ frozen \in BOOLEAN
    /\ Len(published) <= MaxPublished
    /\ phase \in [Subjects -> {"absent", "work", "review", "integration", "done",
                               "canceled", "converted"}]
    /\ hold = None \/ hold[1] \in Subjects
    /\ \A k \in Keys : results[k].receipt \in {"none", "pass", "fail"}
    /\ pc \in {"idle", "watch", "classify", "record", "pick", "revert", "pin",
               "revise", "unmechanical", "gate", "checks", "authority",
               "publish", "push", "observe", "attest"}

\* What lands with a result was approved: the submission itself, and each
\* commit it brings along, which is a candidate of its own task or of one that
\* is done or whose approvals count (ensure_not_stacked).
RangeApproved(k) ==
    /\ Sub(k.s, k.n).ok # "none"
    /\ \A c \in LandingRange(k.t0, results[k].r) :
         \E s \in Subjects : \E n \in 1..Current(s) :
            /\ Sub(s, n).cand = c
            /\ s = k.s \/ phase[s] = "done" \/ Sub(s, n).ok # "none"

\* A push lands only the result that push authority was issued for, approved,
\* checked and not gated, on the tip that the monitor recorded, while the
\* target is not frozen; the submission is still current, or a human (whose
\* reopen does not wait for the push) superseded it. An author's revise
\* therefore never overtakes a push (integrator_observe.rs, defer_revise).
PushesAreAuthorized ==
    [][(ours' # ours) =>
        LET k == JobKey IN
        /\ ~frozen /\ tip = target /\ target = k.t0
        /\ results[k].issued /\ results[k].receipt = "pass"
        /\ Gated(k.t0, results[k].r) => results[k].gate = "allow"
        /\ StillCurrent(k.s, k.n) \/ Sub(k.s, k.n).by = "human"
        /\ RangeApproved(k)]_vars

\* A task is completed only by a candidate that was on the target.
CompletedIsLanded ==
    \A s \in Subjects :
        phase[s] = "done" => Sub(s, Current(s)).cand \in ours \cup theirs

\* Push authority is outstanding for one result of a submission, and the
\* submission then holds the target; a hold always has such a result, so the
\* next observation releases it.
OneAuthority ==
    /\ \A s \in Subjects : \A n \in 1..Current(s) :
         \A k, l \in Issued(s, n) : k = l
    /\ hold # None => /\ StillCurrent(hold[1], hold[2])
                      /\ Issued(hold[1], hold[2]) # {}
    /\ \A k \in Keys : results[k].issued /\ StillCurrent(k.s, k.n)
                          => hold = <<k.s, k.n>>

\* A deferred revise of a current submission still has the observation before
\* it that settles it.
DeferredIsOwed ==
    \A s \in Subjects : \A n \in 1..Current(s) :
        Sub(s, n).req = "pending" /\ StillCurrent(s, n) => Issued(s, n) # {}

\* The integrator's own landings are never reported as unreviewed, and once
\* a tip is recorded every agent commit that others put there was reported,
\* whether the service took the report or refused it (landing.rs, gates.rs), also
\* when the integrator died around its push. (A result may be the candidate itself;
\* when others push the very result that push authority was granted for, it passes
\* for ours.)
ProvenanceKept ==
    /\ reported \cap ours \subseteq theirs
    /\ \A c \in theirs \cap Contents(tip) :
            \/ c[1] = Human \/ c \in reported
            \/ \E k \in Keys : /\ results[k].granted
                               /\ c \in LandingRange(k.t0, results[k].r)

\* The safety of landing: the invariants above.
LandingSafe == TypeOK /\ CompletedIsLanded /\ OneAuthority /\ DeferredIsOwed

\* A candidate whose commits were landed and undone by a revert that is done
\* does not complete its task by being in the history: when nothing was left
\* to land (ensure_not_reverted_in_history).
UndoneStaysUndone ==
    [][\A s \in Subjects :
        LET c == Sub(s, Current(s)).cand IN
        phase'[s] = "done" /\ phase[s] # "done" /\ c \in Contents(job.t0) =>
            ~\E v \in Undos : /\ revert[v].of # None /\ phase[v] = "done"
                              /\ c \in RevertedRange(v)]_vars

=============================================================================
