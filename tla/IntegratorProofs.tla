---------------------------- MODULE IntegratorProofs ----------------------------
(***************************************************************************)
(* Proofs about the integrator and its service endpoints: what lands is    *)
(* authorized, checked and reviewed, authority is always observed before   *)
(* it is given again, and work that a revert undid does not come back as   *)
(* landed; for any tasks, conflicts, gated paths and bounds.               *)
(*                                                                         *)
(* IInv is the inductive invariant.  The forty steps of the system are     *)
(* first reduced to the few effects they have on the service's tables      *)
(* (Effect: a submission loses, gains or amends its standing, a revert     *)
(* opens, a result is pinned, noted, granted or closed), so that the       *)
(* invariants about the tables are proved once for each effect, and to     *)
(* the few ways the cycle moves on (WorkStep, Onward), on which rest the   *)
(* invariants that tie the job at hand to the tables.  HistoryKnown is     *)
(* what completing a task without landing anything needs on top of it.     *)
(* Ledger (what is recorded is accounted for) and Remembered (what is not  *)
(* recorded yet can be attributed, while the file suffices) are what the   *)
(* classification of the target needs.                                     *)
(***************************************************************************)
EXTENDS Integrator, FiniteSetTheorems, TLAPS

USE IntegratorAssumption, MaxPublishedAssumption

---------------------------------------------------------------------------
(* The invariant.                                                          *)

\* The values of the variables.
Phases == {"absent", "work", "review", "integration", "done", "canceled", "converted"}
Live == {"review", "integration", "done"}
Tips == Seq(Commits)
SubRow == [cand : Commits, base : Tips, on : Tips, ok : {"none", "clean", "contributor"},
           by : {"nobody", "human", "agent"}, withdraw : BOOLEAN,
           req : {"none", "pending", "moot", "follow_up", "applied"}]
KeyRow == [s : Subjects, n : Nat, t0 : Tips]
ResultRow == [r : Tips, issued : BOOLEAN, granted : BOOLEAN, landed : BOOLEAN,
              receipt : {"none", "pass", "fail"}, gate : {"none", "open", "allow", "deny"}]
RevertRow == [of : KeyRow \cup {None}, mode : {"mechanical", "not_mechanical"},
              reviewed : BOOLEAN]
ItemRow == [s : Subjects, n : Nat, reverted : SUBSET Commits, known : SUBSET Tips,
            held : SUBSET Tips]
JobRow == [s : Subjects, n : Nat, reverted : SUBSET Commits, known : SUBSET Tips,
           why : {"none", "conflict", "reverted", "checks"}, t0 : Tips]
Granting == {"publish", "push"}
Checking == {"gate", "checks", "authority"} \cup Granting
Working == {"revert", "pin", "revise", "unmechanical", "observe", "attest"} \cup Checking

Types ==
  /\ target \in Tips /\ tip \in Tips /\ x \in Tips
  /\ ours \subseteq Commits /\ theirs \subseteq Commits
  /\ frozen \in BOOLEAN
  /\ published \in Seq([r : Tips, t0 : Tips]) /\ Len(published) <= MaxPublished
  /\ pc \in {"idle", "watch", "classify", "record", "pick"} \cup Working
  /\ queue \subseteq ItemRow
  /\ pc \in Working => job \in JobRow
  /\ pc = "attest" => seen \in Tips
  /\ phase \in [Subjects -> Phases]
  /\ subs \in [Subjects -> Seq(SubRow)]
  /\ Keys \subseteq KeyRow /\ results \in [Keys -> ResultRow]
  /\ hold = None \/ hold \in Subjects \X Nat
  /\ revert \in [Undos -> RevertRow]
  /\ budget \in [{"submit", "disturb"} -> Nat]

\* Only the last submission of a task stands, and it does while the task is live.
Standing ==
  /\ \A s \in Subjects : \A n \in 1..Current(s) :
        Sub(s, n).by = "nobody" => n = Current(s) /\ phase[s] \in Live
  /\ \A s \in Subjects : phase[s] \in Live =>
        Current(s) >= 1 /\ Sub(s, Current(s)).by = "nobody"
  /\ \A v \in Undos : revert[v].of = None => phase[v] = "absent"
  /\ \A v \in Undos : revert[v].of # None => revert[v].of \in Keys

\* A result is the merge it was pinned as.
ResultsMerged ==
  \A k \in Keys : k.n \in 1..Current(k.s) /\ results[k].r = Merged(k.t0, Sub(k.s, k.n))

\* What a candidate is stacked on was submitted itself.
StacksReviewed ==
  \A s \in Subjects : \A n \in 1..Current(s) : \A c \in Contents(Sub(s, n).on) :
    \E u \in Subjects : \E m \in 1..Current(u) : Sub(u, m).cand = c

\* A snapshot of the queue names results the service stored.
QueueKnown ==
  \A i \in queue :
    /\ i.n \in 0..Current(i.s) /\ (i.n = 0 => i.s \in Undos)
    /\ \A t0 \in i.known \cup i.held : Key(i.s, i.n, t0) \in Keys

\* So does the job, and it is about the tip X from its pin on.
JobKnown ==
  /\ pc \in Working => job.n \in 0..Current(job.s)
  /\ pc \in Working \ {"revert"} => job.n >= 1
  /\ pc \in {"revert", "unmechanical"} => job.s \in Undos
  /\ pc = "pin" => job.t0 = x /\ \A t0 \in job.known : Key(job.s, job.n, t0) \in Keys
  /\ pc \in Checking => job.t0 = x
  /\ pc \in Checking \cup {"observe", "attest"} => JobKey \in Keys

\* Items are integrated on the recorded tip of a target that is not frozen.
Monitored ==
  /\ pc \notin {"idle", "watch"} => ~frozen
  /\ pc \in {"pick"} \cup Working => tip = x

\* The gates a job has passed still hold for it.
JobJudged ==
  /\ pc \in Checking \ {"gate"} /\ Gated(x, results[JobKey].r) => results[JobKey].gate = "allow"
  /\ pc \in Granting \cup {"authority"} => results[JobKey].receipt = "pass"
  /\ pc \in Granting => /\ results[JobKey].issued
                        /\ JobSub.by \in {"nobody", "human"}
                        /\ JobSub.by = "nobody" => phase[job.s] = "integration"
                        /\ RangeApproved(JobKey)

\* Every tip consists of what the integrator or others landed.
BranchKnown ==
  /\ Contents(target) \subseteq ours \cup theirs
  /\ Contents(tip) \subseteq ours \cup theirs
  /\ Contents(x) \subseteq ours \cup theirs
  /\ pc = "attest" => Contents(seen) \subseteq ours \cup theirs

\* Outstanding authority, in terms of results.
Outstanding(k) == k \in Keys /\ results[k].issued
Stands(k) == k.n = Current(k.s) /\ Sub(k.s, k.n).by = "nobody"

\* Authority is outstanding for one result, whose submission holds the target
\* while it stands; a deferred revise waits for such a result.
Authority ==
  /\ \A k, l \in Keys : Outstanding(k) /\ Outstanding(l) /\ k.s = l.s /\ k.n = l.n => k = l
  /\ hold # None => \E k \in Keys : Outstanding(k) /\ Stands(k) /\ hold = <<k.s, k.n>>
  /\ \A k \in Keys : Outstanding(k) /\ Stands(k) => hold = <<k.s, k.n>>
  /\ \A s \in Subjects : \A n \in 1..Current(s) :
       Sub(s, n).req = "pending" /\ Sub(s, n).by = "nobody" =>
         \E k \in Keys : Outstanding(k) /\ k.s = s /\ k.n = n

IInv ==
  /\ Types /\ Standing /\ ResultsMerged /\ StacksReviewed /\ QueueKnown /\ JobKnown
  /\ Monitored /\ JobJudged /\ BranchKnown
  /\ CompletedIsLanded /\ Authority

\* What was undone is not taken for landed: a snapshot of the queue names what
\* the finished reverts undid, authority is issued only for a result that adds
\* something, and an integration that adds nothing goes on only with commits
\* that its snapshot does not name.
HistoryKnown ==
  /\ \A k \in Keys : results[k].issued => results[k].r # k.t0
  /\ \A i \in queue : \A t0 \in i.held : results[Key(i.s, i.n, t0)].r # t0
  /\ pc \in Checking => results[JobKey].r # job.t0
  /\ pc \in {"observe", "attest"} /\ results[JobKey].r = job.t0 => JobSub.cand \notin job.reverted
  /\ pc # "idle" =>
       \A v \in Undos : revert[v].of # None /\ phase[v] = "done" =>
         /\ \A i \in queue : i.n >= 1 => RevertedRange(v) \subseteq i.reverted
         /\ pc \in Working /\ job.n >= 1 => RevertedRange(v) \subseteq job.reverted

---------------------------------------------------------------------------
(* Merging.                                                                *)

LEMMA MissingPart ==
  ASSUME NEW h \in Tips, NEW k \in SubRow
  PROVE  Missing(h, k) \in Tips /\ Contents(Missing(h, k)) \subseteq Contents(k.on)
  <1> DEFINE there == {i \in DOMAIN k.on : k.on[i] \in Contents(h)}
             c == Cardinality(there)
  <1>1. k.on \in Tips /\ Len(k.on) \in Nat /\ DOMAIN k.on = 1..Len(k.on)
    BY DEF SubRow, Tips
  <1>2. c \in Nat
    <2>1. IsFiniteSet(1..Len(k.on))
      BY <1>1, FS_Interval
    <2>2. there \subseteq 1..Len(k.on)
      BY <1>1
    <2> QED BY <2>1, <2>2, FS_Subset, FS_CardinalityType
  <1>3. Missing(h, k) = SubSeq(k.on, c + 1, Len(k.on))
    BY DEF Missing
  <1> HIDE DEF c
  <1>4. Missing(h, k) \in Tips
    BY <1>1, <1>2, <1>3 DEF Tips
  <1>5. ASSUME NEW i \in DOMAIN Missing(h, k)
        PROVE  Missing(h, k)[i] \in Contents(k.on)
    <2>1. Missing(h, k)[i] = k.on[c + i] /\ c + i \in DOMAIN k.on
      BY <1>1, <1>2, <1>3, <1>5 DEF Tips
    <2> QED BY <2>1 DEF Contents, Range
  <1> QED BY <1>4, <1>5 DEF Contents, Range

LEMMA MergedFacts ==
  ASSUME NEW h \in Tips, NEW k \in SubRow
  PROVE  /\ Merged(h, k) \in Tips
         /\ k.cand \in Contents(Merged(h, k))
         /\ Contents(Merged(h, k)) \subseteq Contents(h) \cup Contents(k.on) \cup {k.cand}
  <1>1. CASE k.cand \in Contents(h)
    BY <1>1 DEF Merged
  <1>2. CASE k.cand \notin Contents(h)
    <2> DEFINE m == Missing(h, k)
    <2>1. m \in Tips /\ Contents(m) \subseteq Contents(k.on)
      BY MissingPart
    <2>2. Merged(h, k) = h \o m \o <<k.cand>>
      BY <1>2 DEF Merged
    <2>3. k.cand \in Commits
      BY DEF SubRow
    <2> HIDE DEF m
    <2>4. Merged(h, k) \in Tips
      BY <2>1, <2>2, <2>3 DEF Tips
    <2>5. /\ Len(h) \in Nat /\ Len(m) \in Nat
          /\ DOMAIN h = 1..Len(h) /\ DOMAIN m = 1..Len(m)
          /\ DOMAIN Merged(h, k) = 1..(Len(h) + Len(m) + 1)
      BY <2>1, <2>2, <2>3 DEF Tips
    <2>6. Merged(h, k)[Len(h) + Len(m) + 1] = k.cand
      BY <2>1, <2>2, <2>3, <2>5 DEF Tips
    <2>7. ASSUME NEW i \in DOMAIN Merged(h, k)
          PROVE  Merged(h, k)[i] \in Contents(h) \cup Contents(k.on) \cup {k.cand}
      <3>1. CASE i \in 1..Len(h)
        <4>1. Merged(h, k)[i] = h[i]
          BY <2>1, <2>2, <2>3, <2>5, <3>1 DEF Tips
        <4> QED BY <4>1, <3>1, <2>5 DEF Contents, Range
      <3>2. CASE i \in (Len(h) + 1)..(Len(h) + Len(m))
        <4>1. Merged(h, k)[i] = m[i - Len(h)] /\ i - Len(h) \in DOMAIN m
          BY <2>1, <2>2, <2>3, <2>5, <3>2 DEF Tips
        <4> QED BY <4>1, <2>1 DEF Contents, Range
      <3>3. CASE i = Len(h) + Len(m) + 1
        BY <2>6, <3>3
      <3> QED BY <2>5, <2>7, <3>1, <3>2, <3>3
    <2> QED BY <2>4, <2>5, <2>6, <2>7 DEF Contents, Range
  <1> QED BY <1>1, <1>2

\* A merge rests on the candidate and its stack alone.
LEMMA MergedSame ==
  ASSUME NEW h, NEW k, NEW l, k.cand = l.cand, k.on = l.on
  PROVE  Merged(h, k) = Merged(h, l)
  BY DEF Merged, Missing

LEMMA PrefixContents ==
  ASSUME NEW s \in Tips, NEW t \in Tips, IsPrefix(s, t)
  PROVE  Contents(s) \subseteq Contents(t)
  <1> SUFFICES ASSUME NEW i \in 1..Len(s)
               PROVE  s[i] = t[i] /\ i \in 1..Len(t)
    BY DEF Tips, Contents, Range
  <1>1. /\ Len(s) \in Nat /\ Len(t) \in Nat /\ Len(s) <= Len(t)
        /\ SubSeq(s, 1, Len(s)) = SubSeq(t, 1, Len(s))
    BY DEF IsPrefix, Tips
  <1>2. SubSeq(s, 1, Len(s))[i] = s[i] /\ SubSeq(t, 1, Len(s))[i] = t[i]
    BY <1>1 DEF Tips
  <1> QED BY <1>1, <1>2

LEMMA ContentsType ==
  ASSUME NEW s \in Tips
  PROVE  Contents(s) \subseteq Commits
  BY DEF Tips, Contents, Range

---------------------------------------------------------------------------
(* What a step does to the service's tables.                               *)

\* One row of the submissions is rewritten.
Edited(s, n, row) ==
  /\ subs' \in [Subjects -> Seq(SubRow)]
  /\ \A u \in Subjects : Len(subs'[u]) = Len(subs[u])
  /\ subs'[s][n] = row
  /\ \A u \in Subjects : \A m \in 1..Len(subs[u]) :
       u # s \/ m # n => subs'[u][m] = subs[u][m]

\* One row is added.
Appended(s, row) ==
  /\ subs' \in [Subjects -> Seq(SubRow)]
  /\ Len(subs'[s]) = Len(subs[s]) + 1
  /\ subs'[s][Len(subs[s]) + 1] = row
  /\ \A u \in Subjects : u # s => subs'[u] = subs[u]
  /\ \A m \in 1..Len(subs[s]) : subs'[s][m] = subs[s][m]

Idle == UNCHANGED <<phase, subs, results, hold, revert>>

RevertsStay ==
  /\ revert' \in [Undos -> RevertRow]
  /\ \A v \in Undos : revert'[v].of = revert[v].of

\* The submission of s is superseded.
Loses(s) ==
  /\ phase[s] \in {"review", "integration"}
  /\ \E who \in {"agent", "human"} :
       /\ Edited(s, Current(s), [Sub(s, Current(s)) EXCEPT !.by = who])
       /\ who = "agent" /\ phase[s] = "integration" => Issued(s, Current(s)) = {}
  /\ \E p \in {"work", "canceled", "converted"} : phase' = [phase EXCEPT ![s] = p]
  /\ hold' = IF hold = <<s, Current(s)>> THEN None ELSE hold
  /\ UNCHANGED results
  /\ RevertsStay

IsCandidate(c) == \E u \in Subjects : \E m \in 1..Current(u) : Sub(u, m).cand = c

\* s gets a submission.
Gains(s) ==
  /\ phase[s] = "work"
  /\ \E p \in {"review", "integration"} : phase' = [phase EXCEPT ![s] = p]
  /\ \E row \in SubRow :
       /\ Appended(s, row)
       /\ row.by = "nobody" /\ row.req = "none"
       /\ \A c \in Contents(row.on) : IsCandidate(c)
  /\ UNCHANGED <<results, hold, revert>>

\* The current submission of s is approved, sent back or asked to wait.
Amends(s) ==
  /\ phase[s] \in {"review", "integration"}
  /\ \E p \in {"review", "integration"} :
       /\ phase' = [phase EXCEPT ![s] = p]
       /\ phase[s] = "integration" /\ p = "review" => pc = "authority"
  /\ \E row \in SubRow :
       /\ Edited(s, Current(s), row)
       /\ row.cand = Sub(s, Current(s)).cand /\ row.on = Sub(s, Current(s)).on
       /\ row.by = Sub(s, Current(s)).by
       /\ row.ok = "none" => Sub(s, Current(s)).ok = "none" \/ pc = "authority"
       /\ row.req = Sub(s, Current(s)).req \/ Issued(s, Current(s)) # {}
  /\ UNCHANGED <<results, hold, revert>>

\* A revert is requested, or becomes ordinary work before it has a candidate.
Opens(v) ==
  /\ phase[v] \in {"absent", "work"}
  /\ \E p \in {"work", "converted"} : phase' = [phase EXCEPT ![v] = p]
  /\ revert' \in [Undos -> RevertRow]
  /\ \A u \in Undos : u # v => revert'[u].of = revert[u].of
  /\ revert'[v].of \in Keys
  /\ UNCHANGED <<subs, results, hold>>

\* A receipt or a gate is written.
Notes(k) ==
  /\ Keys' = Keys /\ results' \in [Keys -> ResultRow]
  /\ \A l \in Keys : l # k => results'[l] = results[l]
  /\ results'[k].r = results[k].r /\ results'[k].issued = results[k].issued
  /\ results'[k].granted = results[k].granted
  /\ results[k].gate = "allow" => results'[k].gate = "allow"
  /\ pc # "checks" => results'[k].receipt = results[k].receipt
  /\ UNCHANGED <<phase, subs, hold, revert>>

\* A result is stored.
Pins(k) ==
  /\ k \notin Keys /\ k.n \in 1..Current(k.s)
  /\ Keys' = Keys \cup {k} /\ results' \in [Keys' -> ResultRow]
  /\ \A l \in Keys : results'[l] = results[l]
  /\ results'[k] = NewResult(Merged(k.t0, Sub(k.s, k.n)))
  /\ UNCHANGED <<phase, subs, hold, revert>>

\* Push authority is granted.
Grants(k) ==
  /\ pc = "authority" /\ k = JobKey
  /\ Judged(k) /\ hold \in {None, <<k.s, k.n>>}
  /\ Keys' = Keys /\ results' \in [Keys -> ResultRow]
  /\ \A l \in Keys : l # k => results'[l] = results[l]
  /\ results'[k].r = results[k].r /\ results'[k].issued /\ results'[k].granted
  /\ results'[k].gate = results[k].gate /\ results'[k].receipt = results[k].receipt
  /\ hold' = <<k.s, k.n>>
  /\ UNCHANGED <<phase, subs, revert>>

\* An observation ends the authority: the submission is landed, withdrawn as
\* its author had asked, or left as it is.
Closes(k) ==
  /\ pc = "attest"
  /\ phase[k.s] # "done" /\ Issued(k.s, k.n) \subseteq {k}
  /\ \E row \in SubRow :
       /\ Edited(k.s, k.n, row)
       /\ row.cand = Sub(k.s, k.n).cand /\ row.on = Sub(k.s, k.n).on
       /\ row.ok = Sub(k.s, k.n).ok /\ row.req # "pending"
       /\ \/ /\ phase'[k.s] = "done" /\ StillCurrent(k.s, k.n) /\ row.by = "nobody"
             /\ row.cand \in ours \cup theirs
          \/ phase'[k.s] = "work" /\ StillCurrent(k.s, k.n) /\ row.by = "agent"
          \/ phase'[k.s] = phase[k.s] /\ row.by = Sub(k.s, k.n).by
  /\ phase' \in [Subjects -> Phases] /\ revert' \in [Undos -> RevertRow]
  /\ \A y \in Subjects : y # k.s =>
       phase'[y] = phase[y] \/ (phase[y] = "absent" /\ phase'[y] = "work")
  /\ \A v \in Undos :
       \/ revert'[v].of = revert[v].of /\ (v # k.s => phase'[v] = phase[v])
       \/ revert'[v].of = k
  /\ Keys' = Keys /\ results' \in [Keys -> ResultRow]
  /\ \A l \in Keys : l # k => results'[l] = results[l]
  /\ results'[k].r = results[k].r /\ results'[k].issued = FALSE
  /\ results'[k].granted = results[k].granted
  /\ hold' = IF hold = <<k.s, k.n>> THEN None ELSE hold

Effect ==
  \/ Idle
  \/ \E s \in Subjects : Loses(s) \/ Gains(s) \/ Amends(s)
  \/ \E v \in Undos : Opens(v)
  \/ \E k \in Keys : Notes(k) \/ Grants(k) \/ Closes(k)
  \/ \E k \in KeyRow : Pins(k)

LEMMA EditSub ==
  ASSUME Types, NEW s \in Subjects, NEW n \in 1..Current(s), NEW row \in SubRow,
         subs' = [subs EXCEPT ![s] = [subs[s] EXCEPT ![n] = row]]
  PROVE  Edited(s, n, row)
  <1>1. /\ subs \in [Subjects -> Seq(SubRow)] /\ subs[s] \in Seq(SubRow)
        /\ Len(subs[s]) \in Nat /\ n \in 1..Len(subs[s]) /\ DOMAIN subs[s] = 1..Len(subs[s])
    BY DEF Types, Current
  <1> DEFINE new == [subs[s] EXCEPT ![n] = row]
  <1>2. /\ new \in Seq(SubRow) /\ Len(new) = Len(subs[s]) /\ new[n] = row
        /\ \A m \in 1..Len(subs[s]) : m # n => new[m] = subs[s][m]
    BY <1>1
  <1> HIDE DEF new
  <1>3. subs' = [subs EXCEPT ![s] = new]
    BY DEF new
  <1>4. subs'[s] = new /\ \A u \in Subjects : u # s => subs'[u] = subs[u]
    BY <1>1, <1>3
  <1>5. subs' \in [Subjects -> Seq(SubRow)]
    BY <1>1, <1>2, <1>3
  <1> QED BY <1>2, <1>4, <1>5 DEF Edited

LEMMA AppendSub ==
  ASSUME Types, NEW s \in Subjects, NEW row \in SubRow,
         subs' = [subs EXCEPT ![s] = Append(subs[s], row)]
  PROVE  Appended(s, row)
  <1>1. /\ subs \in [Subjects -> Seq(SubRow)] /\ subs[s] \in Seq(SubRow)
        /\ Len(subs[s]) \in Nat
    BY DEF Types
  <1> DEFINE new == Append(subs[s], row)
  <1>2. /\ new \in Seq(SubRow) /\ Len(new) = Len(subs[s]) + 1 /\ new[Len(subs[s]) + 1] = row
        /\ \A m \in 1..Len(subs[s]) : new[m] = subs[s][m]
    BY <1>1
  <1> HIDE DEF new
  <1>3. subs' = [subs EXCEPT ![s] = new]
    BY DEF new
  <1>4. subs'[s] = new /\ \A u \in Subjects : u # s => subs'[u] = subs[u]
    BY <1>1, <1>3
  <1>5. subs' \in [Subjects -> Seq(SubRow)]
    BY <1>1, <1>2, <1>3
  <1> QED BY <1>2, <1>4, <1>5 DEF Appended

\* Submissions that exist are rows.
LEMMA SubType ==
  ASSUME Types, NEW s \in Subjects
  PROVE  /\ Current(s) \in Nat
         /\ \A n \in 1..Current(s) : Sub(s, n) \in SubRow
  <1>1. subs[s] \in Seq(SubRow)
    BY DEF Types
  <1> QED BY <1>1 DEF Current, Sub

LEMMA LiveHasOne ==
  ASSUME Types, Standing, NEW s \in Subjects, phase[s] \in Live
  PROVE  Current(s) \in 1..Current(s) /\ Sub(s, Current(s)) \in SubRow
  <1>1. Current(s) \in Nat /\ Current(s) >= 1
    BY SubType DEF Standing
  <1>2. Current(s) \in 1..Current(s)
    BY <1>1
  <1> QED BY <1>2, SubType

\* The hold belongs to a submission that stands.
LEMMA HoldStands ==
  ASSUME Types, Standing, Authority, ResultsMerged, NEW s \in Subjects,
         hold = <<s, Current(s)>>
  PROVE  phase[s] \in Live
  <1>1. hold # None
    BY SubType, IntegratorAssumption
  <1>2. PICK k \in Keys : Stands(k) /\ hold = <<k.s, k.n>>
    BY <1>1 DEF Authority
  <1>3. k.s = s /\ k.n = Current(s)
    BY <1>2
  <1>4. Current(s) \in 1..Current(s) /\ Sub(s, Current(s)).by = "nobody"
    BY <1>2, <1>3 DEF ResultsMerged, Stands
  <1> QED BY <1>4 DEF Standing

---------------------------------------------------------------------------
LEMMA SupersededLoses ==
  ASSUME Types, Standing, NEW s \in Subjects, phase[s] \in {"review", "integration"},
         NEW who \in {"agent", "human"}, Superseded(s, who), UNCHANGED <<results, revert>>,
         who = "agent" /\ phase[s] = "integration" => Issued(s, Current(s)) = {}
  PROVE  Loses(s)
  <1> DEFINE row == [Sub(s, Current(s)) EXCEPT !.by = who]
  <1>1. Current(s) \in 1..Current(s) /\ Sub(s, Current(s)) \in SubRow
    BY LiveHasOne DEF Live
  <1>2. row \in SubRow
    BY <1>1 DEF SubRow
  <1>3. subs' = [subs EXCEPT ![s] = [subs[s] EXCEPT ![Current(s)] = row]]
    BY DEF Superseded, Sub
  <1> HIDE DEF row
  <1>4. Edited(s, Current(s), row)
    BY <1>1, <1>2, <1>3, EditSub
  <1>5. RevertsStay
    BY DEF RevertsStay, Types
  <1> QED BY <1>4, <1>5 DEF Loses, Superseded, row

LEMMA ConvertEffect ==
  ASSUME IInv, NEW v \in Undos, Convertible(v), Convert(v), UNCHANGED results
  PROVE  Loses(v) \/ Opens(v)
  <1> USE DEF IInv
  <1>0. v \in Subjects
    BY DEF Subjects
  <1>1. revert' \in [Undos -> RevertRow] /\ \A u \in Undos : revert'[u].of = revert[u].of
    <2> DEFINE row == [revert[v] EXCEPT !.mode = "not_mechanical"]
    <2>1. revert \in [Undos -> RevertRow] /\ revert' = [revert EXCEPT ![v] = row]
      BY DEF Convert, Types
    <2>2. row \in RevertRow /\ row.of = revert[v].of
      BY <2>1 DEF RevertRow
    <2> HIDE DEF row
    <2> QED BY <2>1, <2>2
  <1>2. CASE phase[v] = "work"
    <2>1. hold # <<v, Current(v)>>
      BY <1>0, <1>2, HoldStands DEF Live
    <2>2. revert[v].of # None /\ revert[v].of \in Keys
      BY <1>2 DEF Standing
    <2> QED BY <1>1, <1>2, <2>1, <2>2 DEF Opens, Convert
  <1>3. CASE phase[v] # "work"
    <2>1. phase[v] \in {"review", "integration"}
      BY <1>3 DEF Convertible
    <2> DEFINE row == [Sub(v, Current(v)) EXCEPT !.by = "agent"]
    <2>2. Current(v) \in 1..Current(v) /\ Sub(v, Current(v)) \in SubRow
      BY <1>0, <2>1, LiveHasOne DEF Live
    <2>3. row \in SubRow
      BY <2>2 DEF SubRow
    <2>4. subs' = [subs EXCEPT ![v] = [subs[v] EXCEPT ![Current(v)] = row]]
      BY <1>3 DEF Convert, Sub
    <2> HIDE DEF row
    <2>5. Edited(v, Current(v), row)
      BY <1>0, <2>2, <2>3, <2>4, EditSub
    <2>6. Issued(v, Current(v)) = {}
      BY <1>3, <2>2 DEF Convertible
    <2>7. RevertsStay
      BY <1>1 DEF RevertsStay
    <2>8. phase' = [phase EXCEPT ![v] = "converted"]
      BY DEF Convert
    <2>9. hold' = IF hold = <<v, Current(v)>> THEN None ELSE hold
      BY DEF Convert
    <2> QED BY <2>1, <2>5, <2>6, <2>7, <2>8, <2>9 DEF Loses, row
  <1> QED BY <1>2, <1>3

LEMMA RequestChangesLoses ==
  ASSUME Types, Standing, NEW s \in Subjects, RequestChanges(s)
  PROVE  Loses(s)
  <1> DEFINE row == [Sub(s, Current(s)) EXCEPT !.by = "agent"]
  <1>0. phase[s] = "review"
    BY DEF RequestChanges
  <1>1. Current(s) \in 1..Current(s) /\ Sub(s, Current(s)) \in SubRow
    BY <1>0, LiveHasOne DEF Live
  <1>2. row \in SubRow
    BY <1>1 DEF SubRow
  <1>3. subs' = [subs EXCEPT ![s] = [subs[s] EXCEPT ![Current(s)] = row]]
    BY DEF RequestChanges, Sub
  <1> HIDE DEF row
  <1>4. Edited(s, Current(s), row)
    BY <1>1, <1>2, <1>3, EditSub
  <1>5. RevertsStay
    BY DEF RequestChanges, RevertsStay, Types
  <1>6. phase' = [phase EXCEPT ![s] = IF s \in Undos THEN "canceled" ELSE "work"]
    BY DEF RequestChanges
  <1>7. \E p \in {"work", "canceled", "converted"} : phase' = [phase EXCEPT ![s] = p]
    BY <1>6
  <1> QED BY <1>0, <1>4, <1>5, <1>7 DEF Loses, RequestChanges, row

LEMMA ApproveAmends ==
  ASSUME Types, Standing, NEW s \in Subjects, Approve(s)
  PROVE  Amends(s)
  <1>0. phase[s] = "review"
    BY DEF Approve
  <1>1. Current(s) \in 1..Current(s) /\ Sub(s, Current(s)) \in SubRow
    BY <1>0, LiveHasOne DEF Live
  <1>2. PICK ok \in {"clean", "contributor"} : subs' = [subs EXCEPT ![s][Current(s)].ok = ok]
    BY DEF Approve
  <1> DEFINE row == [Sub(s, Current(s)) EXCEPT !.ok = ok]
  <1>3. /\ row \in SubRow /\ row.cand = Sub(s, Current(s)).cand /\ row.on = Sub(s, Current(s)).on
        /\ row.by = Sub(s, Current(s)).by /\ row.ok # "none" /\ row.req = Sub(s, Current(s)).req
    BY <1>1 DEF SubRow
  <1>4. subs' = [subs EXCEPT ![s] = [subs[s] EXCEPT ![Current(s)] = row]]
    BY <1>2 DEF Sub
  <1> HIDE DEF row
  <1>5. Edited(s, Current(s), row)
    BY <1>1, <1>3, <1>4, EditSub
  <1> QED BY <1>0, <1>3, <1>5 DEF Amends, Approve

LEMMA AgentReviseEffect ==
  ASSUME Types, Standing, NEW s \in Subjects, AgentRevise(s)
  PROVE  Loses(s) \/ Amends(s)
  <1>0. phase[s] \in {"review", "integration"} /\ UNCHANGED <<results, revert>>
    BY DEF AgentRevise
  <1>1. Current(s) \in 1..Current(s) /\ Sub(s, Current(s)) \in SubRow
    BY <1>0, LiveHasOne DEF Live
  <1>2. CASE Issued(s, Current(s)) = {}
    <2>1. Superseded(s, "agent")
      BY <1>2 DEF AgentRevise
    <2> QED BY <1>0, <1>2, <2>1, SupersededLoses
  <1>3. CASE Issued(s, Current(s)) # {}
    <2>1. PICK w \in BOOLEAN : subs' = [subs EXCEPT ![s][Current(s)].req = "pending",
                                                    ![s][Current(s)].withdraw = w]
      BY <1>3 DEF AgentRevise
    <2> DEFINE row == [Sub(s, Current(s)) EXCEPT !.req = "pending", !.withdraw = w]
    <2>2. /\ row \in SubRow /\ row.cand = Sub(s, Current(s)).cand /\ row.on = Sub(s, Current(s)).on
          /\ row.by = Sub(s, Current(s)).by /\ row.ok = Sub(s, Current(s)).ok
      BY <1>1 DEF SubRow
    <2>3. subs' = [subs EXCEPT ![s] = [subs[s] EXCEPT ![Current(s)] = row]]
      <3>1. subs[s] \in Seq(SubRow) /\ Current(s) \in DOMAIN subs[s] /\ s \in DOMAIN subs
        BY <1>1 DEF Types, Current
      <3> QED BY <2>1, <3>1 DEF Sub
    <2> HIDE DEF row
    <2>4. Edited(s, Current(s), row)
      BY <1>1, <2>2, <2>3, EditSub
    <2>5. phase' = phase /\ hold' = hold
      BY <1>3 DEF AgentRevise
    <2>6. phase' = [phase EXCEPT ![s] = phase[s]]
      BY <2>5 DEF Types
    <2> QED BY <1>0, <1>3, <2>2, <2>4, <2>5, <2>6 DEF Amends
  <1> QED BY <1>2, <1>3

LEMMA SubmitGains ==
  ASSUME IInv, NEW t \in Tasks, Submit(t)
  PROVE  Gains(t)
  <1> USE DEF IInv
  <1>0. t \in Subjects /\ phase[t] = "work" /\ target \in Tips
    BY DEF Subjects, Submit, Types
  <1> DEFINE Stacked == {Candidate(<<t, Current(t) + 1>>, target, o) :
                           o \in {<<>>} \cup {Branch(Sub(u, Current(u))) :
                                  u \in {u \in Tasks \ {t} : phase[u] = "review"}}}
             Again(u) == {Candidate(Sub(u, n).cand, target, Sub(u, n).on) :
                            n \in {n \in 1..Current(u) : Sub(u, n).cand \in ours}}
  <1>1. PICK k \in Stacked \cup UNION {Again(u) : u \in Tasks \ {t}} :
          subs' = [subs EXCEPT ![t] = Append(@, Submission(k))]
    BY DEF Submit
  <1>a. \/ k = Candidate(<<t, Current(t) + 1>>, target, <<>>)
        \/ \E u \in Tasks : /\ phase[u] = "review"
                            /\ k = Candidate(<<t, Current(t) + 1>>, target, Branch(Sub(u, Current(u))))
        \/ \E u \in Tasks : \E n \in 1..Current(u) :
             k = Candidate(Sub(u, n).cand, target, Sub(u, n).on)
    <2>1. CASE k \in Stacked
      BY <2>1
    <2>2. CASE \E u \in Tasks : k \in Again(u)
      BY <2>2
    <2> QED BY <2>1, <2>2, <1>1
  <1> DEFINE Fits == /\ k.cand \in Commits /\ k.base \in Tips /\ k.on \in Tips
                     /\ \A c \in Contents(k.on) : IsCandidate(c)
  <1>2. Fits
    <2>1. ASSUME NEW u \in Tasks, phase[u] = "review", k = Candidate(<<t, Current(t) + 1>>, target, Branch(Sub(u, Current(u))))
          PROVE  Fits
      <3>0. u \in Subjects /\ phase[u] \in Live
        BY <2>1 DEF Subjects, Live
      <3>1. Current(u) \in 1..Current(u) /\ Sub(u, Current(u)) \in SubRow
        BY <3>0, LiveHasOne
      <3> DEFINE o == Sub(u, Current(u)).on
                 d == Sub(u, Current(u)).cand
      <3>2. o \in Tips /\ d \in Commits
        BY <3>1 DEF SubRow
      <3>3. IsCandidate(d) /\ \A c \in Contents(o) : IsCandidate(c)
        BY <3>0, <3>1 DEF StacksReviewed, IsCandidate
      <3>4. k.on = Append(o, d) /\ k.cand = <<t, Current(t) + 1>> /\ k.base = target
        BY <2>1 DEF Candidate, Branch
      <3> HIDE DEF o, d
      <3>5. k.on \in Tips /\ Contents(k.on) \subseteq Contents(o) \cup {d}
        BY <3>2, <3>4 DEF Tips, Contents, Range
      <3>6. <<t, Current(t) + 1>> \in Commits
        BY <1>0, SubType DEF Commits
      <3> QED BY <1>0, <3>3, <3>4, <3>5, <3>6
    <2>2. ASSUME k = Candidate(<<t, Current(t) + 1>>, target, <<>>)
          PROVE  Fits
      <3>1. <<t, Current(t) + 1>> \in Commits
        BY <1>0, SubType DEF Commits
      <3> QED BY <1>0, <2>2, <3>1 DEF Candidate, Tips, Contents, Range
    <2>3. ASSUME NEW u \in Tasks, NEW n \in 1..Current(u),
                 k = Candidate(Sub(u, n).cand, target, Sub(u, n).on)
          PROVE  Fits
      <3>1. u \in Subjects
        BY DEF Subjects
      <3>2. Sub(u, n) \in SubRow
        BY <3>1, SubType
      <3>3. \A c \in Contents(Sub(u, n).on) : IsCandidate(c)
        BY <3>1 DEF StacksReviewed, IsCandidate
      <3> QED BY <1>0, <2>3, <3>2, <3>3 DEF Candidate, SubRow
    <2> QED BY <1>a, <2>1, <2>2, <2>3
  <1> DEFINE row == Submission(k)
  <1>3. /\ row \in SubRow /\ row.by = "nobody" /\ row.req = "none" /\ row.on = k.on
    BY <1>2 DEF Submission, SubRow
  <1>4. subs' = [subs EXCEPT ![t] = Append(subs[t], row)]
    BY <1>1
  <1> HIDE DEF row
  <1>5. Appended(t, row)
    BY <1>0, <1>3, <1>4, AppendSub
  <1>6. phase' = [phase EXCEPT ![t] = "review"] /\ UNCHANGED <<results, hold, revert>>
    BY DEF Submit
  <1> QED BY <1>0, <1>2, <1>3, <1>5, <1>6 DEF Gains

LEMMA RecordCandidateGains ==
  ASSUME IInv, NEW v \in Undos, AwaitsCandidate(v), RecordCandidate(v, x),
         UNCHANGED <<results, hold, revert>>
  PROVE  Gains(v)
  <1> USE DEF IInv
  <1>0. v \in Subjects /\ phase[v] = "work" /\ x \in Tips
    BY DEF Subjects, AwaitsCandidate, Types
  <1> DEFINE k == Candidate(<<v, Len(x)>>, x, <<>>)
             row == [Submission(k) EXCEPT !.ok = IF revert[v].reviewed THEN "none" ELSE "clean"]
  <1>1. <<v, Len(x)>> \in Commits
    BY <1>0 DEF Commits, Tips
  <1>2. Submission(k) \in SubRow /\ Submission(k).by = "nobody" /\ Submission(k).req = "none"
        /\ Submission(k).on = <<>>
    BY <1>0, <1>1 DEF Submission, SubRow, Candidate, Tips
  <1>3. row \in SubRow /\ row.by = "nobody" /\ row.req = "none" /\ row.on = <<>>
    BY <1>2 DEF SubRow
  <1>4. subs' = [subs EXCEPT ![v] = Append(subs[v], row)]
    BY DEF RecordCandidate
  <1> HIDE DEF row
  <1>5. Appended(v, row)
    BY <1>0, <1>3, <1>4, AppendSub
  <1>6. \E p \in {"review", "integration"} : phase' = [phase EXCEPT ![v] = p]
    BY DEF RecordCandidate
  <1>7. Contents(row.on) = {}
    BY <1>3 DEF Contents, Range
  <1> QED BY <1>0, <1>3, <1>5, <1>6, <1>7 DEF Gains

---------------------------------------------------------------------------
\* The job at hand and its result.
LEMMA JobFacts ==
  ASSUME IInv, pc \in Working \ {"revert"}
  PROVE  /\ job \in JobRow /\ job.s \in Subjects /\ job.n \in 1..Current(job.s)
         /\ JobKey \in KeyRow /\ JobKey.s = job.s /\ JobKey.n = job.n /\ JobKey.t0 = job.t0
         /\ JobSub \in SubRow /\ JobSub = Sub(JobKey.s, JobKey.n)
  <1> USE DEF IInv
  <1>1. job \in JobRow
    BY DEF Types
  <1>2. job.s \in Subjects /\ job.n \in Nat /\ job.t0 \in Tips
    BY <1>1 DEF JobRow
  <1>3. job.n \in 1..Current(job.s)
    BY <1>2, SubType DEF JobKnown
  <1>4. JobSub \in SubRow
    BY <1>2, <1>3, SubType DEF JobSub
  <1> QED BY <1>1, <1>2, <1>3, <1>4 DEF JobKey, Key, KeyRow, JobSub

LEMMA ResultType ==
  ASSUME Types, NEW k \in Keys
  PROVE  /\ k \in KeyRow /\ k.s \in Subjects /\ k.n \in Nat /\ k.t0 \in Tips
         /\ results[k] \in ResultRow /\ results[k].r \in Tips /\ results[k].issued \in BOOLEAN
  <1>1. k \in KeyRow /\ results[k] \in ResultRow
    BY DEF Types
  <1> QED BY <1>1 DEF KeyRow, ResultRow

LEMMA PinEffect ==
  ASSUME IInv, PinResult
  PROVE  Idle \/ Pins(JobKey)
  <1> USE DEF IInv
  <1>0. pc = "pin" /\ UNCHANGED <<phase, subs, hold, revert>>
    BY DEF PinResult
  <1>1. /\ job.s \in Subjects /\ job.n \in 1..Current(job.s) /\ JobKey \in KeyRow
        /\ JobKey.s = job.s /\ JobKey.n = job.n /\ JobKey.t0 = x /\ JobSub \in SubRow
        /\ JobSub = Sub(JobKey.s, JobKey.n)
    BY <1>0, JobFacts DEF JobKnown, Working
  <1>2. results' = results \/
        /\ JobKey \notin Keys
        /\ results' = [k \in Keys \cup {JobKey} |->
                         IF k = JobKey THEN NewResult(JobResult) ELSE results[k]]
    BY DEF PinResult, Pinnable
  <1>3. CASE results' = results
    BY <1>0, <1>3 DEF Idle
  <1>4. CASE /\ JobKey \notin Keys
             /\ results' = [k \in Keys \cup {JobKey} |->
                              IF k = JobKey THEN NewResult(JobResult) ELSE results[k]]
    <2>1. JobResult = Merged(JobKey.t0, Sub(JobKey.s, JobKey.n))
      BY <1>1 DEF JobResult
    <2>2. JobResult \in Tips
      BY <1>1, MergedFacts DEF JobResult, Types
    <2>3. NewResult(JobResult) \in ResultRow
      BY <2>2 DEF NewResult, ResultRow
    <2> DEFINE key == JobKey
               row == NewResult(JobResult)
    <2> HIDE DEF key, row
    <2>4. results' = [k \in Keys \cup {key} |-> IF k = key THEN row ELSE results[k]] /\ key \notin Keys
      BY <1>4 DEF key, row
    <2>5. /\ Keys' = Keys \cup {key} /\ results'[key] = row
          /\ \A l \in Keys : results'[l] = results[l]
      BY <2>4 DEF Keys
    <2>6. \A l \in Keys : results[l] \in ResultRow
      BY ResultType
    <2>7. results' \in [Keys' -> ResultRow]
      BY <2>3, <2>4, <2>5, <2>6 DEF row
    <2> QED BY <1>0, <1>1, <1>4, <2>1, <2>5, <2>7 DEF Pins, key, row
  <1> QED BY <1>2, <1>3, <1>4

\* Rewriting one result.
LEMMA EditResult ==
  ASSUME Types, NEW k \in Keys, NEW row \in ResultRow, results' = [results EXCEPT ![k] = row]
  PROVE  /\ Keys' = Keys /\ results' \in [Keys -> ResultRow]
         /\ results'[k] = row
         /\ \A l \in Keys : l # k => results'[l] = results[l]
  <1>1. results \in [Keys -> ResultRow]
    BY DEF Types
  <1>2. DOMAIN results' = DOMAIN results
    BY <1>1
  <1> QED BY <1>1, <1>2 DEF Keys

LEMMA GateEffect ==
  ASSUME IInv, PrivilegeGate
  PROVE  Idle \/ Notes(JobKey)
  <1> USE DEF IInv
  <1>0. pc = "gate" /\ UNCHANGED <<phase, subs, hold, revert>>
    BY DEF PrivilegeGate
  <1>1. JobKey \in Keys
    BY <1>0 DEF JobKnown, Checking
  <1>2. CASE results' = results
    BY <1>0, <1>2 DEF Idle
  <1>3. CASE results' # results
    <2> DEFINE old == results[JobKey]
               row == [old EXCEPT !.gate = IF old.gate = "none" THEN "open" ELSE old.gate]
    <2>1. old \in ResultRow
      BY <1>1, ResultType
    <2>2. results' = [results EXCEPT ![JobKey] = row]
      BY <1>3 DEF PrivilegeGate
    <2>3. /\ row \in ResultRow /\ row.r = old.r /\ row.issued = old.issued
          /\ row.granted = old.granted
          /\ row.receipt = old.receipt /\ (old.gate = "allow" => row.gate = "allow")
      BY <2>1 DEF ResultRow
    <2> HIDE DEF row
    <2>4. /\ Keys' = Keys /\ results' \in [Keys -> ResultRow] /\ results'[JobKey] = row
          /\ \A l \in Keys : l # JobKey => results'[l] = results[l]
      BY <1>1, <2>2, <2>3, EditResult
    <2> QED BY <1>0, <2>3, <2>4 DEF Notes
  <1> QED BY <1>2, <1>3

LEMMA ChecksEffect ==
  ASSUME IInv, ChecksGate
  PROVE  Idle \/ (Notes(JobKey) /\ \E c \in {"pass", "fail"} : Receipt(c) /\ results'[JobKey].receipt = c)
  <1> USE DEF IInv
  <1>0. pc = "checks" /\ UNCHANGED <<phase, subs, hold, revert>>
    BY DEF ChecksGate
  <1>1. JobKey \in Keys
    BY <1>0 DEF JobKnown, Checking
  <1>2. CASE results' = results
    BY <1>0, <1>2 DEF Idle
  <1>3. CASE \E c \in {"pass", "fail"} : Receipt(c)
    <2>0. PICK c \in {"pass", "fail"} : Receipt(c)
      BY <1>3
    <2> DEFINE old == results[JobKey]
               row == [old EXCEPT !.receipt = c]
    <2>1. old \in ResultRow
      BY <1>1, ResultType
    <2>2. results' = [results EXCEPT ![JobKey] = row]
      BY <2>0 DEF Receipt
    <2>3. /\ row \in ResultRow /\ row.r = old.r /\ row.issued = old.issued
          /\ row.granted = old.granted /\ row.gate = old.gate /\ row.receipt = c
      BY <2>1 DEF ResultRow
    <2> HIDE DEF row
    <2>4. /\ Keys' = Keys /\ results' \in [Keys -> ResultRow] /\ results'[JobKey] = row
          /\ \A l \in Keys : l # JobKey => results'[l] = results[l]
      BY <1>1, <2>2, <2>3, EditResult
    <2> QED BY <1>0, <2>0, <2>3, <2>4 DEF Notes
  <1> QED BY <1>2, <1>3 DEF ChecksGate

LEMMA ResolveEffect ==
  ASSUME IInv, NEW k \in Keys, NEW d \in {"allow", "deny"}, ResolveGate(k, d)
  PROVE  Notes(k)
  <1> USE DEF IInv
  <1> DEFINE old == results[k]
             row == [old EXCEPT !.gate = d]
  <1>1. old \in ResultRow
    BY ResultType
  <1>2. results' = [results EXCEPT ![k] = row] /\ old.gate = "open"
        /\ UNCHANGED <<phase, subs, hold, revert>>
    BY DEF ResolveGate
  <1>3. /\ row \in ResultRow /\ row.r = old.r /\ row.issued = old.issued
        /\ row.granted = old.granted /\ row.receipt = old.receipt
    BY <1>1 DEF ResultRow
  <1> HIDE DEF row
  <1>4. /\ Keys' = Keys /\ results' \in [Keys -> ResultRow] /\ results'[k] = row
        /\ \A l \in Keys : l # k => results'[l] = results[l]
    BY <1>2, <1>3, EditResult
  <1> QED BY <1>2, <1>3, <1>4 DEF Notes

LEMMA RequestRevertOpens ==
  ASSUME IInv, NEW k \in Keys, NEW reviewed \in BOOLEAN, RequestRevert(k, reviewed)
  PROVE  Undo[k.s] \in Undos /\ Opens(Undo[k.s])
  <1> USE DEF IInv
  <1> DEFINE v == Undo[k.s]
             row == [of |-> k, mode |-> "mechanical", reviewed |-> reviewed]
  <1>1. v \in Undos /\ revert[v].of = None
    BY DEF RequestRevert, RevertTarget, Undos
  <1>2. phase[v] = "absent"
    BY <1>1 DEF Standing
  <1>3. row \in RevertRow /\ row.of = k
    BY ResultType DEF RevertRow
  <1>4. /\ revert' = [revert EXCEPT ![v] = row] /\ phase' = [phase EXCEPT ![v] = "work"]
        /\ UNCHANGED <<subs, results, hold>>
    BY DEF RequestRevert, NewRevert
  <1> HIDE DEF v, row
  <1>5. /\ revert' \in [Undos -> RevertRow] /\ revert'[v] = row
        /\ \A u \in Undos : u # v => revert'[u] = revert[u]
    BY <1>1, <1>3, <1>4 DEF Types
  <1> QED BY <1>1, <1>2, <1>3, <1>4, <1>5 DEF Opens, v

LEMMA AuthorityEffect ==
  ASSUME IInv, PushAuthority
  PROVE  \/ Idle /\ pc' \notin Working
         \/ Amends(job.s) /\ pc' \notin Working
         \/ Grants(JobKey) /\ pc' = "publish"
  <1> USE DEF IInv
  <1>0. pc = "authority" /\ revert' = revert
    BY DEF PushAuthority
  <1>1. /\ JobKey \in Keys /\ job.s \in Subjects /\ job.n \in 1..Current(job.s)
        /\ JobKey.s = job.s /\ JobKey.n = job.n
    BY <1>0, JobFacts DEF JobKnown, Working, Checking
  <1> DEFINE k == JobKey
  <1>2. CASE UNCHANGED <<phase, subs, results, hold>> /\ Skip
    BY <1>0, <1>2 DEF Idle, Skip, Working, Checking, Granting
  <1>3. CASE Judged(k) /\ ReturnToReview(k) /\ UNCHANGED <<results, hold>> /\ EndCycle
    <2> DEFINE s == job.s
               row == [Sub(s, Current(s)) EXCEPT !.ok = "none"]
    <2>1. phase[s] = "integration" /\ job.n = Current(s)
      BY <1>1, <1>3 DEF Judged, Eligible, StillCurrent
    <2>2. Current(s) \in 1..Current(s) /\ Sub(s, Current(s)) \in SubRow
      BY <1>1, <2>1, LiveHasOne DEF Live
    <2>3. /\ row \in SubRow /\ row.cand = Sub(s, Current(s)).cand /\ row.on = Sub(s, Current(s)).on
          /\ row.by = Sub(s, Current(s)).by /\ row.req = Sub(s, Current(s)).req
      BY <2>2 DEF SubRow
    <2>4. subs' = [subs EXCEPT ![s] = [subs[s] EXCEPT ![Current(s)] = row]]
      BY <1>1, <1>3, <2>1 DEF ReturnToReview, Sub
    <2> HIDE DEF row
    <2>5. Edited(s, Current(s), row)
      BY <1>1, <2>2, <2>3, <2>4, EditSub
    <2>6. phase' = [phase EXCEPT ![s] = "review"]
      BY <1>1, <1>3 DEF ReturnToReview
    <2>7. Amends(s)
      BY <1>0, <1>3, <2>1, <2>3, <2>5, <2>6 DEF Amends
    <2> QED BY <1>3, <2>7 DEF EndCycle, Working, Checking, Granting
  <1>4. CASE /\ Judged(k) /\ ~HeldByOther(k) /\ TakeHold(k) /\ pc' = "publish"
             /\ results' = [results EXCEPT ![k].issued = TRUE, ![k].granted = TRUE]
             /\ UNCHANGED <<phase, subs>>
    <2> DEFINE old == results[k]
               row == [old EXCEPT !.issued = TRUE, !.granted = TRUE]
    <2>1. old \in ResultRow
      BY <1>1, ResultType
    <2>2. results' = [results EXCEPT ![k] = row]
      <3>1. results \in [Keys -> ResultRow]
        BY DEF Types
      <3> QED BY <1>1, <1>4, <2>1, <3>1 DEF ResultRow
    <2>3. /\ row \in ResultRow /\ row.r = old.r /\ row.issued /\ row.granted
          /\ row.gate = old.gate /\ row.receipt = old.receipt
      BY <2>1 DEF ResultRow
    <2> HIDE DEF row
    <2>4. /\ Keys' = Keys /\ results' \in [Keys -> ResultRow] /\ results'[k] = row
          /\ \A l \in Keys : l # k => results'[l] = results[l]
      BY <1>1, <2>2, <2>3, EditResult
    <2>5. hold \in {None, <<k.s, k.n>>} /\ hold' = <<k.s, k.n>>
      BY <1>4 DEF HeldByOther, TakeHold
    <2> QED BY <1>0, <1>4, <2>3, <2>4, <2>5 DEF Grants
  <1> QED BY <1>2, <1>3, <1>4 DEF PushAuthority

\* What a disposition says of the branch.
LEMMA DispositionFacts ==
  ASSUME NEW k, NEW h, Disposition(k, h) \in {"published", "already_contained"}
  PROVE  StillCurrent(k.s, k.n) /\ IsPrefix(results[k].r, h)
  <1>1. Ancestry(k, h) \notin {"equal_t0", "moved"} /\ StillCurrent(k.s, k.n)
    BY DEF Disposition
  <1> QED BY <1>1 DEF Ancestry

LEMMA AttestCloses ==
  ASSUME IInv, Attest
  PROVE  Idle \/ Closes(JobKey)
  <1> USE DEF IInv
  <1> DEFINE k == JobKey
             d == Disposition(k, seen)
             old == Sub(k.s, k.n)
             row == SettledRevise(k, d)
             landed == d \in {"published", "already_contained"}
             w == Withdrawn(k, d)
  <1>0. pc = "attest"
    BY DEF Attest
  <1>1. /\ k \in Keys /\ k.s \in Subjects /\ k.n \in 1..Current(k.s) /\ old \in SubRow
    BY <1>0, JobFacts DEF JobKnown, Working, Checking, JobSub
  <1>2. CASE ~Observable(k, d)
    BY <1>2 DEF Attest, Idle
  <1>3. CASE Observable(k, d)
    <2>1. ApplyDisposition(k, d)
      BY <1>3 DEF Attest
    <2>2. phase[k.s] # "done" /\ Issued(k.s, k.n) \subseteq {k}
      BY <1>3 DEF Observable
    <2>3. /\ row \in SubRow /\ row.cand = old.cand /\ row.on = old.on /\ row.ok = old.ok
          /\ row.req # "pending"
          /\ \/ row.by = old.by /\ ~(row.req = "applied" /\ old.req = "pending")
             \/ /\ row.by = "agent" /\ row.req = "applied" /\ old.req = "pending"
                /\ StillCurrent(k.s, k.n) /\ ~landed
      BY <1>1 DEF SettledRevise, SubRow
    <2>4. landed => StillCurrent(k.s, k.n) /\ old.cand \in ours \cup theirs
      <3> SUFFICES ASSUME landed PROVE StillCurrent(k.s, k.n) /\ old.cand \in ours \cup theirs
        OBVIOUS
      <3>1. StillCurrent(k.s, k.n) /\ IsPrefix(results[k].r, seen)
        BY DispositionFacts
      <3>2. results[k].r \in Tips /\ seen \in Tips /\ k.t0 \in Tips
        BY <1>0, <1>1, ResultType DEF Types
      <3>3. Contents(results[k].r) \subseteq Contents(seen)
        BY <3>1, <3>2, PrefixContents
      <3>4. old.cand \in Contents(Merged(k.t0, old))
        BY <1>1, <3>2, MergedFacts
      <3>5. results[k].r = Merged(k.t0, old)
        BY <1>1 DEF ResultsMerged
      <3> QED BY <1>0, <3>1, <3>3, <3>4, <3>5 DEF BranchKnown
    <2>5. Edited(k.s, k.n, row)
      <3>1. subs' = [subs EXCEPT ![k.s] = [subs[k.s] EXCEPT ![k.n] = row]]
        BY <2>1 DEF ApplyDisposition
      <3> HIDE DEF k, row
      <3> QED BY <1>1, <2>3, <3>1, EditSub
    <2>6. phase' = [y \in Subjects |->
                      CASE y = k.s /\ landed -> "done"
                        [] y = k.s /\ row.req = "applied" /\ old.req = "pending" -> "work"
                        [] w /\ y = Undo[k.s] -> "work"
                        [] OTHER -> phase[y]]
      BY <2>1 DEF ApplyDisposition
    <2>7. w => /\ landed /\ k.s \in Revertible /\ revert[Undo[k.s]].of = None
               /\ Undo[k.s] \in Undos /\ Undo[k.s] # k.s /\ phase[Undo[k.s]] = "absent"
      <3>1. w => landed /\ k.s \in Revertible /\ revert[Undo[k.s]].of = None
        BY DEF Withdrawn
      <3>2. w => Undo[k.s] \in Undos /\ Undo[k.s] # k.s
        BY <3>1 DEF Undos
      <3> QED BY <3>1, <3>2 DEF Standing
    <2>8. /\ w => revert' = [revert EXCEPT ![Undo[k.s]] = [of |-> k, mode |-> "mechanical", reviewed |-> TRUE]]
          /\ ~w => revert' = revert
      BY <2>1 DEF ApplyDisposition, NewRevert
    <2>9. hold' = IF hold = <<k.s, k.n>> THEN None ELSE hold
      BY <2>1 DEF ApplyDisposition
    <2>10. /\ Keys' = Keys /\ results' \in [Keys -> ResultRow]
           /\ \A l \in Keys : l # k => results'[l] = results[l]
           /\ results'[k].r = results[k].r /\ results'[k].issued = FALSE
           /\ results'[k].granted = results[k].granted
      <3> DEFINE rold == results[k]
                 rrow == [rold EXCEPT !.issued = FALSE, !.landed = rold.landed \/ d = "published"]
      <3>1. rold \in ResultRow
        BY <1>1, ResultType
      <3>2. results' = [results EXCEPT ![k] = rrow]
        <4>1. results' = [results EXCEPT ![k].issued = FALSE, ![k].landed = @ \/ d = "published"]
          BY <2>1 DEF ApplyDisposition
        <4>2. results \in [Keys -> ResultRow]
          BY DEF Types
        <4> HIDE DEF k, d
        <4> QED BY <1>1, <3>1, <4>1, <4>2 DEF ResultRow
      <3>3. /\ rrow \in ResultRow /\ rrow.r = rold.r /\ rrow.issued = FALSE
            /\ rrow.granted = rold.granted
        <4> HIDE DEF d
        <4> QED BY <3>1 DEF ResultRow
      <3> HIDE DEF rrow, k
      <3>4. /\ Keys' = Keys /\ results' \in [Keys -> ResultRow] /\ results'[k] = rrow
            /\ \A l \in Keys : l # k => results'[l] = results[l]
        BY <1>1, <3>2, <3>3, EditResult
      <3> QED BY <3>3, <3>4
    <2>11. k \in KeyRow
      BY <1>1, ResultType
    <2> HIDE DEF k, d, old, row, w
    <2>12. /\ phase' \in [Subjects -> Phases]
           /\ \A y \in Subjects : y # k.s =>
                phase'[y] = phase[y] \/ (phase[y] = "absent" /\ phase'[y] = "work")
      BY <2>6, <2>7 DEF Types, Phases
    <2>13. \/ phase'[k.s] = "done" /\ landed
           \/ phase'[k.s] = "work" /\ row.req = "applied" /\ old.req = "pending" /\ ~landed
           \/ phase'[k.s] = phase[k.s] /\ ~(row.req = "applied" /\ old.req = "pending")
      BY <1>1, <2>3, <2>6, <2>7
    <2>14. /\ revert' \in [Undos -> RevertRow]
           /\ \A v \in Undos :
                \/ revert'[v].of = revert[v].of /\ (v # k.s => phase'[v] = phase[v])
                \/ revert'[v].of = k
      <3>1. \A v \in Undos : v \in Subjects
        BY DEF Subjects
      <3>2. CASE ~w
        BY <2>6, <2>8, <3>1, <3>2 DEF Types
      <3>3. CASE w
        <4> DEFINE rr == [of |-> k, mode |-> "mechanical", reviewed |-> TRUE]
                   u == Undo[k.s]
        <4>1. rr \in RevertRow /\ rr.of = k
          BY <2>11 DEF RevertRow
        <4>2. revert' = [revert EXCEPT ![u] = rr] /\ u \in Undos
          BY <2>7, <2>8, <3>3
        <4>3. \A v \in Undos : v # u /\ v # k.s => phase'[v] = phase[v]
          BY <2>6, <3>1
        <4> HIDE DEF rr, u
        <4> QED BY <4>1, <4>2, <4>3 DEF Types
      <3> QED BY <3>2, <3>3
    <2>15. /\ row \in SubRow /\ Edited(k.s, k.n, row)
           /\ row.cand = old.cand /\ row.on = old.on /\ row.ok = old.ok /\ row.req # "pending"
           /\ \/ /\ phase'[k.s] = "done" /\ StillCurrent(k.s, k.n) /\ row.by = "nobody"
                 /\ row.cand \in ours \cup theirs
              \/ phase'[k.s] = "work" /\ StillCurrent(k.s, k.n) /\ row.by = "agent"
              \/ phase'[k.s] = phase[k.s] /\ row.by = old.by
      <3>1. StillCurrent(k.s, k.n) => old.by = "nobody"
        BY DEF StillCurrent, old
      <3> QED BY <2>3, <2>4, <2>5, <2>13, <3>1
    <2> QED BY <1>0, <2>2, <2>9, <2>10, <2>12, <2>14, <2>15 DEF Closes, old, k
  <1> QED BY <1>2, <1>3

---------------------------------------------------------------------------
\* Every step has one of these effects.
LEMMA NextEffect ==
  ASSUME IInv, Next
  PROVE  Effect
  <1> USE DEF IInv
  <1>1. CASE \/ ReadQueue \/ WatchTarget \/ ClassifyMove \/ RecordTip \/ PickItem
             \/ RecordPublished \/ Push \/ ObserveTip \/ Abort \/ GitFails
             \/ ForeignPush \/ RewriteTarget
    <2>1. Idle
      BY <1>1 DEF ReadQueue, WatchTarget, ClassifyMove, RecordTip, PickItem, RecordPublished,
           Push, ObserveTip, Abort, GitFails, ForeignPush, RewriteTarget, service, Idle
    <2> QED BY <2>1 DEF Effect
  <1>2. CASE RevertStep \/ RevertCheckFailed
    <2> DEFINE v == job.s
    <2>0. v \in Undos /\ v \in Subjects
      BY <1>2 DEF RevertStep, RevertCheckFailed, JobKnown, Subjects
    <2>1. CASE UNCHANGED <<phase, subs, hold, revert>>
      <3>1. results' = results
        BY <1>2 DEF RevertStep, RevertCheckFailed
      <3> QED BY <2>1, <3>1 DEF Effect, Idle
    <2>2. CASE AwaitsCandidate(v) /\ RecordCandidate(v, x) /\ UNCHANGED <<hold, revert>>
      <3>1. results' = results
        BY <1>2 DEF RevertStep, RevertCheckFailed
      <3>2. Gains(v)
        BY <2>0, <2>2, <3>1, RecordCandidateGains
      <3> QED BY <2>0, <3>2 DEF Effect
    <2>3. CASE Convertible(v) /\ Convert(v)
      <3>1. results' = results
        BY <1>2 DEF RevertStep, RevertCheckFailed
      <3>2. Loses(v) \/ Opens(v)
        BY <2>0, <2>3, <3>1, ConvertEffect
      <3> QED BY <2>0, <3>2 DEF Effect
    <2> QED BY <1>2, <2>1, <2>2, <2>3 DEF RevertStep, RevertCheckFailed
  <1>3. CASE IntegratorRevise
    <2>0. pc = "revise" /\ UNCHANGED <<results, revert>>
      BY <1>3 DEF IntegratorRevise
    <2>1. job.s \in Subjects
      BY <2>0, JobFacts DEF Working
    <2>2. CASE UNCHANGED <<phase, subs, hold>>
      BY <2>0, <2>2 DEF Effect, Idle
    <2>3. CASE Revisable(job.s, job.n) /\ Superseded(job.s, "agent")
      <3>1. phase[job.s] = "integration" /\ Issued(job.s, Current(job.s)) = {}
        BY <2>3 DEF Revisable, StillCurrent
      <3>2. Loses(job.s)
        BY <2>0, <2>1, <2>3, <3>1, SupersededLoses
      <3> QED BY <2>1, <3>2 DEF Effect
    <2> QED BY <1>3, <2>2, <2>3 DEF IntegratorRevise
  <1>4. CASE PinResult
    <2>1. JobKey \in KeyRow
      BY <1>4, JobFacts DEF PinResult, Working
    <2> QED BY <1>4, <2>1, PinEffect DEF Effect
  <1>5. CASE PrivilegeGate \/ ChecksGate \/ Attest
    <2>1. JobKey \in Keys
      BY <1>5 DEF PrivilegeGate, ChecksGate, Attest, JobKnown, Checking
    <2>2. Idle \/ Notes(JobKey) \/ Closes(JobKey)
      BY <1>5, GateEffect, ChecksEffect, AttestCloses
    <2> QED BY <2>1, <2>2 DEF Effect
  <1>6. CASE PushAuthority
    <2>1. JobKey \in Keys /\ job.s \in Subjects
      BY <1>6, JobFacts DEF PushAuthority, JobKnown, Checking, Working
    <2> QED BY <1>6, <2>1, AuthorityEffect DEF Effect
  <1>7. ASSUME NEW t \in Tasks, Submit(t)
        PROVE  Effect
    <2>1. t \in Subjects
      BY DEF Subjects
    <2> QED BY <1>7, <2>1, SubmitGains DEF Effect
  <1>8. ASSUME NEW s \in Subjects, Approve(s) \/ RequestChanges(s) \/ AgentRevise(s) \/ HumanReopen(s)
        PROVE  Effect
    <2>1. CASE HumanReopen(s)
      <3>1. Loses(s)
        BY <2>1, SupersededLoses DEF HumanReopen
      <3> QED BY <3>1 DEF Effect
    <2> QED BY <1>8, <2>1, ApproveAmends, RequestChangesLoses, AgentReviseEffect DEF Effect
  <1>9. ASSUME NEW k \in Keys, NEW d \in {"allow", "deny"}, ResolveGate(k, d)
        PROVE  Effect
    BY <1>9, ResolveEffect DEF Effect
  <1>10. ASSUME NEW k \in Keys, NEW reviewed \in BOOLEAN, RequestRevert(k, reviewed)
         PROVE  Effect
    BY <1>10, RequestRevertOpens DEF Effect
  <1> QED
    BY <1>1, <1>2, <1>3, <1>4, <1>5, <1>6, <1>7, <1>8, <1>9, <1>10 DEF Next, Loop, Others

---------------------------------------------------------------------------
(* The tables under each effect.                                           *)

TableTypes ==
  /\ phase \in [Subjects -> Phases]
  /\ subs \in [Subjects -> Seq(SubRow)]
  /\ Keys \subseteq KeyRow /\ results \in [Keys -> ResultRow]
  /\ hold = None \/ hold \in Subjects \X Nat
  /\ revert \in [Undos -> RevertRow]

\* Submissions keep what was reviewed, and results what was merged.
Grown ==
  /\ \A s \in Subjects : Len(subs[s]) <= Len(subs'[s])
  /\ \A s \in Subjects : \A n \in 1..Len(subs[s]) :
       /\ subs'[s][n].cand = subs[s][n].cand /\ subs'[s][n].on = subs[s][n].on
       /\ subs[s][n].by # "nobody" => subs'[s][n].by = subs[s][n].by
  /\ Keys \subseteq Keys'
  /\ \A k \in Keys : results'[k].r = results[k].r

LEMMA TablesTyped ==
  ASSUME IInv, Effect
  PROVE  TableTypes'
  <1> USE DEF IInv
  <1>0. TableTypes
    BY DEF Types, TableTypes
  <1>1. CASE Idle
    BY <1>0, <1>1 DEF Idle, TableTypes, Keys
  <1>2. ASSUME NEW s \in Subjects, Loses(s) \/ Gains(s) \/ Amends(s)
        PROVE  TableTypes'
    <2>1. phase' \in [Subjects -> Phases]
      BY <1>0, <1>2 DEF Loses, Gains, Amends, TableTypes, Phases
    <2>2. subs' \in [Subjects -> Seq(SubRow)]
      BY <1>2 DEF Loses, Gains, Amends, Edited, Appended
    <2>3. hold' = None \/ hold' \in Subjects \X Nat
      BY <1>0, <1>2 DEF Loses, Gains, Amends, TableTypes
    <2>4. revert' \in [Undos -> RevertRow] /\ results' = results
      BY <1>0, <1>2 DEF Loses, Gains, Amends, RevertsStay, TableTypes
    <2> QED BY <1>0, <2>1, <2>2, <2>3, <2>4 DEF TableTypes, Keys
  <1>3. ASSUME NEW v \in Undos, Opens(v)
        PROVE  TableTypes'
    <2>1. phase' \in [Subjects -> Phases]
      BY <1>0, <1>3 DEF Opens, TableTypes, Phases
    <2> QED BY <1>0, <1>3, <2>1 DEF Opens, TableTypes, Keys
  <1>4. ASSUME NEW k \in Keys, Notes(k)
        PROVE  TableTypes'
    BY <1>0, <1>4 DEF Notes, TableTypes
  <1>5. ASSUME NEW k \in Keys, Grants(k)
        PROVE  TableTypes'
    <2>1. <<k.s, k.n>> \in Subjects \X Nat
      BY ResultType
    <2> QED BY <1>0, <1>5, <2>1 DEF Grants, TableTypes
  <1>6. ASSUME NEW k \in Keys, Closes(k)
        PROVE  TableTypes'
    BY <1>0, <1>6 DEF Closes, Edited, TableTypes
  <1>7. ASSUME NEW k \in KeyRow, Pins(k)
        PROVE  TableTypes'
    BY <1>0, <1>7 DEF Pins, TableTypes
  <1> QED BY <1>1, <1>2, <1>3, <1>4, <1>5, <1>6, <1>7 DEF Effect

LEMMA TablesGrow ==
  ASSUME IInv, Effect
  PROVE  Grown
  <1> USE DEF IInv
  <1>0. \A s \in Subjects : Len(subs[s]) \in Nat
    BY SubType DEF Current
  <1>1. CASE Idle
    BY <1>0, <1>1 DEF Idle, Grown, Keys
  <1>2. ASSUME NEW s \in Subjects, Loses(s)
        PROVE  Grown
    <2>1. PICK who : Edited(s, Current(s), [Sub(s, Current(s)) EXCEPT !.by = who])
      BY <1>2 DEF Loses
    <2>2. Sub(s, Current(s)).by = "nobody" /\ Sub(s, Current(s)) \in SubRow
      BY <1>2, LiveHasOne DEF Loses, Live, Standing
    <2> DEFINE row == [Sub(s, Current(s)) EXCEPT !.by = who]
    <2>3. row.cand = Sub(s, Current(s)).cand /\ row.on = Sub(s, Current(s)).on
      BY <2>2 DEF SubRow
    <2>4. results' = results
      BY <1>2 DEF Loses
    <2> HIDE DEF row
    <2>5. Edited(s, Current(s), row)
      BY <2>1 DEF row
    <2> QED BY <1>0, <2>2, <2>3, <2>4, <2>5 DEF Edited, Grown, Keys, Sub
  <1>3. ASSUME NEW s \in Subjects, Gains(s)
        PROVE  Grown
    <2>1. PICK row : Appended(s, row)
      BY <1>3 DEF Gains
    <2>2. results' = results
      BY <1>3 DEF Gains
    <2>3. \A u \in Subjects : /\ Len(subs[u]) <= Len(subs'[u])
                              /\ \A m \in 1..Len(subs[u]) : subs'[u][m] = subs[u][m]
      <3>1. Len(subs[s]) <= Len(subs'[s])
        BY <1>0, <2>1 DEF Appended
      <3>2. \A u \in Subjects : u # s => subs'[u] = subs[u] /\ Len(subs[u]) <= Len(subs[u])
        BY <1>0, <2>1 DEF Appended
      <3>3. \A m \in 1..Len(subs[s]) : subs'[s][m] = subs[s][m]
        BY <2>1 DEF Appended
      <3> QED BY <3>1, <3>2, <3>3
    <2> QED BY <2>2, <2>3 DEF Grown, Keys
  <1>4. ASSUME NEW s \in Subjects, Amends(s)
        PROVE  Grown
    <2>1. PICK row : /\ Edited(s, Current(s), row)
                     /\ row.cand = Sub(s, Current(s)).cand /\ row.on = Sub(s, Current(s)).on
                     /\ row.by = Sub(s, Current(s)).by
      BY <1>4 DEF Amends
    <2>2. results' = results
      BY <1>4 DEF Amends
    <2> QED BY <1>0, <2>1, <2>2 DEF Edited, Grown, Keys, Sub
  <1>5. ASSUME NEW v \in Undos, Opens(v)
        PROVE  Grown
    BY <1>0, <1>5 DEF Opens, Grown, Keys
  <1>6. ASSUME NEW k \in Keys, Notes(k) \/ Grants(k)
        PROVE  Grown
    BY <1>0, <1>6 DEF Notes, Grants, Grown
  <1>7. ASSUME NEW k \in Keys, Closes(k)
        PROVE  Grown
    <2>1. PICK row : /\ Edited(k.s, k.n, row)
                     /\ row.cand = Sub(k.s, k.n).cand /\ row.on = Sub(k.s, k.n).on
                     /\ StillCurrent(k.s, k.n) \/ row.by = Sub(k.s, k.n).by
      BY <1>7 DEF Closes
    <2>2. row.by # Sub(k.s, k.n).by => Sub(k.s, k.n).by = "nobody"
      BY <2>1 DEF StillCurrent
    <2>3. Keys' = Keys /\ \A l \in Keys : results'[l].r = results[l].r
      BY <1>7 DEF Closes
    <2> QED BY <1>0, <2>1, <2>2, <2>3 DEF Edited, Grown, Sub
  <1>8. ASSUME NEW k \in KeyRow, Pins(k)
        PROVE  Grown
    BY <1>0, <1>8 DEF Pins, Grown
  <1> QED BY <1>1, <1>2, <1>3, <1>4, <1>5, <1>6, <1>7, <1>8 DEF Effect

LEMMA ResultsStayMerged ==
  ASSUME IInv, Effect
  PROVE  ResultsMerged'
  <1> USE DEF IInv
  <1>1. Grown
    BY TablesGrow
  <1>2. TableTypes'
    BY TablesTyped
  <1>3. ASSUME NEW k \in Keys
        PROVE  k.n \in 1..Current(k.s)' /\ results'[k].r = Merged(k.t0, subs'[k.s][k.n])
    <2>1. k.s \in Subjects /\ k.n \in 1..Current(k.s) /\ results[k].r = Merged(k.t0, Sub(k.s, k.n))
      BY ResultType DEF ResultsMerged
    <2>2. Len(subs[k.s]) \in Nat /\ Len(subs'[k.s]) \in Nat
      BY <2>1, <1>2, SubType DEF TableTypes, Current
    <2>3. Merged(k.t0, subs'[k.s][k.n]) = Merged(k.t0, Sub(k.s, k.n))
      BY <1>1, <2>1, MergedSame DEF Grown, Sub, Current
    <2> QED BY <1>1, <2>1, <2>2, <2>3 DEF Grown, Current
  <1>4. ASSUME NEW k \in KeyRow, Pins(k)
        PROVE  k.n \in 1..Current(k.s)' /\ results'[k].r = Merged(k.t0, subs'[k.s][k.n])
    BY <1>4 DEF Pins, NewResult, Current, Sub
  <1>5. CASE Keys' = Keys
    BY <1>3, <1>5 DEF ResultsMerged, Sub
  <1>6. ASSUME NEW k \in KeyRow, Pins(k)
        PROVE  ResultsMerged'
    <2>1. Keys' = Keys \cup {k}
      BY <1>6 DEF Pins
    <2> QED BY <1>3, <1>4, <1>6, <2>1 DEF ResultsMerged, Sub
  <1>7. Keys' = Keys \/ \E k \in KeyRow : Pins(k)
    BY DEF Effect, Idle, Loses, Gains, Amends, Opens, Notes, Grants, Closes, Keys
  <1> QED BY <1>5, <1>6, <1>7

LEMMA StacksStayReviewed ==
  ASSUME IInv, Effect
  PROVE  StacksReviewed'
  <1> USE DEF IInv
  <1>1. Grown
    BY TablesGrow
  <1>2. TableTypes'
    BY TablesTyped
  <1>a. \A u \in Subjects : Len(subs[u]) \in Nat /\ Len(subs'[u]) \in Nat
    BY <1>2, SubType DEF TableTypes, Current
  <1>3. ASSUME NEW c, IsCandidate(c)
        PROVE  \E u \in Subjects : \E m \in 1..Len(subs'[u]) : subs'[u][m].cand = c
    <2>0. PICK u \in Subjects : \E m \in 1..Len(subs[u]) : subs[u][m].cand = c
      BY <1>3 DEF IsCandidate, Current, Sub
    <2>1. PICK m \in 1..Len(subs[u]) : subs[u][m].cand = c
      BY <2>0
    <2>2. m \in 1..Len(subs'[u]) /\ subs'[u][m].cand = c
      BY <1>1, <1>a, <2>1 DEF Grown
    <2> QED BY <2>2
  <1>4. ASSUME NEW s \in Subjects, NEW n \in 1..Len(subs'[s]), NEW c \in Contents(subs'[s][n].on)
        PROVE  IsCandidate(c)
    <2>1. CASE n \in 1..Len(subs[s])
      <3>1. c \in Contents(Sub(s, n).on)
        BY <1>1, <1>4, <2>1 DEF Grown, Sub
      <3> QED BY <2>1, <3>1 DEF StacksReviewed, IsCandidate, Current
    <2>2. CASE n \notin 1..Len(subs[s])
      <3>1. Len(subs[s]) # Len(subs'[s])
        BY <2>2, <1>4, <1>a
      <3>2. PICK u \in Subjects : Gains(u)
        BY <3>1 DEF Effect, Idle, Loses, Amends, Opens, Notes, Grants, Closes, Pins, Edited
      <3>3. PICK row \in SubRow : Appended(u, row) /\ \A d \in Contents(row.on) : IsCandidate(d)
        BY <3>2 DEF Gains
      <3>4. u = s /\ n = Len(subs[s]) + 1 /\ subs'[s][n] = row
        BY <1>a, <1>4, <2>2, <3>1, <3>3 DEF Appended
      <3> QED BY <1>4, <3>3, <3>4
    <2> QED BY <2>1, <2>2
  <1> QED BY <1>3, <1>4 DEF StacksReviewed, Current, Sub

LEMMA StandingStays ==
  ASSUME IInv, Effect
  PROVE  Standing'
  <1> USE DEF IInv
  <1> DEFINE Rows == \A s \in Subjects : \A n \in 1..Len(subs'[s]) :
                       subs'[s][n].by = "nobody" => n = Len(subs'[s]) /\ phase'[s] \in Live
             Lives == \A s \in Subjects : phase'[s] \in Live =>
                        Len(subs'[s]) >= 1 /\ subs'[s][Len(subs'[s])].by = "nobody"
             Absents == \A v \in Undos : revert'[v].of = None => phase'[v] = "absent"
             Ofs == \A v \in Undos : revert'[v].of # None => revert'[v].of \in Keys'
             Goal == Rows /\ Lives /\ Absents /\ Ofs
  <1> SUFFICES Goal
    BY DEF Standing, Current, Sub
  <1>a. \A s \in Subjects :
          /\ Len(subs[s]) \in Nat
          /\ \A n \in 1..Len(subs[s]) :
               subs[s][n].by = "nobody" => n = Len(subs[s]) /\ phase[s] \in Live
          /\ phase[s] \in Live => Len(subs[s]) >= 1 /\ subs[s][Len(subs[s])].by = "nobody"
    BY SubType DEF Standing, Current, Sub
  <1>b. \A v \in Undos : /\ v \in Subjects
                         /\ revert[v].of = None => phase[v] = "absent"
                         /\ revert[v].of # None => revert[v].of \in Keys
    BY DEF Standing, Subjects
  <1>c. phase \in [Subjects -> Phases]
    BY DEF Types
  <1>d. None \notin KeyRow /\ Keys \subseteq KeyRow
    BY IntegratorAssumption DEF KeyRow, Tips, Types
  <1> HIDE DEF IInv
  <1>1. CASE Idle
    <2>1. Rows /\ Lives
      BY <1>1, <1>a DEF Idle
    <2>2. Absents /\ Ofs
      BY <1>1, <1>b DEF Idle, Keys
    <2> QED BY <2>1, <2>2
  <1>2. ASSUME NEW s \in Subjects, Loses(s)
        PROVE  Goal
    <2>1. PICK who \in {"agent", "human"} :
            Edited(s, Current(s), [Sub(s, Current(s)) EXCEPT !.by = who])
      BY <1>2 DEF Loses
    <2>2. PICK p \in {"work", "canceled", "converted"} : phase' = [phase EXCEPT ![s] = p]
      BY <1>2 DEF Loses
    <2>3. phase[s] \in Live /\ phase[s] # "absent"
      BY <1>2 DEF Loses, Live
    <2>4. Sub(s, Current(s)) \in SubRow
      BY <1>2, <2>3, LiveHasOne DEF IInv
    <2>5. subs'[s][Len(subs[s])].by = who
      BY <2>1, <2>4 DEF Edited, SubRow, Current
    <2>6. /\ \A u \in Subjects : Len(subs'[u]) = Len(subs[u])
          /\ \A u \in Subjects : \A m \in 1..Len(subs[u]) :
               u # s \/ m # Len(subs[s]) => subs'[u][m] = subs[u][m]
      BY <2>1 DEF Edited, Current
    <2>7. phase'[s] = p /\ \A u \in Subjects : u # s => phase'[u] = phase[u]
      BY <1>c, <2>2
    <2>8. Rows
      BY <1>a, <2>1, <2>5, <2>6, <2>7
    <2>9. Lives
      <3>1. ASSUME NEW u \in Subjects, phase'[u] \in Live
            PROVE  Len(subs'[u]) >= 1 /\ subs'[u][Len(subs'[u])].by = "nobody"
        <4>1. u # s /\ phase[u] \in Live
          BY <2>7, <3>1 DEF Live
        <4>2. Len(subs[u]) \in 1..Len(subs[u])
          BY <1>a, <4>1
        <4> QED BY <1>a, <2>6, <4>1, <4>2
      <3> QED BY <3>1
    <2>10. Absents /\ Ofs
      <3>1. /\ \A v \in Undos : revert'[v].of = revert[v].of
            /\ results' = results
        BY <1>2 DEF Loses, RevertsStay
      <3> QED BY <1>b, <2>3, <2>7, <3>1 DEF Keys
    <2> QED BY <2>8, <2>9, <2>10
  <1>3. ASSUME NEW s \in Subjects, Gains(s)
        PROVE  Goal
    <2>1. PICK row \in SubRow : Appended(s, row) /\ row.by = "nobody"
      BY <1>3 DEF Gains
    <2>2. PICK p \in {"review", "integration"} : phase' = [phase EXCEPT ![s] = p]
      BY <1>3 DEF Gains
    <2>3. phase[s] = "work" /\ UNCHANGED <<results, revert>>
      BY <1>3 DEF Gains
    <2>4. phase'[s] \in Live /\ \A u \in Subjects : u # s => phase'[u] = phase[u]
      BY <1>c, <2>2 DEF Live
    <2>5. /\ Len(subs'[s]) = Len(subs[s]) + 1 /\ subs'[s][Len(subs[s]) + 1].by = "nobody"
          /\ \A m \in 1..Len(subs[s]) : subs'[s][m] = subs[s][m]
          /\ \A u \in Subjects : u # s => subs'[u] = subs[u]
      BY <2>1 DEF Appended
    <2>6. \A m \in 1..Len(subs[s]) : subs[s][m].by # "nobody"
      BY <1>a, <2>3 DEF Live
    <2>7. Rows
      <3>1. ASSUME NEW u \in Subjects, NEW n \in 1..Len(subs'[u]), subs'[u][n].by = "nobody"
            PROVE  n = Len(subs'[u]) /\ phase'[u] \in Live
        <4>1. CASE u = s
          BY <1>a, <2>4, <2>5, <2>6, <3>1, <4>1
        <4>2. CASE u # s
          BY <1>a, <2>4, <2>5, <3>1, <4>2
        <4> QED BY <4>1, <4>2
      <3> QED BY <3>1
    <2>8. Lives
      <3>1. ASSUME NEW u \in Subjects, phase'[u] \in Live
            PROVE  Len(subs'[u]) >= 1 /\ subs'[u][Len(subs'[u])].by = "nobody"
        <4>1. CASE u = s
          BY <1>a, <2>5, <4>1
        <4>2. CASE u # s
          BY <1>a, <2>4, <2>5, <3>1, <4>2
        <4> QED BY <4>1, <4>2
      <3> QED BY <3>1
    <2>9. Absents /\ Ofs
      BY <1>b, <2>3, <2>4 DEF Keys
    <2> QED BY <2>7, <2>8, <2>9
  <1>4. ASSUME NEW s \in Subjects, Amends(s)
        PROVE  Goal
    <2>1. PICK row : Edited(s, Current(s), row) /\ row.by = Sub(s, Current(s)).by
      BY <1>4 DEF Amends
    <2>2. PICK p \in {"review", "integration"} : phase' = [phase EXCEPT ![s] = p]
      BY <1>4 DEF Amends
    <2>3. /\ phase[s] \in Live /\ phase[s] # "absent" /\ UNCHANGED <<results, revert>>
          /\ phase'[s] \in Live /\ \A u \in Subjects : u # s => phase'[u] = phase[u]
      BY <1>4, <1>c, <2>2 DEF Amends, Live
    <2>4. /\ \A u \in Subjects : Len(subs'[u]) = Len(subs[u])
          /\ \A u \in Subjects : \A m \in 1..Len(subs[u]) : subs'[u][m].by = subs[u][m].by
      BY <2>1 DEF Edited, Current, Sub
    <2>5. Rows
      BY <1>a, <2>3, <2>4
    <2>6. Lives
      <3>1. ASSUME NEW u \in Subjects, phase'[u] \in Live
            PROVE  Len(subs'[u]) >= 1 /\ subs'[u][Len(subs'[u])].by = "nobody"
        <4>1. phase[u] \in Live
          BY <2>3, <3>1
        <4>2. Len(subs[u]) \in 1..Len(subs[u])
          BY <1>a, <4>1
        <4> QED BY <1>a, <2>4, <4>1, <4>2
      <3> QED BY <3>1
    <2>7. Absents /\ Ofs
      BY <1>b, <2>3 DEF Keys
    <2> QED BY <2>5, <2>6, <2>7
  <1>5. ASSUME NEW v \in Undos, Opens(v)
        PROVE  Goal
    <2>1. PICK p \in {"work", "converted"} : phase' = [phase EXCEPT ![v] = p]
      BY <1>5 DEF Opens
    <2>2. /\ phase[v] \notin Live /\ subs' = subs /\ results' = results
          /\ phase'[v] \notin Live /\ \A u \in Subjects : u # v => phase'[u] = phase[u]
      BY <1>5, <1>b, <1>c, <2>1 DEF Opens, Live
    <2>3. Rows /\ Lives
      BY <1>a, <1>b, <2>2
    <2>4. revert'[v].of \in Keys /\ \A u \in Undos : u # v => revert'[u].of = revert[u].of
      BY <1>5 DEF Opens
    <2>5. Absents /\ Ofs
      BY <1>b, <1>d, <2>2, <2>4 DEF Keys
    <2> QED BY <2>3, <2>5
  <1>6. ASSUME Keys \subseteq Keys', UNCHANGED <<phase, subs, revert>>
        PROVE  Goal
    <2>1. Rows /\ Lives
      BY <1>6, <1>a
    <2>2. Absents /\ Ofs
      BY <1>6, <1>b
    <2> QED BY <2>1, <2>2
  <1>7. ASSUME NEW k \in Keys, Closes(k)
        PROVE  Goal
    <2>0. k.s \in Subjects /\ k.n \in 1..Len(subs[k.s])
      BY ResultType DEF ResultsMerged, Current, IInv
    <2>1. PICK row : /\ Edited(k.s, k.n, row)
                     /\ \/ phase'[k.s] = "done" /\ StillCurrent(k.s, k.n) /\ row.by = "nobody"
                        \/ phase'[k.s] = "work" /\ StillCurrent(k.s, k.n) /\ row.by = "agent"
                        \/ phase'[k.s] = phase[k.s] /\ row.by = Sub(k.s, k.n).by
      BY <1>7 DEF Closes
    <2>2. /\ \A u \in Subjects : Len(subs'[u]) = Len(subs[u])
          /\ subs'[k.s][k.n] = row
          /\ \A u \in Subjects : \A m \in 1..Len(subs[u]) :
               u # k.s \/ m # k.n => subs'[u][m] = subs[u][m]
      BY <2>1 DEF Edited
    <2>3. \A y \in Subjects : y # k.s =>
            phase'[y] = phase[y] \/ (phase[y] \notin Live /\ phase'[y] \notin Live)
      BY <1>7 DEF Closes, Live
    <2>4. \/ /\ phase'[k.s] \in Live /\ row.by = "nobody" /\ k.n = Len(subs[k.s])
          \/ /\ phase'[k.s] \notin Live /\ row.by # "nobody" /\ k.n = Len(subs[k.s])
          \/ phase'[k.s] = phase[k.s] /\ row.by = subs[k.s][k.n].by
      BY <2>1 DEF StillCurrent, Live, Sub, Current
    <2>5. Rows
      <3>1. ASSUME NEW u \in Subjects, NEW n \in 1..Len(subs'[u]), subs'[u][n].by = "nobody"
            PROVE  n = Len(subs'[u]) /\ phase'[u] \in Live
        <4>1. CASE u = k.s /\ n = k.n
          BY <1>a, <2>0, <2>2, <2>4, <3>1, <4>1
        <4>2. CASE u = k.s /\ n # k.n
          BY <1>a, <2>0, <2>2, <2>4, <3>1, <4>2
        <4>3. CASE u # k.s
          BY <1>a, <2>2, <2>3, <3>1, <4>3
        <4> QED BY <4>1, <4>2, <4>3
      <3> QED BY <3>1
    <2>6. Lives
      <3>1. ASSUME NEW u \in Subjects, phase'[u] \in Live
            PROVE  Len(subs'[u]) >= 1 /\ subs'[u][Len(subs'[u])].by = "nobody"
        <4>1. CASE u = k.s
          BY <1>a, <2>0, <2>2, <2>4, <3>1, <4>1
        <4>2. CASE u # k.s
          <5>1. phase[u] \in Live
            BY <2>3, <3>1, <4>2
          <5>2. Len(subs[u]) \in 1..Len(subs[u])
            BY <1>a, <5>1
          <5> QED BY <1>a, <2>2, <4>2, <5>1, <5>2
        <4> QED BY <4>1, <4>2
      <3> QED BY <3>1
    <2>7. Absents
      <3>1. ASSUME NEW v \in Undos, revert'[v].of = None
            PROVE  phase'[v] = "absent"
        <4>1. revert'[v].of = revert[v].of /\ (v # k.s => phase'[v] = phase[v])
          BY <1>7, <1>d, <3>1 DEF Closes
        <4>2. phase[v] = "absent" /\ v \in Subjects
          BY <1>b, <3>1, <4>1
        <4>3. CASE v = k.s
          <5>1. subs[k.s][k.n].by # "nobody"
            BY <1>a, <2>0, <4>2, <4>3 DEF Live
          <5>2. ~StillCurrent(k.s, k.n)
            BY <5>1 DEF StillCurrent, Sub
          <5> QED BY <2>1, <4>2, <4>3, <5>2
        <4> QED BY <4>1, <4>2, <4>3
      <3> QED BY <3>1
    <2>8. Ofs
      <3>1. Keys' = Keys
        BY <1>7 DEF Closes
      <3>2. \A v \in Undos : revert'[v].of = revert[v].of \/ revert'[v].of = k
        BY <1>7 DEF Closes
      <3> QED BY <1>b, <3>1, <3>2
    <2> QED BY <2>5, <2>6, <2>7, <2>8
  <1> HIDE DEF Goal
  <1>8. ASSUME NEW k \in Keys, Notes(k) \/ Grants(k)
        PROVE  Goal
    BY <1>6, <1>8 DEF Notes, Grants
  <1>9. ASSUME NEW k \in KeyRow, Pins(k)
        PROVE  Goal
    BY <1>6, <1>9 DEF Pins
  <1> QED BY <1>1, <1>2, <1>3, <1>4, <1>5, <1>7, <1>8, <1>9 DEF Effect

LEMMA AuthorityStays ==
  ASSUME IInv, Effect
  PROVE  Authority'
  <1> USE DEF IInv
  <1> DEFINE Out(k) == results'[k].issued
             Standing1(k) == k.n = Len(subs'[k.s]) /\ subs'[k.s][k.n].by = "nobody"
             A1 == \A k, l \in Keys' : Out(k) /\ Out(l) /\ k.s = l.s /\ k.n = l.n => k = l
             A2 == hold' # None => \E k \in Keys' : Out(k) /\ Standing1(k) /\ hold' = <<k.s, k.n>>
             A3 == \A k \in Keys' : Out(k) /\ Standing1(k) => hold' = <<k.s, k.n>>
             A4 == \A s \in Subjects : \A n \in 1..Len(subs'[s]) :
                     subs'[s][n].req = "pending" /\ subs'[s][n].by = "nobody" =>
                       \E k \in Keys' : Out(k) /\ k.s = s /\ k.n = n
             Goal == A1 /\ A2 /\ A3 /\ A4
  <1> SUFFICES Goal
    BY DEF Authority, Outstanding, Stands, Current, Sub
  <1>a. \A s \in Subjects :
          /\ Len(subs[s]) \in Nat
          /\ \A n \in 1..Len(subs[s]) :
               subs[s][n].by = "nobody" => n = Len(subs[s]) /\ phase[s] \in Live
    BY SubType DEF Standing, Current, Sub
  <1>b. \A k \in Keys : k.s \in Subjects /\ k.n \in 1..Len(subs[k.s])
    BY ResultType DEF ResultsMerged, Current
  <1> DEFINE Standing0(k) == k.n = Len(subs[k.s]) /\ subs[k.s][k.n].by = "nobody"
  <1>c. /\ \A k, l \in Keys : results[k].issued /\ results[l].issued /\ k.s = l.s /\ k.n = l.n => k = l
        /\ hold # None => \E k \in Keys : results[k].issued /\ Standing0(k) /\ hold = <<k.s, k.n>>
        /\ \A k \in Keys : results[k].issued /\ Standing0(k) => hold = <<k.s, k.n>>
        /\ \A s \in Subjects : \A n \in 1..Len(subs[s]) :
             subs[s][n].req = "pending" /\ subs[s][n].by = "nobody" =>
               \E k \in Keys : results[k].issued /\ k.s = s /\ k.n = n
    BY DEF Authority, Outstanding, Stands, Current, Sub
  <1>d. \A k \in Keys : <<k.s, k.n>> # None
    BY ResultType, IntegratorAssumption
  <1> HIDE DEF IInv
  <1>1. ASSUME subs' = subs, hold' = hold, Keys \subseteq Keys',
               \A k \in Keys : results'[k].issued = results[k].issued,
               \A k \in Keys' \ Keys : ~results'[k].issued
        PROVE  Goal
    BY <1>1, <1>c
  <1>2. ASSUME NEW s \in Subjects, Loses(s)
        PROVE  Goal
    <2>1. PICK who \in {"agent", "human"} :
            Edited(s, Current(s), [Sub(s, Current(s)) EXCEPT !.by = who])
      BY <1>2 DEF Loses
    <2>2. Sub(s, Current(s)) \in SubRow
      BY <1>2, LiveHasOne DEF IInv, Loses, Live
    <2>3. subs'[s][Len(subs[s])].by # "nobody"
      BY <2>1, <2>2 DEF Edited, SubRow, Current
    <2>4. /\ \A u \in Subjects : Len(subs'[u]) = Len(subs[u])
          /\ \A u \in Subjects : \A m \in 1..Len(subs[u]) :
               u # s \/ m # Len(subs[s]) => subs'[u][m] = subs[u][m]
      BY <2>1 DEF Edited, Current
    <2>5. results' = results /\ Keys' = Keys
          /\ hold' = IF hold = <<s, Len(subs[s])>> THEN None ELSE hold
      BY <1>2 DEF Loses, Keys, Current
    <2>6. A1
      BY <1>c, <2>5
    <2>7. A2
      <3> SUFFICES ASSUME hold' # None
                   PROVE  \E k \in Keys' : Out(k) /\ Standing1(k) /\ hold' = <<k.s, k.n>>
        OBVIOUS
      <3>1. hold' = hold /\ hold # None /\ hold # <<s, Len(subs[s])>>
        BY <2>5
      <3>2. PICK k \in Keys : results[k].issued /\ Standing0(k) /\ hold = <<k.s, k.n>>
        BY <1>c, <3>1
      <3>3. k.s # s
        BY <3>1, <3>2
      <3> QED BY <1>b, <2>4, <2>5, <3>1, <3>2, <3>3
    <2>8. A3
      <3> SUFFICES ASSUME NEW k \in Keys, results[k].issued, Standing1(k)
                   PROVE  hold' = <<k.s, k.n>>
        BY <2>5
      <3>1. k.s # s
        BY <1>b, <2>3, <2>4
      <3>2. Standing0(k)
        BY <1>b, <2>4, <3>1
      <3> QED BY <1>c, <2>5, <3>1, <3>2
    <2>9. A4
      <3> SUFFICES ASSUME NEW u \in Subjects, NEW n \in 1..Len(subs[u]),
                          subs'[u][n].req = "pending", subs'[u][n].by = "nobody"
                   PROVE  \E k \in Keys : results[k].issued /\ k.s = u /\ k.n = n
        BY <2>4, <2>5
      <3>1. subs'[u][n] = subs[u][n]
        BY <2>3, <2>4
      <3> QED BY <1>c, <3>1
    <2> QED BY <2>6, <2>7, <2>8, <2>9
  <1>3. ASSUME NEW s \in Subjects, Gains(s)
        PROVE  Goal
    <2>1. PICK row \in SubRow : Appended(s, row) /\ row.req = "none"
      BY <1>3 DEF Gains
    <2>2. phase[s] = "work" /\ results' = results /\ Keys' = Keys /\ hold' = hold
      BY <1>3 DEF Gains, Keys
    <2>3. /\ Len(subs'[s]) = Len(subs[s]) + 1 /\ subs'[s][Len(subs[s]) + 1].req = "none"
          /\ \A m \in 1..Len(subs[s]) : subs'[s][m] = subs[s][m]
          /\ \A u \in Subjects : u # s => subs'[u] = subs[u]
      BY <2>1 DEF Appended
    <2>4. \A m \in 1..Len(subs[s]) : subs[s][m].by # "nobody"
      BY <1>a, <2>2 DEF Live
    <2>5. A1
      BY <1>c, <2>2
    <2>6. A2
      <3> SUFFICES ASSUME hold # None
                   PROVE  \E k \in Keys : results[k].issued /\ Standing1(k) /\ hold = <<k.s, k.n>>
        BY <2>2
      <3>1. PICK k \in Keys : results[k].issued /\ Standing0(k) /\ hold = <<k.s, k.n>>
        BY <1>c
      <3>2. k.s # s
        BY <1>b, <2>4, <3>1
      <3> QED BY <1>b, <2>3, <3>1, <3>2
    <2>7. A3
      <3> SUFFICES ASSUME NEW k \in Keys, results[k].issued, Standing1(k)
                   PROVE  hold = <<k.s, k.n>>
        BY <2>2
      <3>1. k.s # s
        BY <1>a, <1>b, <2>3
      <3> QED BY <1>b, <1>c, <2>3, <3>1
    <2>8. A4
      <3> SUFFICES ASSUME NEW u \in Subjects, NEW n \in 1..Len(subs'[u]),
                          subs'[u][n].req = "pending", subs'[u][n].by = "nobody"
                   PROVE  \E k \in Keys : results[k].issued /\ k.s = u /\ k.n = n
        BY <2>2
      <3>1. n \in 1..Len(subs[u]) /\ subs'[u][n] = subs[u][n]
        <4>1. CASE u = s
          BY <1>a, <2>3, <4>1
        <4>2. CASE u # s
          BY <2>3, <4>2
        <4> QED BY <4>1, <4>2
      <3> QED BY <1>c, <3>1
    <2> QED BY <2>5, <2>6, <2>7, <2>8
  <1>4. ASSUME NEW s \in Subjects, Amends(s)
        PROVE  Goal
    <2>1. PICK row : /\ Edited(s, Current(s), row) /\ row.by = Sub(s, Current(s)).by
                     /\ row.req = Sub(s, Current(s)).req \/ Issued(s, Current(s)) # {}
      BY <1>4 DEF Amends
    <2>2. results' = results /\ Keys' = Keys /\ hold' = hold
      BY <1>4 DEF Amends, Keys
    <2>3. /\ \A u \in Subjects : Len(subs'[u]) = Len(subs[u])
          /\ \A u \in Subjects : \A m \in 1..Len(subs[u]) : subs'[u][m].by = subs[u][m].by
          /\ \A u \in Subjects : \A m \in 1..Len(subs[u]) :
               u # s \/ m # Len(subs[s]) => subs'[u][m] = subs[u][m]
          /\ subs'[s][Len(subs[s])] = row
      BY <2>1 DEF Edited, Current, Sub
    <2>4. A1
      BY <1>c, <2>2
    <2>5. A2 /\ A3
      BY SMTT(30), <1>b, <1>c, <2>2, <2>3
    <2>6. A4
      <3> SUFFICES ASSUME NEW u \in Subjects, NEW n \in 1..Len(subs[u]),
                          subs'[u][n].req = "pending", subs'[u][n].by = "nobody"
                   PROVE  \E k \in Keys : results[k].issued /\ k.s = u /\ k.n = n
        BY <2>2, <2>3
      <3>1. CASE subs[u][n].req = "pending"
        BY <1>c, <2>3, <3>1
      <3>2. CASE subs[u][n].req # "pending"
        <4>1. u = s /\ n = Len(subs[s]) /\ row.req = "pending"
          BY <2>3, <3>2
        <4>2. Issued(s, Current(s)) # {}
          BY <2>1, <3>2, <4>1 DEF Sub, Current
        <4> QED BY <4>1, <4>2 DEF Issued, KeysOf, Current
      <3> QED BY <3>1, <3>2
    <2> QED BY <2>4, <2>5, <2>6
  <1>5. ASSUME NEW k \in Keys, Grants(k)
        PROVE  Goal
    <2>1. /\ Keys' = Keys /\ subs' = subs /\ results'[k].issued /\ hold' = <<k.s, k.n>>
          /\ \A l \in Keys : l # k => results'[l] = results[l]
          /\ hold \in {None, <<k.s, k.n>>}
      BY <1>5 DEF Grants
    <2>2. Standing0(k)
      BY <1>5 DEF Grants, Judged, StillCurrent, Current, Sub
    <2>3. \A l \in Keys : results[l].issued /\ l.s = k.s /\ l.n = k.n => l = k
      BY <1>5 DEF Grants, Judged, Issued, KeysOf
    <2>4. A1
      BY <1>c, <2>1, <2>3
    <2>5. A2
      BY <2>1, <2>2
    <2>6. A3
      <3> SUFFICES ASSUME NEW l \in Keys, l # k, results[l].issued, Standing0(l)
                   PROVE  FALSE
        BY <2>1
      <3>1. hold = <<l.s, l.n>> /\ <<l.s, l.n>> # None
        BY <1>c, <1>d
      <3>2. <<l.s, l.n>> = <<k.s, k.n>>
        BY <2>1, <3>1
      <3> QED BY <2>3, <3>2
    <2>7. A4
      BY <1>c, <2>1
    <2> QED BY <2>4, <2>5, <2>6, <2>7
  <1>6. ASSUME NEW k \in Keys, Closes(k)
        PROVE  Goal
    <2>0. k.s \in Subjects /\ k.n \in 1..Len(subs[k.s])
      BY <1>b
    <2>1. PICK row : Edited(k.s, k.n, row) /\ row.req # "pending"
      BY <1>6 DEF Closes
    <2>2. /\ \A u \in Subjects : Len(subs'[u]) = Len(subs[u])
          /\ subs'[k.s][k.n].req # "pending"
          /\ \A u \in Subjects : \A m \in 1..Len(subs[u]) :
               u # k.s \/ m # k.n => subs'[u][m] = subs[u][m]
      BY <2>1 DEF Edited
    <2>3. /\ Keys' = Keys /\ ~results'[k].issued
          /\ \A l \in Keys : l # k => results'[l] = results[l]
          /\ hold' = IF hold = <<k.s, k.n>> THEN None ELSE hold
      BY <1>6 DEF Closes
    <2>4. \A l \in Keys : results[l].issued /\ l.s = k.s /\ l.n = k.n => l = k
      BY <1>6 DEF Closes, Issued, KeysOf
    <2>5. A1
      BY <1>c, <2>3
    <2>6. A2
      <3> SUFFICES ASSUME hold' # None
                   PROVE  \E l \in Keys : Out(l) /\ Standing1(l) /\ hold' = <<l.s, l.n>>
        BY <2>3
      <3>1. hold' = hold /\ hold # None /\ hold # <<k.s, k.n>>
        BY <2>3
      <3>2. PICK l \in Keys : results[l].issued /\ Standing0(l) /\ hold = <<l.s, l.n>>
        BY <1>c, <3>1
      <3>3. l # k /\ (l.s # k.s \/ l.n # k.n)
        BY <3>1, <3>2
      <3>4. Out(l) /\ Standing1(l)
        BY <1>b, <2>2, <2>3, <3>2, <3>3
      <3> QED BY <3>1, <3>2, <3>4
    <2>7. A3
      <3> SUFFICES ASSUME NEW l \in Keys, Out(l), Standing1(l)
                   PROVE  hold' = <<l.s, l.n>>
        BY <2>3
      <3>1. l # k /\ results[l].issued
        BY <2>3
      <3>2. l.s # k.s \/ l.n # k.n
        BY <2>4, <3>1
      <3>3. Standing0(l)
        BY <1>b, <2>2, <3>2
      <3>4. hold = <<l.s, l.n>>
        BY <1>c, <3>1, <3>3
      <3>5. <<l.s, l.n>> # <<k.s, k.n>>
        BY <3>2
      <3> QED BY <2>3, <3>4, <3>5
    <2>8. A4
      <3> SUFFICES ASSUME NEW u \in Subjects, NEW n \in 1..Len(subs[u]),
                          subs'[u][n].req = "pending", subs'[u][n].by = "nobody"
                   PROVE  \E l \in Keys : Out(l) /\ l.s = u /\ l.n = n
        BY <2>2, <2>3
      <3>1. u # k.s \/ n # k.n
        BY <2>2
      <3>2. subs'[u][n] = subs[u][n]
        BY <2>2, <3>1
      <3>3. PICK l \in Keys : results[l].issued /\ l.s = u /\ l.n = n
        BY <1>c, <3>2
      <3> QED BY <2>3, <3>1, <3>3
    <2> QED BY <2>5, <2>6, <2>7, <2>8
  <1> HIDE DEF Goal
  <1>7. CASE Idle \/ \E v \in Undos : Opens(v)
    BY <1>1, <1>7 DEF Idle, Opens, Keys
  <1>8. ASSUME NEW k \in Keys, Notes(k)
        PROVE  Goal
    <2>1. \A l \in Keys : results'[l].issued = results[l].issued
      BY <1>8 DEF Notes
    <2> QED BY <1>1, <1>8, <2>1 DEF Notes
  <1>9. ASSUME NEW k \in KeyRow, Pins(k)
        PROVE  Goal
    <2>1. \A l \in Keys : results'[l].issued = results[l].issued
      BY <1>9 DEF Pins
    <2>2. \A l \in Keys' \ Keys : ~results'[l].issued
      BY <1>9 DEF Pins, NewResult
    <2> QED BY <1>1, <1>9, <2>1, <2>2 DEF Pins
  <1> QED BY <1>2, <1>3, <1>4, <1>5, <1>6, <1>7, <1>8, <1>9 DEF Effect

\* What is on the branch stays known.
LEMMA LandingsStay ==
  ASSUME Next
  PROVE  ours \subseteq ours' /\ theirs \subseteq theirs'
  BY DEF Next, Loop, Others, ReadQueue, WatchTarget, ClassifyMove, RecordTip, PickItem, RevertStep,
     RevertCheckFailed, IntegratorRevise, PinResult, PrivilegeGate, ChecksGate, PushAuthority,
     RecordPublished, Push, ObserveTip, Attest, Abort, GitFails, Submit, Approve, RequestChanges,
     AgentRevise, HumanReopen, ResolveGate, RequestRevert, ForeignPush, RewriteTarget, remote

LEMMA CompletedStays ==
  ASSUME IInv, Effect, ours \subseteq ours', theirs \subseteq theirs'
  PROVE  CompletedIsLanded'
  <1> USE DEF IInv
  <1>1. Grown
    BY TablesGrow
  <1>a. \A s \in Subjects : Len(subs[s]) \in Nat
    BY SubType DEF Current
  <1>2. ASSUME NEW s \in Subjects, phase'[s] = "done"
        PROVE  subs'[s][Len(subs'[s])].cand \in ours' \cup theirs'
    <2>1. CASE phase[s] = "done"
      <3>1. Len(subs'[s]) = Len(subs[s])
        <4>1. CASE \E u \in Subjects : Gains(u)
          <5>1. PICK u \in Subjects : Gains(u)
            BY <4>1
          <5>2. u # s
            BY <2>1, <5>1 DEF Gains
          <5> QED BY <5>1, <5>2 DEF Gains, Appended
        <4>2. CASE ~\E u \in Subjects : Gains(u)
          BY <4>2 DEF Effect, Idle, Loses, Amends, Opens, Notes, Grants, Closes, Pins, Edited
        <4> QED BY <4>1, <4>2
      <3>2. Len(subs[s]) \in 1..Len(subs[s])
        BY <1>a, <2>1 DEF Standing, Live, Current
      <3>3. subs[s][Len(subs[s])].cand \in ours \cup theirs
        BY <2>1 DEF CompletedIsLanded, Sub, Current
      <3> QED BY <1>1, <3>1, <3>2, <3>3 DEF Grown
    <2>2. CASE phase[s] # "done"
      <3>0. phase \in [Subjects -> Phases] /\ \A v \in Undos : v \in Subjects
        BY DEF Types, Subjects
      <3>1. PICK k \in Keys : Closes(k)
        BY <1>2, <2>2, <3>0 DEF Effect, Idle, Loses, Gains, Amends, Opens, Notes, Grants, Pins
      <3>2. s = k.s /\ k.n \in 1..Len(subs[s])
        BY <1>2, <2>2, <3>1 DEF Closes, ResultsMerged, Current
      <3>3. PICK row : /\ Edited(s, k.n, row) /\ row.cand \in ours \cup theirs
                       /\ StillCurrent(s, k.n)
        BY <1>2, <2>2, <3>1, <3>2 DEF Closes
      <3>4. k.n = Len(subs[s])
        BY <3>3 DEF StillCurrent, Current
      <3> QED BY <3>3, <3>4 DEF Edited
    <2> QED BY <2>1, <2>2
  <1> QED BY <1>2 DEF CompletedIsLanded, Sub, Current

---------------------------------------------------------------------------
(* The branch, the file and the cycle.                                     *)

RemoteTypes == target \in Tips /\ ours \subseteq Commits /\ theirs \subseteq Commits
DiskTypes ==
  /\ tip \in Tips /\ frozen \in BOOLEAN
  /\ published \in Seq([r : Tips, t0 : Tips]) /\ Len(published) <= MaxPublished
CycleTypes ==
  /\ x \in Tips
  /\ pc \in {"idle", "watch", "classify", "record", "pick"} \cup Working
  /\ queue \subseteq ItemRow
  /\ pc \in Working => job \in JobRow
  /\ pc = "attest" => seen \in Tips

\* A push of the job's result.
Pushes ==
  /\ pc = "push" /\ target = x /\ target' = results[JobKey].r
  /\ ours' = ours \cup LandingRange(x, results[JobKey].r) /\ theirs' = theirs

\* Somebody else's push.
PushedPast ==
  /\ \/ \E who \in {Agent, Human} : target' = Append(target, <<who, budget.disturb>>)
     \/ \E s \in Subjects : /\ phase[s] \in {"review", "integration"}
                            /\ target' = Merged(target, Sub(s, Current(s)))
  /\ theirs' = theirs \cup LandingRange(target, target') /\ ours' = ours

Rewritten ==
  /\ \/ target' = <<>> \/ target' = tip \/ \E k \in Keys : target' = k.t0
  /\ IsPrefix(target', target)
  /\ UNCHANGED <<ours, theirs>>

LEMMA RemoteEffect ==
  ASSUME Next
  PROVE  UNCHANGED remote \/ Pushes \/ PushedPast \/ Rewritten
  <1>1. CASE ForeignPush
    <2> DEFINE Own == {Append(target, <<who, budget.disturb>>) : who \in {Agent, Human}}
               Cands == {Merged(target, Sub(s, Current(s))) :
                           s \in {s \in Subjects : phase[s] \in {"review", "integration"}}}
    <2>1. PICK h \in Own \cup Cands :
            target' = h /\ theirs' = theirs \cup LandingRange(target, h) /\ ours' = ours
      BY <1>1 DEF ForeignPush
    <2>2. CASE h \in Own
      BY <2>1, <2>2 DEF PushedPast
    <2>3. CASE h \in Cands
      BY <2>1, <2>3 DEF PushedPast
    <2> QED BY <2>1, <2>2, <2>3
  <1>2. CASE RewriteTarget
    BY <1>2 DEF RewriteTarget, Rewritten, IsStrictPrefix
  <1>3. CASE Push
    BY <1>3 DEF Push, Pushes, remote
  <1>4. CASE ~ForeignPush /\ ~RewriteTarget /\ ~Push
    BY <1>4 DEF Next, Loop, Others, ReadQueue, WatchTarget, ClassifyMove, RecordTip, PickItem,
       RevertStep, RevertCheckFailed, IntegratorRevise, PinResult, PrivilegeGate, ChecksGate,
       PushAuthority, RecordPublished, ObserveTip, Attest, Abort, GitFails, Submit, Approve,
       RequestChanges, AgentRevise, HumanReopen, ResolveGate, RequestRevert
  <1> QED BY <1>1, <1>2, <1>3, <1>4

LEMMA RemoteTyped ==
  ASSUME IInv, Next
  PROVE  RemoteTypes'
  <1> USE DEF IInv
  <1>0. RemoteTypes /\ tip \in Tips /\ budget.disturb \in Nat
    BY DEF Types, RemoteTypes
  <1>1. CASE UNCHANGED remote
    BY <1>0, <1>1 DEF RemoteTypes, remote
  <1>2. CASE Pushes
    <2>1. JobKey \in Keys
      BY <1>2 DEF Pushes, JobKnown, Checking, Granting
    <2>2. target' \in Tips
      BY <1>2, <2>1, ResultType DEF Pushes
    <2>3. Contents(target') \subseteq Commits
      BY <2>2, ContentsType
    <2> QED BY <1>0, <1>2, <2>2, <2>3 DEF RemoteTypes, Pushes, LandingRange
  <1>3. CASE PushedPast
    <2>1. target' \in Tips
      <3>1. ASSUME NEW who \in {Agent, Human}, target' = Append(target, <<who, budget.disturb>>)
            PROVE  target' \in Tips
        <4>1. <<who, budget.disturb>> \in Commits
          BY <1>0 DEF Commits
        <4> QED BY <1>0, <3>1, <4>1 DEF RemoteTypes, Tips
      <3>2. ASSUME NEW s \in Subjects, phase[s] \in {"review", "integration"},
                   target' = Merged(target, Sub(s, Current(s)))
            PROVE  target' \in Tips
        <4>1. Sub(s, Current(s)) \in SubRow
          BY <3>2, LiveHasOne DEF Live
        <4> QED BY <1>0, <3>2, <4>1, MergedFacts DEF RemoteTypes
      <3> QED BY <1>3, <3>1, <3>2 DEF PushedPast
    <2>2. Contents(target') \subseteq Commits
      BY <2>1, ContentsType
    <2> QED BY <1>0, <1>3, <2>1, <2>2 DEF RemoteTypes, PushedPast, LandingRange
  <1>4. CASE Rewritten
    <2>1. \A k \in Keys : k.t0 \in Tips
      BY ResultType
    <2>2. <<>> \in Tips
      BY DEF Tips
    <2> QED BY <1>0, <1>4, <2>1, <2>2 DEF RemoteTypes, Rewritten
  <1> QED BY <1>1, <1>2, <1>3, <1>4, RemoteEffect

LEMMA DiskTyped ==
  ASSUME IInv, Next
  PROVE  DiskTypes'
  <1> USE DEF IInv
  <1>0. DiskTypes /\ x \in Tips
    BY DEF Types, DiskTypes
  <1>1. CASE RecordPublished
    <2>0. pc = "publish" /\ tip' = tip /\ frozen' = frozen
      BY <1>1 DEF RecordPublished
    <2>1. JobKey \in Keys
      BY <2>0 DEF JobKnown, Checking, Granting
    <2> DEFINE entry == [r |-> results[JobKey].r, t0 |-> x]
               list == Append(published, entry)
               excess == Len(list) - MaxPublished
    <2>2. entry \in [r : Tips, t0 : Tips]
      BY <1>0, <2>1, ResultType
    <2>3. \/ published' = published
          \/ excess > 0 /\ published' = SubSeq(list, excess + 1, Len(list))
          \/ ~(excess > 0) /\ published' = list
      BY <1>1 DEF RecordPublished
    <2> HIDE DEF entry
    <2>4. list \in Seq([r : Tips, t0 : Tips]) /\ Len(list) = Len(published) + 1 /\ Len(published) \in Nat
      BY <1>0, <2>2 DEF DiskTypes
    <2> HIDE DEF list
    <2>5. MaxPublished \in Nat \ {0} /\ Len(list) \in Nat /\ Len(published) <= MaxPublished
      BY <1>0, <2>4, MaxPublishedAssumption DEF DiskTypes
    <2> DEFINE R == [r : Tips, t0 : Tips]
    <2>5a. list \in Seq(R)
      BY <2>4
    <2> HIDE DEF R
    <2>6. CASE excess > 0 /\ published' = SubSeq(list, excess + 1, Len(list))
      <3>1. excess = 1 /\ Len(list) = MaxPublished + 1
        BY <2>4, <2>5, <2>6
      <3>1a. published' = SubSeq(list, excess + 1, Len(list))
        BY <2>6
      <3> HIDE DEF excess
      <3>1b. excess + 1 = 2
        BY <3>1
      <3>1c. published' = SubSeq(list, 2, Len(list))
        BY <3>1a, <3>1b
      <3>2. published' \in Seq(R) /\ Len(published') = MaxPublished
        <4>1. Len(list) >= 2
          BY <2>5, <3>1
        <4>2. SubSeq(list, 2, Len(list)) \in Seq(R)
          BY <2>5, <2>5a, <4>1
        <4>3. Len(SubSeq(list, 2, Len(list))) = Len(list) - 1
          BY <2>5, <2>5a, <4>1
        <4> QED BY <2>5, <3>1, <3>1c, <4>2, <4>3
      <3> QED BY <1>0, <2>0, <2>5, <3>2 DEF DiskTypes, R
    <2> QED BY <1>0, <2>0, <2>3, <2>4, <2>5, <2>6 DEF DiskTypes
  <1>2. CASE RecordTip \/ WatchTarget
    BY <1>0, <1>2 DEF RecordTip, WatchTarget, DiskTypes
  <1>3. CASE Attest
    BY <1>0, <1>3 DEF Attest, DiskTypes
  <1>4. CASE ~RecordPublished /\ ~RecordTip /\ ~WatchTarget /\ ~Attest
    <2>1. UNCHANGED disk
      BY <1>4 DEF Next, Loop, Others, ReadQueue, ClassifyMove, PickItem, RevertStep,
         RevertCheckFailed, IntegratorRevise, PinResult, PrivilegeGate, ChecksGate, PushAuthority,
         Push, ObserveTip, Abort, GitFails, Submit, Approve, RequestChanges, AgentRevise,
         HumanReopen, ResolveGate, RequestRevert, ForeignPush, RewriteTarget
    <2> QED BY <1>0, <2>1 DEF disk, DiskTypes
  <1> QED BY <1>1, <1>2, <1>3, <1>4

LEMMA BudgetTyped ==
  ASSUME IInv, Next
  PROVE  budget' \in [{"submit", "disturb"} -> Nat]
  <1>0. budget \in [{"submit", "disturb"} -> Nat]
    BY DEF IInv, Types
  <1>1. ASSUME NEW b \in {"submit", "disturb"}, Spend(b)
        PROVE  budget' \in [{"submit", "disturb"} -> Nat]
    BY <1>0, <1>1 DEF Spend
  <1>2. budget' = budget \/ Spend("submit") \/ Spend("disturb")
    BY DEF Next, Loop, Others, ReadQueue, WatchTarget, ClassifyMove, RecordTip, PickItem,
       RevertStep, RevertCheckFailed, IntegratorRevise, PinResult, PrivilegeGate, ChecksGate,
       PushAuthority, RecordPublished, Push, ObserveTip, Attest, Abort, GitFails, Submit, Approve,
       RequestChanges, AgentRevise, HumanReopen, ResolveGate, RequestRevert, ForeignPush,
       RewriteTarget
  <1> QED BY <1>0, <1>1, <1>2

LEMMA BranchStaysKnown ==
  ASSUME IInv, Next
  PROVE  BranchKnown'
  <1> USE DEF IInv
  <1> DEFINE known == ours' \cup theirs'
  <1>1. ours \cup theirs \subseteq known
    BY LandingsStay
  <1>2. target \in Tips
    BY DEF Types
  <1>3. Contents(target') \subseteq known
    <2>1. CASE UNCHANGED remote
      BY <1>1, <2>1 DEF BranchKnown, remote
    <2>2. CASE Pushes
      BY <1>1, <2>2 DEF BranchKnown, Pushes, LandingRange
    <2>3. CASE PushedPast
      BY <1>1, <2>3 DEF BranchKnown, PushedPast, LandingRange
    <2>4. CASE Rewritten
      <3>1. target' \in Tips
        BY RemoteTyped DEF RemoteTypes
      <3>2. Contents(target') \subseteq Contents(target)
        BY <1>2, <2>4, <3>1, PrefixContents DEF Rewritten
      <3> QED BY <1>1, <3>2 DEF BranchKnown
    <2> QED BY <2>1, <2>2, <2>3, <2>4, RemoteEffect
  <1>4. Contents(<<>>) = {}
    BY DEF Contents, Range
  <1>5. (tip' = tip \/ tip' = x) /\ (x' = x \/ x' = <<>> \/ x' = target)
    BY DEF Next, Loop, Others, ReadQueue, WatchTarget, ClassifyMove, RecordTip, PickItem,
       RevertStep, RevertCheckFailed, IntegratorRevise, PinResult, PrivilegeGate, ChecksGate,
       PushAuthority, RecordPublished, Push, ObserveTip, Attest, Abort, GitFails, Submit, Approve,
       RequestChanges, AgentRevise, HumanReopen, ResolveGate, RequestRevert, ForeignPush,
       RewriteTarget, EndCycle, Skip, disk, cycle
  <1>6. pc' = "attest" => (pc = "attest" /\ seen' = seen) \/ seen' = target
    BY DEF Next, Loop, Others, ReadQueue, WatchTarget, ClassifyMove, RecordTip, PickItem,
       RevertStep, RevertCheckFailed, IntegratorRevise, PinResult, PrivilegeGate, ChecksGate,
       PushAuthority, RecordPublished, Push, ObserveTip, Attest, Abort, GitFails, Submit, Approve,
       RequestChanges, AgentRevise, HumanReopen, ResolveGate, RequestRevert, ForeignPush,
       RewriteTarget, EndCycle, Skip, cycle
  <1>7. Contents(tip') \subseteq known /\ Contents(x') \subseteq known
    BY <1>1, <1>4, <1>5 DEF BranchKnown
  <1>8. pc' = "attest" => Contents(seen') \subseteq known
    BY <1>1, <1>6 DEF BranchKnown
  <1> QED BY <1>3, <1>7, <1>8 DEF BranchKnown

---------------------------------------------------------------------------
(* The cycle.                                                              *)

LEMMA OthersFrame ==
  ASSUME Others
  PROVE  UNCHANGED <<cycle, disk>>
  BY DEF Others, Submit, Approve, RequestChanges, AgentRevise, HumanReopen, ResolveGate,
     RequestRevert, ForeignPush, RewriteTarget

\* A step of the loop on one item: it ends the cycle, turns to the next item,
\* or goes on with the same job.
SameJob ==
  /\ job'.s = job.s /\ job'.n = job.n /\ job'.t0 = job.t0 /\ job'.known = job.known
  /\ job'.reverted = job.reverted /\ job' \in JobRow

WorkStep ==
  /\ tip' = tip /\ (frozen' = frozen \/ pc' = "idle")
  /\ \/ pc' = "idle" /\ x' = <<>> /\ queue' = {}
     \/ pc' = "pick" /\ x' = x /\ queue' = queue
     \/ /\ pc' \in Working \ {"revert", "pin"} /\ pc \in Working \ {"revert", "revise", "unmechanical", "attest"}
        /\ x' = x /\ queue' = queue /\ SameJob
        /\ pc' \in Granting => pc \in {"authority", "publish"}
        /\ pc' = "unmechanical" => job.s \in Undos
        /\ pc' = "attest" => seen' = target

LEMMA WorkSteps ==
  ASSUME IInv, Loop, pc \in Working
  PROVE  WorkStep
  <1> USE DEF Working, Checking, Granting
  <1>0. job \in JobRow
    BY DEF IInv, Types
  <1>a. ASSUME NEW why \in {"none", "conflict", "reverted", "checks"}, job' = [job EXCEPT !.why = why]
        PROVE  SameJob
    BY <1>0, <1>a DEF SameJob, JobRow
  <1>b. job' = job => SameJob
    BY <1>0 DEF SameJob
  <1>1. ASSUME EndCycle, tip' = tip
        PROVE  WorkStep
    BY <1>1 DEF EndCycle, WorkStep
  <1>2. ASSUME Skip, UNCHANGED <<tip, frozen>>
        PROVE  WorkStep
    BY <1>2 DEF Skip, WorkStep
  <1>3. CASE RevertStep
    <2>1. (EndCycle \/ Skip) /\ UNCHANGED <<tip, frozen>>
      BY <1>3 DEF RevertStep, disk
    <2> QED BY <1>1, <1>2, <2>1
  <1>4. CASE RevertCheckFailed \/ IntegratorRevise
    <2>1. (EndCycle \/ Skip) /\ UNCHANGED <<tip, frozen>>
      BY <1>4 DEF RevertCheckFailed, IntegratorRevise, disk
    <2> QED BY <1>1, <1>2, <2>1
  <1>5. CASE PinResult
    <2>0. pc = "pin" /\ UNCHANGED <<tip, frozen>>
      BY <1>5 DEF PinResult, disk
    <2>1. \/ Skip
          \/ /\ pc' = "revise" /\ UNCHANGED <<x, queue>>
             /\ \E why \in {"conflict", "reverted"} : job' = [job EXCEPT !.why = why]
          \/ pc' \in {"observe", "gate"} /\ UNCHANGED <<x, queue, job>>
      BY <1>5 DEF PinResult
    <2> QED BY <1>2, <1>a, <1>b, <2>0, <2>1 DEF WorkStep
  <1>6. CASE PrivilegeGate
    <2>0. pc = "gate" /\ UNCHANGED <<tip, frozen>>
      BY <1>6 DEF PrivilegeGate, disk
    <2>1. Skip \/ (pc' = "checks" /\ UNCHANGED <<x, queue, job>>)
      BY <1>6 DEF PrivilegeGate
    <2> QED BY <1>2, <1>b, <2>0, <2>1 DEF WorkStep
  <1>7. CASE ChecksGate
    <2>0. pc = "checks" /\ UNCHANGED <<tip, frozen>>
      BY <1>7 DEF ChecksGate, disk
    <2>1. \/ Skip \/ EndCycle
          \/ pc' = "authority" /\ UNCHANGED <<x, queue, job>>
          \/ pc' = "unmechanical" /\ job.s \in Undos /\ UNCHANGED <<x, queue, job>>
          \/ pc' = "revise" /\ job' = [job EXCEPT !.why = "checks"] /\ UNCHANGED <<x, queue>>
      BY <1>7 DEF ChecksGate
    <2> QED BY <1>1, <1>2, <1>a, <1>b, <2>0, <2>1 DEF WorkStep
  <1>8. CASE PushAuthority
    <2>0. pc = "authority" /\ UNCHANGED <<tip, frozen>>
      BY <1>8 DEF PushAuthority, disk
    <2>1. Skip \/ EndCycle \/ (pc' = "publish" /\ UNCHANGED <<x, queue, job>>)
      BY <1>8 DEF PushAuthority
    <2> QED BY <1>1, <1>2, <1>b, <2>0, <2>1 DEF WorkStep
  <1>9. CASE RecordPublished \/ Push \/ ObserveTip
    BY <1>b, <1>9 DEF RecordPublished, Push, ObserveTip, WorkStep, disk
  <1>10. CASE Attest
    <2>1. tip' = tip /\ (EndCycle \/ (Skip /\ frozen' = frozen))
      BY <1>10 DEF Attest
    <2> QED BY <1>1, <1>2, <2>1
  <1>11. CASE Abort \/ GitFails
    <2>1. (EndCycle \/ Skip) /\ UNCHANGED <<tip, frozen>>
      BY <1>11 DEF Abort, GitFails, disk
    <2> QED BY <1>1, <1>2, <2>1
  <1>12. ~ReadQueue /\ ~WatchTarget /\ ~ClassifyMove /\ ~RecordTip /\ ~PickItem
    BY DEF ReadQueue, WatchTarget, ClassifyMove, RecordTip, PickItem
  <1> QED BY <1>3, <1>4, <1>5, <1>6, <1>7, <1>8, <1>9, <1>10, <1>11, <1>12 DEF Loop

\* Before an item is picked.
LEMMA EarlySteps ==
  ASSUME Loop, pc \notin Working
  PROVE  ReadQueue \/ WatchTarget \/ ClassifyMove \/ RecordTip \/ PickItem \/ Abort
  BY DEF Loop, RevertStep, RevertCheckFailed, IntegratorRevise, PinResult, PrivilegeGate,
     ChecksGate, PushAuthority, RecordPublished, Push, ObserveTip, Attest, GitFails, Working,
     Checking, Granting

LEMMA StaysMonitored ==
  ASSUME IInv, Next
  PROVE  Monitored'
  <1> USE DEF IInv
  <1>1. CASE Others
    BY <1>1, OthersFrame DEF cycle, disk, Monitored
  <1>2. CASE Loop /\ pc \in Working
    <2>1. WorkStep
      BY <1>2, WorkSteps
    <2> QED BY <1>2, <2>1 DEF WorkStep, Monitored, Working, Checking, Granting
  <1>3. CASE Loop /\ pc \notin Working
    <2> USE DEF Monitored, Working, Checking, Granting
    <2>1. CASE EndCycle
      BY <2>1 DEF EndCycle
    <2>2. CASE ReadQueue
      BY <2>2 DEF ReadQueue
    <2>3. CASE WatchTarget
      BY <2>1, <2>3 DEF WatchTarget
    <2>4. CASE ClassifyMove
      BY <2>1, <2>4 DEF ClassifyMove, disk
    <2>5. CASE RecordTip
      BY <2>5 DEF RecordTip
    <2>6. CASE PickItem
      <3>1. pc = "pick" /\ tip' = tip /\ frozen' = frozen /\ (x' = x \/ EndCycle)
        BY <2>6 DEF PickItem, disk
      <3> QED BY <2>1, <3>1
    <2>7. CASE Abort
      BY <2>1, <2>7 DEF Abort
    <2> QED BY <1>3, <2>2, <2>3, <2>4, <2>5, <2>6, <2>7, EarlySteps
  <1> QED BY <1>1, <1>2, <1>3 DEF Next

\* The commits that reverts undo are commits.
LEMMA RevertedType ==
  ASSUME Types, Standing
  PROVE  Reverted \subseteq Commits
  <1>1. ASSUME NEW v \in LiveReverts
        PROVE  RevertedRange(v) \subseteq Commits
    <2>1. revert[v].of \in Keys
      BY DEF LiveReverts, Standing
    <2>2. Contents(results[revert[v].of].r) \subseteq Commits
      BY <2>1, ResultType, ContentsType
    <2> QED BY <2>2 DEF RevertedRange, LandingRange
  <1> QED BY <1>1 DEF Reverted

LEMMA ItemFacts ==
  ASSUME IInv, NEW i \in {QueueItem(s) : s \in {s \in Subjects : Eligible(s)}}
                    \cup {PendingRevert(v) : v \in {v \in Undos : AwaitsCandidate(v)}}
  PROVE  /\ i \in ItemRow
         /\ i.n \in 0..Current(i.s) /\ (i.n = 0 => i.s \in Undos)
         /\ \A t0 \in i.known \cup i.held : Key(i.s, i.n, t0) \in Keys
  <1> USE DEF IInv
  <1>1. ASSUME NEW s \in Subjects, Eligible(s), i = QueueItem(s)
        PROVE  /\ i \in ItemRow
               /\ i.n \in 0..Current(i.s) /\ (i.n = 0 => i.s \in Undos)
               /\ \A t0 \in i.known \cup i.held : Key(i.s, i.n, t0) \in Keys
    <2>1. Current(s) \in Nat /\ Current(s) >= 1
      BY <1>1, SubType DEF Eligible, Standing, Live
    <2> DEFINE kn == {k.t0 : k \in KeysOf(s, Current(s))}
               he == {k.t0 : k \in Issued(s, Current(s))}
    <2>2. \A k \in KeysOf(s, Current(s)) : k.t0 \in Tips /\ Key(s, Current(s), k.t0) = k /\ k \in Keys
      BY ResultType DEF KeysOf, Key, KeyRow
    <2>3. Issued(s, Current(s)) \subseteq KeysOf(s, Current(s))
      BY DEF Issued
    <2>4. kn \subseteq Tips /\ he \subseteq Tips /\ \A t0 \in kn \cup he : Key(s, Current(s), t0) \in Keys
      BY <2>2, <2>3
    <2>5. Reverted \subseteq Commits
      BY RevertedType
    <2>6. i = [s |-> s, n |-> Current(s), reverted |-> Reverted, known |-> kn, held |-> he]
      BY <1>1 DEF QueueItem
    <2> HIDE DEF kn, he
    <2> QED BY <2>1, <2>4, <2>5, <2>6 DEF ItemRow
  <1>2. ASSUME NEW v \in Undos, i = PendingRevert(v)
        PROVE  /\ i \in ItemRow
               /\ i.n \in 0..Current(i.s) /\ (i.n = 0 => i.s \in Undos)
               /\ \A t0 \in i.known \cup i.held : Key(i.s, i.n, t0) \in Keys
    <2>1. v \in Subjects
      BY DEF Subjects
    <2>2. Current(v) \in Nat
      BY <2>1, SubType
    <2> QED BY <1>2, <2>1, <2>2 DEF PendingRevert, ItemRow
  <1> QED BY <1>1, <1>2

LEMMA JobOf ==
  ASSUME NEW i \in ItemRow, NEW t \in Tips
  PROVE  [s |-> i.s, n |-> i.n, reverted |-> i.reverted, known |-> i.known, why |-> "none",
          t0 |-> t] \in JobRow
  BY DEF ItemRow, JobRow

\* The job that an item becomes.
LEMMA PickedJob ==
  ASSUME IInv, NEW i \in queue, pc = "pick",
         job' = [s |-> i.s, n |-> i.n, reverted |-> i.reverted, known |-> i.known, why |-> "none",
                 t0 |-> IF HeldElsewhere(i) = {} THEN x ELSE CHOOSE t0 \in HeldElsewhere(i) : TRUE]
  PROVE  /\ job' \in JobRow /\ job'.s = i.s /\ job'.n = i.n /\ job'.known = i.known
         /\ job'.reverted = i.reverted
         /\ HeldElsewhere(i) = {} => job'.t0 = x
         /\ HeldElsewhere(i) # {} => job'.t0 \in i.held
  <1> DEFINE t == IF HeldElsewhere(i) = {} THEN x ELSE CHOOSE t0 \in HeldElsewhere(i) : TRUE
  <1>1. i \in ItemRow /\ x \in Tips
    BY DEF IInv, Types
  <1>2. HeldElsewhere(i) # {} => t \in i.held
    BY DEF HeldElsewhere
  <1>3. i.held \subseteq Tips
    BY <1>1 DEF ItemRow
  <1>4. t \in Tips /\ (HeldElsewhere(i) = {} => t = x)
    BY <1>1, <1>2, <1>3
  <1> HIDE DEF t
  <1>5. job' = [s |-> i.s, n |-> i.n, reverted |-> i.reverted, known |-> i.known, why |-> "none",
                t0 |-> t]
    BY DEF t
  <1>6. /\ job'.s = i.s /\ job'.n = i.n /\ job'.known = i.known /\ job'.t0 = t
        /\ job'.reverted = i.reverted
    BY <1>5
  <1>8. job' \in JobRow
    BY <1>1, <1>4, <1>5, JobOf, Zenon
  <1> QED BY <1>2, <1>4, <1>6, <1>8

LEMMA CycleTyped ==
  ASSUME IInv, Next
  PROVE  CycleTypes'
  <1> USE DEF IInv
  <1>0. CycleTypes /\ target \in Tips /\ <<>> \in Tips
    BY DEF Types, CycleTypes, Tips
  <1>1. CASE Others
    BY <1>0, <1>1, OthersFrame DEF cycle, CycleTypes
  <1>2. CASE Loop /\ pc \in Working
    <2>1. WorkStep
      BY <1>2, WorkSteps
    <2> QED BY <1>0, <1>2, <2>1 DEF WorkStep, SameJob, CycleTypes, Working, Checking, Granting
  <1>3. CASE EndCycle
    BY <1>0, <1>3 DEF EndCycle, CycleTypes, Working, Checking, Granting
  <1>4. CASE ReadQueue
    <2>1. queue' \subseteq ItemRow
      BY <1>4, ItemFacts DEF ReadQueue
    <2> QED BY <1>0, <1>4, <2>1 DEF ReadQueue, CycleTypes, Working, Checking, Granting
  <1>5. CASE WatchTarget \/ ClassifyMove \/ RecordTip
    BY <1>0, <1>3, <1>5 DEF WatchTarget, ClassifyMove, RecordTip, CycleTypes, Working, Checking, Granting
  <1>6. CASE PickItem
    <2>1. CASE EndCycle
      BY <1>3, <2>1
    <2>2. CASE ~EndCycle
      <3>0. pc = "pick"
        BY <1>6 DEF PickItem
      <3>1. PICK i \in queue :
              /\ queue' = queue \ {i} /\ x' = x /\ pc' \in {"revert", "pin", "observe"}
              /\ job' = [s |-> i.s, n |-> i.n, reverted |-> i.reverted, known |-> i.known, why |-> "none",
                         t0 |-> IF HeldElsewhere(i) = {} THEN x ELSE CHOOSE t0 \in HeldElsewhere(i) : TRUE]
        BY <1>6, <2>2 DEF PickItem
      <3>2. job' \in JobRow
        BY <3>0, <3>1, PickedJob
      <3> QED BY <1>0, <3>1, <3>2 DEF CycleTypes, Working, Checking, Granting
    <2> QED BY <2>1, <2>2
  <1>7. CASE Abort
    BY <1>3, <1>7 DEF Abort
  <1> QED BY <1>1, <1>2, <1>4, <1>5, <1>6, <1>7, EarlySteps DEF Next


LEMMA QueueStaysKnown ==
  ASSUME IInv, Next
  PROVE  QueueKnown'
  <1> USE DEF IInv
  <1>1. Grown /\ TableTypes'
    BY NextEffect, TablesGrow, TablesTyped
  <1>2. ASSUME NEW i \in ItemRow, i.n \in 0..Current(i.s), i.n = 0 => i.s \in Undos,
               \A t0 \in i.known \cup i.held : Key(i.s, i.n, t0) \in Keys
        PROVE  /\ i.n \in 0..Len(subs'[i.s]) /\ (i.n = 0 => i.s \in Undos)
               /\ \A t0 \in i.known \cup i.held : Key(i.s, i.n, t0) \in Keys'
    <2>1. i.s \in Subjects
      BY DEF ItemRow
    <2>2. Current(i.s) \in Nat /\ Len(subs'[i.s]) \in Nat
      BY <1>1, <2>1, SubType DEF TableTypes
    <2> QED BY <1>1, <1>2, <2>1, <2>2 DEF Grown, Current
  <1>3. ASSUME NEW i \in queue
        PROVE  /\ i.n \in 0..Len(subs'[i.s]) /\ (i.n = 0 => i.s \in Undos)
               /\ \A t0 \in i.known \cup i.held : Key(i.s, i.n, t0) \in Keys'
    BY <1>2 DEF QueueKnown, Types
  <1>4. CASE queue' \subseteq queue
    BY <1>3, <1>4 DEF QueueKnown, Current, Key
  <1>5. CASE ReadQueue
    <2>1. ASSUME NEW i \in queue'
          PROVE  /\ i.n \in 0..Len(subs'[i.s]) /\ (i.n = 0 => i.s \in Undos)
                 /\ \A t0 \in i.known \cup i.held : Key(i.s, i.n, t0) \in Keys'
      <3> DEFINE Q == {QueueItem(s) : s \in {s \in Subjects : Eligible(s)}}
                      \cup {PendingRevert(v) : v \in {v \in Undos : AwaitsCandidate(v)}}
      <3>1. i \in Q
        BY <1>5, <2>1 DEF ReadQueue
      <3>2. /\ i \in ItemRow
            /\ i.n \in 0..Current(i.s) /\ (i.n = 0 => i.s \in Undos)
            /\ \A t0 \in i.known \cup i.held : Key(i.s, i.n, t0) \in Keys
        BY <3>1, ItemFacts
      <3> QED BY <1>2, <3>2
    <2> QED BY <2>1 DEF QueueKnown, Current, Key
  <1>6. CASE ~ReadQueue
    <2>1. CASE Others
      BY <1>4, <2>1, OthersFrame DEF cycle
    <2>2. CASE Loop /\ pc \in Working
      BY <1>4, <2>2, WorkSteps DEF WorkStep
    <2>3. CASE Loop /\ pc \notin Working
      <3>1. WatchTarget \/ ClassifyMove \/ RecordTip \/ PickItem \/ Abort
        BY <1>6, <2>3, EarlySteps
      <3>2. queue' \subseteq queue
        BY <3>1 DEF WatchTarget, ClassifyMove, RecordTip, PickItem, Abort, EndCycle
      <3> QED BY <1>4, <3>2
    <2> QED BY <2>1, <2>2, <2>3 DEF Next
  <1> QED BY <1>5, <1>6

\* What a pin leaves behind.
LEMMA PinKnown ==
  ASSUME IInv, PinResult, pc' \in {"observe", "gate"}
  PROVE  JobKey \in Keys'
  <1> USE DEF IInv
  <1>0. pc = "pin"
    BY DEF PinResult
  <1>1. job.t0 = x /\ \A t0 \in job.known : Key(job.s, job.n, t0) \in Keys
    BY <1>0 DEF JobKnown
  <1>2. x \in job.known => JobKey \in Keys
    BY <1>1 DEF JobKey
  <1> DEFINE fresh == Pinnable(JobKey, JobResult)
  <1>3. /\ x \in job.known \/ JobKey \in Keys \/ fresh
        /\ results' = IF fresh /\ x \notin job.known
                      THEN [k \in Keys \cup {JobKey} |->
                              IF k = JobKey THEN NewResult(JobResult) ELSE results[k]]
                      ELSE results
    BY DEF PinResult, Skip
  <1>4. CASE fresh /\ x \notin job.known
    <2>1. Keys' = Keys \cup {JobKey}
      BY <1>3, <1>4 DEF Keys
    <2> QED BY <2>1
  <1>5. CASE ~(fresh /\ x \notin job.known)
    <2>1. Keys' = Keys
      BY <1>3, <1>5 DEF Keys
    <2> QED BY <1>2, <1>3, <1>5, <2>1
  <1> QED BY <1>4, <1>5

\* Where the steps of an integration lead.
LEMMA Onward ==
  ASSUME Loop, pc \in Working
  PROVE  /\ pc' \in Checking \cup {"observe", "attest"} =>
              \/ PinResult /\ pc' \in {"observe", "gate"}
              \/ PrivilegeGate /\ pc' = "checks"
              \/ ChecksGate /\ pc' = "authority"
              \/ PushAuthority /\ pc' = "publish"
              \/ RecordPublished /\ pc' = "push"
              \/ Push /\ pc' = "observe"
              \/ ObserveTip /\ pc' = "attest"
  <1> USE DEF Working, Checking, Granting, EndCycle, Skip
  <1>1. CASE RevertStep \/ RevertCheckFailed \/ IntegratorRevise \/ Attest \/ Abort \/ GitFails
    <2>1. EndCycle \/ Skip
      BY <1>1 DEF RevertStep, RevertCheckFailed, IntegratorRevise, Attest, Abort, GitFails
    <2> QED BY <2>1
  <1>2. CASE PinResult
    BY <1>2 DEF PinResult
  <1>3. CASE PrivilegeGate
    BY <1>3 DEF PrivilegeGate
  <1>4. CASE ChecksGate
    BY <1>4 DEF ChecksGate
  <1>5. CASE PushAuthority
    BY <1>5 DEF PushAuthority
  <1>6. CASE RecordPublished \/ Push \/ ObserveTip
    BY <1>6 DEF RecordPublished, Push, ObserveTip
  <1>7. ~ReadQueue /\ ~WatchTarget /\ ~ClassifyMove /\ ~RecordTip /\ ~PickItem
    BY DEF ReadQueue, WatchTarget, ClassifyMove, RecordTip, PickItem
  <1> QED BY <1>1, <1>2, <1>3, <1>4, <1>5, <1>6, <1>7 DEF Loop

LEMMA JobStaysKnown ==
  ASSUME IInv, Next
  PROVE  JobKnown'
  <1> USE DEF IInv
  <1>1. Grown /\ TableTypes'
    BY NextEffect, TablesGrow, TablesTyped
  <1>2. ASSUME NEW s \in Subjects, NEW n \in 0..Current(s)
        PROVE  n \in 0..Len(subs'[s])
    <2>1. Current(s) \in Nat /\ Len(subs'[s]) \in Nat
      BY <1>1, SubType DEF TableTypes
    <2> QED BY <1>1, <1>2, <2>1 DEF Grown, Current
  <1>3. pc \in Working => job \in JobRow /\ job.s \in Subjects
    BY DEF Types, JobRow
  <1>4. CASE Others
    <2>1. UNCHANGED <<pc, x, job>>
      BY <1>4, OthersFrame DEF cycle
    <2>2. pc \in Working => job.n \in 0..Len(subs'[job.s])
      BY <1>2, <1>3 DEF JobKnown
    <2> QED BY <1>1, <2>1, <2>2 DEF JobKnown, Grown, Current, JobKey, Key
  <1>5. CASE Loop /\ pc \in Working
    <2>1. CASE pc' \in {"idle", "pick"}
      BY <2>1 DEF JobKnown, Working, Checking, Granting
    <2>2. CASE pc' \notin {"idle", "pick"}
      <3>1. /\ pc' \in Working \ {"revert", "pin"} /\ pc \in Working \ {"revert", "revise", "unmechanical", "attest"}
            /\ x' = x /\ job'.s = job.s /\ job'.n = job.n /\ job'.t0 = job.t0
            /\ pc' = "unmechanical" => job.s \in Undos
        BY <1>5, <2>2, WorkSteps DEF WorkStep, SameJob
      <3>2. JobKey' = JobKey
        BY <3>1 DEF JobKey, Key
      <3>3. job'.n \in 0..Len(subs'[job'.s]) /\ job'.n >= 1
        BY <1>2, <1>3, <3>1 DEF JobKnown
      <3>4. pc' \in Checking => job'.t0 = x'
        <4>1. pc' \in Checking => pc \in Checking \cup {"pin"}
          BY <1>5, Onward DEF PinResult, PrivilegeGate, ChecksGate, PushAuthority, RecordPublished,
             Checking, Granting
        <4> QED BY <3>1, <4>1 DEF JobKnown
      <3>5. pc' \in Checking \cup {"observe", "attest"} => JobKey' \in Keys'
        <4>1. CASE PinResult
          BY <1>5, <3>2, <4>1, PinKnown, Onward DEF PinResult, PrivilegeGate, ChecksGate, PushAuthority,
             RecordPublished, Push, ObserveTip
        <4>2. CASE ~PinResult /\ pc' \in Checking \cup {"observe", "attest"}
          <5>1. pc \in Checking \cup {"observe"}
            BY <1>5, <4>2, Onward DEF PrivilegeGate, ChecksGate, PushAuthority,
               RecordPublished, Push, ObserveTip, Checking, Granting
          <5>2. JobKey \in Keys
            BY <5>1 DEF JobKnown
          <5> QED BY <1>1, <3>2, <5>2 DEF Grown
        <4> QED BY <4>1, <4>2
      <3> QED BY <3>1, <3>3, <3>4, <3>5 DEF JobKnown, Current
    <2> QED BY <2>1, <2>2
  <1>6. CASE Loop /\ pc \notin Working
    <2>1. CASE pc' \notin Working
      BY <2>1 DEF JobKnown, Working, Checking
    <2>2. CASE pc' \in Working
      <3>1. PickItem /\ pc = "pick"
        BY <1>6, <2>2, EarlySteps DEF ReadQueue, WatchTarget, ClassifyMove, RecordTip, PickItem, Abort,
           EndCycle, Working, Checking, Granting
      <3>2. PICK i \in queue :
              /\ x' = x
              /\ pc' = IF i.n = 0 THEN "revert"
                       ELSE IF HeldElsewhere(i) = {} THEN "pin" ELSE "observe"
              /\ job' = [s |-> i.s, n |-> i.n, reverted |-> i.reverted, known |-> i.known, why |-> "none",
                         t0 |-> IF HeldElsewhere(i) = {} THEN x ELSE CHOOSE t0 \in HeldElsewhere(i) : TRUE]
        BY <2>2, <3>1 DEF PickItem, EndCycle, Working, Checking, Granting
      <3>3. /\ job'.s = i.s /\ job'.n = i.n /\ job'.known = i.known
            /\ HeldElsewhere(i) = {} => job'.t0 = x
            /\ HeldElsewhere(i) # {} => job'.t0 \in i.held
        BY <3>1, <3>2, PickedJob
      <3>4. /\ i.n \in 0..Current(i.s) /\ (i.n = 0 => i.s \in Undos) /\ i.s \in Subjects
            /\ \A t0 \in i.known \cup i.held : Key(i.s, i.n, t0) \in Keys
        BY DEF QueueKnown, Types, ItemRow
      <3>5. i.n \in 0..Len(subs'[i.s]) /\ i.n \in Nat
        BY <1>2, <3>4
      <3>6. JobKey' = Key(i.s, i.n, job'.t0)
        BY <3>3 DEF JobKey, Key
      <3>7. CASE pc' = "revert"
        <4>1. i.n = 0
          BY <3>2, <3>7
        <4> QED BY <3>3, <3>4, <3>5, <3>7, <4>1 DEF JobKnown, Current, Working, Checking, Granting
      <3>8. CASE pc' = "pin"
        <4>1. i.n # 0 /\ HeldElsewhere(i) = {}
          BY <3>2, <3>8
        <4>2. \A t0 \in job'.known : Key(job'.s, job'.n, t0) \in Keys'
          BY <1>1, <3>3, <3>4 DEF Grown
        <4> QED BY <3>2, <3>3, <3>5, <3>8, <4>1, <4>2 DEF JobKnown, Current, Working, Checking, Granting, Key
      <3>9. CASE pc' = "observe"
        <4>1. i.n # 0 /\ HeldElsewhere(i) # {}
          BY <3>2, <3>9
        <4>2. JobKey' \in Keys'
          BY <1>1, <3>3, <3>4, <3>6, <4>1 DEF Grown
        <4> QED BY <3>3, <3>5, <3>9, <4>1, <4>2 DEF JobKnown, Current, Working, Checking, Granting
      <3> QED BY <3>2, <3>7, <3>8, <3>9
    <2> QED BY <2>1, <2>2
  <1> QED BY <1>4, <1>5, <1>6 DEF Next

---------------------------------------------------------------------------
(* What authority rests on.                                                *)

\* Every commit that a judged result brings along was reviewed.
LEMMA JudgedApproved ==
  ASSUME IInv, NEW k \in Keys, Judged(k)
  PROVE  RangeApproved(k)
  <1> USE DEF IInv
  <1>1. k.s \in Subjects /\ k.n = Current(k.s) /\ k.n \in 1..Current(k.s) /\ k.t0 \in Tips
    BY ResultType DEF Judged, StillCurrent, ResultsMerged
  <1>2. Sub(k.s, k.n).ok # "none"
    BY <1>1 DEF Judged, Eligible
  <1>3. Sub(k.s, k.n) \in SubRow /\ results[k].r = Merged(k.t0, Sub(k.s, k.n))
    BY <1>1, SubType DEF ResultsMerged
  <1>4. ASSUME NEW c \in LandingRange(k.t0, results[k].r)
        PROVE  \E s \in Subjects : \E n \in 1..Current(s) :
                  /\ Sub(s, n).cand = c
                  /\ s = k.s \/ phase[s] = "done" \/ Sub(s, n).ok # "none"
    <2>1. c \in Contents(Sub(k.s, k.n).on) \/ c = Sub(k.s, k.n).cand
      BY <1>1, <1>3, <1>4, MergedFacts DEF LandingRange
    <2>2. CASE c = Sub(k.s, k.n).cand
      BY <1>1, <2>2
    <2>3. CASE c \in Contents(Sub(k.s, k.n).on)
      <3>1. PICK u \in Subjects : \E m \in 1..Current(u) : Sub(u, m).cand = c
        BY <1>1, <2>3 DEF StacksReviewed
      <3>2. PICK m \in 1..Current(u) : Sub(u, m).cand = c
        BY <3>1
      <3>3. CASE u = k.s
        BY <3>2, <3>3
      <3>4. CASE u # k.s
        <4>1. <<u, m>> \in Foreign(k)
          BY <1>4, <3>2, <3>4 DEF Foreign
        <4>2. Settled(<<u, m>>)
          BY <4>1 DEF Judged
        <4> QED BY <3>2, <4>2 DEF Settled
      <3> QED BY <3>3, <3>4
    <2> QED BY <2>1, <2>2, <2>3
  <1> QED BY <1>2, <1>4 DEF RangeApproved

LEMMA ApprovalsStay ==
  ASSUME IInv, Effect, pc \notin {"authority", "attest"}
  PROVE  \A s \in Subjects :
           /\ phase[s] = "done" => phase'[s] = "done"
           /\ \A n \in 1..Len(subs[s]) : subs[s][n].ok # "none" => subs'[s][n].ok # "none"
  <1> USE DEF IInv
  <1> DEFINE Goal == \A s \in Subjects :
           /\ phase[s] = "done" => phase'[s] = "done"
           /\ \A n \in 1..Len(subs[s]) : subs[s][n].ok # "none" => subs'[s][n].ok # "none"
  <1>0. phase \in [Subjects -> Phases]
    BY DEF Types
  <1>1. ASSUME phase' = phase /\ subs' = subs
        PROVE  Goal
    BY <1>1
  <1>2. ASSUME NEW s \in Subjects, Loses(s)
        PROVE  Goal
    <2>1. PICK who \in {"agent", "human"} :
            Edited(s, Current(s), [Sub(s, Current(s)) EXCEPT !.by = who])
      BY <1>2 DEF Loses
    <2>2. Sub(s, Current(s)) \in SubRow
      BY <1>2, LiveHasOne DEF Loses, Live
    <2>3. subs'[s][Len(subs[s])].ok = subs[s][Len(subs[s])].ok
      BY <2>1, <2>2 DEF Edited, SubRow, Current, Sub
    <2>4. \A u \in Subjects : \A n \in 1..Len(subs[u]) : subs'[u][n].ok = subs[u][n].ok
      BY <2>1, <2>3 DEF Edited, Current
    <2>5. \A u \in Subjects : phase[u] = "done" => phase'[u] = "done"
      BY <1>0, <1>2 DEF Loses
    <2> QED BY <2>4, <2>5
  <1>3. ASSUME NEW s \in Subjects, Gains(s)
        PROVE  Goal
    <2>1. PICK row \in SubRow : Appended(s, row)
      BY <1>3 DEF Gains
    <2>2. \A u \in Subjects : \A n \in 1..Len(subs[u]) : subs'[u][n] = subs[u][n]
      BY <2>1 DEF Appended
    <2>3. \A u \in Subjects : phase[u] = "done" => phase'[u] = "done"
      BY <1>0, <1>3 DEF Gains
    <2> QED BY <2>2, <2>3
  <1>4. ASSUME NEW s \in Subjects, Amends(s)
        PROVE  Goal
    <2>1. PICK row \in SubRow :
            Edited(s, Current(s), row) /\ (row.ok = "none" => Sub(s, Current(s)).ok = "none")
      BY <1>4 DEF Amends
    <2>2. \A u \in Subjects : \A n \in 1..Len(subs[u]) : subs[u][n].ok # "none" => subs'[u][n].ok # "none"
      BY <2>1 DEF Edited, Current, Sub
    <2>3. \A u \in Subjects : phase[u] = "done" => phase'[u] = "done"
      BY <1>0, <1>4 DEF Amends
    <2> QED BY <2>2, <2>3
  <1>5. ASSUME NEW v \in Undos, Opens(v)
        PROVE  Goal
    <2>1. v \in Subjects /\ subs' = subs
      BY <1>5 DEF Subjects, Opens
    <2>2. \A u \in Subjects : phase[u] = "done" => phase'[u] = "done"
      BY <1>0, <1>5, <2>1 DEF Opens
    <2> QED BY <2>1, <2>2
  <1> HIDE DEF Goal
  <1>6. Goal
    <2>1. ASSUME NEW k \in Keys, Notes(k) \/ Grants(k) \/ Closes(k)
          PROVE  phase' = phase /\ subs' = subs
      BY <2>1 DEF Notes, Grants, Closes
    <2>2. ASSUME NEW k \in KeyRow, Pins(k)
          PROVE  phase' = phase /\ subs' = subs
      BY <2>2 DEF Pins
    <2>3. Idle => phase' = phase /\ subs' = subs
      BY DEF Idle
    <2> QED BY <1>1, <1>2, <1>3, <1>4, <1>5, <2>1, <2>2, <2>3 DEF Effect
  <1> QED BY <1>6 DEF Goal

LEMMA RangeStaysApproved ==
  ASSUME IInv, Effect, pc \notin {"authority", "attest"}, NEW k \in Keys, RangeApproved(k)
  PROVE  RangeApproved(k)'
  <1> USE DEF IInv
  <1>1. Grown /\ TableTypes'
    BY TablesGrow, TablesTyped
  <1>2. /\ k.s \in Subjects /\ k.n \in 1..Len(subs[k.s])
        /\ subs[k.s][k.n].ok # "none" /\ results'[k].r = results[k].r
    BY <1>1, ResultType DEF ResultsMerged, Current, RangeApproved, Sub, Grown
  <1>3. subs'[k.s][k.n].ok # "none"
    BY <1>2, ApprovalsStay
  <1>4. ASSUME NEW c \in LandingRange(k.t0, results'[k].r)
        PROVE  \E s \in Subjects : \E n \in 1..Len(subs'[s]) :
                  /\ subs'[s][n].cand = c
                  /\ s = k.s \/ phase'[s] = "done" \/ subs'[s][n].ok # "none"
    <2>1. PICK s \in Subjects : \E n \in 1..Len(subs[s]) :
                  /\ subs[s][n].cand = c
                  /\ s = k.s \/ phase[s] = "done" \/ subs[s][n].ok # "none"
      BY <1>2, <1>4 DEF RangeApproved, Current, Sub
    <2>2. PICK n \in 1..Len(subs[s]) :
                  /\ subs[s][n].cand = c
                  /\ s = k.s \/ phase[s] = "done" \/ subs[s][n].ok # "none"
      BY <2>1
    <2>3. n \in 1..Len(subs'[s])
      <3>1. Current(s) \in Nat /\ Len(subs'[s]) \in Nat
        BY <1>1, SubType DEF TableTypes
      <3> QED BY <1>1, <3>1 DEF Grown, Current
    <2>4. subs'[s][n].cand = c
      BY <1>1, <2>2 DEF Grown
    <2>5. s = k.s \/ phase'[s] = "done" \/ subs'[s][n].ok # "none"
      BY <2>2, ApprovalsStay
    <2> QED BY <2>3, <2>4, <2>5
  <1> QED BY <1>3, <1>4 DEF RangeApproved, Sub, Current, LandingRange, Contents, Range

\* The verdicts on the job's result stay; authority that was issued stays too,
\* and only a human supersedes the submission meanwhile.
LEMMA VerdictsStay ==
  ASSUME IInv, Effect, NEW k \in Keys, pc # "attest"
  PROVE  /\ results[k].gate = "allow" => results'[k].gate = "allow"
         /\ pc # "checks" => results'[k].receipt = results[k].receipt
         /\ results[k].issued => results'[k].issued
  <1>1. CASE results' = results
    BY <1>1
  <1>2. ASSUME NEW l \in Keys, Notes(l) \/ Grants(l)
        PROVE  /\ results[k].gate = "allow" => results'[k].gate = "allow"
               /\ pc # "checks" => results'[k].receipt = results[k].receipt
               /\ results[k].issued => results'[k].issued
    BY <1>2 DEF Notes, Grants
  <1>3. ASSUME NEW l \in KeyRow, Pins(l)
        PROVE  results'[k] = results[k]
    BY <1>3 DEF Pins
  <1> QED BY <1>1, <1>2, <1>3 DEF Effect, Idle, Loses, Gains, Amends, Opens, Closes

LEMMA GrantStays ==
  ASSUME IInv, Effect, pc \in Granting
  PROVE  /\ subs'[job.s][job.n].by \in {"nobody", "human"}
         /\ subs'[job.s][job.n].by = "nobody" => phase'[job.s] = "integration"
  <1> USE DEF IInv
  <1> DEFINE s == job.s
             n == job.n
             Goal == /\ subs'[s][n].by \in {"nobody", "human"}
                     /\ subs'[s][n].by = "nobody" => phase'[s] = "integration"
  <1>0. phase \in [Subjects -> Phases] /\ pc \in Working \ {"revert"}
    BY DEF Types, Granting, Working, Checking
  <1>1. /\ s \in Subjects /\ n \in 1..Len(subs[s]) /\ Len(subs[s]) \in Nat
        /\ JobKey.s = s /\ JobKey.n = n
    BY <1>0, JobFacts, SubType DEF Current
  <1>2. /\ JobKey \in Keys /\ results[JobKey].issued /\ subs[s][n].by \in {"nobody", "human"}
        /\ subs[s][n].by = "nobody" => phase[s] = "integration"
    BY DEF JobJudged, JobKnown, Granting, Checking, JobSub, Sub
  <1>3. Issued(s, n) # {}
    BY <1>1, <1>2 DEF Issued, KeysOf
  <1>4. pc \notin {"authority", "attest"}
    BY DEF Granting
  <1> HIDE DEF s, n
  <1>5. ASSUME phase' = phase /\ subs' = subs
        PROVE  Goal
    BY <1>2, <1>5
  <1>6. ASSUME NEW u \in Subjects, Loses(u)
        PROVE  Goal
    <2>1. PICK who \in {"agent", "human"} :
            /\ Edited(u, Current(u), [Sub(u, Current(u)) EXCEPT !.by = who])
            /\ who = "agent" /\ phase[u] = "integration" => Issued(u, Current(u)) = {}
      BY <1>6 DEF Loses
    <2>2. CASE u = s /\ n = Len(subs[s])
      <3>1. subs[s][n].by = "nobody"
        BY <1>1, <1>6, <2>2 DEF Loses, Standing, Live, Current, Sub
      <3>2. phase[u] = "integration" /\ who = "human"
        BY <1>2, <1>3, <2>1, <2>2, <3>1 DEF Current
      <3>3. Sub(u, Current(u)) \in SubRow
        BY <1>6, LiveHasOne DEF Loses, Live
      <3>4. subs'[s][n].by = "human"
        BY <2>1, <2>2, <3>2, <3>3 DEF Edited, SubRow, Current
      <3> QED BY <3>4
    <2>3. CASE u = s /\ n # Len(subs[s])
      <3>1. subs'[s][n] = subs[s][n]
        BY <1>1, <2>1, <2>3 DEF Edited, Current
      <3>2. subs[s][n].by # "nobody"
        BY <1>1, <2>3 DEF Standing, Current, Sub
      <3> QED BY <1>2, <3>1, <3>2
    <2>4. CASE u # s
      <3>1. subs'[s][n] = subs[s][n]
        BY <1>1, <2>1, <2>4 DEF Edited
      <3>2. phase'[s] = phase[s]
        BY <1>0, <1>1, <1>6, <2>4 DEF Loses
      <3> QED BY <1>2, <3>1, <3>2
    <2> QED BY <2>2, <2>3, <2>4
  <1>7. ASSUME NEW u \in Subjects, Gains(u)
        PROVE  Goal
    <2>1. PICK row \in SubRow : Appended(u, row)
      BY <1>7 DEF Gains
    <2>2. subs'[s][n] = subs[s][n]
      BY <1>1, <2>1 DEF Appended
    <2>3. phase[s] = "integration" => phase'[s] = "integration"
      BY <1>0, <1>1, <1>7 DEF Gains
    <2> QED BY <1>2, <2>2, <2>3
  <1>8. ASSUME NEW u \in Subjects, Amends(u)
        PROVE  Goal
    <2>1. PICK row \in SubRow : Edited(u, Current(u), row) /\ row.by = Sub(u, Current(u)).by
      BY <1>8 DEF Amends
    <2>2. subs'[s][n].by = subs[s][n].by
      BY <1>1, <2>1 DEF Edited, Current, Sub
    <2>3. phase[s] = "integration" => phase'[s] = "integration"
      BY <1>0, <1>1, <1>4, <1>8 DEF Amends
    <2> QED BY <1>2, <2>2, <2>3
  <1>9. ASSUME NEW v \in Undos, Opens(v)
        PROVE  Goal
    <2>1. subs' = subs /\ (phase[s] = "integration" => phase'[s] = "integration")
      BY <1>0, <1>1, <1>9 DEF Opens
    <2> QED BY <1>2, <2>1
  <1> HIDE DEF Goal
  <1>10. Goal
    <2>1. ASSUME NEW k \in Keys, Notes(k) \/ Grants(k) \/ Closes(k)
          PROVE  phase' = phase /\ subs' = subs
      BY <1>4, <2>1 DEF Notes, Grants, Closes
    <2>2. ASSUME NEW k \in KeyRow, Pins(k)
          PROVE  phase' = phase /\ subs' = subs
      BY <2>2 DEF Pins
    <2>3. Idle => phase' = phase /\ subs' = subs
      BY DEF Idle
    <2> QED BY <1>5, <1>6, <1>7, <1>8, <1>9, <2>1, <2>2, <2>3 DEF Effect
  <1> QED BY <1>10 DEF Goal, s, n

LEMMA JobStaysJudged ==
  ASSUME IInv, Next
  PROVE  JobJudged'
  <1> USE DEF IInv
  <1> DEFINE k == JobKey
  <1>1. Effect
    BY NextEffect
  <1>a. TableTypes' /\ Grown
    BY <1>1, TablesTyped, TablesGrow
  \* An integration that goes on with the same job and the same tip.
  <1>2. ASSUME pc \in Checking, UNCHANGED x, JobKey' = JobKey, job'.s = job.s, job'.n = job.n,
               pc' \in {"checks", "authority"} \cup Granting,
               results[k].gate = "allow" \/ ~Gated(x, results[k].r),
               pc' # "checks" => results'[k].receipt = "pass",
               pc' \in Granting =>
                 /\ results'[k].issued /\ subs'[job.s][job.n].by \in {"nobody", "human"}
                 /\ subs'[job.s][job.n].by = "nobody" => phase'[job.s] = "integration"
                 /\ \E l \in Keys : l = k /\ RangeApproved(l)'
        PROVE  JobJudged'
    <2>1. k \in Keys /\ pc # "attest"
      BY <1>2 DEF JobKnown, Checking, Granting
    <2>2. results[k].gate = "allow" => results'[k].gate = "allow"
      BY <1>1, <2>1, VerdictsStay
    <2>3. results'[k].r = results[k].r
      BY <1>a, <2>1 DEF Grown
    <2>4. Gated(x', results'[k].r) => results'[k].gate = "allow"
      BY <1>2, <2>2, <2>3 DEF Gated, LandingRange
    <2>5. pc' \in Granting => RangeApproved(JobKey)'
      <3> SUFFICES ASSUME pc' \in Granting
                   PROVE  RangeApproved(JobKey)'
        OBVIOUS
      <3>1. PICK l \in Keys : l = k /\ RangeApproved(l)'
        BY <1>2
      <3>2. JobKey' = l
        BY <1>2, <3>1
      <3> QED BY <3>1, <3>2 DEF RangeApproved
    <2>6. JobSub' = subs'[job.s][job.n]
      BY <1>2 DEF JobSub, Sub
    <2> HIDE DEF k
    <2>7. JobKey' = k
      BY <1>2 DEF k
    <2> QED BY <1>2, <2>4, <2>5, <2>6, <2>7 DEF JobJudged, Granting, Checking
  \* Authority that was issued stays as it is.
  <1>3. ASSUME pc \in Granting
        PROVE  /\ results'[k].issued /\ subs'[job.s][job.n].by \in {"nobody", "human"}
               /\ subs'[job.s][job.n].by = "nobody" => phase'[job.s] = "integration"
               /\ \E l \in Keys : l = k /\ RangeApproved(l)'
    <2>1. k \in Keys /\ results[k].issued /\ RangeApproved(k) /\ pc \notin {"authority", "attest"}
      BY <1>3 DEF JobKnown, JobJudged, Checking, Granting
    <2>2. results'[k].issued
      BY <1>1, <2>1, VerdictsStay
    <2>3. \A l \in Keys : RangeApproved(l) => RangeApproved(l)'
      BY <1>1, <2>1, RangeStaysApproved
    <2>4. \E l \in Keys : l = k /\ RangeApproved(l)'
      <3> HIDE DEF k
      <3> QED BY <2>1, <2>3
    <2> QED BY <1>1, <1>3, <2>2, <2>4, GrantStays
  <1>4. CASE Others
    <2>1. UNCHANGED <<pc, x, job>>
      BY <1>4, OthersFrame DEF cycle
    <2>2. CASE pc \notin Checking \ {"gate"}
      BY <2>1, <2>2 DEF JobJudged, Checking, Granting
    <2>3. CASE pc \in Checking \ {"gate"}
      <3>1. k \in Keys /\ pc # "attest"
        BY <2>3 DEF JobKnown, Checking, Granting
      <3>2. results[k].gate = "allow" \/ ~Gated(x, results[k].r)
        BY <2>3 DEF JobJudged
      <3>3. pc # "checks" => results[k].receipt = "pass"
        BY <2>3 DEF JobJudged, Checking
      <3>4. pc # "checks" => results'[k].receipt = "pass"
        BY <1>1, <3>1, <3>3, VerdictsStay
      <3>5. JobKey' = JobKey
        BY <2>1 DEF JobKey, Key
      <3> QED BY <1>2, <1>3, <2>1, <2>3, <3>2, <3>4, <3>5 DEF Checking
    <2> QED BY <2>2, <2>3
  <1>5. CASE Loop /\ pc \in Working
    <2>1. CASE pc' \notin Checking \ {"gate"}
      BY <2>1 DEF JobJudged, Checking, Granting
    <2>2. CASE pc' \in Checking \ {"gate"}
      <3>1. /\ x' = x /\ job'.s = job.s /\ job'.n = job.n /\ job'.t0 = job.t0
        BY <1>5, <2>2, WorkSteps DEF WorkStep, SameJob, Checking, Granting
      <3>2. JobKey' = JobKey
        BY <3>1 DEF JobKey, Key
      <3>3. CASE PrivilegeGate /\ pc' = "checks"
        <4>1. pc = "gate" /\ (results[k].gate = "allow" \/ ~Gated(x, JobResult))
          BY <3>3 DEF PrivilegeGate, Skip
        <4>2. k \in Keys /\ job.t0 = x
          BY <4>1 DEF JobKnown, Checking
        <4>3. results[k].r = JobResult
          BY <4>1, <4>2, JobFacts DEF ResultsMerged, JobResult, Working, Checking
        <4> QED BY <1>2, <3>1, <3>2, <3>3, <4>1, <4>3 DEF Checking, Granting
      <3>4. CASE ChecksGate /\ pc' = "authority"
        <4>1. pc = "checks" /\ Receipt("pass")
          BY <3>4 DEF ChecksGate, Skip, EndCycle
        <4>2. k \in Keys
          BY <4>1 DEF JobKnown, Checking
        <4>3. results'[k].receipt = "pass"
          BY <4>1, <4>2, ResultType DEF Receipt, ResultRow, Keys
        <4>4. results[k].gate = "allow" \/ ~Gated(x, results[k].r)
          BY <4>1 DEF JobJudged, Checking
        <4> QED BY <1>2, <3>1, <3>2, <3>4, <4>1, <4>3, <4>4 DEF Checking, Granting
      <3>5. CASE PushAuthority /\ pc' = "publish"
        <4>1. pc = "authority"
          BY <3>5 DEF PushAuthority
        <4>2. Grants(k)
          BY <3>5, AuthorityEffect DEF Working, Checking, Granting
        <4>3. k \in Keys /\ k.s = job.s /\ k.n = job.n
          BY <4>1, JobFacts DEF JobKnown, Checking, Working
        <4>4. Judged(k) /\ UNCHANGED <<phase, subs>> /\ results'[k].issued /\ results'[k].r = results[k].r
              /\ results'[k].receipt = results[k].receipt
          BY <4>2 DEF Grants
        <4>5. subs[job.s][job.n].by = "nobody" /\ phase[job.s] = "integration" /\ results[k].receipt = "pass"
          BY <4>3, <4>4 DEF Judged, Eligible, StillCurrent, Sub
        <4>6. \E l \in Keys : l = k /\ RangeApproved(l)'
          <5>1. RangeApproved(k)
            BY <4>3, <4>4, JudgedApproved
          <5>2. ASSUME NEW l \in Keys, l = k
                PROVE  RangeApproved(l)'
            BY <4>4, <5>1, <5>2 DEF RangeApproved, Sub, Current, LandingRange
          <5> HIDE DEF k
          <5> QED BY <4>3, <5>2
        <4>7. results[k].gate = "allow" \/ ~Gated(x, results[k].r)
          BY <4>1 DEF JobJudged, Checking
        <4> QED BY <1>2, <3>1, <3>2, <3>5, <4>1, <4>4, <4>5, <4>6, <4>7 DEF Checking, Granting
      <3>6. CASE RecordPublished /\ pc' = "push"
        <4>1. pc = "publish"
          BY <3>6 DEF RecordPublished
        <4>2. k \in Keys /\ results[k].receipt = "pass" /\ (results[k].gate = "allow" \/ ~Gated(x, results[k].r))
          BY <4>1 DEF JobKnown, JobJudged, Checking, Granting
        <4>3. results'[k].receipt = "pass"
          BY <1>1, <4>1, <4>2, VerdictsStay
        <4> QED BY <1>2, <1>3, <3>1, <3>2, <3>6, <4>1, <4>2, <4>3 DEF Checking, Granting
      <3> QED BY <1>5, <2>2, <3>3, <3>4, <3>5, <3>6, Onward DEF Checking, Granting
    <2> QED BY <2>1, <2>2
  <1>6. CASE Loop /\ pc \notin Working
    <2>1. pc' \notin Checking
      <3>1. CASE PickItem
        BY <3>1 DEF PickItem, EndCycle, Checking, Granting
      <3>2. CASE ~PickItem
        BY <1>6, <3>2, EarlySteps DEF ReadQueue, WatchTarget, ClassifyMove, RecordTip, Abort, EndCycle,
           Checking, Granting
      <3> QED BY <3>1, <3>2
    <2> QED BY <2>1 DEF JobJudged, Checking
  <1> QED BY <1>4, <1>5, <1>6 DEF Next

---------------------------------------------------------------------------
(* Work that was undone.                                                   *)

\* A task is completed only by the observation at hand, which ends the cycle.
LEMMA OnlyAttestCompletes ==
  ASSUME IInv, Next, NEW s \in Subjects, phase'[s] = "done", phase[s] # "done"
  PROVE  /\ pc = "attest" /\ pc' = "idle" /\ s = job.s
         /\ Disposition(JobKey, seen) \in {"published", "already_contained"}
  <1>0. phase \in [Subjects -> Phases]
    BY DEF IInv, Types
  <1>1. CASE Attest
    <2>1. /\ ApplyDisposition(JobKey, Disposition(JobKey, seen)) /\ pc = "attest" /\ pc' = "idle"
      BY <1>1 DEF Attest, EndCycle
    <2>2. JobKey.s = job.s
      BY DEF JobKey, Key
    <2> DEFINE k == JobKey
               d == Disposition(JobKey, seen)
               req == SettledRevise(k, d).req
    <2>3. phase'[s] = CASE s = k.s /\ d \in {"published", "already_contained"} -> "done"
                        [] s = k.s /\ req = "applied" /\ Sub(k.s, k.n).req = "pending" -> "work"
                        [] Withdrawn(k, d) /\ s = Undo[k.s] -> "work"
                        [] OTHER -> phase[s]
      BY <2>1 DEF ApplyDisposition
    <2> HIDE DEF k, d, req
    <2>4. s = k.s /\ d \in {"published", "already_contained"}
      BY <2>3
    <2> QED BY <2>1, <2>2, <2>4 DEF k, d
  <1>2. CASE RevertStep \/ RevertCheckFailed
    BY <1>0, <1>2 DEF RevertStep, RevertCheckFailed, Convert, RecordCandidate
  <1>3. CASE IntegratorRevise
    BY <1>0, <1>3 DEF IntegratorRevise, Superseded
  <1>4. CASE PushAuthority
    BY <1>0, <1>4 DEF PushAuthority, ReturnToReview
  <1>5. CASE \/ \E t \in Tasks : Submit(t)
             \/ \E u \in Subjects : Approve(u) \/ RequestChanges(u)
    BY <1>0, <1>5 DEF Submit, Approve, RequestChanges
  <1>6. CASE \E u \in Subjects : AgentRevise(u) \/ HumanReopen(u)
    BY <1>0, <1>6 DEF AgentRevise, HumanReopen, Superseded
  <1>7. CASE \E k \in Keys : \E reviewed \in BOOLEAN : RequestRevert(k, reviewed)
    BY <1>0, <1>7 DEF RequestRevert
  <1>8. CASE \/ ReadQueue \/ WatchTarget \/ ClassifyMove \/ RecordTip \/ PickItem \/ PinResult
             \/ PrivilegeGate \/ ChecksGate \/ RecordPublished \/ Push \/ ObserveTip \/ Abort \/ GitFails
             \/ \E k \in Keys : \E d \in {"allow", "deny"} : ResolveGate(k, d)
             \/ ForeignPush \/ RewriteTarget
    <2>1. phase' = phase
      BY <1>8 DEF ReadQueue, WatchTarget, ClassifyMove, RecordTip, PickItem, PinResult,
         PrivilegeGate, ChecksGate, RecordPublished, Push, ObserveTip, Abort, GitFails,
         ResolveGate, ForeignPush, RewriteTarget, service
    <2> QED BY <2>1
  <1> QED BY <1>1, <1>2, <1>3, <1>4, <1>5, <1>6, <1>7, <1>8 DEF Next, Loop, Others

\* A revert that is done undid what it undoes now.
LEMMA DoneReverts ==
  ASSUME IInv, Next, pc' # "idle", NEW v \in Undos, revert'[v].of # None, phase'[v] = "done"
  PROVE  /\ revert[v].of # None /\ phase[v] = "done"
         /\ RevertedRange(v)' = RevertedRange(v)
  <1>0. v \in Subjects /\ phase \in [Subjects -> Phases] /\ revert \in [Undos -> RevertRow]
    BY DEF IInv, Types, Subjects
  <1>1. phase[v] = "done"
    BY <1>0, OnlyAttestCompletes
  <1>2. revert'[v].of = revert[v].of
    <2>1. CASE RevertStep \/ RevertCheckFailed
      <3>1. revert' = revert \/ \E u \in Undos : Convert(u)
        <4>1. CASE RevertStep
          <5>1. job.s \in Undos
            BY <4>1 DEF IInv, JobKnown, RevertStep
          <5> QED BY <4>1, <5>1 DEF RevertStep
        <4>2. CASE RevertCheckFailed
          <5>1. job.s \in Undos
            BY <4>2 DEF IInv, JobKnown, RevertCheckFailed
          <5> QED BY <4>2, <5>1 DEF RevertCheckFailed
        <4> QED BY <2>1, <4>1, <4>2
      <3>2. ASSUME NEW u \in Undos, revert' = [revert EXCEPT ![u].mode = "not_mechanical"]
            PROVE  revert'[v].of = revert[v].of
        BY <1>0, <3>2 DEF RevertRow
      <3> QED BY <3>1, <3>2 DEF Convert
    <2>2. CASE Attest
      <3>1. revert' = revert
        BY <2>2 DEF Attest, EndCycle
      <3> QED BY <3>1
    <2>3. CASE \E k \in Keys : \E reviewed \in BOOLEAN : RequestRevert(k, reviewed)
      <3>1. PICK k \in Keys, reviewed \in BOOLEAN : RequestRevert(k, reviewed)
        BY <2>3
      <3>2. Undo[k.s] # v
        BY <1>0, <3>1 DEF RequestRevert
      <3> QED BY <1>0, <3>1, <3>2 DEF RequestRevert, NewRevert
    <2>4. CASE ~RevertStep /\ ~RevertCheckFailed /\ ~Attest
               /\ ~\E k \in Keys : \E reviewed \in BOOLEAN : RequestRevert(k, reviewed)
      <3>1. revert' = revert
        BY <2>4 DEF Next, Loop, Others, ReadQueue, WatchTarget, ClassifyMove, RecordTip, PickItem,
           IntegratorRevise, PinResult, PrivilegeGate, ChecksGate, PushAuthority, RecordPublished,
           Push, ObserveTip, Abort, GitFails, Submit, Approve, RequestChanges, AgentRevise,
           HumanReopen, ResolveGate, ForeignPush, RewriteTarget, service
      <3> QED BY <3>1
    <2> QED BY <2>1, <2>2, <2>3, <2>4
  <1>3. revert[v].of \in Keys
    BY <1>2 DEF IInv, Standing
  <1>4. results'[revert[v].of].r = results[revert[v].of].r
    BY <1>3, NextEffect, TablesGrow DEF Grown
  <1> QED BY <1>1, <1>2, <1>4 DEF RevertedRange, LandingRange

\* A merge either adds the candidate, or is the tip itself.
LEMMA MergedAdds ==
  ASSUME NEW h \in Tips, NEW k \in SubRow
  PROVE  Merged(h, k) # h <=> k.cand \notin Contents(h)
  BY MergedFacts DEF Merged

LEMMA HistoryStays ==
  ASSUME IInv, Next, HistoryKnown
  PROVE  HistoryKnown'
  <1> USE DEF IInv
  <1>0. Effect /\ Grown /\ TableTypes' /\ ResultsMerged'
    BY NextEffect, TablesGrow, TablesTyped, ResultsStayMerged
  <1>a. \A k \in Keys : k \in Keys' /\ results'[k].r = results[k].r
    BY <1>0 DEF Grown
  <1>b. \A k \in Keys : results[k].issued => results[k].r # k.t0
    BY DEF HistoryKnown
  <1>c. pc \in Checking \cup {"observe", "attest"} =>
          /\ JobKey \in Keys /\ JobKey.s = job.s /\ JobKey.n = job.n /\ JobKey.t0 = job.t0
          /\ job.s \in Subjects /\ job.n \in 1..Len(subs[job.s]) /\ JobSub \in SubRow
    BY JobFacts DEF JobKnown, Working, Checking, Granting, Current
  <1>1. \A k \in Keys' : results'[k].issued => results'[k].r # k.t0
    <2>1. CASE Idle \/ (\E s \in Subjects : Loses(s) \/ Gains(s) \/ Amends(s)) \/ \E v \in Undos : Opens(v)
      <3>1. results' = results /\ Keys' = Keys
        BY <2>1 DEF Idle, Loses, Gains, Amends, Opens, Keys
      <3> QED BY <1>b, <3>1
    <2>2. ASSUME NEW l \in Keys, Notes(l)
          PROVE  \A k \in Keys' : results'[k].issued => results'[k].r # k.t0
      BY <1>b, <2>2 DEF Notes
    <2>3. ASSUME NEW l \in Keys, Grants(l)
          PROVE  \A k \in Keys' : results'[k].issued => results'[k].r # k.t0
      <3>1. results[l].r # l.t0
        BY <1>c, <2>3 DEF Grants, HistoryKnown, Checking
      <3> QED BY <1>b, <2>3, <3>1 DEF Grants
    <2>4. ASSUME NEW l \in Keys, Closes(l)
          PROVE  \A k \in Keys' : results'[k].issued => results'[k].r # k.t0
      BY <1>b, <2>4 DEF Closes
    <2>5. ASSUME NEW l \in KeyRow, Pins(l)
          PROVE  \A k \in Keys' : results'[k].issued => results'[k].r # k.t0
      BY <1>b, <2>5 DEF Pins, NewResult
    <2> QED BY <1>0, <2>1, <2>2, <2>3, <2>4, <2>5 DEF Effect
  <1>2. \A i \in queue' : \A t0 \in i.held : results'[Key(i.s, i.n, t0)].r # t0
    <2>1. ASSUME NEW i \in queue, NEW t0 \in i.held
          PROVE  results'[Key(i.s, i.n, t0)].r # t0
      BY <1>a DEF QueueKnown, HistoryKnown
    <2>2. CASE queue' \subseteq queue
      BY <2>1, <2>2
    <2>3. CASE ReadQueue
      <3>1. ASSUME NEW i \in queue', NEW t0 \in i.held
            PROVE  results'[Key(i.s, i.n, t0)].r # t0
        <4>1. PICK s \in Subjects : i = QueueItem(s) \/ i = PendingRevert(s)
          BY <2>3, <3>1 DEF ReadQueue, Subjects
        <4>2. i = QueueItem(s)
          BY <3>1, <4>1 DEF PendingRevert
        <4>3. PICK k \in Issued(s, Current(s)) : k.t0 = t0 /\ i.s = s /\ i.n = Current(s)
          BY <3>1, <4>2 DEF QueueItem
        <4>4. k \in Keys /\ k.s = s /\ k.n = Current(s) /\ results[k].issued /\ k \in KeyRow
          BY <4>3, ResultType DEF Issued, KeysOf
        <4>5. Key(i.s, i.n, t0) = k
          BY <4>3, <4>4 DEF Key, KeyRow
        <4> QED BY <1>a, <1>b, <4>3, <4>4, <4>5
      <3> QED BY <3>1
    <2>4. queue' \subseteq queue \/ ReadQueue
      <3>1. CASE Others
        BY <3>1, OthersFrame DEF cycle
      <3>2. CASE Loop /\ pc \in Working
        BY <3>2, WorkSteps DEF WorkStep
      <3>3. CASE Loop /\ pc \notin Working
        BY <3>3, EarlySteps DEF WatchTarget, ClassifyMove, RecordTip, PickItem, Abort, EndCycle
      <3> QED BY <3>1, <3>2, <3>3 DEF Next
    <2> QED BY <2>2, <2>3, <2>4
  <1> DEFINE Adds == pc' \in Checking => results'[JobKey'].r # job'.t0
             Fresh == pc' \in {"observe", "attest"} /\ results'[JobKey'].r = job'.t0 =>
                        subs'[job'.s][job'.n].cand \notin job'.reverted
  \* The job goes on from one of these states.
  <1>3. ASSUME pc \in Checking \cup {"observe", "attest"}, JobKey' = JobKey,
               job'.s = job.s, job'.n = job.n, job'.t0 = job.t0, job'.reverted = job.reverted,
               pc' \in Checking => pc \in Checking,
               pc' \in {"observe", "attest"} => pc \in {"push", "observe", "attest"}
        PROVE  Adds /\ Fresh
    <2>1. results'[JobKey].r = results[JobKey].r /\ subs'[job.s][job.n].cand = JobSub.cand
      BY <1>0, <1>3, <1>c DEF Grown, JobSub, Sub
    <2>2. Adds
      BY <1>3, <2>1 DEF HistoryKnown
    <2>3. Fresh
      BY <1>3, <2>1 DEF HistoryKnown, Checking, Granting
    <2> QED BY <2>2, <2>3
  <1>4. Adds /\ Fresh
    <2>1. CASE pc' \notin Checking \cup {"observe", "attest"}
      BY <2>1
    <2>2. CASE Others /\ pc' \in Checking \cup {"observe", "attest"}
      <3>1. UNCHANGED <<pc, job>>
        BY <2>2, OthersFrame DEF cycle
      <3>2. JobKey' = JobKey
        BY <3>1 DEF JobKey, Key
      <3> QED BY <1>3, <2>2, <3>1, <3>2
    <2>3. CASE Loop /\ pc \in Working /\ pc' \in Checking \cup {"observe", "attest"}
      <3>1. /\ job'.s = job.s /\ job'.n = job.n /\ job'.t0 = job.t0 /\ job'.reverted = job.reverted
        BY <2>3, WorkSteps DEF WorkStep, SameJob, Checking, Granting
      <3>2. JobKey' = JobKey
        BY <3>1 DEF JobKey, Key
      <3>3. CASE ~PinResult
        <4>1. /\ pc \in Checking \cup {"observe", "attest"}
              /\ pc' \in Checking => pc \in Checking
              /\ pc' \in {"observe", "attest"} => pc \in {"push", "observe", "attest"}
          BY <2>3, <3>3, Onward DEF PrivilegeGate, ChecksGate, PushAuthority, RecordPublished, Push,
             ObserveTip, Checking, Granting
        <4> QED BY <1>3, <3>1, <3>2, <4>1
      <3>4. CASE PinResult
        <4>1. pc = "pin" /\ pc' \in {"observe", "gate"} /\ subs' = subs
          BY <2>3, <3>4, Onward DEF PinResult, PrivilegeGate, ChecksGate, PushAuthority, RecordPublished,
             Push, ObserveTip
        <4>2. JobKey \in Keys' /\ job.t0 = x
          BY <3>4, <4>1, PinKnown DEF JobKnown
        <4>3. JobKey.s = job.s /\ JobKey.n = job.n /\ JobKey.t0 = job.t0
          BY DEF JobKey, Key
        <4>4. results'[JobKey].r = JobResult
          BY <1>0, <4>1, <4>2, <4>3 DEF ResultsMerged, JobResult, JobSub, Sub
        <4>5. /\ pc' = "gate" => JobResult # x
              /\ pc' = "observe" => JobResult = x /\ JobSub.cand \notin job.reverted
          BY <3>4, <4>1 DEF PinResult, Skip
        <4>6. Adds
          BY <3>1, <3>2, <4>1, <4>2, <4>4, <4>5 DEF Checking, Granting
        <4>7. Fresh
          BY <3>1, <3>2, <4>1, <4>2, <4>4, <4>5 DEF JobSub, Sub
        <4> QED BY <4>6, <4>7
      <3> QED BY <3>3, <3>4
    <2>4. CASE Loop /\ pc \notin Working /\ pc' \in Checking \cup {"observe", "attest"}
      <3>1. PickItem /\ pc = "pick" /\ pc' = "observe"
        BY <2>4, EarlySteps DEF ReadQueue, WatchTarget, ClassifyMove, RecordTip, PickItem, Abort,
           EndCycle, Working, Checking, Granting
      <3>2. PICK i \in queue :
              /\ HeldElsewhere(i) # {}
              /\ job' = [s |-> i.s, n |-> i.n, reverted |-> i.reverted, known |-> i.known, why |-> "none",
                         t0 |-> IF HeldElsewhere(i) = {} THEN x ELSE CHOOSE t0 \in HeldElsewhere(i) : TRUE]
        BY <3>1 DEF PickItem, EndCycle
      <3>3. job'.s = i.s /\ job'.n = i.n /\ job'.t0 \in i.held
        BY <3>1, <3>2, PickedJob
      <3>4. JobKey' = Key(i.s, i.n, job'.t0)
        BY <3>3 DEF JobKey, Key
      <3>5. results'[JobKey'].r # job'.t0
        BY <1>a, <3>3, <3>4 DEF QueueKnown, HistoryKnown
      <3> QED BY <3>5
    <2> QED BY <2>1, <2>2, <2>3, <2>4 DEF Next
  <1>5. ASSUME pc' # "idle", NEW v \in Undos, revert'[v].of # None, phase'[v] = "done"
        PROVE  /\ \A i \in queue' : i.n >= 1 => RevertedRange(v)' \subseteq i.reverted
               /\ pc' \in Working /\ job'.n >= 1 => RevertedRange(v)' \subseteq job'.reverted
    <2>1. revert[v].of # None /\ phase[v] = "done" /\ RevertedRange(v)' = RevertedRange(v)
      BY <1>5, DoneReverts
    <2>2. pc # "idle" =>
            /\ \A i \in queue : i.n >= 1 => RevertedRange(v) \subseteq i.reverted
            /\ pc \in Working /\ job.n >= 1 => RevertedRange(v) \subseteq job.reverted
      BY <2>1 DEF HistoryKnown
    <2> DEFINE undone == RevertedRange(v)
               Seen == /\ \A i \in queue' : i.n >= 1 => undone \subseteq i.reverted
                       /\ pc' \in Working /\ job'.n >= 1 => undone \subseteq job'.reverted
    <2>3. undone \subseteq Reverted
      BY <2>1 DEF Reverted, LiveReverts
    <2> HIDE DEF undone
    <2>4. pc # "idle" =>
            /\ \A i \in queue : i.n >= 1 => undone \subseteq i.reverted
            /\ pc \in Working /\ job.n >= 1 => undone \subseteq job.reverted
      BY <2>2 DEF undone
    <2>5. ASSUME Others
          PROVE  Seen
      BY <1>5, <2>4, <2>5, OthersFrame DEF cycle
    <2>6. ASSUME Loop, pc \in Working
          PROVE  Seen
      <3>1. /\ pc # "idle" /\ queue' \subseteq queue
            /\ pc' \in Working => job'.n = job.n /\ job'.reverted = job.reverted
        BY <2>6, WorkSteps DEF WorkStep, SameJob, Working, Checking, Granting
      <3> QED BY <2>4, <2>6, <3>1
    <2>7. ASSUME Loop, pc \notin Working
          PROVE  Seen
      <3>1. CASE ReadQueue
        <4>1. ASSUME NEW i \in queue', i.n >= 1
              PROVE  undone \subseteq i.reverted
          <5>1. PICK s \in Subjects : i = QueueItem(s) \/ i = PendingRevert(s)
            BY <3>1, <4>1 DEF ReadQueue, Subjects
          <5>2. i = QueueItem(s)
            BY <4>1, <5>1 DEF PendingRevert
          <5> QED BY <2>3, <5>2 DEF QueueItem
        <4> QED BY <3>1, <4>1 DEF ReadQueue, Working, Checking, Granting
      <3>2. CASE PickItem
        <4>1. pc = "pick"
          BY <3>2 DEF PickItem
        <4>2. PICK i \in queue :
                /\ queue' \subseteq queue
                /\ job' = [s |-> i.s, n |-> i.n, reverted |-> i.reverted, known |-> i.known, why |-> "none",
                           t0 |-> IF HeldElsewhere(i) = {} THEN x ELSE CHOOSE t0 \in HeldElsewhere(i) : TRUE]
          BY <1>5, <3>2 DEF PickItem, EndCycle
        <4>3. job'.n = i.n /\ job'.reverted = i.reverted
          BY <4>1, <4>2, PickedJob
        <4> QED BY <2>4, <4>1, <4>2, <4>3
      <3>3. CASE WatchTarget \/ ClassifyMove \/ RecordTip \/ Abort
        <4>1. pc # "idle" /\ queue' \subseteq queue /\ pc' \notin Working
          BY <3>3 DEF WatchTarget, ClassifyMove, RecordTip, Abort, EndCycle, Working, Checking, Granting
        <4> QED BY <2>4, <4>1
      <3> QED BY <2>7, <3>1, <3>2, <3>3, EarlySteps
    <2>8. Seen
      BY <2>5, <2>6, <2>7 DEF Next
    <2> QED BY <2>1, <2>8 DEF undone
  <1> HIDE DEF Adds, Fresh
  <1>6. pc' \in Checking => results'[JobKey'].r # job'.t0
    BY <1>4 DEF Adds
  <1>7. pc' \in {"observe", "attest"} /\ results'[JobKey'].r = job'.t0 => JobSub'.cand \notin job'.reverted
    BY <1>4 DEF Fresh, JobSub, Sub
  <1> HIDE DEF IInv
  <1> QED BY <1>1, <1>2, <1>5, <1>6, <1>7 DEF HistoryKnown, Key


---------------------------------------------------------------------------
(* The invariant, and what it says.                                        *)

LEMMA InitInvariant ==
  ASSUME Init
  PROVE  IInv
  <1> USE DEF Init
  <1>1. /\ <<>> \in Tips /\ Len(<<>>) = 0 /\ <<>> \in Seq([r : Tips, t0 : Tips])
        /\ <<>> \in Seq(SubRow) /\ Contents(<<>>) = {}
    BY DEF Tips, Contents, Range
  <1>2. Keys = {} /\ results \in [Keys -> ResultRow]
    BY DEF Keys
  <1>3. /\ phase \in [Subjects -> Phases] /\ \A s \in Subjects : phase[s] \notin Live
        /\ \A v \in Undos : phase[v] = "absent"
    BY DEF Phases, Live, Undos, Subjects
  <1>4. /\ subs \in [Subjects -> Seq(SubRow)] /\ \A s \in Subjects : Current(s) = 0
    BY <1>1 DEF Current
  <1>5. revert \in [Undos -> RevertRow] /\ \A v \in Undos : revert[v].of = None
    BY DEF RevertRow
  <1>6. budget \in [{"submit", "disturb"} -> Nat]
    BY IntegratorAssumption
  <1>7. Types
    <2>1. /\ target \in Tips /\ tip \in Tips /\ x \in Tips /\ frozen \in BOOLEAN
          /\ ours \subseteq Commits /\ theirs \subseteq Commits
      BY <1>1
    <2>2. published \in Seq([r : Tips, t0 : Tips]) /\ Len(published) <= MaxPublished
      BY <1>1, MaxPublishedAssumption
    <2>3. /\ pc \in {"idle", "watch", "classify", "record", "pick"} \cup Working
          /\ pc \notin Working /\ pc # "attest"
          /\ queue \subseteq ItemRow /\ Keys \subseteq KeyRow /\ hold = None
      BY <1>2 DEF Working, Checking, Granting
    <2> QED BY <1>2, <1>3, <1>4, <1>5, <1>6, <2>1, <2>2, <2>3 DEF Types
  <1>8. Standing
    BY <1>3, <1>4, <1>5 DEF Standing
  <1>9. ResultsMerged /\ StacksReviewed /\ QueueKnown /\ JobKnown
    BY <1>2, <1>4 DEF ResultsMerged, StacksReviewed, QueueKnown, JobKnown, Working, Checking, Granting
  <1>10. Monitored /\ JobJudged /\ BranchKnown
    BY <1>1 DEF Monitored, JobJudged, BranchKnown, Working, Checking, Granting
  <1>11. CompletedIsLanded /\ Authority
    BY <1>2, <1>3, <1>4 DEF CompletedIsLanded, Authority, Live
  <1> QED BY <1>7, <1>8, <1>9, <1>10, <1>11 DEF IInv

LEMMA InvariantStays ==
  ASSUME IInv, [Next]_vars
  PROVE  IInv'
  <1>1. CASE Next
    <2>1. Effect /\ ours \subseteq ours' /\ theirs \subseteq theirs'
      BY <1>1, NextEffect, LandingsStay
    <2>2. RemoteTypes' /\ DiskTypes' /\ CycleTypes'
      BY <1>1, RemoteTyped, DiskTyped, CycleTyped
    <2>3. TableTypes' /\ budget' \in [{"submit", "disturb"} -> Nat]
      BY <1>1, <2>1, TablesTyped, BudgetTyped
    <2>4. Types'
      BY <2>2, <2>3 DEF RemoteTypes, DiskTypes, CycleTypes, TableTypes, Types
    <2>5. Standing' /\ ResultsMerged' /\ StacksReviewed' /\ Authority' /\ CompletedIsLanded'
      BY <2>1, StandingStays, ResultsStayMerged, StacksStayReviewed, AuthorityStays, CompletedStays
    <2>6. QueueKnown' /\ JobKnown' /\ Monitored' /\ JobJudged' /\ BranchKnown'
      BY <1>1, QueueStaysKnown, JobStaysKnown, StaysMonitored, JobStaysJudged, BranchStaysKnown
    <2> QED BY <2>4, <2>5, <2>6 DEF IInv
  <1>2. CASE UNCHANGED vars
    <2>1. /\ UNCHANGED <<target, ours, theirs, tip, frozen, published, pc, x, queue, job, seen>>
          /\ UNCHANGED <<phase, subs, results, hold, revert, reported, answered, budget>>
      BY <1>2 DEF vars, remote, disk, cycle, service
    <2> USE DEF IInv, Keys, Current, Sub, Key
    <2>2. Types' /\ Standing' /\ ResultsMerged'
      BY <2>1 DEF Types, Standing, ResultsMerged
    <2>3. StacksReviewed' /\ QueueKnown' /\ JobKnown' /\ Monitored'
      BY <2>1 DEF StacksReviewed, QueueKnown, JobKnown, JobKey, Monitored
    <2>4. JobJudged'
      <3>1. JobKey' = JobKey /\ JobSub' = JobSub
        BY <2>1 DEF JobKey, JobSub
      <3>2. RangeApproved(JobKey)' <=> RangeApproved(JobKey)
        BY <2>1, <3>1 DEF RangeApproved
      <3> QED BY <2>1, <3>1, <3>2 DEF JobJudged
    <2>5. BranchKnown' /\ CompletedIsLanded'
      BY <2>1 DEF BranchKnown, CompletedIsLanded
    <2>6. Authority'
      BY <2>1 DEF Authority, Outstanding, Stands
    <2> QED BY <2>2, <2>3, <2>4, <2>5, <2>6
  <1> QED BY <1>1, <1>2

LEMMA InvariantIsSafe ==
  ASSUME IInv
  PROVE  LandingSafe
  <1> USE DEF IInv
  <1>1. TypeOK
    <2>1. \A k \in Keys : results[k].receipt \in {"none", "pass", "fail"}
      BY ResultType DEF ResultRow
    <2>2. hold = None \/ hold[1] \in Subjects
      BY DEF Types
    <2> QED BY <2>1, <2>2 DEF Types, TypeOK, Phases, Working, Checking, Granting
  <1>2. OneAuthority
    <2>1. ASSUME NEW s \in Subjects, NEW n \in 1..Current(s), NEW k \in Issued(s, n), NEW l \in Issued(s, n)
          PROVE  k = l
      BY DEF Issued, KeysOf, Authority, Outstanding
    <2>2. ASSUME hold # None
          PROVE  StillCurrent(hold[1], hold[2]) /\ Issued(hold[1], hold[2]) # {}
      <3>1. PICK k \in Keys : Outstanding(k) /\ Stands(k) /\ hold = <<k.s, k.n>>
        BY <2>2 DEF Authority
      <3>2. hold[1] = k.s /\ hold[2] = k.n
        BY <3>1
      <3> QED BY <3>1, <3>2 DEF Outstanding, Stands, StillCurrent, Issued, KeysOf
    <2>3. \A k \in Keys : results[k].issued /\ StillCurrent(k.s, k.n) => hold = <<k.s, k.n>>
      BY DEF Authority, Outstanding, Stands, StillCurrent
    <2> QED BY <2>1, <2>2, <2>3 DEF OneAuthority
  <1>3. DeferredIsOwed
    <2> SUFFICES ASSUME NEW s \in Subjects, NEW n \in 1..Current(s),
                        Sub(s, n).req = "pending", StillCurrent(s, n)
                 PROVE  Issued(s, n) # {}
      BY DEF DeferredIsOwed
    <2>1. PICK k \in Keys : Outstanding(k) /\ k.s = s /\ k.n = n
      BY DEF Authority, StillCurrent
    <2> QED BY <2>1 DEF Outstanding, Issued, KeysOf
  <1> QED BY <1>1, <1>2, <1>3 DEF LandingSafe

\* A result lands only while its authority, its verdicts and the approval of
\* every commit in it stand.
LEMMA PushIsAuthorized ==
  ASSUME IInv, Next, ours' # ours
  PROVE  /\ ~frozen /\ tip = target /\ target = JobKey.t0
         /\ results[JobKey].issued /\ results[JobKey].receipt = "pass"
         /\ Gated(JobKey.t0, results[JobKey].r) => results[JobKey].gate = "allow"
         /\ StillCurrent(JobKey.s, JobKey.n) \/ Sub(JobKey.s, JobKey.n).by = "human"
         /\ RangeApproved(JobKey)
  <1> USE DEF IInv
  <1>1. Pushes
    BY RemoteEffect DEF remote, PushedPast, Rewritten
  <1>2. pc = "push" /\ target = x
    BY <1>1 DEF Pushes
  <1>3. ~frozen /\ tip = x
    BY <1>2 DEF Monitored, Working, Checking, Granting
  <1>4. /\ job.s \in Subjects /\ job.n \in 1..Current(job.s)
        /\ JobKey.s = job.s /\ JobKey.n = job.n /\ JobKey.t0 = job.t0
    BY <1>2, JobFacts DEF Working, Checking, Granting
  <1>5. job.t0 = x
    BY <1>2 DEF JobKnown, Checking, Granting
  <1>6. /\ results[JobKey].issued /\ results[JobKey].receipt = "pass" /\ RangeApproved(JobKey)
        /\ Gated(x, results[JobKey].r) => results[JobKey].gate = "allow"
        /\ Sub(job.s, job.n).by \in {"nobody", "human"}
    BY <1>2 DEF JobJudged, Checking, Granting, JobSub
  <1>7. Sub(job.s, job.n).by = "nobody" => StillCurrent(job.s, job.n)
    BY <1>4 DEF Standing, StillCurrent
  <1> HIDE DEF IInv
  <1> QED BY <1>2, <1>3, <1>4, <1>5, <1>6, <1>7

\* The authority to push (integrator_push.rs, integrator_observe.rs): it is
\* outstanding for one result of a submission, which then holds the target; a
\* hold and a deferred revise always have an observation before them that
\* settles them, and a task is completed only by a candidate that was on the
\* target (LandingSafe).
THEOREM LandingIsSafe == Spec => []LandingSafe
  <1>1. Init => IInv
    BY InitInvariant
  <1>2. IInv /\ [Next]_vars => IInv'
    BY InvariantStays
  <1>3. IInv => LandingSafe
    BY InvariantIsSafe
  <1> QED BY <1>1, <1>2, <1>3, PTL DEF Spec

\* A push lands only the result that authority was issued for, checked, not
\* gated, on the recorded tip of a target that is not frozen, of a submission
\* that only a human superseded meanwhile, and every commit it brings along was
\* approved in a review (PushesAreAuthorized).
THEOREM LandingsAreAuthorized == Spec => PushesAreAuthorized
  <1>1. Init => IInv
    BY InitInvariant
  <1>2. IInv /\ [Next]_vars => IInv'
    BY InvariantStays
  <1>3. IInv /\ [Next]_vars =>
          [(ours' # ours) =>
             LET k == JobKey IN
             /\ ~frozen /\ tip = target /\ target = k.t0
             /\ results[k].issued /\ results[k].receipt = "pass"
             /\ Gated(k.t0, results[k].r) => results[k].gate = "allow"
             /\ StillCurrent(k.s, k.n) \/ Sub(k.s, k.n).by = "human"
             /\ RangeApproved(k)]_vars
    BY PushIsAuthorized
  <1> QED BY <1>1, <1>2, <1>3, PTL DEF Spec, PushesAreAuthorized

LEMMA HistoryStutters ==
  ASSUME HistoryKnown, UNCHANGED vars
  PROVE  HistoryKnown'
  <1>1. UNCHANGED <<pc, queue, job, phase, subs, results, revert>>
    BY DEF vars, cycle, service
  <1>2. JobKey' = JobKey /\ JobSub' = JobSub
    BY <1>1 DEF JobKey, Key, JobSub, Sub
  <1>3. \A v \in Undos : RevertedRange(v)' = RevertedRange(v)
    BY <1>1 DEF RevertedRange, LandingRange
  <1> QED BY <1>1, <1>2, <1>3 DEF HistoryKnown, Keys, Key

LEMMA CompletesWithWork ==
  ASSUME IInv, HistoryKnown, Next, NEW s \in Subjects, phase'[s] = "done", phase[s] # "done",
         Sub(s, Current(s)).cand \in Contents(job.t0),
         NEW v \in Undos, revert[v].of # None, phase[v] = "done"
  PROVE  Sub(s, Current(s)).cand \notin RevertedRange(v)
  <1>1. /\ pc = "attest" /\ s = job.s
        /\ Disposition(JobKey, seen) \in {"published", "already_contained"}
    BY OnlyAttestCompletes
  <1>2. StillCurrent(JobKey.s, JobKey.n)
    BY <1>1, DispositionFacts
  <1>3. /\ JobKey.s = job.s /\ JobKey.n = job.n /\ JobKey.t0 = job.t0 /\ JobKey \in Keys
        /\ JobSub \in SubRow /\ job.n >= 1
    BY <1>1, JobFacts DEF IInv, JobKnown, Working
  <1>4. Sub(s, Current(s)) = JobSub
    BY <1>1, <1>2, <1>3 DEF StillCurrent, JobSub
  <1>5. results[JobKey].r = job.t0
    BY <1>3, <1>4 DEF IInv, ResultsMerged, Merged, JobSub
  <1>6. JobSub.cand \notin job.reverted
    BY <1>1, <1>5 DEF HistoryKnown
  <1>7. RevertedRange(v) \subseteq job.reverted
    BY <1>1, <1>3 DEF HistoryKnown, Working
  <1> QED BY <1>4, <1>6, <1>7

\* A candidate that the target holds already completes its task only if no
\* finished revert undid its commits (integrator_reverts.rs,
\* ensure_not_reverted_in_history), however many of them were requested,
\* landed or reported while it waited (UndoneStaysUndone).
THEOREM UndoneWorkStaysUndone == Spec => UndoneStaysUndone
  <1> DEFINE Inv == IInv /\ HistoryKnown
  <1>1. Init => Inv
    <2> SUFFICES ASSUME Init
                 PROVE  HistoryKnown
      BY InitInvariant
    <2>1. Keys = {} /\ queue = {} /\ pc = "idle"
      BY DEF Init, Keys
    <2> QED BY <2>1 DEF HistoryKnown, Checking, Granting
  <1>2. Inv /\ [Next]_vars => Inv'
    BY InvariantStays, HistoryStays, HistoryStutters
  <1>3. Inv /\ [Next]_vars =>
          [\A s \in Subjects :
             LET c == Sub(s, Current(s)).cand IN
             phase'[s] = "done" /\ phase[s] # "done" /\ c \in Contents(job.t0) =>
                ~\E v \in Undos : /\ revert[v].of # None /\ phase[v] = "done"
                                  /\ c \in RevertedRange(v)]_vars
    BY CompletesWithWork
  <1> QED BY <1>1, <1>2, <1>3, PTL DEF Spec, UndoneStaysUndone

---------------------------------------------------------------------------
(* Whose commits they are.                                                 *)

\* Every commit of h that is not a human's was reported as unreviewed, or
\* some authority covered its landing.
Accounted(h) ==
  \A c \in Contents(h) :
    \/ c[1] = Human \/ c \in reported
    \/ \E k \in Keys : results[k].granted /\ c \in LandingRange(k.t0, results[k].r)

\* Results are of tips that were recorded, one after the other.  The file names
\* results that authority was issued for, each once and in the order of the
\* tips, and what is recorded is accounted for.
Ledger ==
  /\ IsFiniteSet(Keys)
  /\ \A k \in Keys : IsPrefix(k.t0, tip)
  /\ \A k \in Keys : results[k].issued => results[k].granted
  /\ \A p \in Range(published) :
       \E k \in Keys : results[k].granted /\ k.t0 = p.t0 /\ results[k].r = p.r
  /\ \A i, j \in DOMAIN published : published[i].r = published[j].r => i = j
  /\ \A i, j \in DOMAIN published : i <= j => IsPrefix(published[i].t0, published[j].t0)
  /\ pc = "push" => \E p \in Range(published) : p.r = results[JobKey].r
  /\ pc \in {"classify", "record"} => IsPrefix(tip, x)
  /\ Accounted(tip) /\ (pc = "record" => Accounted(x))

\* h holds nothing of this integrator's that the recorded tip does not.
Plain(h) == Contents(h) \subseteq Contents(tip) \cup theirs

\* h continues the recorded tip, and what it holds beyond it that others did
\* not put there is in the range of a result that h contains and that the file
\* names.
Attributed(h) ==
  /\ IsPrefix(tip, h)
  /\ \A c \in Contents(h) \ (Contents(tip) \cup theirs) :
       \E p \in Range(published) : IsPrefix(p.r, h) /\ c \in LandingRange(p.t0, p.r)

\* The target can be classified, and only what others put there was reported.
Remembered ==
  /\ Plain(target) \/ Attributed(target)
  /\ pc \in {"classify", "record"} =>
       Attributed(x) /\ (Plain(target) \/ IsPrefix(x, target))
  /\ reported \subseteq theirs

\* The results that authority was issued for on the tips from h on, and the
\* bound under which the file names a result until it is recorded as landed:
\* no more than MaxPublished since the tip that it was computed on.
Since(h) == {results[l].r : l \in {l \in Keys : results[l].granted /\ IsPrefix(h, l.t0)}}
FileSuffices ==
  \A k \in Keys : results[k].granted /\ IsStrictPrefix(tip, results[k].r) =>
    Cardinality(Since(k.t0)) <= MaxPublished

LEMMA PrefixElements ==
  ASSUME NEW s \in Tips, NEW t \in Tips
  PROVE  IsPrefix(s, t) <=> Len(s) <= Len(t) /\ \A i \in 1..Len(s) : s[i] = t[i]
  <1>1. Len(s) \in Nat /\ Len(t) \in Nat /\ s \in Seq(Commits) /\ t \in Seq(Commits)
    BY DEF Tips
  <1>2. ASSUME IsPrefix(s, t)
        PROVE  Len(s) <= Len(t) /\ \A i \in 1..Len(s) : s[i] = t[i]
    <2>1. Len(s) <= Len(t) /\ SubSeq(s, 1, Len(s)) = SubSeq(t, 1, Len(s))
      BY <1>2 DEF IsPrefix
    <2>2. ASSUME NEW i \in 1..Len(s)
          PROVE  SubSeq(s, 1, Len(s))[i] = s[i] /\ SubSeq(t, 1, Len(s))[i] = t[i]
      BY <1>1, <2>1
    <2> QED BY <2>1, <2>2
  <1>3. ASSUME Len(s) <= Len(t), \A i \in 1..Len(s) : s[i] = t[i]
        PROVE  IsPrefix(s, t)
    <2> DEFINE u == SubSeq(s, 1, Len(s))
               v == SubSeq(t, 1, Len(s))
    <2>1. /\ u \in Seq(Commits) /\ Len(u) = Len(s) /\ \A i \in 1..Len(s) : u[i] = s[i]
          /\ v \in Seq(Commits) /\ Len(v) = Len(s) /\ \A i \in 1..Len(s) : v[i] = t[i]
      BY <1>1, <1>3
    <2> HIDE DEF u, v
    <2>2. u = v
      BY <1>1, <1>3, <2>1
    <2> QED BY <1>3, <2>2 DEF IsPrefix, u, v
  <1> QED BY <1>2, <1>3

LEMMA PrefixReflexive ==
  ASSUME NEW s \in Tips
  PROVE  IsPrefix(s, s)
  <1>1. Len(s) \in Nat
    BY DEF Tips
  <1> QED BY <1>1, PrefixElements

LEMMA PrefixTransitive ==
  ASSUME NEW s \in Tips, NEW t \in Tips, NEW u \in Tips, IsPrefix(s, t), IsPrefix(t, u)
  PROVE  IsPrefix(s, u)
  <1>1. Len(s) \in Nat /\ Len(t) \in Nat /\ Len(u) \in Nat
    BY DEF Tips
  <1>2. /\ Len(s) <= Len(t) /\ Len(t) <= Len(u)
        /\ \A i \in 1..Len(s) : s[i] = t[i]
        /\ \A i \in 1..Len(t) : t[i] = u[i]
    BY PrefixElements
  <1>3. Len(s) <= Len(u) /\ \A i \in 1..Len(s) : s[i] = u[i]
    BY <1>1, <1>2
  <1> QED BY <1>3, PrefixElements

LEMMA PrefixExtended ==
  ASSUME NEW s \in Tips, NEW e \in Tips
  PROVE  s \o e \in Tips /\ IsPrefix(s, s \o e)
  <1>1. Len(s) \in Nat /\ Len(e) \in Nat /\ s \in Seq(Commits) /\ e \in Seq(Commits)
    BY DEF Tips
  <1> DEFINE t == s \o e
  <1>2. t \in Seq(Commits) /\ Len(t) = Len(s) + Len(e) /\ \A i \in 1..Len(s) : t[i] = s[i]
    BY <1>1
  <1> HIDE DEF t
  <1>3. t \in Tips /\ Len(s) <= Len(t)
    BY <1>1, <1>2 DEF Tips
  <1>4. IsPrefix(s, t)
    BY <1>2, <1>3, PrefixElements
  <1> QED BY <1>3, <1>4 DEF t

\* A merge continues the tip it is made on.
LEMMA MergedExtends ==
  ASSUME NEW h \in Tips, NEW k \in SubRow
  PROVE  IsPrefix(h, Merged(h, k))
  <1>1. CASE k.cand \in Contents(h)
    BY <1>1, PrefixReflexive DEF Merged
  <1>2. CASE k.cand \notin Contents(h)
    <2> DEFINE m == Missing(h, k)
    <2>1. m \in Tips
      BY MissingPart
    <2>2. <<k.cand>> \in Tips
      BY DEF SubRow, Tips
    <2>3. Merged(h, k) = h \o m \o <<k.cand>>
      BY <1>2 DEF Merged
    <2> HIDE DEF m
    <2>4. h \o m \in Tips /\ IsPrefix(h, h \o m)
      BY <2>1, PrefixExtended
    <2>5. (h \o m) \o <<k.cand>> \in Tips /\ IsPrefix(h \o m, (h \o m) \o <<k.cand>>)
      BY <2>2, <2>4, PrefixExtended
    <2>6. IsPrefix(h, (h \o m) \o <<k.cand>>)
      BY <2>4, <2>5, PrefixTransitive
    <2> QED BY <2>3, <2>6
  <1> QED BY <1>1, <1>2

---------------------------------------------------------------------------
\* The result at hand is written to the file, which makes room for it.
Entry == [r |-> results[JobKey].r, t0 |-> x]
Publishes ==
  /\ pc = "publish"
  /\ \A p \in Range(published) : p.r # Entry.r
  /\ \/ Len(published) < MaxPublished /\ published' = Append(published, Entry)
     \/ /\ Len(published) = MaxPublished
        /\ published' = SubSeq(Append(published, Entry), 2, Len(published) + 1)

LEMMA FileEffect ==
  ASSUME IInv, Next
  PROVE  /\ published' = published \/ Publishes
         /\ RecordPublished => Publishes \/ \E p \in Range(published) : p.r = Entry.r
  <1>1. CASE RecordPublished
    <2> DEFINE list == Append(published, Entry)
               excess == Len(list) - MaxPublished
    <2>1. pc = "publish" /\ published \in Seq([r : Tips, t0 : Tips]) /\ Len(published) <= MaxPublished
      BY <1>1 DEF RecordPublished, IInv, Types
    <2>2. \/ published' = published /\ \E p \in Range(published) : p.r = Entry.r
          \/ /\ ~\E p \in Range(published) : p.r = Entry.r
             /\ published' = IF excess > 0 THEN SubSeq(list, excess + 1, Len(list)) ELSE list
      BY <1>1 DEF RecordPublished, Entry
    <2>3. Len(list) = Len(published) + 1 /\ Len(published) \in Nat /\ MaxPublished \in Nat
      BY <2>1, MaxPublishedAssumption
    <2> HIDE DEF list
    <2>4. CASE Len(published) < MaxPublished
      <3>1. ~(excess > 0)
        BY <2>3, <2>4
      <3> QED BY <2>1, <2>2, <2>4, <3>1 DEF Publishes, list
    <2>5. CASE Len(published) = MaxPublished
      <3>1. excess = 1 /\ excess > 0 /\ excess + 1 = 2
        BY <2>3, <2>5
      <3> HIDE DEF excess
      <3>2. \/ published' = published /\ \E p \in Range(published) : p.r = Entry.r
            \/ /\ ~\E p \in Range(published) : p.r = Entry.r
               /\ published' = SubSeq(list, 2, Len(published) + 1)
        BY <2>2, <2>3, <3>1
      <3> QED BY <2>1, <2>5, <3>2 DEF Publishes, list
    <2> QED BY <2>1, <2>3, <2>4, <2>5
  <1>2. CASE ~RecordPublished
    BY <1>2 DEF Next, Loop, Others, ReadQueue, WatchTarget, ClassifyMove, RecordTip, PickItem,
       RevertStep, RevertCheckFailed, IntegratorRevise, PinResult, PrivilegeGate, ChecksGate,
       PushAuthority, Push, ObserveTip, Attest, Abort, GitFails, Submit, Approve, RequestChanges,
       AgentRevise, HumanReopen, ResolveGate, RequestRevert, ForeignPush, RewriteTarget, disk
  <1> QED BY <1>1, <1>2

\* What the file holds then.
LEMMA FileGrows ==
  ASSUME published \in Seq([r : Tips, t0 : Tips]), Publishes, Entry \in [r : Tips, t0 : Tips],
         \A i, j \in DOMAIN published : published[i].r = published[j].r => i = j,
         \A i, j \in DOMAIN published : i <= j => IsPrefix(published[i].t0, published[j].t0),
         \A i \in DOMAIN published : IsPrefix(published[i].t0, Entry.t0)
  PROVE  /\ Range(published') \subseteq Range(published) \cup {Entry}
         /\ Entry \in Range(published')
         /\ \A p \in Range(published) :
              p \in Range(published') \/ (Len(published) = MaxPublished /\ p = published[1])
         /\ \A i, j \in DOMAIN published' : published'[i].r = published'[j].r => i = j
         /\ \A i, j \in DOMAIN published' : i <= j => IsPrefix(published'[i].t0, published'[j].t0)
  <1> DEFINE R == [r : Tips, t0 : Tips]
             n == Len(published)
             list == Append(published, Entry)
  <1>1. /\ n \in Nat /\ DOMAIN published = 1..n
        /\ list \in Seq(R) /\ Len(list) = n + 1 /\ DOMAIN list = 1..(n + 1)
        /\ list[n + 1] = Entry /\ \A i \in 1..n : list[i] = published[i]
    OBVIOUS
  <1>2. \A i \in 1..n : published[i] \in Range(published)
    BY <1>1 DEF Range
  <1>3. \A i, j \in 1..(n + 1) : list[i].r = list[j].r => i = j
    <2>1. \A i \in 1..n : list[i].r # Entry.r
      BY <1>1, <1>2 DEF Publishes
    <2>2. \A i, j \in 1..n : list[i].r = list[j].r => i = j
      BY <1>1
    <2> HIDE DEF list
    <2> QED BY <1>1, <2>1, <2>2
  <1>a. \A i, j \in 1..(n + 1) : i <= j => IsPrefix(list[i].t0, list[j].t0)
    <2>1. \A i, j \in 1..n : i <= j => IsPrefix(list[i].t0, list[j].t0)
      BY <1>1
    <2>2. \A i \in 1..n : IsPrefix(list[i].t0, Entry.t0)
      BY <1>1
    <2>3. IsPrefix(Entry.t0, Entry.t0)
      BY PrefixReflexive
    <2> HIDE DEF list
    <2> QED BY <1>1, <2>1, <2>2, <2>3
  <1>4. Range(list) = Range(published) \cup {Entry}
    <2> HIDE DEF list
    <2>1. \A i \in 1..(n + 1) : list[i] \in Range(published) \cup {Entry}
      BY <1>1, <1>2
    <2>2. \A q \in Range(published) : \E i \in 1..(n + 1) : list[i] = q
      BY <1>1 DEF Range
    <2>3. n + 1 \in 1..(n + 1)
      BY <1>1
    <2> QED BY <1>1, <2>1, <2>2, <2>3 DEF Range
  <1>5. CASE published' = list
    <2> HIDE DEF list
    <2> QED BY <1>1, <1>3, <1>a, <1>4, <1>5
  <1>6. CASE Len(published) = MaxPublished /\ published' = SubSeq(list, 2, n + 1)
    <2> DEFINE cut == SubSeq(list, 2, n + 1)
    <2>a. n >= 1 /\ n = MaxPublished
      BY <1>6, MaxPublishedAssumption
    <2> HIDE DEF list, n
    <2>1. /\ Len(cut) = n /\ DOMAIN cut = 1..n
          /\ \A i \in 1..n : cut[i] = list[i + 1] /\ i + 1 \in 1..(n + 1)
      BY <1>1
    <2>0. published' = cut
      BY <1>6 DEF cut, n
    <2> HIDE DEF cut
    <2>2. Range(cut) \subseteq Range(list)
      <3>1. ASSUME NEW i \in DOMAIN cut
            PROVE  cut[i] \in Range(list)
        <4>1. cut[i] = list[i + 1] /\ i + 1 \in DOMAIN list
          BY <1>1, <2>1
        <4> QED BY <4>1 DEF Range
      <3> QED BY <3>1 DEF Range
    <2>3. \A i, j \in 1..n : cut[i].r = cut[j].r => i = j
      BY <1>1, <1>3, <2>1
    <2>4. \A i, j \in 1..n : i <= j => IsPrefix(cut[i].t0, cut[j].t0)
      BY <1>1, <1>a, <2>1
    <2>5. \A i \in 1..n : cut[i] \in Range(cut)
      BY <2>1 DEF Range
    <2>6. Entry \in Range(cut)
      <3>1. n \in 1..n /\ cut[n] = Entry
        BY <1>1, <2>1, <2>a
      <3> QED BY <2>5, <3>1
    <2>7. \A p \in Range(published) : p \in Range(cut) \/ p = published[1]
      <3>1. ASSUME NEW i \in 1..n, i # 1
            PROVE  published[i] \in Range(cut)
        <4>1. i - 1 \in 1..n /\ cut[i - 1] = published[i]
          BY <1>1, <2>1, <3>1
        <4> QED BY <2>5, <4>1
      <3> QED BY <1>1, <3>1 DEF Range
    <2> QED BY <1>4, <2>a, <2>0, <2>1, <2>2, <2>3, <2>4, <2>6, <2>7 DEF n
  <1> QED BY <1>5, <1>6 DEF Publishes

---------------------------------------------------------------------------
\* Authority once issued stays on record.
LEMMA GrantsStand ==
  ASSUME IInv, Effect, IsFiniteSet(Keys), \A k \in Keys : results[k].issued => results[k].granted
  PROVE  /\ IsFiniteSet(Keys')
         /\ \A k \in Keys' : results'[k].issued => results'[k].granted
         /\ \A k \in Keys : k \in Keys' /\ results'[k].r = results[k].r
                            /\ (results[k].granted => results'[k].granted)
  <1> DEFINE Goal == /\ IsFiniteSet(Keys')
                     /\ \A k \in Keys' : results'[k].issued => results'[k].granted
                     /\ \A k \in Keys : k \in Keys' /\ results'[k].r = results[k].r
                                        /\ (results[k].granted => results'[k].granted)
  <1>1. CASE results' = results
    BY <1>1 DEF Keys
  <1>2. ASSUME NEW l \in Keys, Notes(l) \/ Closes(l)
        PROVE  Goal
    BY <1>2 DEF Notes, Closes
  <1>3. ASSUME NEW l \in Keys, Grants(l)
        PROVE  Goal
    BY <1>3 DEF Grants
  <1>4. ASSUME NEW l \in KeyRow, Pins(l)
        PROVE  Goal
    <2>1. IsFiniteSet(Keys')
      BY <1>4, FS_AddElement DEF Pins
    <2> QED BY <1>4, <2>1 DEF Pins, NewResult
  <1>5. \/ results' = results
        \/ \E l \in Keys : Notes(l) \/ Closes(l) \/ Grants(l)
        \/ \E l \in KeyRow : Pins(l)
    BY DEF Effect, Idle, Loses, Gains, Amends, Opens
  <1> QED BY <1>1, <1>2, <1>3, <1>4, <1>5

\* A new result is of the tip that the cycle observed and recorded.
LEMMA PinnedOnX ==
  ASSUME IInv, Next, NEW k \in Keys', k \notin Keys
  PROVE  k.t0 = x /\ tip = x
  <1>1. CASE PinResult
    <2>1. pc = "pin" /\ Pins(JobKey)
      BY <1>1, PinEffect DEF PinResult, Idle, Keys
    <2>2. k = JobKey /\ job.t0 = x /\ tip = x
      BY <2>1 DEF Pins, IInv, JobKnown, Monitored, Working
    <2> QED BY <2>2 DEF JobKey, Key
  <1>2. CASE PrivilegeGate \/ ChecksGate \/ PushAuthority \/ Attest
             \/ \E l \in Keys : \E d \in {"allow", "deny"} : ResolveGate(l, d)
    <2>1. \/ results' = results
          \/ \E l : Notes(l) \/ Grants(l) \/ Closes(l)
      BY <1>2, GateEffect, ChecksEffect, AuthorityEffect, AttestCloses, ResolveEffect DEF Idle, Amends
    <2> QED BY <2>1 DEF Notes, Grants, Closes, Keys
  <1>3. CASE /\ ~PinResult /\ ~PrivilegeGate /\ ~ChecksGate /\ ~PushAuthority /\ ~Attest
             /\ ~\E l \in Keys : \E d \in {"allow", "deny"} : ResolveGate(l, d)
    <2>1. results' = results
      BY <1>3 DEF Next, Loop, Others, ReadQueue, WatchTarget, ClassifyMove, RecordTip, PickItem,
         RevertStep, RevertCheckFailed, IntegratorRevise, RecordPublished, Push, ObserveTip, Abort,
         GitFails, Submit, Approve, RequestChanges, AgentRevise, HumanReopen, RequestRevert,
         ForeignPush, RewriteTarget, service
    <2> QED BY <2>1 DEF Keys
  <1> QED BY <1>1, <1>2, <1>3

\* The tips of the cycle, and what is reported of them.
LEMMA ReportEffect ==
  ASSUME IInv, Next
  PROVE  /\ \/ reported' = reported
            \/ pc = "classify" /\ reported' = reported \cup OutOfBand
         /\ tip' = tip \/ (pc = "record" /\ tip' = x /\ pc' = "pick" /\ UNCHANGED remote)
         /\ x' = x \/ x' = <<>> \/ x' = target
         /\ pc' = "classify" =>
              \/ pc = "classify" /\ UNCHANGED <<x, tip>>
              \/ /\ pc = "watch" /\ x' = target /\ Descends(target)
                 /\ tip' = tip /\ UNCHANGED remote
         /\ pc' = "record" =>
              \/ pc = "record" /\ UNCHANGED <<x, tip>>
              \/ pc = "classify" /\ UNCHANGED <<x, tip>> /\ reported' = reported \cup OutOfBand
  <1>1. CASE Others
    <2>1. UNCHANGED <<cycle, disk>> /\ reported' = reported
      BY <1>1, OthersFrame DEF Others, Submit, Approve, RequestChanges, AgentRevise, HumanReopen,
         ResolveGate, RequestRevert, ForeignPush, RewriteTarget, service
    <2> QED BY <2>1 DEF cycle, disk
  <1>2. CASE Loop /\ pc \in Working
    <2>1. WorkStep
      BY <1>2, WorkSteps
    <2>2. reported' = reported
      BY <1>2 DEF Loop, ReadQueue, WatchTarget, ClassifyMove, RecordTip, PickItem, RevertStep,
         RevertCheckFailed, IntegratorRevise, PinResult, PrivilegeGate, ChecksGate, PushAuthority,
         RecordPublished, Push, ObserveTip, Attest, Abort, GitFails, service, Working, Checking, Granting
    <2> QED BY <2>1, <2>2 DEF WorkStep, Working, Checking, Granting
  <1>3. CASE Loop /\ pc \notin Working
    BY <1>3, EarlySteps DEF ReadQueue, WatchTarget, ClassifyMove, RecordTip, PickItem, Abort,
       EndCycle, service, disk, remote, Working, Checking, Granting
  <1> QED BY <1>1, <1>2, <1>3 DEF Next

---------------------------------------------------------------------------
\* What a move of the target brought along without a result of this
\* integrator is reported; the rest some authority covered.
LEMMA MoveIsAccounted ==
  ASSUME IInv, Ledger, NEW c \in Contents(x), c \notin OutOfBand
  PROVE  \/ c[1] = Human \/ c \in reported
         \/ \E k \in Keys : results[k].granted /\ c \in LandingRange(k.t0, results[k].r)
  <1>1. CASE c \in Contents(tip)
    BY <1>1 DEF Ledger, Accounted
  <1>2. CASE c \notin Contents(tip) /\ c[1] # Human
    <2> DEFINE own == {p \in Range(published) : IsPrefix(p.r, x) /\ ~IsPrefix(p.r, tip)}
    <2>1. c \in LandingRange(tip, x)
      BY <1>2 DEF LandingRange
    <2>2. PICK p \in own : c \in LandingRange(p.t0, p.r)
      BY <1>2, <2>1 DEF OutOfBand
    <2>3. p \in Range(published)
      OBVIOUS
    <2> HIDE DEF own
    <2> QED BY <2>2, <2>3 DEF Ledger
  <1> QED BY <1>1, <1>2

LEMMA LedgerStays ==
  ASSUME IInv, Next, Ledger
  PROVE  Ledger'
  <1>1. /\ IsFiniteSet(Keys')
        /\ \A k \in Keys' : results'[k].issued => results'[k].granted
        /\ \A k \in Keys : k \in Keys' /\ results'[k].r = results[k].r
                           /\ (results[k].granted => results'[k].granted)
    BY NextEffect, GrantsStand DEF Ledger
  <1>2. reported \subseteq reported'
    BY ReportEffect
  <1>a. tip \in Tips /\ x \in Tips /\ tip' \in Tips /\ \A k \in Keys : k \in KeyRow /\ k.t0 \in Tips
    BY DiskTyped, ResultType DEF IInv, Types, DiskTypes
  <1>b. IsPrefix(tip, tip')
    BY <1>a, ReportEffect, PrefixReflexive DEF Ledger
  <1>c. \A k \in Keys' : IsPrefix(k.t0, tip')
    <2>1. ASSUME NEW k \in Keys
          PROVE  IsPrefix(k.t0, tip')
      BY <1>a, <1>b, PrefixTransitive DEF Ledger
    <2>2. ASSUME NEW k \in Keys', k \notin Keys
          PROVE  IsPrefix(k.t0, tip')
      BY <1>b, <2>2, PinnedOnX
    <2> QED BY <2>1, <2>2
  <1>d. pc' \in {"classify", "record"} => IsPrefix(tip', x')
    BY ReportEffect DEF Ledger, Descends
  <1>e. Publishes =>
          /\ JobKey \in Keys /\ results[JobKey].granted /\ JobKey.t0 = x /\ tip = x
          /\ Entry \in [r : Tips, t0 : Tips] /\ Entry.t0 = x /\ Entry.r = results[JobKey].r
          /\ published \in Seq([r : Tips, t0 : Tips])
          /\ \A i \in DOMAIN published : IsPrefix(published[i].t0, Entry.t0)
    <2> SUFFICES ASSUME Publishes
                 PROVE  /\ JobKey \in Keys /\ results[JobKey].granted /\ JobKey.t0 = x /\ tip = x
                        /\ Entry \in [r : Tips, t0 : Tips] /\ Entry.t0 = x /\ Entry.r = results[JobKey].r
                        /\ published \in Seq([r : Tips, t0 : Tips])
                        /\ \A i \in DOMAIN published : IsPrefix(published[i].t0, Entry.t0)
      OBVIOUS
    <2>1. /\ JobKey \in Keys /\ results[JobKey].issued /\ job.t0 = x /\ tip = x
      BY DEF Publishes, IInv, JobKnown, JobJudged, Monitored, Working, Checking, Granting
    <2>2. JobKey.t0 = x /\ results[JobKey].granted /\ Entry.t0 = x /\ Entry.r = results[JobKey].r
      BY <2>1 DEF Ledger, JobKey, Key, Entry
    <2>3. Entry \in [r : Tips, t0 : Tips] /\ published \in Seq([r : Tips, t0 : Tips])
      BY <2>1, ResultType DEF Entry, IInv, Types
    <2>4. ASSUME NEW i \in DOMAIN published
          PROVE  IsPrefix(published[i].t0, Entry.t0)
      <3>1. published[i] \in Range(published)
        BY DEF Range
      <3>2. PICK k \in Keys : k.t0 = published[i].t0
        BY <3>1 DEF Ledger
      <3> QED BY <2>1, <2>2, <3>2 DEF Ledger
    <2> QED BY <2>1, <2>2, <2>3, <2>4
  <1>f. Publishes => /\ Range(published') \subseteq Range(published) \cup {Entry}
                     /\ Entry \in Range(published')
    BY <1>e, FileGrows DEF Ledger
  <1> DEFINE Covered(c) == \E k \in Keys : results[k].granted /\ c \in LandingRange(k.t0, results[k].r)
             Covers(c) == \E k \in Keys' : results'[k].granted /\ c \in LandingRange(k.t0, results'[k].r)
  <1>3. \A c : Covered(c) => Covers(c)
    BY <1>1
  <1>4. \A p \in Range(published') : \E k \in Keys' : results'[k].granted /\ k.t0 = p.t0 /\ results'[k].r = p.r
    <2>1. \A p \in Range(published) : \E k \in Keys' : results'[k].granted /\ k.t0 = p.t0 /\ results'[k].r = p.r
      BY <1>1 DEF Ledger
    <2>2. Publishes => \E k \in Keys' : results'[k].granted /\ k.t0 = Entry.t0 /\ results'[k].r = Entry.r
      BY <1>1, <1>e
    <2> QED BY <1>f, <2>1, <2>2, FileEffect
  <1>5. /\ \A i, j \in DOMAIN published' : published'[i].r = published'[j].r => i = j
        /\ \A i, j \in DOMAIN published' : i <= j => IsPrefix(published'[i].t0, published'[j].t0)
    <2>1. CASE published' = published
      BY <2>1 DEF Ledger
    <2>2. CASE Publishes
      BY <1>e, <2>2, FileGrows DEF Ledger
    <2> QED BY <2>1, <2>2, FileEffect
  <1>6. pc' = "push" => \E p \in Range(published') : p.r = results'[JobKey'].r
    <2> SUFFICES ASSUME pc' = "push"
                 PROVE  \E p \in Range(published') : p.r = results'[JobKey'].r
      OBVIOUS
    <2>1. CASE Others
      <3>1. pc = "push" /\ job' = job /\ published' = published
        BY <2>1, OthersFrame DEF cycle, disk
      <3>2. JobKey' = JobKey /\ JobKey \in Keys
        BY <3>1 DEF JobKey, Key, IInv, JobKnown, Checking, Granting
      <3> QED BY <1>1, <3>1, <3>2 DEF Ledger
    <2>2. CASE Loop
      <3>1. pc \in Working
        BY <2>2, EarlySteps DEF ReadQueue, WatchTarget, ClassifyMove, RecordTip, PickItem, Abort, EndCycle
      <3>2. RecordPublished
        BY <2>2, <3>1, Onward DEF Checking, Granting
      <3>3. pc = "publish" /\ job' = job
        BY <3>2 DEF RecordPublished
      <3>4. JobKey' = JobKey /\ JobKey \in Keys /\ Entry.r = results[JobKey].r
        BY <3>3 DEF JobKey, Key, IInv, JobKnown, Checking, Granting, Entry
      <3>5. \E p \in Range(published') : p.r = Entry.r
        BY <1>f, <3>2, FileEffect
      <3> QED BY <1>1, <3>4, <3>5
    <2> QED BY <2>1, <2>2 DEF Next
  <1> HIDE DEF Covered, Covers
  <1>7. \A c \in Contents(tip) : c[1] = Human \/ c \in reported' \/ Covers(c)
    BY <1>2, <1>3 DEF Ledger, Accounted, Covered
  <1>8. pc = "record" => \A c \in Contents(x) : c[1] = Human \/ c \in reported' \/ Covers(c)
    BY <1>2, <1>3 DEF Ledger, Accounted, Covered
  <1>9. reported' = reported \cup OutOfBand =>
          \A c \in Contents(x) : c[1] = Human \/ c \in reported' \/ Covers(c)
    BY <1>2, <1>3, MoveIsAccounted DEF Covered
  <1>10. \A c \in Contents(tip') : c[1] = Human \/ c \in reported' \/ Covers(c)
    BY <1>7, <1>8, ReportEffect
  <1>11. pc' = "record" => \A c \in Contents(x') : c[1] = Human \/ c \in reported' \/ Covers(c)
    BY <1>8, <1>9, ReportEffect
  <1>12. Accounted(tip)' /\ (pc' = "record" => Accounted(x)')
    BY <1>10, <1>11 DEF Accounted, Covers, Contents, LandingRange
  <1> QED BY <1>1, <1>c, <1>d, <1>4, <1>5, <1>6, <1>12 DEF Ledger, Contents

---------------------------------------------------------------------------
\* What the file holds are tips.
LEMMA EntryTypes ==
  ASSUME NEW list \in Seq([r : Tips, t0 : Tips]), NEW p \in Range(list)
  PROVE  p.r \in Tips /\ p.t0 \in Tips
  <1> DEFINE R == [r : Tips, t0 : Tips]
  <1>1. list \in Seq(R)
    OBVIOUS
  <1> HIDE DEF R
  <1>2. p \in R
    <2>1. PICK i \in DOMAIN list : p = list[i]
      BY DEF Range
    <2> QED BY <1>1, <2>1
  <1> QED BY <1>2 DEF R

LEMMA PublishedTypes ==
  ASSUME IInv, NEW p \in Range(published)
  PROVE  p.r \in Tips /\ p.t0 \in Tips
  BY EntryTypes DEF IInv, Types

\* Finitely many keys have finitely many results.
LEMMA FiniteResults ==
  ASSUME NEW K, IsFiniteSet(K), NEW table, NEW G \in SUBSET K, NEW T,
         \A k \in G : table[k].r \in T, \A y \in T : \E k \in G : y = table[k].r
  PROVE  IsFiniteSet(T)
  <1> DEFINE f == [k \in G |-> table[k].r]
  <1>1. IsFiniteSet(G)
    BY FS_Subset
  <1>2. f \in Surjection(G, T)
    BY DEF Surjection
  <1> HIDE DEF f
  <1> QED BY <1>1, <1>2, FS_Surjection

\* What would be the first to be forgotten is on record as landed, or can no
\* longer land, as long as the bound holds.
LEMMA FileKeeps ==
  ASSUME IInv, Next, Ledger, FileSuffices, NEW p \in Range(published),
         IsStrictPrefix(tip, p.r)
  PROVE  p \in Range(published')
  <1>1. CASE published' = published
    BY <1>1
  <1>2. CASE Publishes /\ p \notin Range(published')
    <2>1. /\ JobKey \in Keys /\ results[JobKey].issued /\ job.t0 = x /\ tip = x
      BY <1>2 DEF Publishes, IInv, JobKnown, JobJudged, Monitored, Working, Checking, Granting
    <2>2. JobKey.t0 = x /\ results[JobKey].granted /\ Entry.t0 = x /\ Entry.r = results[JobKey].r
      BY <2>1 DEF Ledger, JobKey, Key, Entry
    <2>3. Entry \in [r : Tips, t0 : Tips] /\ published \in Seq([r : Tips, t0 : Tips])
      BY <2>1, ResultType DEF Entry, IInv, Types
    <2> DEFINE n == Len(published)
    <2>4. n \in Nat /\ DOMAIN published = 1..n /\ \A i \in 1..n : published[i] \in Range(published)
      BY <2>3 DEF Range
    <2>5. \A i \in 1..n : \E k \in Keys : /\ results[k].granted /\ k.t0 = published[i].t0
                                          /\ results[k].r = published[i].r
      BY <2>4 DEF Ledger
    <2>6. \A i \in DOMAIN published : IsPrefix(published[i].t0, Entry.t0)
      BY <2>1, <2>2, <2>4, <2>5 DEF Ledger
    <2>7. n = MaxPublished /\ p = published[1]
      BY <1>2, <2>3, <2>6, FileGrows DEF Ledger
    <2>8. 1 \in 1..n
      BY <2>4, <2>7, MaxPublishedAssumption
    <2> DEFINE h == p.t0
               T == Since(h)
    <2>9. PICK k \in Keys : results[k].granted /\ k.t0 = h /\ results[k].r = p.r
      BY <2>5, <2>7, <2>8
    <2>10. Cardinality(T) <= MaxPublished
      BY <2>9 DEF FileSuffices
    <2>11. Entry.r \in T
      <3>1. IsPrefix(h, JobKey.t0)
        BY <2>2, <2>4, <2>6, <2>7, <2>8
      <3> QED BY <2>1, <2>2, <3>1 DEF Since
    <2>12. \A i \in 1..n : published[i].r \in T /\ published[i].r # Entry.r
      <3>1. \A i \in 1..n : IsPrefix(h, published[i].t0)
        BY <2>4, <2>7, <2>8 DEF Ledger
      <3>2. \A i \in 1..n : published[i].r \in T
        BY <2>5, <3>1 DEF Since
      <3> QED BY <1>2, <2>4, <3>2 DEF Publishes
    <2>13. \A i, j \in 1..n : published[i].r = published[j].r => i = j
      BY <2>4 DEF Ledger
    <2>14. IsFiniteSet(T)
      <3> DEFINE G == {l \in Keys : results[l].granted /\ IsPrefix(h, l.t0)}
      <3>1. /\ G \in SUBSET Keys /\ \A l \in G : results[l].r \in T
            /\ \A y \in T : \E l \in G : y = results[l].r
        BY DEF Since
      <3> HIDE DEF G, T
      <3> QED BY <3>1, FiniteResults DEF Ledger
    <2> DEFINE f == [i \in 1..(n + 1) |-> IF i <= n THEN published[i].r ELSE Entry.r]
    <2> HIDE DEF n, T
    <2>15. f \in Injection(1..(n + 1), T)
      <3>1. f \in [1..(n + 1) -> T]
        BY <2>4, <2>11, <2>12
      <3>2. ASSUME NEW i \in 1..(n + 1), NEW j \in 1..(n + 1), f[i] = f[j]
            PROVE  i = j
        BY <2>4, <2>12, <2>13, <3>2
      <3> HIDE DEF f
      <3> QED BY <3>1, <3>2 DEF Injection, IsInjective
    <2> HIDE DEF f
    <2>16. Cardinality(1..(n + 1)) <= Cardinality(T) /\ Cardinality(T) \in Nat
      BY <2>14, <2>15, FS_Injection, FS_CardinalityType
    <2>17. Cardinality(1..(n + 1)) = n + 1
      <3>1. n + 1 \in Int /\ 1 \in Int /\ ~(1 > n + 1) /\ (n + 1) - 1 + 1 = n + 1
        BY <2>4
      <3> QED BY <3>1, FS_Interval
    <2> QED BY <2>4, <2>7, <2>10, <2>16, <2>17, MaxPublishedAssumption
  <1> QED BY <1>1, <1>2, FileEffect

\* A report names only what others put there.
LEMMA OutOfBandIsTheirs ==
  ASSUME IInv, Attributed(x)
  PROVE  OutOfBand \subseteq theirs
  <1> SUFFICES ASSUME NEW c \in OutOfBand, c \notin theirs
               PROVE  FALSE
    OBVIOUS
  <1> DEFINE own == {p \in Range(published) : IsPrefix(p.r, x) /\ ~IsPrefix(p.r, tip)}
  <1>1. /\ c \in Contents(x) /\ c \notin Contents(tip)
        /\ \A p \in own : c \notin LandingRange(p.t0, p.r)
    BY DEF OutOfBand, LandingRange
  <1>2. PICK p \in Range(published) : IsPrefix(p.r, x) /\ c \in LandingRange(p.t0, p.r)
    BY <1>1 DEF Attributed
  <1>3. p.r \in Tips /\ tip \in Tips
    BY PublishedTypes DEF IInv, Types
  <1>4. IsPrefix(p.r, tip)
    BY <1>1, <1>2
  <1>5. c \in Contents(tip)
    BY <1>2, <1>3, <1>4, PrefixContents DEF LandingRange
  <1> QED BY <1>1, <1>5

\* Of two tips that a third continues, one continues the other.
LEMMA PrefixesCompare ==
  ASSUME NEW s \in Tips, NEW t \in Tips, NEW u \in Tips, IsPrefix(s, u), IsPrefix(t, u)
  PROVE  IsPrefix(s, t) \/ IsPrefix(t, s)
  <1>1. Len(s) \in Nat /\ Len(t) \in Nat
    BY DEF Tips
  <1>2. (\A i \in 1..Len(s) : s[i] = u[i]) /\ (\A i \in 1..Len(t) : t[i] = u[i])
    BY PrefixElements
  <1>3. CASE Len(s) <= Len(t)
    <2>1. \A i \in 1..Len(s) : s[i] = t[i]
      BY <1>1, <1>2, <1>3
    <2> QED BY <1>3, <2>1, PrefixElements
  <1>4. CASE Len(t) <= Len(s)
    <2>1. \A i \in 1..Len(t) : t[i] = s[i]
      BY <1>1, <1>2, <1>4
    <2> QED BY <1>4, <2>1, PrefixElements
  <1> QED BY <1>1, <1>3, <1>4

\* Others' pushes continue the target, with commits that are theirs.
LEMMA PastIsTheirs ==
  ASSUME IInv, Next, PushedPast
  PROVE  /\ IsPrefix(target, target')
         /\ Contents(target') \subseteq Contents(target) \cup theirs'
  <1>1. target \in Tips /\ target' \in Tips
    BY RemoteTyped DEF RemoteTypes, IInv, Types
  <1>2. ASSUME NEW who \in {Agent, Human}, target' = Append(target, <<who, budget.disturb>>)
        PROVE  IsPrefix(target, target')
    <2> DEFINE c == <<who, budget.disturb>>
    <2>1. c \in Commits /\ target \in Seq(Commits)
      BY <1>1 DEF IInv, Types, Commits, Tips
    <2> HIDE DEF c
    <2>2. target' = Append(target, c)
      BY <1>2 DEF c
    <2>3. Len(target) <= Len(target') /\ \A i \in 1..Len(target) : target[i] = target'[i]
      BY <2>1, <2>2
    <2> QED BY <1>1, <2>3, PrefixElements
  <1>3. ASSUME NEW s \in Subjects, phase[s] \in {"review", "integration"},
               target' = Merged(target, Sub(s, Current(s)))
        PROVE  IsPrefix(target, target')
    <2>1. Sub(s, Current(s)) \in SubRow
      BY <1>3, LiveHasOne DEF Live, IInv
    <2> QED BY <1>1, <1>3, <2>1, MergedExtends
  <1>4. theirs' = theirs \cup LandingRange(target, target')
    BY DEF PushedPast
  <1> QED BY <1>2, <1>3, <1>4 DEF PushedPast, LandingRange

\* A result that lands continues the recorded tip, and the file names it: for
\* this tip, or for an earlier one on which the same result was computed.
LEMMA PushIsAttributed ==
  ASSUME IInv, Ledger, pc = "push"
  PROVE  Attributed(results[JobKey].r)
  <1> DEFINE r == results[JobKey].r
  <1>1. /\ JobKey \in Keys /\ JobKey.t0 = x /\ tip = x
    BY DEF JobKey, Key, IInv, JobKnown, Monitored, Working, Checking, Granting
  <1>2. PICK p \in Range(published) : p.r = r
    BY DEF Ledger
  <1>3. PICK k \in Keys : k.t0 = p.t0 /\ results[k].r = p.r
    BY DEF Ledger
  <1>4. r \in Tips /\ tip \in Tips /\ k.t0 \in Tips
    BY <1>1, ResultType DEF IInv, Types
  <1>5. IsPrefix(tip, r)
    <2>1. r = Merged(x, Sub(JobKey.s, JobKey.n)) /\ JobKey.n \in 1..Current(JobKey.s) /\ JobKey.s \in Subjects
      BY <1>1, ResultType DEF IInv, ResultsMerged
    <2>2. Sub(JobKey.s, JobKey.n) \in SubRow
      BY <2>1, SubType DEF IInv
    <2> QED BY <1>1, <1>4, <2>1, <2>2, MergedExtends
  <1>6. Contents(k.t0) \subseteq Contents(tip)
    BY <1>4, PrefixContents DEF Ledger
  <1>7. IsPrefix(r, r)
    BY <1>4, PrefixReflexive
  <1> HIDE DEF r
  <1>8. \A c \in Contents(r) \ (Contents(tip) \cup theirs) :
          IsPrefix(p.r, r) /\ c \in LandingRange(p.t0, p.r)
    BY <1>2, <1>3, <1>6, <1>7 DEF LandingRange
  <1> QED BY <1>5, <1>8 DEF Attributed, r

LEMMA RememberedStays ==
  ASSUME IInv, Next, Ledger, Remembered, FileSuffices
  PROVE  Remembered'
  <1> DEFINE Free(h) == Contents(h) \subseteq Contents(tip') \cup theirs'
             Att(h) == /\ IsPrefix(tip', h)
                       /\ \A c \in Contents(h) \ (Contents(tip') \cup theirs') :
                            \E p \in Range(published') : IsPrefix(p.r, h) /\ c \in LandingRange(p.t0, p.r)
  <1>0. /\ tip \in Tips /\ tip' \in Tips /\ x \in Tips /\ target \in Tips /\ target' \in Tips
        /\ \A k \in Keys : k.t0 \in Tips
    BY DiskTyped, RemoteTyped, ResultType DEF IInv, Types, DiskTypes, RemoteTypes
  <1>1. IsPrefix(tip, tip') /\ Contents(tip) \subseteq Contents(tip') /\ theirs \subseteq theirs'
    <2>1. IsPrefix(tip, tip')
      BY <1>0, ReportEffect, PrefixReflexive DEF Ledger
    <2> QED BY <1>0, <2>1, PrefixContents, LandingsStay
  <1>2. ASSUME NEW h \in Tips, Attributed(h), IsPrefix(tip', h)
        PROVE  Att(h)
    <2> SUFFICES ASSUME NEW c \in Contents(h), c \notin Contents(tip), c \notin theirs
                 PROVE  \E p \in Range(published') : IsPrefix(p.r, h) /\ c \in LandingRange(p.t0, p.r)
      BY <1>1, <1>2
    <2>1. PICK p \in Range(published) : IsPrefix(p.r, h) /\ c \in LandingRange(p.t0, p.r)
      BY <1>2 DEF Attributed
    <2>2. p.r \in Tips /\ IsPrefix(tip, h)
      BY <1>2, PublishedTypes DEF Attributed
    <2>3. ~IsPrefix(p.r, tip) /\ p.r # tip
      BY <1>0, <2>1, <2>2, PrefixContents DEF LandingRange
    <2>4. IsStrictPrefix(tip, p.r)
      BY <1>0, <2>1, <2>2, <2>3, PrefixesCompare DEF IsStrictPrefix
    <2> QED BY <2>1, <2>4, FileKeeps
  <1>3. \A h : Plain(h) => Free(h)
    BY <1>1 DEF Plain
  <1>4. PushedPast => /\ IsPrefix(target, target')
                      /\ Contents(target') \subseteq Contents(target) \cup theirs'
    BY PastIsTheirs
  <1>5. Rewritten => Free(target')
    <2>1. ASSUME NEW h \in Tips, IsPrefix(h, tip)
          PROVE  Free(h)
      BY <1>0, <1>1, <2>1, PrefixContents
    <2>2. Free(<<>>)
      BY DEF Contents, Range
    <2>3. IsPrefix(tip, tip)
      BY <1>0, PrefixReflexive
    <2>4. ASSUME Rewritten
          PROVE  target' = <<>> \/ IsPrefix(target', tip)
      BY <2>3, <2>4 DEF Rewritten, Ledger
    <2> HIDE DEF Free
    <2> QED BY <1>0, <2>1, <2>2, <2>4
  \* The target.
  <1>6. Free(target') \/ Att(target')
    <2>1. CASE pc = "record" /\ tip' = x /\ UNCHANGED remote
      <3>1. target' = target /\ (Plain(target) \/ IsPrefix(x, target))
        BY <2>1 DEF remote, Remembered
      <3>2. CASE Plain(target)
        <4>1. Free(target)
          BY <1>3, <3>2
        <4> HIDE DEF Free, Att
        <4> QED BY <3>1, <4>1
      <3>3. CASE ~Plain(target)
        <4>1. Attributed(target) /\ IsPrefix(tip', target)
          BY <2>1, <3>1, <3>3 DEF Remembered
        <4>2. Att(target)
          BY <1>0, <1>2, <4>1
        <4> HIDE DEF Free, Att
        <4> QED BY <3>1, <4>2
      <3> QED BY <3>2, <3>3
    <2>2. CASE tip' = tip
      <3>1. CASE UNCHANGED remote
        <4>1. target' = target
          BY <3>1 DEF remote
        <4>2. Attributed(target) => Att(target)
          BY <1>0, <1>2, <2>2 DEF Attributed
        <4> HIDE DEF Free, Att
        <4> QED BY <1>3, <4>1, <4>2 DEF Remembered
      <3>2. CASE Pushes
        <4>1. target' = results[JobKey].r /\ Attributed(results[JobKey].r)
          BY <3>2, PushIsAttributed DEF Pushes
        <4> DEFINE r == results[JobKey].r
        <4>2. Attributed(r) /\ target' = r /\ r \in Tips /\ IsPrefix(tip', r)
          BY <1>0, <2>2, <4>1 DEF Attributed
        <4> HIDE DEF r, Att, Free
        <4> QED BY <1>2, <4>2
      <3>3. CASE PushedPast
        <4>1. CASE Plain(target)
          <5>1. Free(target)
            BY <1>3, <4>1
          <5> QED BY <1>4, <3>3, <5>1
        <4>2. CASE Attributed(target)
          <5>1. Att(target)
            BY <1>0, <1>2, <2>2, <4>2 DEF Attributed
          <5>2. IsPrefix(tip', target')
            BY <1>0, <1>4, <3>3, <5>1, PrefixTransitive
          <5>3. ASSUME NEW c \in Contents(target'), c \notin Contents(tip'), c \notin theirs'
                PROVE  \E p \in Range(published') : IsPrefix(p.r, target') /\ c \in LandingRange(p.t0, p.r)
            <6>1. c \in Contents(target)
              BY <1>4, <3>3, <5>3
            <6>2. PICK p \in Range(published') : IsPrefix(p.r, target) /\ c \in LandingRange(p.t0, p.r)
              BY <5>1, <5>3, <6>1
            <6>3. p.r \in Tips
              BY DiskTyped, EntryTypes DEF DiskTypes
            <6>4. IsPrefix(p.r, target')
              BY <1>0, <1>4, <3>3, <6>2, <6>3, PrefixTransitive
            <6> QED BY <6>2, <6>4
          <5> QED BY <5>2, <5>3
        <4> QED BY <4>1, <4>2 DEF Remembered
      <3>4. CASE Rewritten
        BY <1>5, <3>4
      <3> QED BY <3>1, <3>2, <3>3, <3>4, RemoteEffect
    <2> QED BY <2>1, <2>2, ReportEffect
  \* The move that is being classified.
  <1>7. pc' \in {"classify", "record"} => Att(x') /\ (Free(target') \/ IsPrefix(x', target'))
    <2> SUFFICES ASSUME pc' \in {"classify", "record"}
                 PROVE  Att(x') /\ (Free(target') \/ IsPrefix(x', target'))
      OBVIOUS
    <2>1. CASE pc \in {"classify", "record"} /\ UNCHANGED <<x, tip>>
      <3>1. Attributed(x) /\ (Plain(target) \/ IsPrefix(x, target))
        BY <2>1 DEF Remembered
      <3>2. Att(x)
        BY <1>0, <1>2, <2>1, <3>1 DEF Attributed
      <3>3. Free(target') \/ IsPrefix(x, target')
        <4>1. CASE UNCHANGED remote
          BY <1>3, <3>1, <4>1 DEF remote
        <4>2. CASE PushedPast
          <5>1. Plain(target) => Free(target')
            BY <1>3, <1>4, <4>2
          <5>2. IsPrefix(x, target) => IsPrefix(x, target')
            BY <1>0, <1>4, <4>2, PrefixTransitive
          <5> QED BY <3>1, <5>1, <5>2
        <4>3. CASE Rewritten
          BY <1>5, <4>3
        <4> QED BY <2>1, <4>1, <4>2, <4>3, RemoteEffect DEF Pushes
      <3> HIDE DEF Att, Free
      <3> QED BY <2>1, <3>2, <3>3
    <2>2. CASE x' = target /\ tip' = tip /\ Descends(target) /\ UNCHANGED remote
      <3>1. IsPrefix(tip', target) /\ target' = target /\ IsPrefix(target, target)
        BY <1>0, <2>2, PrefixReflexive DEF Descends, remote
      <3>2. Att(target)
        <4>1. CASE Plain(target)
          <5>1. Free(target)
            BY <1>3, <4>1
          <5> QED BY <3>1, <5>1
        <4>2. CASE Attributed(target)
          BY <1>0, <1>2, <3>1, <4>2
        <4> QED BY <4>1, <4>2 DEF Remembered
      <3> HIDE DEF Att, Free
      <3> QED BY <2>2, <3>1, <3>2
    <2> HIDE DEF Att, Free
    <2> QED BY <2>1, <2>2, ReportEffect
  <1>8. reported' \subseteq theirs'
    BY <1>1, ReportEffect, OutOfBandIsTheirs DEF Remembered
  <1> HIDE DEF Att, Free
  <1>9. (Plain(target) \/ Attributed(target))'
    BY <1>6 DEF Att, Free, Plain, Attributed, Contents, LandingRange
  <1>10. (pc \in {"classify", "record"} => Attributed(x) /\ (Plain(target) \/ IsPrefix(x, target)))'
    BY <1>7 DEF Att, Free, Plain, Attributed, Contents, LandingRange
  <1> QED BY <1>8, <1>9, <1>10 DEF Remembered

LEMMA ProvenanceStutters ==
  ASSUME UNCHANGED vars
  PROVE  (Ledger => Ledger') /\ (Remembered => Remembered')
  <1>1. UNCHANGED <<target, ours, theirs, tip, published, pc, x, job, results, reported>>
    BY DEF vars, remote, disk, cycle, service
  <1>2. Keys' = Keys /\ JobKey' = JobKey
    BY <1>1 DEF Keys, JobKey, Key
  <1>3. Ledger => Ledger'
    BY <1>1, <1>2 DEF Ledger, Accounted, Contents, LandingRange
  <1>4. Remembered => Remembered'
    BY <1>1 DEF Remembered, Plain, Attributed, Contents, LandingRange
  <1> QED BY <1>3, <1>4

LEMMA ProvenanceStarts ==
  ASSUME Init
  PROVE  Ledger /\ Remembered
  <1>1. /\ Keys = {} /\ published = <<>> /\ reported = {} /\ pc = "idle"
        /\ target = <<>> /\ tip = <<>>
    BY DEF Init, Keys
  <1>2. Contents(<<>>) = {} /\ Range(<<>>) = {} /\ DOMAIN <<>> = {}
    BY DEF Contents, Range
  <1>3. Ledger
    BY <1>1, <1>2, FS_EmptySet DEF Ledger, Accounted
  <1>4. Remembered
    BY <1>1, <1>2 DEF Remembered, Plain
  <1> QED BY <1>3, <1>4

\* Whatever moved the target, once a tip is recorded every commit in it is a
\* human's, was reported as unreviewed, or is in the range of a result that
\* authority was issued for: across deaths of the integrator around its push,
\* forced pushes, and after its file has forgotten results (landing.rs,
\* state.rs).  This is the second part of ProvenanceKept, of every commit of
\* the tip and without a bound.
THEOREM LandingsAreAccounted == Spec => []Accounted(tip)
  <1>1. Init => IInv /\ Ledger
    BY InitInvariant, ProvenanceStarts
  <1>2. IInv /\ Ledger /\ [Next]_vars => IInv' /\ Ledger'
    BY InvariantStays, LedgerStays, ProvenanceStutters
  <1>3. Ledger => Accounted(tip)
    BY DEF Ledger
  <1> QED BY <1>1, <1>2, <1>3, PTL DEF Spec

\* The integrator's own landings are never reported as unreviewed, and every
\* agent commit that others put on a recorded tip was, as long as the file
\* (state.rs, MAX_PUBLISHED) is not outrun: while a result is not recorded as
\* landed, authority was issued for no more than MaxPublished results since
\* the tip that it was computed on.
THEOREM ProvenanceIsKept == Spec /\ []FileSuffices => []ProvenanceKept
  <1> DEFINE Inv == IInv /\ Ledger /\ Remembered
  <1>1. Init => Inv
    BY InitInvariant, ProvenanceStarts
  <1>2. Inv /\ FileSuffices /\ [Next]_vars => Inv'
    BY InvariantStays, LedgerStays, RememberedStays, ProvenanceStutters
  <1>3. Inv => ProvenanceKept
    BY DEF Ledger, Accounted, Remembered, ProvenanceKept
  <1> QED BY <1>1, <1>2, <1>3, PTL DEF Spec
=============================================================================
