---------------------------- MODULE WorkflowProofs ----------------------------
(***************************************************************************)
(* Proofs about the completion workflow: what a publication leaves behind, *)
(* what reviews are worth, and that a submission leaves review on approvals*)
(* only, for any tasks, people, checks and policies.                       *)
(*                                                                         *)
(* WorkInv is the inductive invariant.  Its publication half says where on *)
(* the branch an intent's result was built, so that no revision lands      *)
(* twice, and that who may still push holds the target.  Its review half   *)
(* says that the completed reviews of a submission that stands are its     *)
(* approvals.  Steps that publish nothing, judge nothing or move one row   *)
(* only are framed by PubFrame, RevFrame and RowFrame; every other action  *)
(* has a lemma of its own.                                                 *)
(***************************************************************************)
EXTENDS Workflow, FiniteSetTheorems, TLAPS

USE WorkflowAssumption

---------------------------------------------------------------------------
(* Types and slots.                                                         *)

Kinds == ReviewKinds \cup {"integration"}
ReviewRow == [decision : {"approved", "changes_requested"}, by : People]
IntentRow == [gen : Nat, base : Revision, result : Revision, roster : Rosters]
ResultRow == [state : {"published", "not_published", "uncertain"}]
ReconRow == [disposition : {"published", "not_published", "target_moved"}, agent : BOOLEAN]
PolicyRow == [mode : Modes, automatic : Automatics, recovery : Recoveries, roster : Rosters,
              revision : Nat]

Types ==
  /\ subj \in [Tasks -> Subject]
  /\ DOMAIN acts \subseteq Key /\ acts \in [DOMAIN acts -> Activity]
  /\ DOMAIN reviews \subseteq DOMAIN acts /\ reviews \in [DOMAIN reviews -> ReviewRow]
  /\ DOMAIN intents \subseteq DOMAIN acts /\ intents \in [DOMAIN intents -> IntentRow]
  /\ DOMAIN results \subseteq DOMAIN intents /\ results \in [DOMAIN results -> ResultRow]
  /\ DOMAIN recons \subseteq DOMAIN intents /\ recons \in [DOMAIN recons -> ReconRow]
  /\ policy \in PolicyRow
  /\ landed \in Seq(Revision) /\ landed # <<>>

Slot(t, n, k, s) == [task |-> t, sub |-> n, kind |-> k, slot |-> s]

\* The slots of a submission and kind are numbered without a gap.
Dense(keys) ==
  \A t \in Tasks, n \in Nat, k \in Kinds :
    \E m \in Nat : \A s \in Nat : Slot(t, n, k, s) \in keys <=> s >= 1 /\ s <= m

\* The next slot of a submission and kind.
IsNext(keys, i) ==
  /\ i \in Key /\ i.slot >= 1
  /\ \A s \in Nat : Slot(i.task, i.sub, i.kind, s) \in keys <=> s >= 1 /\ s < i.slot

LEMMA UpTo == ASSUME NEW n \in Nat PROVE IsFiniteSet(1 .. n) /\ Cardinality(1 .. n) = n
  <1>1. 1 \in Int /\ n \in Int
    OBVIOUS
  <1>2. IsFiniteSet(1 .. n) /\ Cardinality(1 .. n) = IF 1 > n THEN 0 ELSE n - 1 + 1
    BY <1>1, FS_Interval, Zenon
  <1> QED BY <1>2

LEMMA KeyFields ==
  ASSUME NEW i \in Key
  PROVE  /\ i.task \in Tasks /\ i.sub \in Nat /\ i.kind \in Kinds /\ i.slot \in Nat
         /\ i = Slot(i.task, i.sub, i.kind, i.slot)
  BY DEF Key, Kinds, Slot

\* The activities of a submission and kind, and so their slots, are finitely many.
OfKind(as, t, n, k) == {i \in Of(as, t) : i.sub = n /\ i.kind = k}

LEMMA SlotCount ==
  ASSUME NEW as, DOMAIN as \subseteq Key, Dense(DOMAIN as),
         NEW t \in Tasks, NEW n \in Nat, NEW k \in Kinds
  PROVE  /\ IsFiniteSet(OfKind(as, t, n, k)) /\ Cardinality(OfKind(as, t, n, k)) \in Nat
         /\ \A s \in Nat : Slot(t, n, k, s) \in DOMAIN as
                          <=> s >= 1 /\ s <= Cardinality(OfKind(as, t, n, k))
  <1> DEFINE S == OfKind(as, t, n, k)
  <1>1. PICK m \in Nat : \A s \in Nat : Slot(t, n, k, s) \in DOMAIN as <=> s >= 1 /\ s <= m
    BY DEF Dense
  <1> DEFINE f == [s \in 1 .. m |-> Slot(t, n, k, s)]
  <1>2. \A s \in 1 .. m : f[s] \in S
    <2> SUFFICES ASSUME NEW s \in 1 .. m PROVE f[s] \in S
      OBVIOUS
    <2>1. s \in Nat /\ s >= 1 /\ s <= m /\ f[s] = Slot(t, n, k, s)
      OBVIOUS
    <2>2. f[s] \in DOMAIN as
      BY <1>1, <2>1
    <2>3. f[s].task = t /\ f[s].sub = n /\ f[s].kind = k
      BY <2>1 DEF Slot
    <2> QED BY <2>2, <2>3 DEF Of, OfKind
  <1>3. \A s, r \in 1 .. m : f[s] = f[r] => s = r
    BY DEF Slot
  <1>4. ASSUME NEW i \in S PROVE \E s \in 1 .. m : f[s] = i
    <2>1. i \in Key /\ i.task = t /\ i.sub = n /\ i.kind = k /\ i \in DOMAIN as
      BY DEF Of, OfKind
    <2>2. i.slot \in Nat /\ i = Slot(t, n, k, i.slot)
      BY <2>1, KeyFields
    <2>3. i.slot >= 1 /\ i.slot <= m
      BY <1>1, <2>1, <2>2
    <2> QED BY <2>2, <2>3
  <1>5. f \in Bijection(1 .. m, S)
    BY <1>2, <1>3, <1>4 DEF Bijection, Injection, Surjection, IsInjective
  <1>6. IsFiniteSet(1 .. m) /\ Cardinality(1 .. m) = m
    BY UpTo
  <1>7. IsFiniteSet(S) /\ Cardinality(S) = m
    <2> HIDE DEF S, f
    <2> DEFINE U == 1 .. m
    <2>1. ExistsBijection(U, S)
      BY <1>5 DEF ExistsBijection
    <2>2. IsFiniteSet(U) /\ Cardinality(U) = m
      BY <1>6
    <2> HIDE DEF U
    <2> QED BY <2>1, <2>2, FS_Bijection
  <1> QED BY <1>1, <1>7

LEMMA NextFree ==
  ASSUME NEW as, DOMAIN as \subseteq Key, Dense(DOMAIN as),
         NEW t \in Tasks, NEW n \in Nat, NEW k \in Kinds
  PROVE  /\ IsNext(DOMAIN as, NextSlot(as, t, n, k))
         /\ NextSlot(as, t, n, k).task = t /\ NextSlot(as, t, n, k).sub = n
         /\ NextSlot(as, t, n, k).kind = k
         /\ NextSlot(as, t, n, k) \notin DOMAIN as
  <1> DEFINE m == Cardinality(OfKind(as, t, n, k))
  <1>1. m \in Nat /\ \A s \in Nat : Slot(t, n, k, s) \in DOMAIN as <=> s >= 1 /\ s <= m
    BY SlotCount
  <1>8. NextSlot(as, t, n, k) = Slot(t, n, k, m + 1)
    BY <1>1 DEF NextSlot, Slot, OfKind
  <1> HIDE DEF m
  <1> DEFINE r == m + 1
  <1>12. r \in Nat /\ r >= 1 /\ ~(r <= m) /\ \A s \in Nat : s <= m <=> s < r
    BY <1>1
  <1> HIDE DEF r
  <1>13. NextSlot(as, t, n, k) = Slot(t, n, k, r)
    BY <1>8 DEF r
  <1>9. /\ Slot(t, n, k, r) \in Key /\ Slot(t, n, k, r).task = t
        /\ Slot(t, n, k, r).sub = n /\ Slot(t, n, k, r).kind = k
        /\ Slot(t, n, k, r).slot = r
    BY <1>12 DEF Slot, Key, Kinds
  <1>10. Slot(t, n, k, r) \notin DOMAIN as
    BY <1>1, <1>12
  <1>11. \A s \in Nat : Slot(t, n, k, s) \in DOMAIN as <=> s >= 1 /\ s < r
    BY <1>1, <1>12
  <1> QED BY <1>12, <1>13, <1>9, <1>10, <1>11 DEF IsNext

LEMMA DenseGrows ==
  ASSUME NEW D, D \subseteq Key, Dense(D), NEW N, \A i \in N : IsNext(D, i)
  PROVE  Dense(D \cup N)
  <1> SUFFICES ASSUME NEW t \in Tasks, NEW n \in Nat, NEW k \in Kinds
               PROVE  \E m \in Nat : \A s \in Nat :
                        Slot(t, n, k, s) \in D \cup N <=> s >= 1 /\ s <= m
    BY DEF Dense
  <1>1. PICK m \in Nat : \A s \in Nat : Slot(t, n, k, s) \in D <=> s >= 1 /\ s <= m
    BY DEF Dense
  <1>2. ASSUME NEW s \in Nat, Slot(t, n, k, s) \in N PROVE s = m + 1
    <2> DEFINE i == Slot(t, n, k, s)
    <2>1. i.task = t /\ i.sub = n /\ i.kind = k /\ i.slot = s
      BY DEF Slot
    <2>2. s >= 1 /\ \A r \in Nat : Slot(t, n, k, r) \in D <=> r >= 1 /\ r < s
      BY <1>2, <2>1 DEF IsNext
    <2>3. ~(m + 1 < s)
      BY <1>1, <2>2
    <2>4. ~(s < m + 1)
      BY <1>1, <2>2
    <2> QED BY <2>3, <2>4
  <1>3. CASE Slot(t, n, k, m + 1) \in N
    <2>1. \A s \in Nat : Slot(t, n, k, s) \in D \cup N <=> s >= 1 /\ s <= m + 1
      BY <1>1, <1>2, <1>3
    <2>2. m + 1 \in Nat
      OBVIOUS
    <2> QED BY <2>1, <2>2
  <1>4. CASE Slot(t, n, k, m + 1) \notin N
    <2>1. \A s \in Nat : Slot(t, n, k, s) \in D \cup N <=> s >= 1 /\ s <= m
      BY <1>1, <1>2, <1>4
    <2> QED BY <2>1
  <1> QED BY <1>3, <1>4

---------------------------------------------------------------------------
(* The invariant.                                                           *)

\* Publications.  The target is held for what is not settled, and by one activity.
Held ==
  /\ \A i \in DOMAIN intents \ DOMAIN recons : acts[i].state # "completed" => acts[i].hold = "held"
  /\ \A i, j \in DOMAIN acts : acts[i].hold = "held" /\ acts[j].hold = "held" => i = j

\* An intent is of an integration, and expects the branch as it was at its length then.
IntentsTell ==
  \A i \in DOMAIN intents :
    /\ i.kind = "integration" /\ i.task \in Tasks
    /\ \E n \in 1 .. Len(landed) :
         /\ intents[i].base = landed[n]
         /\ \/ intents[i].result = landed[n] /\ Contained(i)
            \/ intents[i].result = [task |-> i.task, sub |-> i.sub, at |-> n]

\* Who is cleared to push has passed its checks and would change the target.
ClearedMay ==
  \A i \in DOMAIN acts : acts[i].push = "cleared" =>
    /\ i \in DOMAIN intents
    /\ intents[i].roster \subseteq acts[i].passed
    /\ intents[i].base # intents[i].result

Elsewhere(n) == landed[n].task = NoTask
Foreigns == {n \in 1 .. Len(landed) : Elsewhere(n)}

\* The branch never has a revision twice: a result says at which length it was built, and
\* pushes from elsewhere are counted.
BranchGrows ==
  /\ \A m, n \in 1 .. Len(landed) : landed[m] = landed[n] => m = n
  /\ \A n \in 1 .. Len(landed) : landed[n].at < n
  /\ \A n \in 1 .. Len(landed) : ~Elsewhere(n) => landed[n].at = n - 1
  /\ \A n \in Foreigns : landed[n].at < Cardinality(Foreigns)

\* A reconciled activity is closed; its publisher was stopped when an agent reconciled it.
ReconciledEnds ==
  \A i \in DOMAIN recons :
    /\ acts[i].state \notin {"queued", "active"}
    /\ recons[i].agent => acts[i].push # "cleared"

PubInv ==
  /\ Held /\ IntentsTell /\ ClearedMay /\ BranchGrows /\ ReconciledEnds
  /\ LandingsChecked /\ FinalizedIsLanded /\ AgentNonPublicationIsFinal

\* Reviews.  Submissions are counted, and nothing is judged before the first.
Submitted ==
  /\ \A i \in DOMAIN acts : i.sub >= 1 /\ i.sub <= subj[i.task].sub
  /\ \A t \in Tasks : subj[t].phase = "none" <=> subj[t].sub = 0

\* A subject is handed back only when superseded and quiet.
Superseded ==
  \A t \in Tasks :
    /\ subj[t].phase = "revision_needed" => subj[t].superseded /\ Quiescent(acts, t)
    /\ subj[t].superseded => subj[t].phase \in {"revision_needed", "done"}

MayDecide(p, kind) ==
  \/ p \in Agents /\ kind \in {"agent_review", "either_review"}
  \/ p \in Humans /\ kind \in {"human_review", "either_review"}

\* The completed reviews are the decided ones, each by somebody of its class; those of a
\* submission that stands are approvals by others than its contributors.
Decided ==
  /\ \A i \in DOMAIN acts : i.kind \in ReviewKinds =>
       (acts[i].state = "completed" <=> i \in DOMAIN reviews)
  /\ \A i \in DOMAIN reviews :
       /\ i.kind \in ReviewKinds /\ MayDecide(reviews[i].by, i.kind)
       /\ i.sub = subj[i.task].sub /\ ~subj[i.task].superseded =>
            /\ reviews[i].decision = "approved"
            /\ reviews[i].by \notin subj[i.task].contributors

\* While a submission is in review, nobody integrates it.
Waiting ==
  \A i \in DOMAIN acts :
    i.kind = "integration" /\ i.sub = subj[i.task].sub /\ subj[i.task].phase = "review" =>
      acts[i].blocked /\ ~acts[i].live /\ i \notin DOMAIN intents

RevInv == Submitted /\ Superseded /\ Decided /\ Waiting /\ JudgedIsCurrent

WorkInv == Types /\ Dense(DOMAIN acts) /\ PubInv /\ RevInv

---------------------------------------------------------------------------
(* Rows of activities.                                                      *)

LEMMA InitialRow ==
  ASSUME NEW b \in BOOLEAN, NEW h \in {"none", "held", "released"}
  PROVE  /\ Activity0(b, h) \in Activity /\ Activity0(b, h).hold = h
         /\ Activity0(b, h).push = "idle" /\ Activity0(b, h).state = "queued"
         /\ ~Activity0(b, h).busy /\ ~Activity0(b, h).live /\ Activity0(b, h).blocked = b
  BY DEF Activity0, Activity

LEMMA DisownRow ==
  ASSUME NEW a \in Activity
  PROVE  /\ Disown(a) \in Activity /\ ~Disown(a).live /\ Disown(a).owner = Nobody
         /\ Disown(a).state = a.state /\ Disown(a).blocked = a.blocked /\ Disown(a).busy = a.busy
         /\ Disown(a).hold = a.hold /\ Disown(a).passed = a.passed /\ Disown(a).push = a.push
         /\ Disown(a).gen = a.gen
  BY DEF Disown, Activity

LEMMA CancelRow ==
  ASSUME NEW a \in Activity
  PROVE  /\ Cancel(a) \in Activity /\ Cancel(a).live = a.live
         /\ Cancel(a).state = IF a.state \in {"queued", "active"} THEN "canceled" ELSE a.state
         /\ Cancel(a).blocked = a.blocked /\ Cancel(a).busy = a.busy
         /\ Cancel(a).hold = a.hold /\ Cancel(a).passed = a.passed /\ Cancel(a).push = a.push
         /\ Cancel(a).gen = a.gen
  <1> DEFINE s == IF a.state \in {"queued", "active"} THEN "canceled" ELSE a.state
  <1>1. s \in {"queued", "active", "completed", "canceled", "recovery_required"}
    BY DEF Activity
  <1>2. Cancel(a) = [a EXCEPT !.state = s]
    BY DEF Cancel
  <1> HIDE DEF s
  <1>3. /\ Cancel(a) \in Activity /\ Cancel(a).live = a.live /\ Cancel(a).state = s
        /\ Cancel(a).blocked = a.blocked /\ Cancel(a).busy = a.busy
        /\ Cancel(a).hold = a.hold /\ Cancel(a).passed = a.passed /\ Cancel(a).push = a.push
        /\ Cancel(a).gen = a.gen
    BY <1>1, <1>2 DEF Activity
  <1> QED BY <1>3 DEF s

LEMMA CloseRow ==
  ASSUME NEW a \in Activity
  PROVE  /\ CloseHold(a) \in Activity /\ CloseHold(a).live = a.live
         /\ CloseHold(a).state = a.state
         /\ CloseHold(a).blocked = a.blocked /\ CloseHold(a).busy = a.busy
         /\ CloseHold(a).hold # "held" /\ CloseHold(a).passed = a.passed
         /\ CloseHold(a).push = a.push /\ CloseHold(a).gen = a.gen
  <1> DEFINE h == IF a.hold = "held" THEN "released" ELSE a.hold
  <1>1. h \in {"none", "released"}
    BY DEF Activity
  <1>2. CloseHold(a) = [a EXCEPT !.hold = h]
    BY DEF CloseHold
  <1> HIDE DEF h
  <1> QED BY <1>1, <1>2 DEF Activity

ActsTyped ==
  /\ DOMAIN acts \subseteq DOMAIN acts' /\ DOMAIN acts' \subseteq Key
  /\ acts' \in [DOMAIN acts' -> Activity]

\* Only the row of i is rewritten.
Rewritten(i, new) ==
  /\ DOMAIN acts' = DOMAIN acts /\ acts'[i] = new /\ i \in DOMAIN acts
  /\ \A j \in DOMAIN acts \ {i} : acts'[j] = acts[j]

LEMMA RowMoves ==
  ASSUME Types, NEW i \in DOMAIN acts, NEW new \in Activity, acts' = [acts EXCEPT ![i] = new]
  PROVE  Rewritten(i, new) /\ ActsTyped
  BY DEF Types, Rewritten, ActsTyped

ResultsTyped ==
  DOMAIN results' \subseteq DOMAIN intents /\ results' \in [DOMAIN results' -> ResultRow]

LEMMA TypesFrame ==
  ASSUME Types, ActsTyped, UNCHANGED <<subj, reviews, intents, recons, policy, landed>>,
         ResultsTyped \/ results' = results
  PROVE  Types'
  BY DEF Types, ActsTyped, ResultsTyped

---------------------------------------------------------------------------
(* What most steps leave alone.                                             *)

\* Steps that publish nothing: holds are only closed where nothing is unsettled, and an
\* activity with an intent is neither completed nor opened again.
PubQuiet ==
  /\ UNCHANGED <<intents, recons, landed>>
  /\ DOMAIN acts \subseteq DOMAIN acts'
  /\ \A i \in DOMAIN acts :
       /\ acts'[i].push = acts[i].push
       /\ acts[i].passed \subseteq acts'[i].passed
       /\ \/ acts'[i].hold = acts[i].hold
          \/ acts'[i].hold # "held" /\ i \notin DOMAIN intents \ DOMAIN recons
       /\ i \in DOMAIN intents => (acts'[i].state = "completed" <=> acts[i].state = "completed")
       /\ acts[i].state \notin {"queued", "active"} => acts'[i].state \notin {"queued", "active"}
  /\ \A i \in DOMAIN acts' \ DOMAIN acts : acts'[i].hold # "held" /\ acts'[i].push = "idle"

LEMMA PubFrame ==
  ASSUME PubInv, Types, PubQuiet
  PROVE  PubInv'
  <1> USE DEF PubInv, PubQuiet
  <1>0. /\ intents' = intents /\ recons' = recons /\ landed' = landed
        /\ DOMAIN intents \subseteq DOMAIN acts /\ DOMAIN recons \subseteq DOMAIN intents
    BY DEF Types
  <1>1. Held'
    <2>1. \A i \in DOMAIN intents \ DOMAIN recons : acts'[i].state # "completed" => acts'[i].hold = "held"
      BY <1>0 DEF Held
    <2>2. \A i \in DOMAIN acts' : acts'[i].hold = "held" => i \in DOMAIN acts /\ acts[i].hold = "held"
      OBVIOUS
    <2> QED BY <1>0, <2>1, <2>2 DEF Held
  <1>2. IntentsTell'
    <2>1. \A i : Contained(i)' <=> Contained(i)
      BY <1>0 DEF Contained
    <2> QED BY <1>0, <2>1 DEF IntentsTell
  <1>3. ClearedMay'
    BY <1>0 DEF ClearedMay
  <1>4. BranchGrows'
    BY <1>0 DEF BranchGrows, Foreigns, Elsewhere
  <1>5. ReconciledEnds'
    BY <1>0 DEF ReconciledEnds
  <1>6. LandingsChecked'
    <2> SUFFICES ASSUME NEW k \in DOMAIN landed, landed[k].task # NoTask
                 PROVE  \E i \in DOMAIN intents : /\ intents[i].result = landed[k]
                                                  /\ intents[i].roster \subseteq acts'[i].passed
      BY <1>0 DEF LandingsChecked
    <2>1. PICK i \in DOMAIN intents : /\ intents[i].result = landed[k]
                                      /\ intents[i].roster \subseteq acts[i].passed
      BY DEF LandingsChecked
    <2>2. acts[i].passed \subseteq acts'[i].passed
      BY <1>0, <2>1
    <2> QED BY <2>1, <2>2
  <1>7. FinalizedIsLanded'
    BY <1>0 DEF FinalizedIsLanded, Landed, Contained
  <1>8. AgentNonPublicationIsFinal'
    BY <1>0 DEF AgentNonPublicationIsFinal, Landed
  <1> QED BY <1>1, <1>2, <1>3, <1>4, <1>5, <1>6, <1>7, <1>8

\* Steps that judge nothing.
RevQuiet ==
  /\ UNCHANGED <<subj, reviews>>
  /\ DOMAIN acts \subseteq DOMAIN acts'
  /\ \A i \in DOMAIN acts :
       /\ i.kind \in ReviewKinds => (acts'[i].state = "completed" <=> acts[i].state = "completed")
       /\ acts'[i].busy => acts[i].busy \/ subj[i.task].phase # "revision_needed"
       /\ i.kind = "integration" /\ acts[i].blocked /\ ~acts[i].live
            /\ i.sub = subj[i.task].sub /\ subj[i.task].phase = "review" =>
          acts'[i].blocked /\ ~acts'[i].live
  /\ \A i \in DOMAIN acts' \ DOMAIN acts :
       /\ i.task \in Tasks /\ i.sub >= 1 /\ i.sub <= subj[i.task].sub
       /\ acts'[i].state # "completed" /\ ~acts'[i].busy
       /\ i.kind = "integration" /\ i.sub = subj[i.task].sub /\ subj[i.task].phase = "review" =>
            acts'[i].blocked /\ ~acts'[i].live
  /\ DOMAIN intents' \subseteq DOMAIN acts
  /\ \A i \in DOMAIN intents' \ DOMAIN intents : acts[i].live

LEMMA RevFrame ==
  ASSUME RevInv, Types, RevQuiet
  PROVE  RevInv'
  <1> USE DEF RevInv, RevQuiet
  <1>0. /\ subj' = subj /\ reviews' = reviews
        /\ DOMAIN reviews \subseteq DOMAIN acts
        /\ DOMAIN intents \subseteq DOMAIN acts
    BY DEF Types
  <1>1. Submitted'
    BY <1>0 DEF Submitted
  <1>2. Superseded'
    <2>1. ASSUME NEW t \in Tasks, subj[t].phase = "revision_needed" PROVE Quiescent(acts', t)
      BY <2>1 DEF Superseded, Quiescent, Of
    <2> QED BY <1>0, <2>1 DEF Superseded, Quiescent, Of
  <1>3. Decided'
    BY <1>0 DEF Decided
  <1>4. Waiting'
    <2> SUFFICES ASSUME NEW i \in DOMAIN acts', i.kind = "integration",
                        i.sub = subj[i.task].sub, subj[i.task].phase = "review"
                 PROVE  acts'[i].blocked /\ ~acts'[i].live /\ i \notin DOMAIN intents'
      BY <1>0 DEF Waiting
    <2>1. CASE i \in DOMAIN acts
      <3>1. acts[i].blocked /\ ~acts[i].live /\ i \notin DOMAIN intents
        BY <2>1 DEF Waiting
      <3> QED BY <2>1, <3>1
    <2>2. CASE i \notin DOMAIN acts
      BY <2>2
    <2> QED BY <2>1, <2>2
  <1>5. JudgedIsCurrent'
    BY <1>0 DEF JudgedIsCurrent
  <1> QED BY <1>1, <1>2, <1>3, <1>4, <1>5

\* A row of i that pushes nothing, opens no hold, completes nothing, starts no work of a
\* task handed back, and stays blocked until claimed.
Harmless(i, new) ==
  /\ new \in Activity
  /\ new.push = acts[i].push /\ acts[i].passed \subseteq new.passed
  /\ new.hold = acts[i].hold \/ (new.hold # "held" /\ i \notin DOMAIN intents \ DOMAIN recons)
  /\ new.state = "completed" <=> acts[i].state = "completed"
  /\ acts[i].state \notin {"queued", "active"} => new.state \notin {"queued", "active"}
  /\ new.busy => acts[i].busy \/ subj[i.task].phase # "revision_needed"
  /\ acts[i].blocked /\ ~acts[i].live => new.blocked /\ ~new.live

LEMMA RowFrame ==
  ASSUME WorkInv, NEW i \in DOMAIN acts, NEW new, Harmless(i, new), acts' = [acts EXCEPT ![i] = new],
         UNCHANGED <<subj, reviews, intents, recons, policy, landed>>,
         ResultsTyped \/ results' = results
  PROVE  WorkInv'
  <1> USE DEF Harmless
  <1>1. Rewritten(i, new) /\ ActsTyped
    BY RowMoves DEF WorkInv
  <1>2. Types'
    BY <1>1, TypesFrame DEF WorkInv
  <1>3. PubInv'
    <2>1. PubQuiet
      BY <1>1 DEF Rewritten, PubQuiet
    <2> QED BY <2>1, PubFrame DEF WorkInv
  <1>4. RevInv'
    <2>1. RevQuiet
      BY <1>1 DEF Rewritten, RevQuiet, WorkInv, Types
    <2> QED BY <2>1, RevFrame DEF WorkInv
  <1> QED BY <1>1, <1>2, <1>3, <1>4 DEF WorkInv, Rewritten

LEMMA LapseKeeps ==
  ASSUME WorkInv, NEW i \in DOMAIN acts, LapseActivity(i)
  PROVE  WorkInv'
  <1> DEFINE new == [acts[i] EXCEPT !.live = FALSE]
  <1>1. acts[i] \in Activity
    BY DEF WorkInv, Types
  <1>2. /\ new \in Activity /\ new.push = acts[i].push /\ new.passed = acts[i].passed
        /\ new.hold = acts[i].hold /\ new.state = acts[i].state /\ new.busy = acts[i].busy
        /\ new.blocked = acts[i].blocked /\ ~new.live
    BY <1>1 DEF Activity
  <1>3. acts' = [acts EXCEPT ![i] = new]
    BY DEF LapseActivity
  <1> HIDE DEF new
  <1>4. Harmless(i, new)
    BY <1>1, <1>2 DEF Harmless, Activity
  <1> QED BY <1>3, <1>4, RowFrame DEF LapseActivity

LEMMA StartWorkKeeps ==
  ASSUME WorkInv, NEW i \in DOMAIN acts, StartWork(i)
  PROVE  WorkInv'
  <1> DEFINE new == [acts[i] EXCEPT !.busy = TRUE]
  <1>1. acts[i] \in Activity /\ i.task \in Tasks
    BY KeyFields DEF WorkInv, Types
  <1>2. /\ new \in Activity /\ new.push = acts[i].push /\ new.passed = acts[i].passed
        /\ new.hold = acts[i].hold /\ new.state = acts[i].state
        /\ new.blocked = acts[i].blocked /\ new.live = acts[i].live
    BY <1>1 DEF Activity
  <1>3. acts' = [acts EXCEPT ![i] = new]
    BY DEF StartWork
  <1>4. subj[i.task].phase # "revision_needed"
    BY <1>1 DEF StartWork, PinsCurrent, WorkInv, RevInv, Superseded
  <1> HIDE DEF new
  <1>5. Harmless(i, new)
    BY <1>1, <1>2, <1>4 DEF Harmless, Activity
  <1> QED BY <1>3, <1>5, RowFrame DEF StartWork

LEMMA EndWorkKeeps ==
  ASSUME WorkInv, NEW i \in DOMAIN acts, NEW checks \in SUBSET Checks, EndWork(i, checks)
  PROVE  WorkInv'
  <1> DEFINE new == [acts[i] EXCEPT !.busy = FALSE, !.passed = @ \cup checks]
  <1>1. acts[i] \in Activity
    BY DEF WorkInv, Types
  <1>2. /\ new \in Activity /\ new.push = acts[i].push /\ new.passed = acts[i].passed \cup checks
        /\ new.hold = acts[i].hold /\ new.state = acts[i].state /\ ~new.busy
        /\ new.blocked = acts[i].blocked /\ new.live = acts[i].live
    BY <1>1 DEF Activity
  <1>3. acts' = [acts EXCEPT ![i] = new]
    BY DEF EndWork
  <1> HIDE DEF new
  <1>4. Harmless(i, new)
    BY <1>1, <1>2 DEF Harmless, Activity
  <1> QED BY <1>3, <1>4, RowFrame DEF EndWork

LEMMA AuthorizeKeeps ==
  ASSUME WorkInv, NEW i \in DOMAIN acts, Authorize(i)
  PROVE  WorkInv'
  <1> DEFINE new == [acts[i] EXCEPT !.auth = TRUE]
  <1>1. acts[i] \in Activity
    BY DEF WorkInv, Types
  <1>2. /\ new \in Activity /\ new.push = acts[i].push /\ new.passed = acts[i].passed
        /\ new.hold = acts[i].hold /\ new.state = acts[i].state /\ new.busy = acts[i].busy
        /\ new.blocked = acts[i].blocked /\ new.live = acts[i].live
    BY <1>1 DEF Activity
  <1>3. acts' = [acts EXCEPT ![i] = new]
    BY DEF Authorize
  <1> HIDE DEF new
  <1>4. Harmless(i, new)
    BY <1>1, <1>2 DEF Harmless, Activity
  <1> QED BY <1>3, <1>4, RowFrame DEF Authorize

\* Who may work on an activity has it active; a claim makes it so, and takes the hold.
ClaimedRow(i, p, h) ==
  [acts[i] EXCEPT !.state = "active", !.owner = p, !.live = TRUE, !.gen = acts[i].gen + 1,
                  !.hold = h]

LEMMA ClaimActivityKeeps ==
  ASSUME WorkInv, NEW i \in DOMAIN acts, NEW p \in People, ClaimActivity(p, i)
  PROVE  WorkInv'
  <1> DEFINE h == IF i.kind = "integration" THEN "held" ELSE acts[i].hold
             new == ClaimedRow(i, p, h)
  <1>1. acts[i] \in Activity /\ i \in Key
    BY DEF WorkInv, Types
  <1>2. h \in {"none", "held", "released"}
    BY <1>1 DEF Activity
  <1>3. acts' = [acts EXCEPT ![i] = new]
    BY DEF ClaimActivity, ClaimedRow
  <1> HIDE DEF h
  <1>4. /\ new \in Activity /\ new.push = acts[i].push /\ new.passed = acts[i].passed
        /\ new.hold = h /\ new.state = "active" /\ new.busy = acts[i].busy
    <2>1. acts[i].gen + 1 \in Nat /\ p \in People \cup {Nobody}
      BY <1>1 DEF Activity
    <2> QED BY <1>1, <1>2, <2>1 DEF Activity, ClaimedRow
  <1> HIDE DEF new
  <1>5. acts[i].state \in {"queued", "active"} /\ ~acts[i].blocked
        /\ UNCHANGED <<subj, reviews, intents, results, recons, policy, landed>>
    BY DEF ClaimActivity, Eligible
  <1>6. CASE h = acts[i].hold
    <2>1. Harmless(i, new)
      BY <1>1, <1>4, <1>5, <1>6 DEF Harmless, Activity
    <2> QED BY <1>3, <1>5, <2>1, RowFrame
  <1>7. CASE h # acts[i].hold
    <2>1. NoHold(acts) /\ h = "held"
      BY <1>1, <1>7 DEF ClaimActivity, h, Activity
    <2>2. Rewritten(i, new) /\ ActsTyped
      BY <1>3, <1>4, RowMoves DEF WorkInv
    <2>3. Types'
      BY <1>5, <2>2, TypesFrame DEF WorkInv
    <2>4. RevInv'
      <3>1. RevQuiet
        BY <1>4, <1>5, <2>2 DEF Rewritten, RevQuiet, WorkInv, Types
      <3> QED BY <3>1, RevFrame DEF WorkInv
    <2>5. PubInv'
      <3>0. /\ intents' = intents /\ recons' = recons /\ landed' = landed
            /\ DOMAIN intents \subseteq DOMAIN acts /\ DOMAIN recons \subseteq DOMAIN intents
        BY <1>5 DEF WorkInv, Types
      <3>1. Held'
        BY <1>4, <2>1, <2>2, <3>0 DEF WorkInv, PubInv, Held, Rewritten, NoHold
      <3>2. \A j : Contained(j)' <=> Contained(j)
        BY <3>0 DEF Contained
      <3>3. IntentsTell' /\ BranchGrows' /\ AgentNonPublicationIsFinal'
        <4>1. IntentsTell'
          BY <3>0, <3>2 DEF WorkInv, PubInv, IntentsTell
        <4>2. BranchGrows'
          BY <3>0 DEF WorkInv, PubInv, BranchGrows, Foreigns, Elsewhere
        <4>3. AgentNonPublicationIsFinal'
          BY <1>4, <2>2, <3>0 DEF WorkInv, PubInv, AgentNonPublicationIsFinal, Landed, Rewritten
        <4> QED BY <4>1, <4>2, <4>3
      <3>4. ClearedMay' /\ LandingsChecked'
        BY <1>4, <2>2, <3>0 DEF WorkInv, PubInv, ClearedMay, LandingsChecked, Rewritten
      <3>5. ReconciledEnds'
        BY <1>4, <1>5, <2>2, <3>0 DEF WorkInv, PubInv, ReconciledEnds, Rewritten
      <3>6. FinalizedIsLanded'
        BY <1>4, <2>2, <3>0, <3>2 DEF WorkInv, PubInv, FinalizedIsLanded, Landed, Rewritten
      <3> QED BY <3>1, <3>3, <3>4, <3>5, <3>6 DEF PubInv
    <2> QED BY <2>2, <2>3, <2>4, <2>5 DEF WorkInv, Rewritten
  <1> QED BY <1>6, <1>7

---------------------------------------------------------------------------
(* New activities.                                                          *)

\* A table with one more row, in the next slot.
Added(as, k, row) ==
  /\ k \notin DOMAIN as /\ k \in Key /\ k.slot >= 1
  /\ DOMAIN acts' = DOMAIN as \cup {k} /\ acts'[k] = row
  /\ \A j \in DOMAIN as : acts'[j] = as[j]
  /\ acts' \in [DOMAIN acts' -> Activity]
  /\ Dense(DOMAIN acts')

Table(as) == DOMAIN as \subseteq Key /\ as \in [DOMAIN as -> Activity] /\ Dense(DOMAIN as)

LEMMA CreateAdds ==
  ASSUME NEW as, Table(as), NEW i \in Key, i.kind = "integration", NEW h \in {"none", "held"},
         acts' = Create(as, i.task, i.sub, "integration", FALSE, h)
  PROVE  \E k : /\ k.task = i.task /\ k.sub = i.sub /\ k.kind = "integration"
                /\ Added(as, k, Activity0(FALSE, h))
  <1> DEFINE t == i.task
             n == i.sub
             kind == "integration"
             b == FALSE
  <1>0. t \in Tasks /\ n \in Nat /\ kind \in Kinds /\ b \in BOOLEAN
    BY KeyFields DEF Kinds
  <1> USE DEF Table
  <1> HIDE DEF t, n, kind, b
  <1> DEFINE k == NextSlot(as, t, n, kind)
  <1>1. /\ IsNext(DOMAIN as, k) /\ k.task = t /\ k.sub = n /\ k.kind = kind /\ k \notin DOMAIN as
    <2>1. /\ IsNext(DOMAIN as, NextSlot(as, t, n, kind))
          /\ NextSlot(as, t, n, kind).task = t /\ NextSlot(as, t, n, kind).sub = n
          /\ NextSlot(as, t, n, kind).kind = kind
          /\ NextSlot(as, t, n, kind) \notin DOMAIN as
      BY <1>0, NextFree, ZenonT(30)
    <2> QED BY <2>1
  <1>2. acts' = Insert(as, k, Activity0(b, h))
    BY DEF Create, t, n, kind, b
  <1> HIDE DEF k
  <1>3. Activity0(b, h) \in Activity
    BY <1>0, InitialRow
  <1>4. /\ DOMAIN acts' = DOMAIN as \cup {k} /\ acts'[k] = Activity0(b, h)
        /\ \A j \in DOMAIN as : acts'[j] = as[j]
        /\ acts' \in [DOMAIN acts' -> Activity]
    BY <1>1, <1>2, <1>3 DEF Insert
  <1>5. Dense(DOMAIN acts')
    <2>1. \A q \in {k} : IsNext(DOMAIN as, q)
      BY <1>1
    <2>2. Dense(DOMAIN as \cup {k})
      BY <2>1, DenseGrows
    <2> QED BY <1>4, <2>2
  <1> QED BY <1>1, <1>4, <1>5 DEF Added, IsNext, t, n, kind, b

LEMMA ReleaseKeeps ==
  ASSUME WorkInv, NEW i \in DOMAIN acts, NEW p \in People, ReleaseActivity(p, i)
  PROVE  WorkInv'
  <1>0. /\ acts[i] \in Activity /\ i \in Key /\ i.task \in Tasks /\ i.sub \in Nat /\ i.kind \in Kinds
        /\ acts[i].state \in {"queued", "active"} /\ ~acts[i].busy /\ i \notin DOMAIN intents
        /\ UNCHANGED <<subj, reviews, intents, results, recons, policy, landed>>
        /\ i.sub = subj[i.task].sub
    BY KeyFields DEF WorkInv, Types, ReleaseActivity, Owns, Eligible, PinsCurrent
  <1> DEFINE new == [Disown(acts[i]) EXCEPT !.state = "queued"]
  <1>1. /\ new \in Activity /\ new.push = acts[i].push /\ new.passed = acts[i].passed
        /\ new.hold = acts[i].hold /\ new.state = "queued" /\ new.busy = acts[i].busy
        /\ new.blocked = acts[i].blocked /\ ~new.live
    BY <1>0, DisownRow DEF Activity
  <1> HIDE DEF new
  <1>2. CASE i.kind # "integration"
    <2>1. acts' = [acts EXCEPT ![i] = new]
      BY <1>2 DEF ReleaseActivity, new
    <2>2. Harmless(i, new)
      BY <1>0, <1>1 DEF Harmless, Activity
    <2> QED BY <1>0, <2>1, <2>2, RowFrame
  <1>3. CASE i.kind = "integration"
    <2> DEFINE end == Cancel(CloseHold(new))
               as == [acts EXCEPT ![i] = end]
    <2>1. /\ end \in Activity /\ end.push = acts[i].push /\ end.passed = acts[i].passed
          /\ end.hold # "held" /\ end.state = "canceled" /\ end.busy = acts[i].busy /\ ~end.live
          /\ end.blocked = acts[i].blocked
      <3>1. CloseHold(new) \in Activity
        BY <1>1, CloseRow
      <3> QED BY <1>1, <3>1, CloseRow, CancelRow
    <2>2. acts' = Create(as, i.task, i.sub, "integration", FALSE, "none")
      <3>1. acts' = Create([[acts EXCEPT ![i] = new] EXCEPT ![i] = Cancel(CloseHold(@))],
                            i.task, i.sub, "integration", FALSE, "none")
        BY <1>3 DEF ReleaseActivity, new
      <3>2. [[acts EXCEPT ![i] = new] EXCEPT ![i] = Cancel(CloseHold(@))] = as
        BY DEF WorkInv, Types
      <3> QED BY <3>1, <3>2
    <2> HIDE DEF end
    <2>3. /\ DOMAIN as = DOMAIN acts /\ as \in [DOMAIN as -> Activity] /\ as[i] = end
          /\ \A j \in DOMAIN acts \ {i} : as[j] = acts[j]
      BY <2>1 DEF WorkInv, Types
    <2> HIDE DEF as
    <2>4. PICK k : /\ k.task = i.task /\ k.sub = i.sub /\ k.kind = "integration"
                   /\ Added(as, k, Activity0(FALSE, "none"))
      <3>1. Table(as)
        BY <2>3 DEF WorkInv, Types, Table
      <3> QED BY <1>0, <1>3, <2>2, <3>1, CreateAdds
    <2>5. Types'
      <3>1. ActsTyped
        BY <2>3, <2>4 DEF ActsTyped, Added, WorkInv, Types
      <3> QED BY <1>0, <3>1, TypesFrame DEF WorkInv
    <2>6. /\ Activity0(FALSE, "none").hold = "none" /\ Activity0(FALSE, "none").push = "idle"
          /\ Activity0(FALSE, "none").state = "queued" /\ ~Activity0(FALSE, "none").busy
          /\ ~Activity0(FALSE, "none").live
      BY InitialRow
    <2>9. /\ DOMAIN acts' = DOMAIN acts \cup {k} /\ k \notin DOMAIN acts
          /\ acts'[k] = Activity0(FALSE, "none") /\ acts'[i] = end /\ i # k
          /\ \A j \in DOMAIN acts \ {i} : acts'[j] = acts[j]
          /\ DOMAIN intents \subseteq DOMAIN acts
      BY <2>3, <2>4 DEF Added, WorkInv, Types
    <2>7. PubInv'
      <3>1. PubQuiet
        BY <1>0, <2>1, <2>6, <2>9 DEF PubQuiet
      <3> QED BY <3>1, PubFrame DEF WorkInv
    <2>8. RevInv'
      <3>1. subj[i.task].phase # "review"
        <4>1. acts[i].live
          BY DEF ReleaseActivity, Owns
        <4> QED BY <1>0, <1>3, <4>1 DEF WorkInv, RevInv, Waiting
      <3>2. i.sub >= 1
        BY DEF WorkInv, RevInv, Submitted
      <3>3. RevQuiet
        <4>1. subj[i.task].sub \in Nat
          BY <1>0 DEF WorkInv, Types, Subject
        <4>2. /\ k.task \in Tasks /\ k.sub >= 1 /\ k.sub <= subj[k.task].sub
              /\ acts'[k].state # "completed" /\ ~acts'[k].busy /\ subj[k.task].phase # "review"
          <5>1. k.task = i.task /\ k.sub = i.sub
            BY <2>4
          <5>2. k.task \in Tasks /\ subj[k.task].phase # "review"
            BY <1>0, <3>1, <5>1
          <5>3. i.sub <= subj[i.task].sub /\ i.sub >= 1
            BY <1>0, <3>2, <4>1
          <5>4. k.sub >= 1 /\ k.sub <= subj[k.task].sub
            BY <5>1, <5>3
          <5>5. acts'[k].state # "completed" /\ ~acts'[k].busy
            BY <2>6, <2>9
          <5> QED BY <5>2, <5>4, <5>5
        <4>3. \A j \in DOMAIN acts :
                /\ j.kind \in ReviewKinds =>
                     (acts'[j].state = "completed" <=> acts[j].state = "completed")
                /\ acts'[j].busy => acts[j].busy
                /\ acts[j].blocked /\ ~acts[j].live => acts'[j].blocked /\ ~acts'[j].live
          BY <1>0, <1>3, <2>1, <2>9 DEF ReviewKinds
        <4> QED BY <1>0, <2>9, <4>2, <4>3 DEF RevQuiet
      <3> QED BY <3>3, RevFrame DEF WorkInv
    <2> QED BY <2>4, <2>5, <2>7, <2>8 DEF WorkInv, Added
  <1> QED BY <1>2, <1>3

---------------------------------------------------------------------------
(* Publications.                                                            *)

\* Where the branch is now.
LEMMA TargetIsLast ==
  ASSUME Types
  PROVE  /\ Len(landed) \in Nat /\ Len(landed) >= 1 /\ Target = landed[Len(landed)]
         /\ Target \in Revision /\ \A n \in 1 .. Len(landed) : landed[n] \in Revision
  BY DEF Types, Target, Last

LEMMA IntentKeeps ==
  ASSUME WorkInv, NEW i \in DOMAIN acts, NEW p \in People, PublicationIntent(p, i)
  PROVE  WorkInv'
  <1> DEFINE row == [gen |-> acts[i].gen, base |-> Target, result |-> Result(i),
                     roster |-> policy.roster]
             n == Len(landed)
  <1>0. /\ acts[i] \in Activity /\ i \in Key /\ i.task \in Tasks /\ i.sub \in Nat /\ i.kind = "integration"
        /\ acts[i].live /\ acts[i].hold = "held" /\ acts[i].state \in {"queued", "active"}
        /\ i \notin DOMAIN intents
        /\ UNCHANGED <<subj, acts, reviews, results, recons, policy, landed>>
    BY KeyFields DEF WorkInv, Types, PublicationIntent, Owns, Eligible
  <1>1. /\ n \in Nat /\ n >= 1 /\ Target = landed[n] /\ Target \in Revision
    BY TargetIsLast DEF WorkInv
  <1>2. /\ Result(i) \in Revision
        /\ \/ Result(i) = landed[n] /\ Contained(i)
           \/ Result(i) = [task |-> i.task, sub |-> i.sub, at |-> n]
    BY <1>0, <1>1 DEF Result, Revision
  <1>3. row \in IntentRow /\ row.base = landed[n] /\ row.result = Result(i)
    BY <1>0, <1>1, <1>2 DEF IntentRow, Activity, WorkInv, Types, PolicyRow
  <1>4. intents' = Insert(intents, i, row)
    BY DEF PublicationIntent
  <1> HIDE DEF row
  <1>5. /\ DOMAIN intents' = DOMAIN intents \cup {i} /\ intents'[i] = row
        /\ intents' \in [DOMAIN intents' -> IntentRow]
        /\ \A j \in DOMAIN intents : intents'[j] = intents[j]
    <2>1. intents \in [DOMAIN intents -> IntentRow]
      BY DEF WorkInv, Types
    <2> QED BY <1>0, <1>3, <1>4, <2>1 DEF Insert
  <1>6. Types'
    BY <1>0, <1>5 DEF WorkInv, Types
  <1>7. RevInv'
    <2>1. RevQuiet
      BY <1>0, <1>5 DEF RevQuiet, WorkInv, Types, RevInv, Waiting
    <2> QED BY <2>1, RevFrame DEF WorkInv
  <1>8. PubInv'
    <2>0. /\ DOMAIN intents \subseteq DOMAIN acts /\ DOMAIN recons \subseteq DOMAIN intents
          /\ i \notin DOMAIN recons /\ acts' = acts /\ recons' = recons /\ landed' = landed
      BY <1>0 DEF WorkInv, Types
    <2>1. Held'
      BY <1>0, <1>5, <2>0 DEF WorkInv, PubInv, Held
    <2>2. \A j : Contained(j)' <=> Contained(j)
      BY <2>0 DEF Contained
    <2>3. IntentsTell'
      <3>1. \E m \in 1 .. Len(landed) :
              /\ intents'[i].base = landed[m]
              /\ \/ intents'[i].result = landed[m] /\ Contained(i)
                 \/ intents'[i].result = [task |-> i.task, sub |-> i.sub, at |-> m]
        BY <1>1, <1>2, <1>3, <1>5
      <3>2. ASSUME NEW j \in DOMAIN intents
            PROVE  /\ j.kind = "integration" /\ j.task \in Tasks
                   /\ \E m \in 1 .. Len(landed) :
                        /\ intents'[j].base = landed[m]
                        /\ \/ intents'[j].result = landed[m] /\ Contained(j)
                           \/ intents'[j].result = [task |-> j.task, sub |-> j.sub, at |-> m]
        <4>1. intents'[j] = intents[j]
          BY <1>5
        <4>2. /\ j.kind = "integration" /\ j.task \in Tasks
              /\ \E m \in 1 .. Len(landed) :
                   /\ intents[j].base = landed[m]
                   /\ \/ intents[j].result = landed[m] /\ Contained(j)
                      \/ intents[j].result = [task |-> j.task, sub |-> j.sub, at |-> m]
          BY DEF WorkInv, PubInv, IntentsTell
        <4> QED BY <4>1, <4>2
      <3>3. ASSUME NEW j \in DOMAIN intents'
            PROVE  /\ j.kind = "integration" /\ j.task \in Tasks
                   /\ \E m \in 1 .. Len(landed) :
                        /\ intents'[j].base = landed[m]
                        /\ \/ intents'[j].result = landed[m] /\ Contained(j)
                           \/ intents'[j].result = [task |-> j.task, sub |-> j.sub, at |-> m]
        <4>1. CASE j \in DOMAIN intents
          BY <3>2, <4>1
        <4>2. CASE j = i
          BY <1>0, <3>1, <4>2
        <4> QED BY <1>5, <4>1, <4>2
      <3> QED BY <2>0, <2>2, <3>3 DEF IntentsTell
    <2>4. ClearedMay' /\ ReconciledEnds' /\ BranchGrows'
      BY <1>5, <2>0 DEF WorkInv, PubInv, ClearedMay, ReconciledEnds, BranchGrows, Foreigns, Elsewhere
    <2>5. LandingsChecked'
      BY <1>5, <2>0 DEF WorkInv, PubInv, LandingsChecked
    <2>6. FinalizedIsLanded'
      BY <1>0, <1>5, <2>0, <2>2 DEF WorkInv, PubInv, FinalizedIsLanded, Landed
    <2>7. AgentNonPublicationIsFinal'
      BY <1>5, <2>0 DEF WorkInv, PubInv, AgentNonPublicationIsFinal, Landed
    <2> QED BY <2>1, <2>3, <2>4, <2>5, <2>6, <2>7 DEF PubInv
  <1>9. Dense(DOMAIN acts')
    BY <1>0 DEF WorkInv
  <1> QED BY <1>6, <1>7, <1>8, <1>9 DEF WorkInv

LEMMA ClearKeeps ==
  ASSUME WorkInv, NEW i \in DOMAIN acts, Clear(i)
  PROVE  WorkInv'
  <1> DEFINE new == [acts[i] EXCEPT !.push = "cleared"]
  <1>1. acts[i] \in Activity
    BY DEF WorkInv, Types
  <1>2. /\ new \in Activity /\ new.push = "cleared" /\ new.passed = acts[i].passed
        /\ new.hold = acts[i].hold /\ new.state = acts[i].state /\ new.busy = acts[i].busy
        /\ new.blocked = acts[i].blocked /\ new.live = acts[i].live
    BY <1>1 DEF Activity
  <1>3. acts' = [acts EXCEPT ![i] = new]
    BY DEF Clear
  <1> HIDE DEF new
  <1>4. /\ acts[i].push = "idle" /\ acts[i].state = "active" /\ i \in DOMAIN intents
        /\ intents[i].roster \subseteq acts[i].passed /\ intents[i].base # intents[i].result
        /\ UNCHANGED <<subj, reviews, intents, results, recons, policy, landed>>
    BY DEF Clear, PublicationReady
  <1>5. Rewritten(i, new) /\ ActsTyped
    BY <1>2, <1>3, RowMoves DEF WorkInv
  <1>6. Types'
    BY <1>4, <1>5, TypesFrame DEF WorkInv
  <1>7. RevInv'
    <2>1. RevQuiet
      BY <1>2, <1>4, <1>5 DEF Rewritten, RevQuiet, WorkInv, Types
    <2> QED BY <2>1, RevFrame DEF WorkInv
  <1>8. PubInv'
    <2>0. /\ intents' = intents /\ recons' = recons /\ landed' = landed /\ DOMAIN acts' = DOMAIN acts
          /\ DOMAIN intents \subseteq DOMAIN acts /\ DOMAIN recons \subseteq DOMAIN intents
      BY <1>4, <1>5 DEF WorkInv, Types, Rewritten
    <2>1. \A j \in DOMAIN acts :
            /\ acts'[j].hold = acts[j].hold /\ acts'[j].state = acts[j].state
            /\ acts'[j].passed = acts[j].passed
            /\ acts'[j].push = IF j = i THEN "cleared" ELSE acts[j].push
      BY <1>2, <1>5 DEF Rewritten
    <2>2. \A j : Contained(j)' <=> Contained(j)
      BY <2>0 DEF Contained
    <2>3. Held' /\ IntentsTell' /\ BranchGrows'
      <3>1. Held'
        BY <2>0, <2>1 DEF WorkInv, PubInv, Held
      <3>2. IntentsTell'
        BY <2>0, <2>2 DEF WorkInv, PubInv, IntentsTell
      <3>3. BranchGrows'
        BY <2>0 DEF WorkInv, PubInv, BranchGrows, Foreigns, Elsewhere
      <3> QED BY <3>1, <3>2, <3>3
    <2>4. ClearedMay' /\ LandingsChecked'
      BY <1>4, <2>0, <2>1 DEF WorkInv, PubInv, ClearedMay, LandingsChecked
    <2>5. ReconciledEnds'
      BY <1>4, <2>0, <2>1 DEF WorkInv, PubInv, ReconciledEnds
    <2>6. FinalizedIsLanded'
      BY <2>0, <2>1, <2>2 DEF WorkInv, PubInv, FinalizedIsLanded, Landed
    <2>7. AgentNonPublicationIsFinal'
      BY <1>4, <2>0, <2>1 DEF WorkInv, PubInv, AgentNonPublicationIsFinal, Landed
    <2> QED BY <2>3, <2>4, <2>5, <2>6, <2>7 DEF PubInv
  <1> QED BY <1>5, <1>6, <1>7, <1>8 DEF WorkInv, Rewritten

\* The branch after a push.
LEMMA BranchAppends ==
  ASSUME Types, NEW rev \in Revision, landed' = Append(landed, rev)
  PROVE  /\ landed' \in Seq(Revision) /\ landed' # <<>>
         /\ Len(landed) \in Nat /\ Len(landed') = Len(landed) + 1
         /\ landed'[Len(landed) + 1] = rev
         /\ \A n \in 1 .. Len(landed) : landed'[n] = landed[n]
         /\ \A n \in 1 .. Len(landed') : n \in 1 .. Len(landed) \/ n = Len(landed) + 1
         /\ DOMAIN landed = 1 .. Len(landed) /\ DOMAIN landed' = 1 .. Len(landed')
  BY DEF Types

\* What was on the branch stays on it.
LEMMA LandedStays ==
  ASSUME Types, NEW rev \in Revision, landed' = Append(landed, rev)
  PROVE  /\ \A x : Landed(x)' <=> Landed(x) \/ x = rev
         /\ \A j : Contained(j) => Contained(j)'
  <1>1. /\ Len(landed) \in Nat /\ Len(landed') = Len(landed) + 1
        /\ landed'[Len(landed) + 1] = rev
        /\ \A n \in 1 .. Len(landed) : landed'[n] = landed[n]
        /\ \A n \in 1 .. Len(landed') : n \in 1 .. Len(landed) \/ n = Len(landed) + 1
    BY BranchAppends
  <1>2. Len(landed) + 1 \in 1 .. Len(landed') /\ \A n \in 1 .. Len(landed) : n \in 1 .. Len(landed')
    BY <1>1
  <1>3. ASSUME NEW x PROVE Landed(x)' <=> Landed(x) \/ x = rev
    BY <1>1, <1>2 DEF Landed
  <1>4. ASSUME NEW j, Contained(j) PROVE Contained(j)'
    BY <1>1, <1>2, <1>4 DEF Contained
  <1> QED BY <1>3, <1>4

\* A push keeps what intents say of the branch.
LEMMA IntentsOnBranch ==
  ASSUME Types, IntentsTell, NEW rev \in Revision, landed' = Append(landed, rev),
         intents' = intents
  PROVE  IntentsTell'
  <1>1. /\ Len(landed) \in Nat /\ Len(landed') = Len(landed) + 1
        /\ \A n \in 1 .. Len(landed) : landed'[n] = landed[n]
    BY BranchAppends
  <1>2. \A j : Contained(j) => Contained(j)'
    BY LandedStays
  <1> SUFFICES ASSUME NEW i \in DOMAIN intents
               PROVE  /\ i.kind = "integration" /\ i.task \in Tasks
                      /\ \E n \in 1 .. Len(landed') :
                           /\ intents[i].base = landed'[n]
                           /\ \/ intents[i].result = landed'[n] /\ Contained(i)'
                              \/ intents[i].result = [task |-> i.task, sub |-> i.sub, at |-> n]
    BY DEF IntentsTell
  <1>3. PICK n \in 1 .. Len(landed) :
          /\ intents[i].base = landed[n]
          /\ \/ intents[i].result = landed[n] /\ Contained(i)
             \/ intents[i].result = [task |-> i.task, sub |-> i.sub, at |-> n]
    BY DEF IntentsTell
  <1>4. n \in 1 .. Len(landed') /\ landed'[n] = landed[n]
    BY <1>1
  <1>5. i.kind = "integration" /\ i.task \in Tasks
    BY DEF IntentsTell
  <1> QED BY <1>2, <1>3, <1>4, <1>5

\* The revision that a cleared publication expects is where the branch is at the length
\* its result was built at.
LEMMA BuiltHere ==
  ASSUME Types, IntentsTell, BranchGrows, NEW i \in DOMAIN intents, Target = intents[i].base
  PROVE  /\ intents[i].result # intents[i].base =>
              intents[i].result = [task |-> i.task, sub |-> i.sub, at |-> Len(landed)]
         /\ Landed(intents[i].result) => intents[i].result = intents[i].base
  <1>1. PICK n \in 1 .. Len(landed) :
          /\ intents[i].base = landed[n]
          /\ \/ intents[i].result = landed[n]
             \/ intents[i].result = [task |-> i.task, sub |-> i.sub, at |-> n]
    BY DEF IntentsTell
  <1>2. Len(landed) \in Nat /\ Len(landed) >= 1 /\ Target = landed[Len(landed)]
    BY TargetIsLast
  <1>3. n = Len(landed)
    BY <1>1, <1>2 DEF BranchGrows
  <1>4. ASSUME Landed(intents[i].result), intents[i].result # intents[i].base PROVE FALSE
    <2>1. PICK k \in 1 .. Len(landed) : landed[k] = intents[i].result
      BY <1>4 DEF Landed
    <2>2. landed[k].at = Len(landed)
      BY <1>1, <1>3, <1>4, <2>1
    <2>3. landed[k].at < k
      BY DEF BranchGrows
    <2> QED BY <1>2, <2>2, <2>3
  <1> QED BY <1>1, <1>3, <1>4

LEMMA EndPublishKeeps ==
  ASSUME WorkInv, NEW i \in DOMAIN acts, EndPublish(i)
  PROVE  WorkInv'
  <1>0. /\ acts[i] \in Activity /\ acts[i].push = "cleared" /\ i \in DOMAIN intents
        /\ intents[i].roster \subseteq acts[i].passed /\ intents[i].base # intents[i].result
        /\ UNCHANGED <<subj, reviews, intents, results, recons, policy>>
        /\ i.task \in Tasks /\ i \in Key /\ intents[i].result \in Revision
    BY KeyFields DEF WorkInv, Types, EndPublish, PubInv, ClearedMay, IntentRow
  <1>1. PICK push \in {"idle", "ended"} :
          /\ acts' = [acts EXCEPT ![i].push = push]
          /\ \/ landed' = landed
             \/ /\ push = "ended" /\ Target = intents[i].base
                /\ landed' = Append(landed, intents[i].result)
    BY DEF EndPublish
  <1> DEFINE new == [acts[i] EXCEPT !.push = push]
  <1>2. /\ new \in Activity /\ new.push = push /\ new.passed = acts[i].passed
        /\ new.hold = acts[i].hold /\ new.state = acts[i].state /\ new.busy = acts[i].busy
        /\ new.blocked = acts[i].blocked /\ new.live = acts[i].live
    BY <1>0 DEF Activity
  <1>3. acts' = [acts EXCEPT ![i] = new]
    BY <1>1
  <1> HIDE DEF new
  <1>4. Rewritten(i, new) /\ ActsTyped
    BY <1>2, <1>3, RowMoves DEF WorkInv
  <1>5. RevInv'
    <2>1. RevQuiet
      BY <1>0, <1>2, <1>4 DEF Rewritten, RevQuiet, WorkInv, Types
    <2> QED BY <2>1, RevFrame DEF WorkInv
  <1>6. /\ DOMAIN acts' = DOMAIN acts /\ intents' = intents /\ recons' = recons
        /\ DOMAIN intents \subseteq DOMAIN acts /\ DOMAIN recons \subseteq DOMAIN intents
        /\ \A j \in DOMAIN acts :
             /\ acts'[j].hold = acts[j].hold /\ acts'[j].state = acts[j].state
             /\ acts'[j].passed = acts[j].passed
             /\ acts'[j].push = IF j = i THEN push ELSE acts[j].push
    BY <1>0, <1>2, <1>4 DEF Rewritten, WorkInv, Types
  <1>7. Held' /\ ClearedMay' /\ ReconciledEnds'
    <2>1. Held'
      BY <1>6 DEF WorkInv, PubInv, Held
    <2>2. ClearedMay'
      BY <1>1, <1>6 DEF WorkInv, PubInv, ClearedMay
    <2>3. ReconciledEnds'
      BY <1>1, <1>6 DEF WorkInv, PubInv, ReconciledEnds
    <2> QED BY <2>1, <2>2, <2>3
  <1>8. CASE landed' = landed
    <2>1. Types'
      BY <1>0, <1>4, <1>8, TypesFrame DEF WorkInv
    <2>2. \A j : Contained(j)' <=> Contained(j)
      BY <1>8 DEF Contained
    <2>6. IntentsTell'
      BY <1>6, <1>8, <2>2 DEF WorkInv, PubInv, IntentsTell
    <2>7. BranchGrows'
      BY <1>8 DEF WorkInv, PubInv, BranchGrows, Foreigns, Elsewhere
    <2>8. LandingsChecked'
      <3>1. ASSUME NEW m \in DOMAIN landed, landed[m].task # NoTask
            PROVE  \E j \in DOMAIN intents : /\ intents[j].result = landed[m]
                                             /\ intents[j].roster \subseteq acts'[j].passed
        <4>1. PICK j \in DOMAIN intents : /\ intents[j].result = landed[m]
                                          /\ intents[j].roster \subseteq acts[j].passed
          BY <3>1 DEF WorkInv, PubInv, LandingsChecked
        <4>2. j \in DOMAIN acts
          BY <1>6
        <4>3. acts'[j].passed = acts[j].passed
          BY <1>6, <4>2
        <4> QED BY <4>1, <4>3
      <3> QED BY <1>6, <1>8, <3>1 DEF LandingsChecked
    <2>3. IntentsTell' /\ BranchGrows' /\ LandingsChecked'
      BY <2>6, <2>7, <2>8
    <2>4. FinalizedIsLanded'
      BY <1>6, <1>8, <2>2 DEF WorkInv, PubInv, FinalizedIsLanded, Landed
    <2>5. AgentNonPublicationIsFinal'
      <3>1. \A j \in DOMAIN acts : acts[j].push = "ended" => acts'[j].push = "ended"
        BY <1>0, <1>6
      <3>2. DOMAIN recons \subseteq DOMAIN intents /\ DOMAIN intents \subseteq DOMAIN acts
        BY DEF WorkInv, Types
      <3>3. /\ recons' = recons /\ intents' = intents
            /\ \A x : Landed(x)' <=> Landed(x)
        BY <1>6, <1>8 DEF Landed
      <3> QED BY <3>1, <3>2, <3>3 DEF WorkInv, PubInv, AgentNonPublicationIsFinal
    <2> QED BY <1>4, <1>5, <1>7, <2>1, <2>3, <2>4, <2>5 DEF WorkInv, PubInv, Rewritten
  <1>9. CASE /\ push = "ended" /\ Target = intents[i].base
             /\ landed' = Append(landed, intents[i].result)
    <2> DEFINE rev == intents[i].result
               n == Len(landed)
    <2>1. /\ rev \in Revision /\ landed' = Append(landed, rev)
          /\ rev.task = i.task /\ rev.sub = i.sub /\ rev.at = n /\ rev.task # NoTask
          /\ ~Landed(rev)
      <3>1. /\ rev = [task |-> i.task, sub |-> i.sub, at |-> n]
            /\ ~Landed(rev)
        BY <1>0, <1>9, BuiltHere DEF WorkInv, PubInv
      <3>2. i.task # NoTask
        BY <1>0
      <3> QED BY <1>0, <1>9, <3>1, <3>2
    <2> HIDE DEF rev
    <2>2. /\ landed' \in Seq(Revision) /\ landed' # <<>>
          /\ n \in Nat /\ Len(landed') = n + 1 /\ landed'[n + 1] = rev
          /\ \A m \in 1 .. n : landed'[m] = landed[m]
          /\ \A m \in 1 .. Len(landed') : m \in 1 .. n \/ m = n + 1
          /\ DOMAIN landed = 1 .. n /\ DOMAIN landed' = 1 .. Len(landed')
      BY <2>1, BranchAppends DEF WorkInv
    <2>3. /\ \A x : Landed(x)' <=> Landed(x) \/ x = rev
          /\ \A j : Contained(j) => Contained(j)'
      BY <2>1, LandedStays DEF WorkInv
    <2> HIDE DEF n
    <2>4. Types'
      BY <1>0, <1>4, <2>2 DEF WorkInv, Types, ActsTyped
    <2>5. IntentsTell'
      BY <1>6, <2>1, IntentsOnBranch DEF WorkInv, PubInv
    <2>6. BranchGrows'
      <3>1. Foreigns' = Foreigns
        BY <2>1, <2>2 DEF Foreigns, Elsewhere, n
      <3>2. \A m \in 1 .. n : landed[m] # rev
        BY <2>1 DEF Landed, n
      <3>3. \A l, m \in 1 .. n : landed[l] = landed[m] => l = m
        BY DEF WorkInv, PubInv, BranchGrows, n
      <3>4. \A l, m \in 1 .. Len(landed') : landed'[l] = landed'[m] => l = m
        BY <2>2, <3>2, <3>3
      <3>5. \A m \in 1 .. Len(landed') : landed'[m].at < m /\ (~Elsewhere(m)' => landed'[m].at = m - 1)
        BY <2>1, <2>2 DEF WorkInv, PubInv, BranchGrows, n, Elsewhere
      <3>6. \A m \in Foreigns : landed'[m].at < Cardinality(Foreigns)
        BY <2>2 DEF WorkInv, PubInv, BranchGrows, Foreigns, n
      <3> QED BY <3>1, <3>4, <3>5, <3>6 DEF BranchGrows
    <2>7. LandingsChecked'
      <3>1. ASSUME NEW m \in DOMAIN landed', landed'[m].task # NoTask
            PROVE  \E j \in DOMAIN intents : /\ intents[j].result = landed'[m]
                                             /\ intents[j].roster \subseteq acts'[j].passed
        <4>1. CASE m = n + 1
          BY <1>0, <1>6, <2>2, <4>1 DEF rev
        <4>2. CASE m \in 1 .. n
          <5>1. landed'[m] = landed[m] /\ m \in DOMAIN landed
            BY <2>2, <4>2
          <5>2. PICK j \in DOMAIN intents : /\ intents[j].result = landed[m]
                                            /\ intents[j].roster \subseteq acts[j].passed
            BY <3>1, <5>1 DEF WorkInv, PubInv, LandingsChecked
          <5>3. acts'[j].passed = acts[j].passed
            BY <1>6, <5>2 DEF WorkInv, Types
          <5> QED BY <5>1, <5>2, <5>3
        <4> QED BY <2>2, <4>1, <4>2
      <3> QED BY <1>6, <3>1 DEF LandingsChecked
    <2>8. FinalizedIsLanded'
      BY <1>6, <2>3 DEF WorkInv, PubInv, FinalizedIsLanded
    <2>9. AgentNonPublicationIsFinal'
      <3>1. ASSUME NEW j \in DOMAIN recons, recons[j].agent, recons[j].disposition = "not_published",
                   intents[j].result # intents[j].base, Landed(intents[j].result)'
            PROVE  \E l \in DOMAIN intents \ {j} :
                     intents[l].result = intents[j].result /\ acts'[l].push = "ended"
        <4>1. CASE intents[j].result = rev
          <5>1. j # i
            BY <1>0, <3>1 DEF WorkInv, PubInv, ReconciledEnds
          <5> QED BY <1>0, <1>6, <1>9, <4>1, <5>1 DEF rev
        <4>2. CASE intents[j].result # rev
          <5>1. Landed(intents[j].result)
            BY <1>6, <2>3, <3>1, <4>2
          <5>2. PICK l \in DOMAIN intents \ {j} :
                  intents[l].result = intents[j].result /\ acts[l].push = "ended"
            BY <3>1, <5>1 DEF WorkInv, PubInv, AgentNonPublicationIsFinal
          <5> QED BY <1>0, <1>6, <5>2
        <4> QED BY <4>1, <4>2
      <3> QED BY <1>6, <3>1 DEF AgentNonPublicationIsFinal
    <2> QED BY <1>4, <1>5, <1>7, <2>4, <2>5, <2>6, <2>7, <2>8, <2>9 DEF WorkInv, PubInv, Rewritten
  <1> QED BY <1>1, <1>8, <1>9

LEMMA ForeignPushKeeps ==
  ASSUME WorkInv, ForeignPush
  PROVE  WorkInv'
  <1> DEFINE n == Len(landed)
             f == Cardinality(Foreigns)
             rev == Foreign(f)
  <1>1. /\ landed' = Append(landed, rev)
        /\ UNCHANGED <<subj, acts, reviews, intents, results, recons, policy>>
    BY DEF ForeignPush, Foreigns, Elsewhere
  <1>2. n \in Nat /\ IsFiniteSet(1 .. n) /\ Cardinality(1 .. n) = n
    <2>1. n \in Nat
      BY TargetIsLast DEF WorkInv
    <2> HIDE DEF n
    <2> QED BY <2>1, UpTo
  <1>3. Foreigns \in SUBSET (1 .. n)
    BY DEF Foreigns
  <1>4. IsFiniteSet(Foreigns) /\ f \in Nat /\ f <= n
    <2> DEFINE U == 1 .. n
    <2>1. IsFiniteSet(U) /\ Cardinality(U) = n /\ Foreigns \in SUBSET U
      BY <1>2, <1>3
    <2> HIDE DEF U
    <2>2. IsFiniteSet(Foreigns) /\ Cardinality(Foreigns) <= Cardinality(U)
      BY <2>1, FS_Subset
    <2> QED BY <2>1, <2>2, FS_CardinalityType
  <1>5. rev \in Revision /\ rev.task = NoTask /\ rev.at = f
    BY <1>4 DEF Foreign, Revision
  <1> HIDE DEF rev
  <1>6. /\ landed' \in Seq(Revision) /\ landed' # <<>>
        /\ Len(landed') = n + 1 /\ landed'[n + 1] = rev
        /\ \A m \in 1 .. n : landed'[m] = landed[m]
        /\ \A m \in 1 .. Len(landed') : m \in 1 .. n \/ m = n + 1
        /\ DOMAIN landed = 1 .. n /\ DOMAIN landed' = 1 .. Len(landed')
    BY <1>1, <1>5, BranchAppends DEF WorkInv
  <1>7. /\ \A x : Landed(x)' <=> Landed(x) \/ x = rev
        /\ \A j : Contained(j) => Contained(j)'
    BY <1>1, <1>5, LandedStays DEF WorkInv
  <1>8. Types'
    BY <1>1, <1>6 DEF WorkInv, Types
  <1>9. RevInv'
    <2>1. RevQuiet
      BY <1>1 DEF RevQuiet, WorkInv, Types
    <2> QED BY <2>1, RevFrame DEF WorkInv
  <1>10. IntentsTell'
    BY <1>1, <1>5, IntentsOnBranch DEF WorkInv, PubInv
  <1>11. BranchGrows'
    <2>1. Foreigns' = Foreigns \cup {n + 1} /\ n + 1 \notin Foreigns
      <3>1. n + 1 \in 1 .. Len(landed') /\ \A m \in 1 .. n : m \in 1 .. Len(landed') /\ m # n + 1
        BY <1>2, <1>6
      <3> QED BY <1>3, <1>5, <1>6, <3>1 DEF Foreigns, Elsewhere
    <2>2. Cardinality(Foreigns') = f + 1
      <3>1. Cardinality(Foreigns \cup {n + 1}) = f + 1
        BY <1>4, <2>1, FS_AddElement
      <3> QED BY <2>1, <3>1
    <2> HIDE DEF f
    <2>3. \A m \in Foreigns : landed[m].at < f
      BY DEF WorkInv, PubInv, BranchGrows, f
    <2>4. \A m \in 1 .. n : landed[m] # rev
      <3>1. ASSUME NEW m \in 1 .. n, landed[m] = rev PROVE FALSE
        <4>1. m \in Foreigns
          BY <1>5, <3>1 DEF Foreigns, Elsewhere
        <4> QED BY <1>4, <1>5, <2>3, <3>1, <4>1
      <3> QED BY <3>1
    <2>5. \A l, m \in 1 .. n : landed[l] = landed[m] => l = m
      BY DEF WorkInv, PubInv, BranchGrows
    <2>6. \A l, m \in 1 .. Len(landed') : landed'[l] = landed'[m] => l = m
      BY <1>2, <1>6, <2>4, <2>5
    <2>7. \A m \in 1 .. Len(landed') : landed'[m].at < m /\ (~Elsewhere(m)' => landed'[m].at = m - 1)
      <3>1. \A m \in 1 .. n : landed'[m].at < m /\ (~Elsewhere(m)' => landed'[m].at = m - 1)
        BY <1>6 DEF WorkInv, PubInv, BranchGrows, Elsewhere
      <3>2. landed'[n + 1].at < n + 1 /\ landed'[n + 1].task = NoTask
        BY <1>2, <1>4, <1>5, <1>6
      <3> HIDE DEF n
      <3> QED BY <1>6, <3>1, <3>2 DEF Elsewhere
    <2>8. \A m \in Foreigns' : landed'[m].at < Cardinality(Foreigns')
      <3>1. \A m \in Foreigns : landed'[m].at < f + 1
        <4>1. \A m \in Foreigns : landed'[m] = landed[m] /\ landed[m].at \in Nat
          BY <1>3, <1>6, TargetIsLast DEF Revision, WorkInv
        <4> QED BY <1>4, <2>3, <4>1
      <3>2. landed'[n + 1].at < f + 1
        BY <1>4, <1>5, <1>6
      <3> QED BY <2>1, <2>2, <3>1, <3>2
    <2> QED BY <2>6, <2>7, <2>8 DEF BranchGrows
  <1> HIDE DEF n, f
  <1>12. Held' /\ ClearedMay' /\ ReconciledEnds'
    BY <1>1 DEF WorkInv, PubInv, Held, ClearedMay, ReconciledEnds
  <1>13. LandingsChecked'
    <2>1. ASSUME NEW m \in DOMAIN landed', landed'[m].task # NoTask
          PROVE  m \in DOMAIN landed /\ landed'[m] = landed[m]
      BY <1>5, <1>6, <2>1
    <2>2. \A m \in DOMAIN landed : landed[m].task # NoTask =>
            \E i \in DOMAIN intents : /\ intents[i].result = landed[m]
                                      /\ intents[i].roster \subseteq acts[i].passed
      BY DEF WorkInv, PubInv, LandingsChecked
    <2>3. ASSUME NEW m \in DOMAIN landed', landed'[m].task # NoTask
          PROVE  \E i \in DOMAIN intents : /\ intents[i].result = landed'[m]
                                           /\ intents[i].roster \subseteq acts[i].passed
      <3>1. m \in DOMAIN landed /\ landed'[m] = landed[m]
        BY <2>1, <2>3
      <3> QED BY <2>2, <2>3, <3>1
    <2> QED BY <1>1, <2>3 DEF LandingsChecked
  <1>14. FinalizedIsLanded'
    BY <1>1, <1>7 DEF WorkInv, PubInv, FinalizedIsLanded
  <1>15. AgentNonPublicationIsFinal'
    <2>1. ASSUME NEW j \in DOMAIN intents, Landed(intents[j].result)' PROVE Landed(intents[j].result)
      <3>1. PICK m \in 1 .. Len(landed) :
              \/ intents[j].result = landed[m]
              \/ intents[j].result = [task |-> j.task, sub |-> j.sub, at |-> m]
        BY DEF WorkInv, PubInv, IntentsTell
      <3>2. j.task # NoTask
        BY DEF WorkInv, PubInv, IntentsTell
      <3>3. CASE intents[j].result = landed[m]
        BY <3>3 DEF Landed
      <3>4. CASE intents[j].result = [task |-> j.task, sub |-> j.sub, at |-> m]
        <4>1. intents[j].result # rev
          BY <1>5, <3>2, <3>4
        <4> QED BY <1>1, <1>7, <2>1, <4>1
      <3> QED BY <3>1, <3>3, <3>4
    <2>2. DOMAIN recons \subseteq DOMAIN intents
      BY DEF WorkInv, Types
    <2>3. ASSUME NEW j \in DOMAIN recons, recons[j].agent, recons[j].disposition = "not_published",
                 intents[j].result # intents[j].base, Landed(intents[j].result)'
          PROVE  \E l \in DOMAIN intents \ {j} :
                   intents[l].result = intents[j].result /\ acts[l].push = "ended"
      BY <2>1, <2>2, <2>3 DEF WorkInv, PubInv, AgentNonPublicationIsFinal
    <2> QED BY <1>1, <2>3 DEF AgentNonPublicationIsFinal
  <1> QED BY <1>1, <1>8, <1>9, <1>10, <1>11, <1>12, <1>13, <1>14, <1>15 DEF WorkInv, PubInv

LEMMA ResultKeeps ==
  ASSUME WorkInv, NEW i \in DOMAIN acts, NEW p \in People,
         NEW state \in {"published", "not_published", "uncertain"}, IntegrationResult(p, i, state)
  PROVE  WorkInv'
  <1> DEFINE row == [state |-> state]
  <1>0. /\ acts[i] \in Activity /\ acts[i].state \in {"queued", "active"}
        /\ i \in DOMAIN intents /\ i \notin DOMAIN results
        /\ results' = Insert(results, i, row)
        /\ UNCHANGED <<subj, reviews, intents, recons, policy, landed>>
    BY DEF WorkInv, Types, IntegrationResult, Owns, Eligible
  <1>1. ResultsTyped
    <2>1. row \in ResultRow
      BY DEF ResultRow
    <2> HIDE DEF row
    <2> QED BY <1>0, <2>1 DEF ResultsTyped, Insert, WorkInv, Types
  <1> HIDE DEF row
  <1>2. CASE state = "published"
    <2>1. acts' = [acts EXCEPT ![i] = acts[i]]
      BY <1>2 DEF IntegrationResult, WorkInv, Types
    <2>2. Harmless(i, acts[i])
      BY <1>0 DEF Harmless, Activity
    <2> QED BY <1>0, <1>1, <2>1, <2>2, RowFrame
  <1>3. CASE state # "published"
    <2> DEFINE new == [Disown(acts[i]) EXCEPT !.state = "recovery_required", !.blocked = TRUE]
    <2>1. acts' = [acts EXCEPT ![i] = new]
      BY <1>3 DEF IntegrationResult
    <2>2. /\ new \in Activity /\ new.push = acts[i].push /\ new.passed = acts[i].passed
          /\ new.hold = acts[i].hold /\ new.state = "recovery_required" /\ new.busy = acts[i].busy
          /\ new.blocked = TRUE /\ ~new.live
      <3> DEFINE d == Disown(acts[i])
      <3>1. /\ d \in Activity /\ d.push = acts[i].push /\ d.passed = acts[i].passed
            /\ d.hold = acts[i].hold /\ d.busy = acts[i].busy /\ ~d.live
        BY <1>0, DisownRow
      <3> HIDE DEF d
      <3>2. new = [d EXCEPT !.state = "recovery_required", !.blocked = TRUE]
        BY DEF d
      <3> QED BY <3>1, <3>2 DEF Activity
    <2> HIDE DEF new
    <2>3. Harmless(i, new)
      BY <1>0, <2>2 DEF Harmless, Activity
    <2> QED BY <1>0, <1>1, <2>1, <2>3, RowFrame
  <1> QED BY <1>2, <1>3

\* A reconciliation closes the activity and holds the target for its replacement.
LEMMA ReplaceKeeps ==
  ASSUME WorkInv, NEW i \in DOMAIN acts, NEW row \in ReconRow,
         i \in DOMAIN intents \ DOMAIN recons, i.sub = subj[i.task].sub,
         Replace(i), recons' = Insert(recons, i, row),
         UNCHANGED <<subj, reviews, intents, results, policy, landed>>,
         row.agent => /\ acts[i].push # "cleared"
                      /\ row.disposition = "not_published" =>
                           ~Landed(intents[i].result) \/ intents[i].result = intents[i].base
  PROVE  WorkInv'
  <1>0. /\ acts[i] \in Activity /\ i \in Key /\ i.kind = "integration" /\ i.task \in Tasks
        /\ subj[i.task].phase # "review" /\ subj[i.task].sub \in Nat /\ i.sub >= 1
    <2>1. i \in Key /\ i.kind = "integration" /\ i.task \in Tasks /\ acts[i] \in Activity
      BY DEF WorkInv, Types, PubInv, IntentsTell
    <2>2. subj[i.task].phase # "review"
      BY <2>1 DEF WorkInv, RevInv, Waiting
    <2>3. subj[i.task].sub \in Nat /\ i.sub >= 1
      BY <2>1 DEF WorkInv, RevInv, Submitted, Types, Subject
    <2> QED BY <2>1, <2>2, <2>3
  <1> DEFINE gone == CloseHold(Cancel(Disown(acts[i])))
             end == [gone EXCEPT !.blocked = FALSE]
             as == [acts EXCEPT ![i] = end]
  <1>1. /\ end \in Activity /\ end.push = acts[i].push /\ end.passed = acts[i].passed
        /\ end.hold # "held" /\ end.busy = acts[i].busy /\ ~end.live
        /\ end.state = IF acts[i].state \in {"queued", "active"} THEN "canceled" ELSE acts[i].state
    <2> DEFINE d == Disown(acts[i])
               c == Cancel(d)
    <2>1. /\ d \in Activity /\ d.push = acts[i].push /\ d.passed = acts[i].passed
          /\ d.busy = acts[i].busy /\ d.state = acts[i].state /\ ~d.live
      BY <1>0, DisownRow
    <2> HIDE DEF d
    <2>2. /\ c \in Activity /\ c.push = d.push /\ c.passed = d.passed /\ c.busy = d.busy
          /\ c.state = (IF d.state \in {"queued", "active"} THEN "canceled" ELSE d.state)
          /\ c.live = d.live
      BY <2>1, CancelRow
    <2> HIDE DEF c
    <2>3. /\ CloseHold(c) \in Activity /\ CloseHold(c).push = c.push
          /\ CloseHold(c).passed = c.passed /\ CloseHold(c).busy = c.busy
          /\ CloseHold(c).state = c.state /\ CloseHold(c).live = c.live
          /\ CloseHold(c).hold # "held"
      BY <2>2, CloseRow
    <2>4. gone = CloseHold(c)
      BY DEF c, d
    <2> HIDE DEF gone
    <2>5. /\ end \in Activity /\ end.push = gone.push /\ end.passed = gone.passed
          /\ end.hold = gone.hold /\ end.busy = gone.busy /\ end.live = gone.live
          /\ end.state = gone.state
      BY <2>3, <2>4 DEF Activity
    <2> HIDE DEF end
    <2> QED BY <2>1, <2>2, <2>3, <2>4, <2>5
  <1>2. NoHold(as) /\ acts' = Create(as, i.task, i.sub, "integration", FALSE, "held")
    <2>1. [acts EXCEPT ![i] = [CloseHold(Cancel(Disown(@))) EXCEPT !.blocked = FALSE]] = as
      BY DEF WorkInv, Types
    <2> QED BY <2>1 DEF Replace
  <1> HIDE DEF end
  <1>3. /\ DOMAIN as = DOMAIN acts /\ as \in [DOMAIN as -> Activity] /\ as[i] = end
        /\ \A j \in DOMAIN acts \ {i} : as[j] = acts[j]
    BY <1>1 DEF WorkInv, Types
  <1> HIDE DEF as
  <1>4. PICK k : /\ k.task = i.task /\ k.sub = i.sub /\ k.kind = "integration"
                 /\ Added(as, k, Activity0(FALSE, "held"))
    <2>1. Table(as)
      BY <1>3 DEF WorkInv, Types, Table
    <2> QED BY <1>0, <1>2, <2>1, CreateAdds
  <1>5. /\ Activity0(FALSE, "held").hold = "held" /\ Activity0(FALSE, "held").push = "idle"
        /\ Activity0(FALSE, "held").state = "queued" /\ ~Activity0(FALSE, "held").busy
    BY InitialRow
  <1>6. /\ DOMAIN acts' = DOMAIN acts \cup {k} /\ k \notin DOMAIN acts /\ i # k
        /\ acts'[k] = Activity0(FALSE, "held") /\ acts'[i] = end
        /\ \A j \in DOMAIN acts \ {i} : acts'[j] = acts[j]
        /\ DOMAIN intents \subseteq DOMAIN acts /\ DOMAIN recons \subseteq DOMAIN intents
    BY <1>3, <1>4 DEF Added, WorkInv, Types
  <1>7. /\ DOMAIN recons' = DOMAIN recons \cup {i} /\ recons'[i] = row
        /\ recons' \in [DOMAIN recons' -> ReconRow]
        /\ \A j \in DOMAIN recons : recons'[j] = recons[j]
    BY DEF Insert, WorkInv, Types
  <1>8. Types'
    <2>1. DOMAIN acts' \subseteq Key /\ acts' \in [DOMAIN acts' -> Activity]
      BY <1>4, <1>6 DEF Added, WorkInv, Types
    <2> QED BY <1>6, <1>7, <2>1 DEF WorkInv, Types
  <1>9. RevInv'
    <2>1. /\ k.task \in Tasks /\ k.sub >= 1 /\ k.sub <= subj[k.task].sub
          /\ acts'[k].state # "completed" /\ ~acts'[k].busy /\ subj[k.task].phase # "review"
      <3>1. k.task = i.task /\ k.sub = i.sub
        BY <1>4
      <3>2. i.sub <= subj[i.task].sub
        BY <1>0
      <3>3. acts'[k].state # "completed" /\ ~acts'[k].busy
        BY <1>5, <1>6
      <3> QED BY <1>0, <3>1, <3>2, <3>3
    <2>2. \A j \in DOMAIN acts :
            /\ j.kind \in ReviewKinds =>
                 (acts'[j].state = "completed" <=> acts[j].state = "completed")
            /\ acts'[j].busy => acts[j].busy
            /\ j # i => acts'[j].blocked = acts[j].blocked /\ acts'[j].live = acts[j].live
      BY <1>0, <1>1, <1>6 DEF ReviewKinds
    <2>3. RevQuiet
      BY <1>0, <1>6, <2>1, <2>2 DEF RevQuiet
    <2> QED BY <2>3, RevFrame DEF WorkInv
  <1>10. Held'
    <2>1. \A j \in DOMAIN acts : acts'[j].hold # "held"
      <3>1. \A j \in DOMAIN acts : acts'[j] = as[j]
        BY <1>3, <1>4 DEF Added
      <3> QED BY <1>2, <1>3, <3>1 DEF NoHold
    <2>2. \A j \in DOMAIN intents \ DOMAIN recons : acts'[j].state # "completed" => j = i
      <3>1. \A j \in DOMAIN intents \ DOMAIN recons : j # i /\ acts'[j].state # "completed" => FALSE
        BY <1>6, <2>1 DEF WorkInv, PubInv, Held
      <3> QED BY <3>1
    <2> QED BY <1>6, <1>7, <2>1, <2>2 DEF Held
  <1>11. IntentsTell' /\ BranchGrows'
    <2>1. \A j : Contained(j)' <=> Contained(j)
      BY DEF Contained
    <2>2. IntentsTell'
      BY <2>1 DEF WorkInv, PubInv, IntentsTell
    <2>3. BranchGrows'
      BY DEF WorkInv, PubInv, BranchGrows, Foreigns, Elsewhere
    <2> QED BY <2>2, <2>3
  <1>12. ClearedMay'
    <2>1. \A j \in DOMAIN acts : acts'[j].push = acts[j].push /\ acts'[j].passed = acts[j].passed
      BY <1>1, <1>6
    <2>2. acts'[k].push = "idle"
      BY <1>5, <1>6
    <2> QED BY <1>6, <2>1, <2>2 DEF WorkInv, PubInv, ClearedMay
  <1>13. ReconciledEnds'
    <2>1. acts'[i].state \notin {"queued", "active"} /\ acts'[i].push = acts[i].push
      BY <1>1, <1>6
    <2>2. \A j \in DOMAIN recons : j # i /\ acts'[j] = acts[j]
      BY <1>6
    <2> QED BY <1>7, <2>1, <2>2 DEF WorkInv, PubInv, ReconciledEnds
  <1>14. LandingsChecked'
    <2>1. \A j \in DOMAIN intents : acts'[j].passed = acts[j].passed
      BY <1>1, <1>6
    <2> QED BY <2>1 DEF WorkInv, PubInv, LandingsChecked
  <1>15. FinalizedIsLanded'
    <2>1. \A j \in DOMAIN intents : acts'[j].state = "completed" => acts[j].state = "completed"
      BY <1>1, <1>6
    <2>2. \A j : Contained(j)' <=> Contained(j)
      BY DEF Contained
    <2> QED BY <2>1, <2>2 DEF WorkInv, PubInv, FinalizedIsLanded, Landed
  <1>16. AgentNonPublicationIsFinal'
    <2>1. \A j \in DOMAIN intents : acts'[j].push = acts[j].push
      BY <1>1, <1>6
    <2>2. \A x : Landed(x)' <=> Landed(x)
      BY DEF Landed
    <2>3. ASSUME NEW j \in DOMAIN recons', recons'[j].agent,
                 recons'[j].disposition = "not_published",
                 intents[j].result # intents[j].base, Landed(intents[j].result)
          PROVE  \E l \in DOMAIN intents \ {j} :
                   intents[l].result = intents[j].result /\ acts'[l].push = "ended"
      <3>1. j # i /\ j \in DOMAIN recons /\ recons'[j] = recons[j]
        BY <1>7, <2>3
      <3>2. PICK l \in DOMAIN intents \ {j} :
              intents[l].result = intents[j].result /\ acts[l].push = "ended"
        BY <2>3, <3>1 DEF WorkInv, PubInv, AgentNonPublicationIsFinal
      <3> QED BY <2>1, <3>2
    <2> QED BY <2>2, <2>3 DEF AgentNonPublicationIsFinal
  <1> QED BY <1>4, <1>8, <1>9, <1>10, <1>11, <1>12, <1>13, <1>14, <1>15, <1>16
          DEF WorkInv, PubInv, Added

LEMMA ReconcileKeeps ==
  ASSUME WorkInv, NEW i \in DOMAIN acts, NEW d \in {"published", "not_published", "target_moved"},
         Reconcile(i, d)
  PROVE  WorkInv'
  <1> DEFINE row == [disposition |-> d, agent |-> FALSE]
  <1>1. row \in ReconRow /\ ~row.agent /\ recons' = Insert(recons, i, row)
    BY DEF ReconRow, Reconcile
  <1> HIDE DEF row
  <1> QED BY <1>1, ReplaceKeeps DEF Reconcile

LEMMA AgentReconcileKeeps ==
  ASSUME WorkInv, NEW i \in DOMAIN acts, NEW d \in {"published", "not_published"},
         AgentReconcile(i, d)
  PROVE  WorkInv'
  <1> DEFINE row == [disposition |-> d, agent |-> TRUE]
  <1>1. row \in ReconRow /\ row.disposition = d /\ recons' = Insert(recons, i, row)
    BY DEF ReconRow, AgentReconcile
  <1> HIDE DEF row
  <1>2. /\ i \in DOMAIN intents \ DOMAIN recons /\ i.sub = subj[i.task].sub /\ acts[i].push # "cleared"
        /\ Replace(i) /\ UNCHANGED <<subj, reviews, intents, results, policy, landed>>
    BY DEF AgentReconcile, PinsCurrent
  <1>3. d = "not_published" =>
          ~Landed(intents[i].result) \/ intents[i].result = intents[i].base
    <2>1. d = "not_published" => Target = intents[i].base
      BY DEF AgentReconcile, Shows
    <2> QED BY <1>2, <2>1, BuiltHere DEF WorkInv, PubInv
  <1> QED BY <1>1, <1>2, <1>3, ReplaceKeeps

LEMMA FinalizeKeeps ==
  ASSUME WorkInv, NEW i \in DOMAIN acts, NEW p \in People, Finalize(p, i)
  PROVE  WorkInv'
  <1> DEFINE t == i.task
             gone == CloseHold(Disown(acts[i]))
             new == [gone EXCEPT !.state = "completed", !.blocked = FALSE]
             done == [subj[t] EXCEPT !.phase = "done", !.open = FALSE, !.owner = Nobody]
  <1>0. /\ acts[i] \in Activity /\ i \in Key /\ t \in Tasks /\ i.kind = "integration"
        /\ i \in DOMAIN intents /\ acts[i].state \in {"queued", "active"}
        /\ Target = intents[i].result /\ ~subj[t].superseded /\ i.sub = subj[t].sub
        /\ acts' = [acts EXCEPT ![i] = new]
        /\ UNCHANGED <<reviews, intents, results, recons, policy, landed>>
    <2>1. i \in DOMAIN intents /\ i.kind = "integration" /\ t \in Tasks /\ acts[i] \in Activity
      BY DEF WorkInv, Types, PubInv, IntentsTell, Finalize, ReportedAs
    <2> QED BY <2>1 DEF WorkInv, Types, Finalize, Owns, Eligible, PinsCurrent
  <1>1. /\ new \in Activity /\ new.push = acts[i].push /\ new.passed = acts[i].passed
        /\ new.hold # "held" /\ new.busy = acts[i].busy /\ new.state = "completed"
    <2> DEFINE d == Disown(acts[i])
    <2>1. /\ d \in Activity /\ d.push = acts[i].push /\ d.passed = acts[i].passed
          /\ d.busy = acts[i].busy
      BY <1>0, DisownRow
    <2> HIDE DEF d
    <2>2. /\ CloseHold(d) \in Activity /\ CloseHold(d).push = d.push
          /\ CloseHold(d).passed = d.passed /\ CloseHold(d).busy = d.busy
          /\ CloseHold(d).hold # "held"
      BY <2>1, CloseRow
    <2>3. gone = CloseHold(d)
      BY DEF d
    <2>4. /\ gone \in Activity /\ gone.push = acts[i].push /\ gone.passed = acts[i].passed
          /\ gone.busy = acts[i].busy /\ gone.hold # "held"
      BY <2>1, <2>2, <2>3
    <2> HIDE DEF gone
    <2> QED BY <2>4 DEF Activity
  <1> HIDE DEF new
  <1>2. Rewritten(i, new) /\ ActsTyped
    BY <1>0, <1>1, RowMoves DEF WorkInv
  <1>3. /\ subj' = [subj EXCEPT ![t] = done]
        /\ subj[t] \in Subject /\ subj \in [Tasks -> Subject]
    BY <1>0 DEF Finalize, WorkInv, Types
  <1>4. /\ done \in Subject /\ done.phase = "done" /\ done.sub = subj[t].sub
        /\ done.superseded = subj[t].superseded /\ done.contributors = subj[t].contributors
    BY <1>3 DEF Subject
  <1> HIDE DEF done
  <1>5. /\ subj' \in [Tasks -> Subject] /\ subj'[t] = done
        /\ \A r \in Tasks \ {t} : subj'[r] = subj[r]
    BY <1>0, <1>3, <1>4
  <1>6. /\ DOMAIN acts' = DOMAIN acts /\ intents' = intents /\ recons' = recons /\ landed' = landed
        /\ DOMAIN intents \subseteq DOMAIN acts /\ DOMAIN recons \subseteq DOMAIN intents
        /\ acts'[i] = new /\ \A j \in DOMAIN acts \ {i} : acts'[j] = acts[j]
        /\ DOMAIN acts \subseteq Key /\ \A j \in DOMAIN acts : j.task \in Tasks
    BY <1>0, <1>2, KeyFields DEF Rewritten, WorkInv, Types
  <1>7. Types'
    BY <1>0, <1>2, <1>5 DEF WorkInv, Types, ActsTyped
  <1>8. \A r \in Tasks : /\ subj'[r].sub = subj[r].sub /\ subj'[r].superseded = subj[r].superseded
                         /\ subj'[r].contributors = subj[r].contributors
                         /\ subj'[r] = subj[r] \/ (subj'[r].phase = "done" /\ ~subj'[r].superseded)
    BY <1>0, <1>4, <1>5
  <1>9. RevInv'
    <2>1. Submitted'
      <3>1. subj[t].sub >= 1 /\ subj[t].sub \in Nat
        BY <1>0, <1>3, <1>6 DEF WorkInv, RevInv, Submitted, Subject
      <3> QED BY <1>4, <1>5, <1>6, <1>8, <3>1 DEF WorkInv, RevInv, Submitted
    <2>2. Superseded'
      <3>1. ASSUME NEW r \in Tasks, subj'[r].phase = "revision_needed" PROVE Quiescent(acts', r)
        <4>1. subj[r].phase = "revision_needed"
          BY <1>8, <3>1
        <4>2. \A j \in Of(acts, r) : ~acts[j].busy
          BY <4>1 DEF WorkInv, RevInv, Superseded, Quiescent
        <4>3. \A j \in DOMAIN acts : acts'[j].busy = acts[j].busy
          BY <1>1, <1>6
        <4> QED BY <1>6, <4>2, <4>3 DEF Quiescent, Of
      <3> QED BY <1>8, <3>1 DEF WorkInv, RevInv, Superseded, Quiescent, Of
    <2>3. Decided'
      <3>1. \A j \in DOMAIN acts : j.kind \in ReviewKinds => acts'[j] = acts[j]
        BY <1>0, <1>6 DEF ReviewKinds
      <3>2. DOMAIN reviews \subseteq DOMAIN acts
        BY DEF WorkInv, Types
      <3> QED BY <1>0, <1>6, <1>8, <3>1, <3>2 DEF WorkInv, RevInv, Decided
    <2>4. Waiting'
      <3> SUFFICES ASSUME NEW j \in DOMAIN acts, j.kind = "integration",
                          j.sub = subj'[j.task].sub, subj'[j.task].phase = "review"
                   PROVE  acts'[j].blocked /\ ~acts'[j].live /\ j \notin DOMAIN intents
        BY <1>6 DEF Waiting
      <3>1. subj'[j.task] = subj[j.task] /\ j.task # t
        BY <1>4, <1>5, <1>6, <1>8
      <3> QED BY <1>6, <3>1 DEF WorkInv, RevInv, Waiting
    <2>5. JudgedIsCurrent'
      BY <1>8 DEF WorkInv, RevInv, JudgedIsCurrent
    <2> QED BY <2>1, <2>2, <2>3, <2>4, <2>5 DEF RevInv
  <1>10. Held'
    BY <1>1, <1>6 DEF WorkInv, PubInv, Held
  <1>11. \A j : Contained(j)' <=> Contained(j)
    BY <1>6 DEF Contained
  <1>12. IntentsTell' /\ BranchGrows'
    <2>1. IntentsTell'
      BY <1>6, <1>11 DEF WorkInv, PubInv, IntentsTell
    <2>2. BranchGrows'
      BY <1>6 DEF WorkInv, PubInv, BranchGrows, Foreigns, Elsewhere
    <2> QED BY <2>1, <2>2
  <1>13. ClearedMay' /\ ReconciledEnds'
    BY <1>0, <1>1, <1>6 DEF WorkInv, PubInv, ClearedMay, ReconciledEnds
  <1>14. LandingsChecked'
    <2>1. \A j \in DOMAIN intents : acts'[j].passed = acts[j].passed
      BY <1>1, <1>6
    <2> QED BY <1>6, <2>1 DEF WorkInv, PubInv, LandingsChecked
  <1>15. FinalizedIsLanded'
    <2>1. Landed(intents[i].result) /\ Contained(i)
      <3>1. /\ Len(landed) \in Nat /\ Len(landed) >= 1 /\ Target = landed[Len(landed)]
        BY TargetIsLast DEF WorkInv
      <3>2. Len(landed) \in 1 .. Len(landed)
        BY <3>1
      <3>3. Landed(intents[i].result)
        BY <1>0, <3>1, <3>2 DEF Landed
      <3>4. PICK n \in 1 .. Len(landed) :
              \/ intents[i].result = landed[n] /\ Contained(i)
              \/ intents[i].result = [task |-> i.task, sub |-> i.sub, at |-> n]
        BY <1>0 DEF WorkInv, PubInv, IntentsTell
      <3>5. CASE intents[i].result = [task |-> i.task, sub |-> i.sub, at |-> n]
        <4> DEFINE rev == [task |-> i.task, sub |-> i.sub, at |-> n]
        <4>1. rev.task = i.task /\ rev.sub = i.sub
          OBVIOUS
        <4> HIDE DEF rev
        <4>2. intents[i].result = rev
          BY <3>5 DEF rev
        <4>3. landed[Len(landed)] = rev
          BY <1>0, <3>1, <4>2
        <4> DEFINE m == Len(landed)
        <4>4. m \in 1 .. Len(landed) /\ landed[m].task = i.task /\ landed[m].sub = i.sub
          BY <3>2, <4>1, <4>3
        <4> HIDE DEF m
        <4>5. Contained(i)
          BY <4>4, Zenon DEF Contained
        <4> QED BY <3>3, <4>5
      <3> QED BY <3>3, <3>4, <3>5
    <2>2. \A j \in DOMAIN intents : j # i => acts'[j] = acts[j]
      BY <1>6
    <2>3. \A x : Landed(x)' <=> Landed(x)
      BY <1>6 DEF Landed
    <2>4. ASSUME NEW j \in DOMAIN intents, acts'[j].state = "completed"
          PROVE  Landed(intents[j].result) /\ Contained(j)
      BY <2>1, <2>2, <2>4 DEF WorkInv, PubInv, FinalizedIsLanded
    <2> QED BY <1>6, <1>11, <2>3, <2>4 DEF FinalizedIsLanded
  <1>16. AgentNonPublicationIsFinal'
    <2>1. \A j \in DOMAIN intents : acts'[j].push = acts[j].push
      BY <1>1, <1>6
    <2> QED BY <1>6, <2>1 DEF WorkInv, PubInv, AgentNonPublicationIsFinal, Landed
  <1> QED BY <1>6, <1>7, <1>9, <1>10, <1>12, <1>13, <1>14, <1>15, <1>16 DEF WorkInv, PubInv

\* A subject is handed back: what is current is superseded, and nothing of it runs.
HandedBack(t) ==
  /\ subj' \in [Tasks -> Subject] /\ \A r \in Tasks \ {t} : subj'[r] = subj[r]
  /\ subj'[t].phase = "revision_needed" /\ subj'[t].superseded
  /\ subj'[t].sub = subj[t].sub /\ subj[t].phase # "none"

LEMMA ReopenKeeps ==
  ASSUME WorkInv, NEW t \in Tasks, NEW p \in People, Reopen(p, t)
  PROVE  WorkInv'
  <1> DEFINE mine == OfCurrent(acts, t)
             end(j) == CloseHold(Cancel(Disown(acts[j])))
  <1>0. /\ acts' = [j \in DOMAIN acts |-> IF j \in mine THEN end(j) ELSE acts[j]]
        /\ \A j \in mine : ~Effect(j)
        /\ Quiescent(acts, t)
        /\ UNCHANGED <<reviews, intents, results, recons, policy, landed>>
        /\ \A j \in mine : j \in DOMAIN acts /\ j.task = t
        /\ DOMAIN intents \subseteq DOMAIN acts /\ DOMAIN recons \subseteq DOMAIN intents
        /\ DOMAIN acts \subseteq Key /\ \A j \in DOMAIN acts : j.task \in Tasks
    BY KeyFields DEF Reopen, OfCurrent, Of, WorkInv, Types
  <1>1. ASSUME NEW j \in DOMAIN acts
        PROVE  /\ end(j) \in Activity /\ end(j).push = acts[j].push /\ end(j).passed = acts[j].passed
               /\ end(j).hold # "held" /\ end(j).busy = acts[j].busy
               /\ end(j).state = IF acts[j].state \in {"queued", "active"} THEN "canceled"
                                                                          ELSE acts[j].state
    <2> DEFINE d == Disown(acts[j])
               c == Cancel(d)
    <2>1. /\ d \in Activity /\ d.push = acts[j].push /\ d.passed = acts[j].passed
          /\ d.busy = acts[j].busy /\ d.state = acts[j].state
      BY DisownRow DEF WorkInv, Types
    <2> HIDE DEF d
    <2>2. /\ c \in Activity /\ c.push = d.push /\ c.passed = d.passed /\ c.busy = d.busy
          /\ c.state = (IF d.state \in {"queued", "active"} THEN "canceled" ELSE d.state)
      BY <2>1, CancelRow
    <2> HIDE DEF c
    <2>3. /\ CloseHold(c) \in Activity /\ CloseHold(c).push = c.push
          /\ CloseHold(c).passed = c.passed /\ CloseHold(c).busy = c.busy
          /\ CloseHold(c).state = c.state /\ CloseHold(c).hold # "held"
      BY <2>2, CloseRow
    <2>4. end(j) = CloseHold(c)
      BY DEF c, d
    <2> HIDE DEF end
    <2> QED BY <2>1, <2>2, <2>3, <2>4
  <1> HIDE DEF end
  <1>2. /\ DOMAIN acts' = DOMAIN acts /\ acts' \in [DOMAIN acts' -> Activity]
        /\ \A j \in mine : acts'[j] = end(j)
        /\ \A j \in DOMAIN acts \ mine : acts'[j] = acts[j]
    BY <1>0, <1>1 DEF WorkInv, Types
  <1>3. HandedBack(t)
    <2>1. subj' = [subj EXCEPT ![t].phase = "revision_needed", ![t].superseded = TRUE]
      BY DEF Reopen
    <2> DEFINE back == [subj[t] EXCEPT !.phase = "revision_needed", !.superseded = TRUE]
    <2>2. subj[t] \in Subject /\ subj \in [Tasks -> Subject] /\ subj' = [subj EXCEPT ![t] = back]
      BY <2>1 DEF WorkInv, Types
    <2>3. back \in Subject /\ back.phase = "revision_needed" /\ back.superseded /\ back.sub = subj[t].sub
      BY <2>2 DEF Subject
    <2> HIDE DEF back
    <2>4. subj[t].phase # "none"
      BY DEF Reopen
    <2> QED BY <2>2, <2>3, <2>4 DEF HandedBack
  <1> HIDE DEF mine
  <1>4. Types'
    BY <1>0, <1>2, <1>3 DEF WorkInv, Types, HandedBack
  <1>5. PubInv'
    <2>1. \A j \in mine : j \notin DOMAIN intents \ DOMAIN recons
      BY <1>0 DEF Effect
    <2>2. PubQuiet
      BY <1>0, <1>1, <1>2, <2>1 DEF PubQuiet
    <2> QED BY <2>2, PubFrame DEF WorkInv
  <1>6. RevInv'
    <2>1. \A j \in DOMAIN acts : acts'[j].busy = acts[j].busy
              /\ (acts'[j].state = "completed" <=> acts[j].state = "completed")
      BY <1>0, <1>1, <1>2
    <2>2. Submitted'
      BY <1>0, <1>2, <1>3 DEF WorkInv, RevInv, Submitted, HandedBack
    <2>3. Superseded'
      <3>1. \A r \in Tasks : Quiescent(acts, r) => Quiescent(acts', r)
        BY <1>2, <2>1 DEF Quiescent, Of
      <3>2. \A r \in Tasks : Quiescent(acts, r)' <=> Quiescent(acts', r)
        BY DEF Quiescent, Of
      <3> QED BY <1>0, <1>3, <3>1, <3>2 DEF WorkInv, RevInv, Superseded, HandedBack
    <2>4. Decided'
      <3>1. DOMAIN reviews \subseteq DOMAIN acts /\ reviews' = reviews
        BY <1>0 DEF WorkInv, Types
      <3> QED BY <1>0, <1>2, <1>3, <2>1, <3>1 DEF WorkInv, RevInv, Decided, HandedBack
    <2>5. Waiting'
      <3> SUFFICES ASSUME NEW j \in DOMAIN acts, j.kind = "integration",
                          j.sub = subj'[j.task].sub, subj'[j.task].phase = "review"
                   PROVE  acts'[j].blocked /\ ~acts'[j].live /\ j \notin DOMAIN intents
        BY <1>0, <1>2 DEF Waiting
      <3>1. j.task # t
        BY <1>3 DEF HandedBack
      <3>2. subj'[j.task] = subj[j.task] /\ j \notin mine
        BY <1>0, <1>3, <3>1 DEF HandedBack
      <3> QED BY <1>2, <3>2 DEF WorkInv, RevInv, Waiting
    <2>6. JudgedIsCurrent'
      BY <1>3 DEF WorkInv, RevInv, JudgedIsCurrent, HandedBack
    <2> QED BY <2>2, <2>3, <2>4, <2>5, <2>6 DEF RevInv
  <1> QED BY <1>2, <1>4, <1>5, <1>6 DEF WorkInv

---------------------------------------------------------------------------
(* The subject task and submissions.                                        *)

\* Steps of the subject task alone.
LEMMA SubjectFrame ==
  ASSUME WorkInv, NEW t \in Tasks, NEW new \in Subject, subj' = [subj EXCEPT ![t] = new],
         UNCHANGED <<acts, reviews, intents, results, recons, policy, landed>>,
         new.sub = subj[t].sub, new.superseded = subj[t].superseded,
         subj[t].phase \in {"none", "revision_needed"} \/ new.contributors = subj[t].contributors,
         subj[t].phase \notin {"review", "integration"},
         new.phase = subj[t].phase \/ (new.phase = "done" /\ subj[t].phase = "revision_needed")
  PROVE  WorkInv'
  <1>1. /\ subj' \in [Tasks -> Subject] /\ subj'[t] = new
        /\ \A r \in Tasks \ {t} : subj'[r] = subj[r]
        /\ DOMAIN reviews \subseteq DOMAIN acts /\ DOMAIN intents \subseteq DOMAIN acts
        /\ \A j \in DOMAIN acts : j.task \in Tasks
    BY KeyFields DEF WorkInv, Types
  <1>2. Types'
    BY <1>1 DEF WorkInv, Types
  <1>3. PubInv'
    <2>1. PubQuiet
      BY DEF PubQuiet
    <2> QED BY <2>1, PubFrame DEF WorkInv
  <1>4. RevInv'
    <2>1. Submitted'
      BY <1>1 DEF WorkInv, RevInv, Submitted
    <2>2. Superseded'
      BY <1>1 DEF WorkInv, RevInv, Superseded, Quiescent, Of
    <2>3. Decided'
      <3>1. ASSUME NEW j \in DOMAIN reviews, j.task = t, j.sub = subj[t].sub, ~subj[t].superseded,
                   subj[t].phase \in {"none", "revision_needed"}
            PROVE  FALSE
        <4>1. j.sub >= 1 /\ (subj[t].phase = "none" => subj[t].sub = 0)
          BY <1>1 DEF WorkInv, RevInv, Submitted
        <4>2. subj[t].phase # "revision_needed"
          BY <3>1 DEF WorkInv, RevInv, Superseded
        <4> QED BY <3>1, <4>1, <4>2
      <3> QED BY <1>1, <3>1 DEF WorkInv, RevInv, Decided
    <2>4. Waiting'
      BY <1>1 DEF WorkInv, RevInv, Waiting
    <2>5. JudgedIsCurrent'
      BY <1>1 DEF WorkInv, RevInv, JudgedIsCurrent
    <2> QED BY <2>1, <2>2, <2>3, <2>4, <2>5 DEF RevInv
  <1> QED BY <1>2, <1>3, <1>4 DEF WorkInv

LEMMA TaskKeeps ==
  ASSUME WorkInv, NEW t \in Tasks,
         (\E p \in Agents : ClaimTask(p, t)) \/ EditTask(t) \/ CompleteExternally(t)
  PROVE  WorkInv'
  <1>0. subj[t] \in Subject /\ subj \in [Tasks -> Subject]
    BY DEF WorkInv, Types
  <1>1. ASSUME NEW p \in Agents, ClaimTask(p, t) PROVE WorkInv'
    <2> DEFINE new == [subj[t] EXCEPT !.owner = p, !.contributors = @ \cup {p}]
    <2>1. subj' = [subj EXCEPT ![t] = new]
      BY <1>1 DEF ClaimTask
    <2>2. /\ new \in Subject /\ new.sub = subj[t].sub /\ new.superseded = subj[t].superseded
          /\ new.phase = subj[t].phase
      BY <1>0 DEF Subject
    <2> HIDE DEF new
    <2> QED BY <1>1, <2>1, <2>2, SubjectFrame DEF ClaimTask, Claimable
  <1>2. ASSUME EditTask(t) PROVE WorkInv'
    <2> DEFINE new == [subj[t] EXCEPT !.digest = @ + 1]
    <2>1. subj' = [subj EXCEPT ![t] = new]
      BY <1>2 DEF EditTask
    <2>2. /\ new \in Subject /\ new.sub = subj[t].sub /\ new.superseded = subj[t].superseded
          /\ new.phase = subj[t].phase
      BY <1>0 DEF Subject
    <2> HIDE DEF new
    <2> QED BY <1>2, <2>1, <2>2, SubjectFrame DEF EditTask, Claimable
  <1>3. ASSUME CompleteExternally(t) PROVE WorkInv'
    <2>0. /\ subj[t].phase \notin {"review", "integration"} /\ subj[t].open
          /\ UNCHANGED <<acts, reviews, intents, results, recons, policy, landed>>
      BY <1>3 DEF CompleteExternally
    <2> DEFINE phase == IF subj[t].phase = "revision_needed" THEN "done" ELSE subj[t].phase
               new == [subj[t] EXCEPT !.open = FALSE, !.phase = phase]
    <2>1. subj' = [subj EXCEPT ![t] = new]
      BY <1>3 DEF CompleteExternally
    <2>2. /\ new \in Subject /\ new.sub = subj[t].sub /\ new.superseded = subj[t].superseded
          /\ new.phase = phase /\ new.pinned = subj[t].pinned /\ new.contributors = subj[t].contributors
      BY <1>0 DEF Subject
    <2> HIDE DEF new
    <2>3. phase = subj[t].phase \/ (phase = "done" /\ subj[t].phase = "revision_needed")
      OBVIOUS
    <2> HIDE DEF phase
    <2> QED BY <2>0, <2>1, <2>2, <2>3, SubjectFrame
  <1> QED BY <1>1, <1>2, <1>3

\* A table with new activities of some kinds.
Widened(as, res, t, n, kinds, b) ==
  /\ Table(res) /\ DOMAIN as \subseteq DOMAIN res
  /\ \A j \in DOMAIN as : res[j] = as[j]
  /\ \A j \in DOMAIN res \ DOMAIN as :
       j.task = t /\ j.sub = n /\ j.kind \in kinds /\ res[j] = Activity0(b, "none")

LEMMA CreateAllAdds ==
  ASSUME NEW as, Table(as), NEW t \in Tasks, NEW n \in Nat, NEW kinds \in SUBSET Kinds,
         NEW b \in BOOLEAN
  PROVE  Widened(as, CreateAll(as, t, n, kinds, b), t, n, kinds, b)
  <1> DEFINE fresh == {NextSlot(as, t, n, k) : k \in kinds}
             res == CreateAll(as, t, n, kinds, b)
  <1>1. \A j \in fresh : /\ IsNext(DOMAIN as, j) /\ j.task = t /\ j.sub = n /\ j.kind \in kinds
                         /\ j \notin DOMAIN as
    <2> SUFFICES ASSUME NEW k \in kinds
                 PROVE  /\ IsNext(DOMAIN as, NextSlot(as, t, n, k))
                        /\ NextSlot(as, t, n, k).task = t /\ NextSlot(as, t, n, k).sub = n
                        /\ NextSlot(as, t, n, k).kind \in kinds
                        /\ NextSlot(as, t, n, k) \notin DOMAIN as
      OBVIOUS
    <2>1. k \in Kinds /\ DOMAIN as \subseteq Key /\ Dense(DOMAIN as)
      BY DEF Table
    <2>2. /\ IsNext(DOMAIN as, NextSlot(as, t, n, k))
          /\ NextSlot(as, t, n, k).task = t /\ NextSlot(as, t, n, k).sub = n
          /\ NextSlot(as, t, n, k).kind = k
          /\ NextSlot(as, t, n, k) \notin DOMAIN as
      BY <2>1, NextFree, ZenonT(30)
    <2> QED BY <2>2
  <1>2. res = [j \in DOMAIN as \cup fresh |-> IF j \in fresh THEN Activity0(b, "none") ELSE as[j]]
    BY DEF CreateAll
  <1> HIDE DEF fresh, res
  <1>3. Activity0(b, "none") \in Activity
    BY InitialRow
  <1>4. /\ DOMAIN res = DOMAIN as \cup fresh /\ res \in [DOMAIN res -> Activity]
        /\ \A j \in DOMAIN as : res[j] = as[j]
        /\ \A j \in fresh : res[j] = Activity0(b, "none")
    BY <1>1, <1>2, <1>3 DEF Table
  <1>5. Dense(DOMAIN res)
    <2>1. \A j \in fresh : IsNext(DOMAIN as, j)
      BY <1>1
    <2>2. Dense(DOMAIN as \cup fresh)
      BY <2>1, DenseGrows DEF Table
    <2> QED BY <1>4, <2>2
  <1>6. DOMAIN res \subseteq Key
    BY <1>1, <1>4 DEF Table, IsNext
  <1>7. Widened(as, res, t, n, kinds, b)
    BY <1>1, <1>4, <1>5, <1>6 DEF Widened, Table
  <1> QED BY <1>7 DEF res

LEMMA SubmitKeeps ==
  ASSUME WorkInv, NEW t \in Tasks, NEW p \in Agents, NEW amend \in BOOLEAN, Submit(p, t, amend)
  PROVE  WorkInv'
  <1> DEFINE n == subj[t].sub + 1
             kinds == RequiredKinds(policy.mode)
             code == IF t \in CodeTasks THEN {"integration"} ELSE {}
             new == [subj[t] EXCEPT !.sub = n, !.superseded = FALSE, !.author = p, !.owner = Nobody,
                       !.contributors = @ \cup {p}, !.pinned = subj[t].digest,
                       !.amendment = IF amend THEN subj[t].digest + 1 ELSE 0]
             row == IF kinds = {} THEN Advanced(new, t) ELSE [new EXCEPT !.phase = "review"]
             reviewed == CreateAll(acts, t, n, kinds, FALSE)
  <1>0. /\ subj[t] \in Subject /\ subj \in [Tasks -> Subject] /\ n \in Nat /\ subj[t].sub \in Nat
        /\ subj' = [subj EXCEPT ![t] = row]
        /\ acts' = CreateAll(reviewed, t, n, code, kinds # {})
        /\ UNCHANGED <<reviews, intents, results, recons, policy, landed>>
        /\ DOMAIN reviews \subseteq DOMAIN acts /\ DOMAIN intents \subseteq DOMAIN acts
        /\ DOMAIN recons \subseteq DOMAIN intents
        /\ DOMAIN acts \subseteq Key /\ \A j \in DOMAIN acts : j.task \in Tasks
    BY KeyFields DEF Submit, WorkInv, Types, Subject
  <1>1. /\ row \in Subject /\ row.sub = n /\ ~row.superseded /\ row.pinned = row.digest
        /\ row.phase \in (IF kinds = {} THEN {"integration", "done"} ELSE {"review"})
    <2> DEFINE am == IF amend THEN subj[t].digest + 1 ELSE 0
    <2>1. am \in Nat
      BY <1>0 DEF Subject
    <2>2. new = [subj[t] EXCEPT !.sub = n, !.superseded = FALSE, !.author = p, !.owner = Nobody,
                   !.contributors = @ \cup {p}, !.pinned = subj[t].digest, !.amendment = am]
      OBVIOUS
    <2> HIDE DEF am
    <2> DEFINE who == subj[t].contributors \cup {p}
    <2>4. who \in SUBSET Agents /\ subj[t].digest \in Nat
      BY <1>0 DEF Subject
    <2>5. new = [subj[t] EXCEPT !.sub = n, !.superseded = FALSE, !.author = p, !.owner = Nobody,
                   !.contributors = who, !.pinned = subj[t].digest, !.amendment = am]
      BY <2>2
    <2> HIDE DEF who, n, new
    <2>6. new \in Subject
      BY <1>0, <2>1, <2>4, <2>5 DEF Subject
    <2>3. new \in Subject /\ new.sub = n /\ ~new.superseded /\ new.pinned = new.digest
      BY <1>0, <2>5, <2>6 DEF Subject
    <2> HIDE DEF kinds
    <2> QED BY <2>3 DEF Subject, Advanced
  <1>2. kinds \in SUBSET ReviewKinds /\ kinds \in SUBSET Kinds /\ code \in SUBSET Kinds
    <2>1. policy.mode \in ReviewModes
      BY DEF WorkInv, Types, PolicyRow
    <2> QED BY <2>1 DEF RequiredKinds, ReviewKinds, ReviewModes, Kinds
  <1> HIDE DEF n, kinds, row, new
  <1>3. Widened(acts, reviewed, t, n, kinds, FALSE)
    <2>1. Table(acts)
      BY DEF WorkInv, Types, Table
    <2> QED BY <1>0, <1>2, <2>1, CreateAllAdds
  <1> HIDE DEF reviewed
  <1>4. Widened(reviewed, acts', t, n, code, kinds # {})
    <2>1. Table(reviewed) /\ (kinds # {}) \in BOOLEAN
      BY <1>3 DEF Widened
    <2>2. Widened(reviewed, CreateAll(reviewed, t, n, code, kinds # {}), t, n, code, kinds # {})
      BY <1>0, <1>2, <2>1, CreateAllAdds
    <2> QED BY <1>0, <2>2
  <1>5. /\ DOMAIN acts \subseteq DOMAIN acts' /\ \A j \in DOMAIN acts : acts'[j] = acts[j]
        /\ DOMAIN acts' \subseteq Key /\ acts' \in [DOMAIN acts' -> Activity] /\ Dense(DOMAIN acts')
    BY <1>3, <1>4 DEF Widened, Table
  <1>6. ASSUME NEW j \in DOMAIN acts' \ DOMAIN acts
        PROVE  /\ j.task = t /\ j.sub = n /\ acts'[j].hold = "none" /\ acts'[j].push = "idle"
               /\ acts'[j].state = "queued" /\ ~acts'[j].busy /\ ~acts'[j].live
               /\ j.kind = "integration" => acts'[j].blocked = (kinds # {})
    <2>1. CASE j \in DOMAIN reviewed
      <3>1. /\ acts'[j] = reviewed[j] /\ j.task = t /\ j.sub = n /\ j.kind \in kinds
            /\ reviewed[j] = Activity0(FALSE, "none")
        BY <1>3, <1>4, <2>1 DEF Widened
      <3>2. j.kind # "integration"
        BY <1>2, <3>1 DEF ReviewKinds
      <3> DEFINE fresh == Activity0(FALSE, "none")
      <3>3. /\ fresh.hold = "none" /\ fresh.push = "idle" /\ fresh.state = "queued"
            /\ ~fresh.busy /\ ~fresh.live
        BY InitialRow
      <3> HIDE DEF fresh
      <3>4. acts'[j] = fresh
        BY <3>1 DEF fresh
      <3> QED BY <3>1, <3>2, <3>3, <3>4
    <2>2. CASE j \notin DOMAIN reviewed
      <3>1. acts'[j] = Activity0(kinds # {}, "none") /\ j.task = t /\ j.sub = n
        BY <1>4, <2>2 DEF Widened
      <3>2. (kinds # {}) \in BOOLEAN
        OBVIOUS
      <3> DEFINE late == Activity0(kinds # {}, "none")
      <3>3. /\ late.hold = "none" /\ late.push = "idle" /\ late.state = "queued"
            /\ ~late.busy /\ ~late.live /\ late.blocked = (kinds # {})
        BY <3>2, InitialRow
      <3> HIDE DEF late
      <3>4. acts'[j] = late
        BY <3>1 DEF late
      <3> QED BY <3>1, <3>3, <3>4
    <2> QED BY <2>1, <2>2
  <1>7. /\ subj' \in [Tasks -> Subject] /\ subj'[t] = row
        /\ \A r \in Tasks \ {t} : subj'[r] = subj[r]
    BY <1>0, <1>1
  <1>8. Types'
    BY <1>0, <1>5, <1>7 DEF WorkInv, Types
  <1>9. PubInv'
    <2>1. PubQuiet
      BY <1>0, <1>5, <1>6 DEF PubQuiet
    <2> QED BY <2>1, PubFrame DEF WorkInv
  <1>10. \A j \in DOMAIN acts : j.task = t => j.sub # n /\ j.sub <= n
    <2> SUFFICES ASSUME NEW j \in DOMAIN acts, j.task = t PROVE j.sub # n /\ j.sub <= n
      OBVIOUS
    <2>1. j.sub <= subj[t].sub /\ j.sub \in Nat
      BY <1>0, KeyFields DEF WorkInv, RevInv, Submitted
    <2> QED BY <1>0, <2>1 DEF n
  <1>11. RevInv'
    <2>1. Submitted'
      <3>1. n >= 1
        BY <1>0 DEF n
      <3> QED BY <1>0, <1>1, <1>5, <1>6, <1>7, <1>10, <3>1 DEF WorkInv, RevInv, Submitted
    <2>2. Superseded'
      <3>1. \A r \in Tasks : Quiescent(acts, r) => Quiescent(acts', r)
        BY <1>5, <1>6 DEF Quiescent, Of
      <3>2. \A r \in Tasks : Quiescent(acts, r)' <=> Quiescent(acts', r)
        BY DEF Quiescent, Of
      <3> QED BY <1>1, <1>7, <3>1, <3>2 DEF WorkInv, RevInv, Superseded
    <2>3. Decided'
      <3>1. \A j \in DOMAIN reviews : j.task = t => j.sub # n
        BY <1>0, <1>10
      <3>2. \A j \in DOMAIN acts' \ DOMAIN acts : acts'[j].state # "completed" /\ j \notin DOMAIN reviews
        BY <1>0, <1>6
      <3> QED BY <1>0, <1>1, <1>5, <1>7, <3>1, <3>2 DEF WorkInv, RevInv, Decided
    <2>4. Waiting'
      <3> SUFFICES ASSUME NEW j \in DOMAIN acts', j.kind = "integration",
                          j.sub = subj'[j.task].sub, subj'[j.task].phase = "review"
                   PROVE  acts'[j].blocked /\ ~acts'[j].live /\ j \notin DOMAIN intents
        BY <1>0 DEF Waiting
      <3>1. CASE j \in DOMAIN acts
        <4>1. j.task # t
          BY <1>1, <1>7, <1>10, <3>1
        <4>2. subj'[j.task] = subj[j.task] /\ acts'[j] = acts[j]
          BY <1>0, <1>5, <1>7, <3>1, <4>1
        <4> QED BY <3>1, <4>2 DEF WorkInv, RevInv, Waiting
      <3>2. CASE j \notin DOMAIN acts
        <4>1. kinds # {}
          BY <1>1, <1>6, <1>7, <3>2
        <4> QED BY <1>0, <1>6, <3>2, <4>1
      <3> QED BY <3>1, <3>2
    <2>5. JudgedIsCurrent'
      BY <1>1, <1>7 DEF WorkInv, RevInv, JudgedIsCurrent
    <2> QED BY <2>1, <2>2, <2>3, <2>4, <2>5 DEF RevInv
  <1> QED BY <1>5, <1>8, <1>9, <1>11 DEF WorkInv

---------------------------------------------------------------------------
(* Policies and the reconciliation of required reviews.                     *)

\* What a reconciliation makes of a row: a queued activity may be canceled or unblocked.
Lighter(old, new) ==
  /\ new \in Activity /\ new.live = old.live /\ new.busy = old.busy /\ new.hold = old.hold
  /\ new.passed = old.passed /\ new.push = old.push
  /\ new.state = old.state \/ (old.state = "queued" /\ new.state = "canceled")

LEMMA CancelLighter ==
  ASSUME NEW a \in Activity, a.state = "queued"
  PROVE  Lighter(a, Cancel(a)) /\ Cancel(a).blocked = a.blocked
  BY CancelRow DEF Lighter

LEMMA UnblockLighter ==
  ASSUME NEW a \in Activity
  PROVE  Lighter(a, [a EXCEPT !.blocked = FALSE])
  BY DEF Lighter, Activity

LEMMA SameLighter ==
  ASSUME NEW a \in Activity
  PROVE  Lighter(a, a)
  BY DEF Lighter

LEMMA LighterTwice ==
  ASSUME NEW a, NEW b, NEW c, Lighter(a, b), Lighter(b, c)
  PROVE  Lighter(a, c)
  BY DEF Lighter

\* A table with the same keys and lighter rows.
LighterTable(as, bs) ==
  /\ DOMAIN bs = DOMAIN as /\ \A j \in DOMAIN as : Lighter(as[j], bs[j])
  /\ Table(bs)

LEMMA AdvanceLightens ==
  ASSUME NEW as, Table(as), NEW t \in Tasks
  PROVE  LighterTable(as, Advance(as, t))
  <1> DEFINE row(i) == IF i \in OfCurrent(as, t) /\ as[i].state = "queued"
                       THEN IF i.kind = "integration" THEN [as[i] EXCEPT !.blocked = FALSE]
                            ELSE Cancel(as[i])
                       ELSE as[i]
  <1>1. Advance(as, t) = [i \in DOMAIN as |-> row(i)]
    BY DEF Advance
  <1>2. ASSUME NEW i \in DOMAIN as PROVE Lighter(as[i], row(i))
    <2>1. as[i] \in Activity
      BY DEF Table
    <2> QED BY <2>1, CancelLighter, UnblockLighter, SameLighter
  <1> HIDE DEF row
  <1>3. DOMAIN Advance(as, t) = DOMAIN as /\ \A i \in DOMAIN as : Advance(as, t)[i] = row(i)
    BY <1>1
  <1>4. Advance(as, t) \in [DOMAIN as -> Activity]
    <2>1. \A i \in DOMAIN as : row(i) \in Activity
      BY <1>2 DEF Lighter
    <2> QED BY <1>1, <2>1, Zenon
  <1> QED BY <1>2, <1>3, <1>4 DEF LighterTable, Table

\* What a reconciliation makes of subject t and its activities.
Settled(t, R) ==
  /\ \/ R.subj = subj[t]
     \/ subj[t].phase = "review" /\ R.subj = Advanced(subj[t], t)
  /\ Table(R.acts) /\ DOMAIN acts \subseteq DOMAIN R.acts
  /\ \A j \in DOMAIN acts : /\ Lighter(acts[j], R.acts[j])
                            /\ R.subj = subj[t] => R.acts[j].blocked = acts[j].blocked
  /\ \A j \in DOMAIN R.acts \ DOMAIN acts :
       /\ j.task = t /\ j.sub = subj[t].sub /\ j.kind \in ReviewKinds /\ subj[t].phase = "review"
       /\ R.acts[j] = Activity0(FALSE, "none")

\* The reviews a mode requires, counted by kind.
Needed(mode) == [k \in ReviewKinds |-> IF k \in RequiredKinds(mode) THEN 1 ELSE 0]
By(rv, t, class) == Cardinality({i \in Approvals(rv, t) : rv[i].by \in class})

\* The approvals of a subject in review are judged by the mode, whatever its activities.
LEMMA JudgedByMode ==
  ASSUME NEW t \in Tasks, subj[t].phase = "review", NEW as, NEW rv, NEW mode
  PROVE  ApprovalsSatisfied(as, rv, t, mode)
           <=> ReviewsSatisfied(Needed(mode), By(rv, t, Humans), By(rv, t, Agents))
  <1>1. [k \in ReviewKinds |->
           IF subj[t].phase # "review"
           THEN Cardinality({i \in OfCurrent(as, t) : i.kind = k /\ as[i].state = "completed"})
           ELSE IF k \in RequiredKinds(mode) THEN 1 ELSE 0] = Needed(mode)
    BY DEF Needed
  <1> QED BY <1>1 DEF ApprovalsSatisfied, By

LEMMA RequiredAreReviews ==
  ASSUME NEW mode \in ReviewModes PROVE RequiredKinds(mode) \in SUBSET ReviewKinds
  BY DEF RequiredKinds, ReviewKinds, ReviewModes

LEMMA ReconcileOne ==
  ASSUME WorkInv, NEW t \in Tasks, NEW mode \in ReviewModes, NEW advance \in BOOLEAN
  PROVE  /\ Settled(t, ReconcileSubject(t, mode, advance))
         /\ ReconcileSubject(t, mode, advance).subj # subj[t] =>
              /\ subj[t].phase = "review"
              /\ ReviewsSatisfied(Needed(mode), By(reviews, t, Humans), By(reviews, t, Agents))
  <1> DEFINE unrequired(i) == /\ i \in OfCurrent(acts, t) /\ acts[i].state = "queued"
                              /\ i.kind \in ReviewKinds \ RequiredKinds(mode)
             kept == [i \in DOMAIN acts |-> IF unrequired(i) THEN Cancel(acts[i]) ELSE acts[i]]
             lives(k) == \E i \in OfCurrent(kept, t) : i.kind = k /\ kept[i].state # "canceled"
             reviewing == \E i \in OfCurrent(kept, t) :
                            i.kind \in ReviewKinds /\ kept[i].state = "active"
             missing == {k \in RequiredKinds(mode) : ~lives(k)}
             wide == CreateAll(kept, t, subj[t].sub, missing, FALSE)
             R == ReconcileSubject(t, mode, advance)
  <1>1. Table(acts) /\ subj[t] \in Subject /\ subj[t].sub \in Nat
    BY DEF WorkInv, Types, Table, Subject
  <1>2. LighterTable(acts, kept) /\ \A j \in DOMAIN acts : kept[j].blocked = acts[j].blocked
    <2> DEFINE row(i) == IF unrequired(i) THEN Cancel(acts[i]) ELSE acts[i]
    <2>1. ASSUME NEW i \in DOMAIN acts
          PROVE  Lighter(acts[i], row(i)) /\ row(i).blocked = acts[i].blocked
      <3>1. acts[i] \in Activity
        BY <1>1 DEF Table
      <3> QED BY <3>1, CancelLighter, SameLighter
    <2>2. kept = [i \in DOMAIN acts |-> row(i)]
      OBVIOUS
    <2> HIDE DEF row, kept
    <2>3. DOMAIN kept = DOMAIN acts /\ \A i \in DOMAIN acts : kept[i] = row(i)
      BY <2>2
    <2>4. \A i \in DOMAIN acts : row(i) \in Activity
      BY <2>1 DEF Lighter
    <2>5. kept \in [DOMAIN acts -> Activity]
      BY <2>2, <2>4, Zenon
    <2> QED BY <1>1, <2>1, <2>3, <2>5 DEF LighterTable, Table
  <1>3. missing \in SUBSET ReviewKinds /\ missing \in SUBSET Kinds
    <2>1. missing \subseteq RequiredKinds(mode)
      OBVIOUS
    <2> HIDE DEF missing
    <2> QED BY <2>1, RequiredAreReviews DEF Kinds
  <1>4. \/ R = [acts |-> acts, subj |-> subj[t]]
        \/ R = [acts |-> wide, subj |-> subj[t]] /\ subj[t].phase = "review"
        \/ R = [acts |-> kept, subj |-> subj[t]]
        \/ /\ R = [acts |-> Advance(kept, t), subj |-> Advanced(subj[t], t)]
           /\ subj[t].phase = "review" /\ ApprovalsSatisfied(kept, reviews, t, mode)
    <2> HIDE DEF unrequired, lives
    <2>1. CASE subj[t].phase # "review"
      BY <2>1 DEF ReconcileSubject
    <2>2. CASE subj[t].phase = "review" /\ ~ApprovalsSatisfied(kept, reviews, t, mode)
      <3>1. R = [acts |-> wide, subj |-> subj[t]]
        BY <2>2 DEF ReconcileSubject, unrequired, lives
      <3> QED BY <2>2, <3>1
    <2>3. CASE subj[t].phase = "review" /\ ApprovalsSatisfied(kept, reviews, t, mode)
      <3>1. R = IF ~advance \/ subj[t].amendment # 0 \/ reviewing
                THEN [acts |-> kept, subj |-> subj[t]]
                ELSE IF MayAdvance(kept, t)
                     THEN [acts |-> Advance(kept, t), subj |-> Advanced(subj[t], t)]
                     ELSE [acts |-> acts, subj |-> subj[t]]
        BY <2>3 DEF ReconcileSubject, unrequired, lives
      <3> HIDE DEF R, kept, reviewing
      <3> QED BY <2>3, <3>1
    <2> QED BY <2>1, <2>2, <2>3
  <1> HIDE DEF R, kept, missing, reviewing, unrequired, lives
  <1>5. CASE R = [acts |-> acts, subj |-> subj[t]]
    <2>1. \A j \in DOMAIN acts : Lighter(acts[j], acts[j])
      BY <1>1, SameLighter DEF Table
    <2>2. R.acts = acts /\ R.subj = subj[t]
      BY <1>5
    <2> QED BY <1>1, <2>1, <2>2 DEF Settled, R
  <1>6. CASE R = [acts |-> wide, subj |-> subj[t]] /\ subj[t].phase = "review"
    <2>1. Widened(kept, wide, t, subj[t].sub, missing, FALSE)
      <3>1. Table(kept) /\ FALSE \in BOOLEAN
        BY <1>2 DEF LighterTable
      <3> QED BY <1>1, <1>3, <3>1, CreateAllAdds
    <2> HIDE DEF wide
    <2>2. R.acts = wide /\ R.subj = subj[t]
      BY <1>6
    <2>3. DOMAIN kept = DOMAIN acts
      BY <1>2 DEF LighterTable
    <2>5. \A j \in DOMAIN acts : wide[j] = kept[j]
      BY <2>1, <2>3 DEF Widened
    <2>6. \A j \in DOMAIN acts : Lighter(acts[j], wide[j]) /\ wide[j].blocked = acts[j].blocked
      BY <1>2, <2>5 DEF LighterTable
    <2>7. \A j \in DOMAIN wide \ DOMAIN acts :
            /\ j.task = t /\ j.sub = subj[t].sub /\ j.kind \in ReviewKinds
            /\ wide[j] = Activity0(FALSE, "none")
      BY <1>3, <2>1, <2>3 DEF Widened
    <2>8. Table(wide) /\ DOMAIN acts \subseteq DOMAIN wide
      BY <2>1, <2>3 DEF Widened
    <2> QED BY <1>6, <2>2, <2>6, <2>7, <2>8 DEF Settled, R
  <1>7. CASE R = [acts |-> kept, subj |-> subj[t]]
    <2>1. R.acts = kept /\ R.subj = subj[t]
      BY <1>7
    <2> QED BY <1>2, <2>1 DEF Settled, R, LighterTable
  <1>8. CASE /\ R = [acts |-> Advance(kept, t), subj |-> Advanced(subj[t], t)]
             /\ subj[t].phase = "review" /\ ApprovalsSatisfied(kept, reviews, t, mode)
    <2>1. R.acts = Advance(kept, t) /\ R.subj = Advanced(subj[t], t)
      BY <1>8
    <2>2. LighterTable(kept, Advance(kept, t))
      BY <1>2, AdvanceLightens DEF LighterTable
    <2>3. \A j \in DOMAIN acts : Lighter(acts[j], R.acts[j])
      BY <1>2, <2>1, <2>2, LighterTwice DEF LighterTable
    <2>4. R.subj # subj[t]
      <3>1. Advanced(subj[t], t).phase # "review"
        BY <1>1 DEF Advanced, Subject
      <3> QED BY <1>8, <2>1, <3>1
    <2>5. Table(R.acts) /\ DOMAIN R.acts = DOMAIN acts
      BY <1>2, <2>1, <2>2 DEF LighterTable
    <2>6. ReviewsSatisfied(Needed(mode), By(reviews, t, Humans), By(reviews, t, Agents))
      BY <1>8, JudgedByMode
    <2> QED BY <1>8, <2>1, <2>3, <2>4, <2>5, <2>6 DEF Settled, R
  <1> QED BY <1>4, <1>5, <1>6, <1>7, <1>8

LEMMA AdvancedSubject ==
  ASSUME NEW t \in Tasks, NEW s \in Subject
  PROVE  /\ Advanced(s, t) \in Subject /\ Advanced(s, t).phase \in {"integration", "done"}
         /\ Advanced(s, t).sub = s.sub /\ Advanced(s, t).superseded = s.superseded
         /\ Advanced(s, t).contributors = s.contributors
         /\ Advanced(s, t).pinned = s.pinned /\ Advanced(s, t).digest = s.digest
  BY DEF Advanced, Subject

LEMMA ReconciledKeeps ==
  ASSUME WorkInv, NEW mode \in ReviewModes, NEW advance \in BOOLEAN, Reconciled(mode, advance),
         policy' \in PolicyRow, UNCHANGED <<reviews, intents, results, recons, landed>>
  PROVE  WorkInv'
  <1> DEFINE R(t) == ReconcileSubject(t, mode, advance)
             after == [t \in Tasks |-> R(t)]
  <1>0. /\ DOMAIN acts \subseteq Key /\ \A j \in DOMAIN acts : j.task \in Tasks
        /\ DOMAIN reviews \subseteq DOMAIN acts /\ DOMAIN intents \subseteq DOMAIN acts
        /\ DOMAIN recons \subseteq DOMAIN intents
        /\ \A t \in Tasks : subj[t] \in Subject
    BY KeyFields DEF WorkInv, Types
  <1>1. \A t \in Tasks : Settled(t, R(t))
    BY ReconcileOne
  <1>2. /\ acts' = [i \in UNION {DOMAIN after[t].acts : t \in Tasks} |-> after[i.task].acts[i]]
        /\ subj' = [t \in Tasks |-> after[t].subj]
    BY DEF Reconciled
  <1> HIDE DEF R
  <1>3. subj' = [t \in Tasks |-> R(t).subj]
    BY <1>2
  <1>4. \A j : j \in DOMAIN acts' <=> \E t \in Tasks : j \in DOMAIN R(t).acts
    BY <1>2
  <1>5. ASSUME NEW j \in DOMAIN acts'
        PROVE  j.task \in Tasks /\ j \in DOMAIN R(j.task).acts /\ acts'[j] = R(j.task).acts[j]
    <2>1. PICK t \in Tasks : j \in DOMAIN R(t).acts
      BY <1>4
    <2>2. j.task \in Tasks /\ j \in DOMAIN R(j.task).acts
      <3>1. CASE j \in DOMAIN acts
        <4>1. j.task \in Tasks
          BY <1>0, <3>1
        <4> QED BY <1>1, <3>1, <4>1 DEF Settled
      <3>2. CASE j \notin DOMAIN acts
        <4>1. j.task = t
          BY <1>1, <2>1, <3>2 DEF Settled
        <4> QED BY <2>1, <4>1
      <3> QED BY <3>1, <3>2
    <2>3. acts'[j] = after[j.task].acts[j]
      BY <1>2
    <2> QED BY <2>2, <2>3
  <1> HIDE DEF after
  <1>6. DOMAIN acts \subseteq DOMAIN acts'
    BY <1>0, <1>1, <1>4 DEF Settled
  <1>7. DOMAIN acts' \subseteq Key /\ \A j \in DOMAIN acts' : acts'[j] \in Activity
    <2> SUFFICES ASSUME NEW j \in DOMAIN acts' PROVE j \in Key /\ acts'[j] \in Activity
      OBVIOUS
    <2> DEFINE T == R(j.task).acts
    <2>1. j \in DOMAIN T /\ acts'[j] = T[j]
      BY <1>5
    <2>2. Table(T)
      BY <1>1, <1>5 DEF Settled
    <2> HIDE DEF T
    <2> QED BY <2>1, <2>2 DEF Table
  <1>8. \A j \in DOMAIN acts : /\ Lighter(acts[j], acts'[j])
                               /\ subj'[j.task] = subj[j.task] => acts'[j].blocked = acts[j].blocked
    <2> SUFFICES ASSUME NEW j \in DOMAIN acts
                 PROVE  /\ Lighter(acts[j], acts'[j])
                        /\ subj'[j.task] = subj[j.task] => acts'[j].blocked = acts[j].blocked
      OBVIOUS
    <2>1. j.task \in Tasks /\ acts'[j] = R(j.task).acts[j] /\ subj'[j.task] = R(j.task).subj
      BY <1>3, <1>5, <1>6
    <2>2. Settled(j.task, R(j.task))
      BY <1>1, <2>1
    <2>3. /\ Lighter(acts[j], R(j.task).acts[j])
          /\ R(j.task).subj = subj[j.task] => R(j.task).acts[j].blocked = acts[j].blocked
      BY <2>2 DEF Settled
    <2> QED BY <2>1, <2>3
  <1>9. ASSUME NEW j \in DOMAIN acts' \ DOMAIN acts
        PROVE  /\ j.task \in Tasks /\ j.sub = subj[j.task].sub /\ j.kind \in ReviewKinds
               /\ subj[j.task].phase = "review" /\ acts'[j].hold = "none"
               /\ acts'[j].push = "idle" /\ acts'[j].state = "queued" /\ ~acts'[j].busy
    <2>1. j.task \in Tasks /\ j \in DOMAIN R(j.task).acts \ DOMAIN acts /\ acts'[j] = R(j.task).acts[j]
      BY <1>5
    <2>2. /\ j.sub = subj[j.task].sub /\ j.kind \in ReviewKinds /\ subj[j.task].phase = "review"
          /\ acts'[j] = Activity0(FALSE, "none")
      <3>1. Settled(j.task, R(j.task))
        BY <1>1, <2>1
      <3> QED BY <2>1, <3>1 DEF Settled
    <2>3. LET fresh == Activity0(FALSE, "none")
          IN fresh.hold = "none" /\ fresh.push = "idle" /\ fresh.state = "queued" /\ ~fresh.busy
      BY InitialRow
    <2> QED BY <2>1, <2>2, <2>3
  <1>10. ASSUME NEW t \in Tasks
         PROVE  /\ subj'[t] \in Subject
                /\ \/ subj'[t] = subj[t]
                   \/ subj[t].phase = "review" /\ subj'[t].phase \in {"integration", "done"}
                /\ subj'[t].sub = subj[t].sub /\ subj'[t].superseded = subj[t].superseded
                /\ subj'[t].contributors = subj[t].contributors
                /\ subj'[t].pinned = subj[t].pinned /\ subj'[t].digest = subj[t].digest
    <2>1. \/ subj'[t] = subj[t]
          \/ subj[t].phase = "review" /\ subj'[t] = Advanced(subj[t], t)
      BY <1>1, <1>3 DEF Settled
    <2>2. subj[t] \in Subject
      BY <1>0
    <2>3. CASE subj'[t] = subj[t]
      BY <2>2, <2>3
    <2>4. CASE subj[t].phase = "review" /\ subj'[t] = Advanced(subj[t], t)
      <3> DEFINE s == subj[t]
      <3>1. /\ Advanced(s, t) \in Subject /\ Advanced(s, t).phase \in {"integration", "done"}
            /\ Advanced(s, t).sub = s.sub /\ Advanced(s, t).superseded = s.superseded
            /\ Advanced(s, t).contributors = s.contributors
            /\ Advanced(s, t).pinned = s.pinned /\ Advanced(s, t).digest = s.digest
        BY <2>2, AdvancedSubject
      <3> QED BY <2>4, <3>1
    <2> QED BY <2>1, <2>3, <2>4
  <1>11. Dense(DOMAIN acts')
    <2> SUFFICES ASSUME NEW t \in Tasks, NEW n \in Nat, NEW k \in Kinds
                 PROVE  \E m \in Nat : \A s \in Nat :
                          Slot(t, n, k, s) \in DOMAIN acts' <=> s >= 1 /\ s <= m
      BY DEF Dense
    <2>1. PICK m \in Nat : \A s \in Nat :
            Slot(t, n, k, s) \in DOMAIN R(t).acts <=> s >= 1 /\ s <= m
      BY <1>1 DEF Settled, Table, Dense
    <2>2. ASSUME NEW s \in Nat
          PROVE  Slot(t, n, k, s) \in DOMAIN acts' <=> Slot(t, n, k, s) \in DOMAIN R(t).acts
      <3>1. Slot(t, n, k, s).task = t
        BY DEF Slot
      <3> QED BY <1>4, <1>5, <3>1
    <2> QED BY <2>1, <2>2
  <1>12. acts' \in [DOMAIN acts' -> Activity]
    <2> DEFINE D == UNION {DOMAIN after[t].acts : t \in Tasks}
               f == [i \in D |-> after[i.task].acts[i]]
    <2>1. DOMAIN acts' = D /\ acts' = f
      BY <1>2
    <2> HIDE DEF D
    <2>2. \A i \in D : f[i] \in Activity
      BY <1>7, <2>1
    <2>3. f \in [D -> Activity]
      BY <2>2
    <2> QED BY <2>1, <2>3
  <1>13. Types'
    <2>1. subj' \in [Tasks -> Subject]
      BY <1>3, <1>10
    <2> QED BY <1>0, <1>6, <1>7, <1>12, <2>1 DEF WorkInv, Types
  <1>14. PubInv'
    <2>1. PubQuiet
      BY <1>6, <1>8, <1>9 DEF PubQuiet, Lighter
    <2> QED BY <2>1, PubFrame DEF WorkInv
  <1>15. Submitted'
    <2>1. ASSUME NEW j \in DOMAIN acts' PROVE j.sub >= 1 /\ j.sub <= subj'[j.task].sub
      <3>1. CASE j \in DOMAIN acts
        BY <1>0, <1>10, <3>1 DEF WorkInv, RevInv, Submitted
      <3>2. CASE j \notin DOMAIN acts
        <4>1. j.task \in Tasks /\ j.sub = subj[j.task].sub /\ subj[j.task].phase # "none"
          BY <1>9, <3>2
        <4>2. subj[j.task].sub # 0 /\ subj[j.task].sub \in Nat
          BY <1>0, <4>1 DEF WorkInv, RevInv, Submitted, Subject
        <4> QED BY <1>10, <4>1, <4>2
      <3> QED BY <3>1, <3>2
    <2>2. \A t \in Tasks : subj'[t].phase = "none" <=> subj'[t].sub = 0
      BY <1>10 DEF WorkInv, RevInv, Submitted
    <2> QED BY <2>1, <2>2 DEF Submitted
  <1>16. Superseded'
    <2>1. \A r \in Tasks : Quiescent(acts, r) => Quiescent(acts', r)
      BY <1>8, <1>9 DEF Quiescent, Of, Lighter
    <2>2. \A r \in Tasks : Quiescent(acts, r)' <=> Quiescent(acts', r)
      BY DEF Quiescent, Of
    <2> QED BY <1>10, <2>1, <2>2 DEF WorkInv, RevInv, Superseded
  <1>17. Decided'
    <2>1. ASSUME NEW j \in DOMAIN acts', j.kind \in ReviewKinds
          PROVE  acts'[j].state = "completed" <=> j \in DOMAIN reviews
      <3>1. CASE j \in DOMAIN acts
        BY <1>8, <2>1, <3>1 DEF WorkInv, RevInv, Decided, Lighter
      <3>2. CASE j \notin DOMAIN acts
        BY <1>0, <1>9, <3>2
      <3> QED BY <3>1, <3>2
    <2>2. \A j \in DOMAIN reviews :
            /\ subj'[j.task].sub = subj[j.task].sub /\ subj'[j.task].superseded = subj[j.task].superseded
            /\ subj'[j.task].contributors = subj[j.task].contributors
      BY <1>0, <1>10
    <2> QED BY <2>1, <2>2 DEF WorkInv, RevInv, Decided
  <1>18. Waiting'
    <2> SUFFICES ASSUME NEW j \in DOMAIN acts', j.kind = "integration",
                        j.sub = subj'[j.task].sub, subj'[j.task].phase = "review"
                 PROVE  acts'[j].blocked /\ ~acts'[j].live /\ j \notin DOMAIN intents
      BY DEF Waiting
    <2>1. j \in DOMAIN acts
      BY <1>9 DEF ReviewKinds
    <2>2. subj'[j.task] = subj[j.task]
      BY <1>0, <1>10, <2>1
    <2>3. acts'[j].blocked = acts[j].blocked /\ acts'[j].live = acts[j].live
      BY <1>8, <2>1, <2>2 DEF Lighter
    <2> QED BY <2>1, <2>2, <2>3 DEF WorkInv, RevInv, Waiting
  <1>19. JudgedIsCurrent'
    BY <1>10 DEF WorkInv, RevInv, JudgedIsCurrent
  <1> QED BY <1>11, <1>13, <1>14, <1>15, <1>16, <1>17, <1>18, <1>19 DEF WorkInv, RevInv

LEMMA PolicyKeeps ==
  ASSUME WorkInv, PolicyStep
  PROVE  WorkInv'
  <1>0. policy \in PolicyRow /\ policy.mode \in ReviewModes /\ policy.revision + 1 \in Nat
    BY DEF WorkInv, Types, PolicyRow
  <1>1. ASSUME NEW m \in Modes, NEW a \in Automatics, NEW r \in Recoveries, UpdatePolicy(m, a, r)
        PROVE  WorkInv'
    <2>1. policy' \in PolicyRow
      BY <1>0, <1>1 DEF UpdatePolicy, PolicyRow
    <2>2. m \in ReviewModes /\ TRUE \in BOOLEAN
      OBVIOUS
    <2> QED BY <1>1, <2>1, <2>2, ReconciledKeeps DEF UpdatePolicy
  <1>2. ASSUME NEW roster \in Rosters, PutWorkflowPolicy(roster) PROVE WorkInv'
    <2>1. policy' \in PolicyRow
      BY <1>0, <1>2 DEF PutWorkflowPolicy, PolicyRow
    <2>2. UNCHANGED <<subj, acts, reviews, intents, results, recons, landed>>
      BY <1>2 DEF PutWorkflowPolicy
    <2>3. Types' /\ Dense(DOMAIN acts')
      BY <2>1, <2>2 DEF WorkInv, Types
    <2>4. PubQuiet /\ RevQuiet
      BY <2>2 DEF PubQuiet, RevQuiet, WorkInv, Types
    <2> QED BY <2>3, <2>4, PubFrame, RevFrame DEF WorkInv
  <1>3. ASSUME Startup PROVE WorkInv'
    <2>1. policy' \in PolicyRow /\ FALSE \in BOOLEAN
      BY <1>0, <1>3 DEF Startup
    <2> QED BY <1>0, <1>3, <2>1, ReconciledKeeps DEF Startup
  <1> QED BY <1>1, <1>2, <1>3 DEF PolicyStep

---------------------------------------------------------------------------
(* Deciding a review.                                                       *)

\* The decided row of a review.
DecidedRow(i) == [Disown(acts[i]) EXCEPT !.state = "completed", !.blocked = FALSE]

LEMMA DecidedRowFields ==
  ASSUME NEW i, acts[i] \in Activity
  PROVE  /\ DecidedRow(i) \in Activity /\ DecidedRow(i).state = "completed" /\ ~DecidedRow(i).live
         /\ DecidedRow(i).busy = acts[i].busy /\ DecidedRow(i).hold = acts[i].hold
         /\ DecidedRow(i).passed = acts[i].passed /\ DecidedRow(i).push = acts[i].push
  <1> DEFINE d == Disown(acts[i])
  <1>1. /\ d \in Activity /\ ~d.live /\ d.busy = acts[i].busy /\ d.hold = acts[i].hold
        /\ d.passed = acts[i].passed /\ d.push = acts[i].push
    BY DisownRow
  <1>2. DecidedRow(i) = [d EXCEPT !.state = "completed", !.blocked = FALSE]
    BY DEF DecidedRow
  <1> HIDE DEF d
  <1> DEFINE new == [d EXCEPT !.state = "completed", !.blocked = FALSE]
  <1>3. /\ new.state = "completed" /\ new.live = d.live /\ new.busy = d.busy /\ new.hold = d.hold
        /\ new.passed = d.passed /\ new.push = d.push
    BY <1>1 DEF Activity
  <1>4. new \in Activity
    BY <1>1 DEF Activity
  <1> HIDE DEF new
  <1>5. DecidedRow(i) = new
    BY <1>2 DEF new
  <1> QED BY <1>1, <1>3, <1>4, <1>5

\* What a decision makes of the activities: i is completed, and queued or active ones of
\* its submission are canceled; what is blocked stays so unless the subject moves on.
Deciding(i) ==
  /\ DOMAIN acts' = DOMAIN acts /\ acts' \in [DOMAIN acts -> Activity]
  /\ acts'[i].state = "completed"
  /\ \A j \in DOMAIN acts :
       /\ acts'[j].push = acts[j].push /\ acts'[j].passed = acts[j].passed
       /\ acts'[j].hold = acts[j].hold /\ acts'[j].busy = acts[j].busy
       /\ j # i => (acts'[j].state = "completed" <=> acts[j].state = "completed")
       /\ acts[j].state \notin {"queued", "active"} => acts'[j].state \notin {"queued", "active"}
       /\ acts'[j].live => acts[j].live
       /\ j.kind = "integration" /\ subj'[j.task].phase = "review" => acts'[j].blocked = acts[j].blocked

\* What a decision makes of the subject.
Judged(i, decision) ==
  LET t == i.task
  IN /\ subj' \in [Tasks -> Subject] /\ \A r \in Tasks \ {t} : subj'[r] = subj[r]
     /\ subj'[t].sub = subj[t].sub /\ subj'[t].contributors = subj[t].contributors
     /\ subj[t].phase # "none"
     /\ \/ /\ subj'[t].phase = "revision_needed" /\ subj'[t].superseded /\ Quiescent(acts, t)
        \/ /\ decision = "approved" /\ subj'[t].phase \in {"integration", "done"}
           /\ ~subj'[t].superseded /\ subj'[t].pinned = subj'[t].digest
        \/ decision = "approved" /\ subj' = subj

LEMMA DecisionKeeps ==
  ASSUME WorkInv, NEW i \in DOMAIN acts, NEW p \in People, NEW d \in {"approved", "changes_requested"},
         i.kind \in ReviewKinds, Owns(p, i), Reviewer(p, i),
         reviews' = Insert(reviews, i, [decision |-> d, by |-> p]),
         Deciding(i), Judged(i, d), UNCHANGED <<intents, results, recons, policy, landed>>
  PROVE  WorkInv'
  <1> DEFINE t == i.task
             row == [decision |-> d, by |-> p]
  <1>0. /\ DOMAIN acts \subseteq Key /\ \A j \in DOMAIN acts : j.task \in Tasks
        /\ DOMAIN reviews \subseteq DOMAIN acts /\ DOMAIN intents \subseteq DOMAIN acts
        /\ DOMAIN recons \subseteq DOMAIN intents
        /\ reviews \in [DOMAIN reviews -> ReviewRow]
        /\ \A r \in Tasks : subj[r] \in Subject
    BY KeyFields DEF WorkInv, Types
  <1>1. /\ t \in Tasks /\ i.sub = subj[t].sub /\ ~subj[t].superseded
        /\ acts[i].state \in {"queued", "active"}
    BY <1>0 DEF Owns, Eligible, PinsCurrent
  <1>2. row \in ReviewRow /\ row.decision = d /\ row.by = p
    BY DEF ReviewRow
  <1>3. MayDecide(p, i.kind) /\ p \notin subj[t].contributors
    <2>1. subj[t].contributors \subseteq Agents
      BY <1>0, <1>1 DEF Subject
    <2> QED BY <2>1 DEF Reviewer, MayDecide
  <1>4. i \notin DOMAIN reviews /\ i \notin DOMAIN intents
    <2>1. i.kind # "integration"
      BY DEF ReviewKinds
    <2> QED BY <1>1, <2>1 DEF WorkInv, RevInv, Decided, PubInv, IntentsTell
  <1>5. reviews' = Insert(reviews, i, row)
    OBVIOUS
  <1> HIDE DEF row
  <1>6. /\ DOMAIN reviews' = DOMAIN reviews \cup {i} /\ reviews'[i] = row
        /\ \A j \in DOMAIN reviews : reviews'[j] = reviews[j]
        /\ reviews' \in [DOMAIN reviews' -> ReviewRow]
    BY <1>0, <1>2, <1>4, <1>5 DEF Insert
  <1>7. Types'
    BY <1>0, <1>6 DEF WorkInv, Types, Deciding, Judged
  <1>8. PubInv'
    <2>1. PubQuiet
      BY <1>0, <1>4 DEF PubQuiet, Deciding
    <2> QED BY <2>1, PubFrame DEF WorkInv
  <1>9. Submitted'
    <2>1. \A r \in Tasks : subj'[r].sub = subj[r].sub
      BY DEF Judged
    <2>2. \A r \in Tasks : subj'[r].phase = "none" <=> subj[r].phase = "none"
      BY <1>1 DEF Judged
    <2> QED BY <1>0, <2>1, <2>2 DEF WorkInv, RevInv, Submitted, Deciding
  <1>10. Superseded'
    <2>1. \A r \in Tasks : Quiescent(acts, r) => Quiescent(acts', r)
      BY DEF Quiescent, Of, Deciding
    <2>2. \A r \in Tasks : Quiescent(acts, r)' <=> Quiescent(acts', r)
      BY DEF Quiescent, Of
    <2>3. ASSUME NEW r \in Tasks, r # t
          PROVE  /\ subj'[r].phase = "revision_needed" => subj'[r].superseded /\ Quiescent(acts', r)
                 /\ subj'[r].superseded => subj'[r].phase \in {"revision_needed", "done"}
      BY <2>1, <2>3 DEF WorkInv, RevInv, Superseded, Judged
    <2>4. /\ subj'[t].phase = "revision_needed" => subj'[t].superseded /\ Quiescent(acts', t)
          /\ subj'[t].superseded => subj'[t].phase \in {"revision_needed", "done"}
      BY <1>1, <2>1 DEF WorkInv, RevInv, Superseded, Judged
    <2> QED BY <2>2, <2>3, <2>4 DEF Superseded
  <1>11. Decided'
    <2>1. \A j \in DOMAIN acts : j.kind \in ReviewKinds =>
            (acts'[j].state = "completed" <=> j \in DOMAIN reviews')
      BY <1>6 DEF WorkInv, RevInv, Decided, Deciding
    <2>2. ASSUME NEW j \in DOMAIN reviews'
          PROVE  /\ j.kind \in ReviewKinds /\ MayDecide(reviews'[j].by, j.kind)
                 /\ j.sub = subj'[j.task].sub /\ ~subj'[j.task].superseded =>
                      /\ reviews'[j].decision = "approved"
                      /\ reviews'[j].by \notin subj'[j.task].contributors
      <3>1. CASE j = i
        <4>1. reviews'[j] = row
          BY <1>6, <3>1
        <4>2. ~subj'[t].superseded => d = "approved"
          BY DEF Judged
        <4>3. subj'[t].contributors = subj[t].contributors
          BY DEF Judged
        <4> QED BY <1>2, <1>3, <3>1, <4>1, <4>2, <4>3
      <3>2. CASE j # i
        <4>1. j \in DOMAIN reviews /\ reviews'[j] = reviews[j] /\ j.task \in Tasks
          BY <1>0, <1>6, <3>2
        <4>2. /\ subj'[j.task].sub = subj[j.task].sub
              /\ subj'[j.task].contributors = subj[j.task].contributors
              /\ ~subj'[j.task].superseded => ~subj[j.task].superseded
          BY <1>1, <4>1 DEF Judged
        <4> QED BY <4>1, <4>2 DEF WorkInv, RevInv, Decided
      <3> QED BY <3>1, <3>2
    <2> QED BY <2>1, <2>2 DEF Decided, Deciding
  <1>12. Waiting'
    <2> SUFFICES ASSUME NEW j \in DOMAIN acts, j.kind = "integration",
                        j.sub = subj'[j.task].sub, subj'[j.task].phase = "review"
                 PROVE  acts'[j].blocked /\ ~acts'[j].live /\ j \notin DOMAIN intents
      BY DEF Waiting, Deciding
    <2>1. subj'[j.task] = subj[j.task]
      BY <1>0 DEF Judged
    <2>2. acts'[j].blocked = acts[j].blocked /\ (acts'[j].live => acts[j].live)
      BY DEF Deciding
    <2> QED BY <2>1, <2>2 DEF WorkInv, RevInv, Waiting
  <1>13. JudgedIsCurrent'
    BY <1>1 DEF WorkInv, RevInv, JudgedIsCurrent, Judged
  <1> QED BY <1>7, <1>8, <1>9, <1>10, <1>11, <1>12, <1>13 DEF WorkInv, RevInv, Deciding

LEMMA AmendedSubject ==
  ASSUME NEW s \in Subject, s.pinned = s.digest
  PROVE  /\ Amended(s) \in Subject /\ Amended(s).pinned = Amended(s).digest
         /\ Amended(s).sub = s.sub /\ Amended(s).superseded = s.superseded
         /\ Amended(s).contributors = s.contributors /\ Amended(s).phase = s.phase
  <1>1. CASE s.amendment = 0
    BY <1>1 DEF Amended
  <1>2. CASE s.amendment # 0
    <2> DEFINE new == [s EXCEPT !.digest = s.amendment, !.pinned = s.amendment]
    <2>1. Amended(s) = new
      BY <1>2 DEF Amended
    <2>2. /\ new \in Subject /\ new.pinned = new.digest /\ new.sub = s.sub
          /\ new.superseded = s.superseded /\ new.contributors = s.contributors
          /\ new.phase = s.phase
      BY DEF Subject
    <2> QED BY <2>1, <2>2
  <1> QED BY <1>1, <1>2

LEMMA ReviewKeeps ==
  ASSUME WorkInv, NEW i \in DOMAIN acts, NEW p \in People, NEW d \in {"approved", "changes_requested"},
         Review(p, i, d)
  PROVE  WorkInv'
  <1> DEFINE t == i.task
             as == [acts EXCEPT ![i] = DecidedRow(i)]
             rv == Insert(reviews, i, [decision |-> d, by |-> p])
             others == OfCurrent(acts, t) \ {i}
  <1>0. /\ i.kind \in ReviewKinds /\ Owns(p, i) /\ Reviewer(p, i)
        /\ reviews' = rv /\ UNCHANGED <<intents, results, recons, policy, landed>>
        /\ Table(acts) /\ subj \in [Tasks -> Subject] /\ acts[i] \in Activity
        /\ \A j \in DOMAIN acts : j.task \in Tasks
        /\ t \in Tasks /\ subj[t] \in Subject
    BY KeyFields DEF Review, WorkInv, Types, Table
  <1>1. /\ i.sub = subj[t].sub /\ ~subj[t].superseded /\ subj[t].pinned = subj[t].digest
        /\ subj[t].phase # "none"
    <2>1. i.sub = subj[t].sub /\ ~subj[t].superseded /\ subj[t].pinned = subj[t].digest
      BY <1>0 DEF Owns, Eligible, PinsCurrent
    <2>2. i.sub >= 1 /\ subj[t].sub \in Nat
      BY <1>0 DEF WorkInv, RevInv, Submitted, Subject
    <2>3. subj[t].phase = "none" <=> subj[t].sub = 0
      BY <1>0 DEF WorkInv, RevInv, Submitted
    <2> QED BY <2>1, <2>2, <2>3
  <1>2. /\ DecidedRow(i) \in Activity /\ DecidedRow(i).state = "completed" /\ ~DecidedRow(i).live
        /\ DecidedRow(i).busy = acts[i].busy /\ DecidedRow(i).hold = acts[i].hold
        /\ DecidedRow(i).passed = acts[i].passed /\ DecidedRow(i).push = acts[i].push
    BY <1>0, DecidedRowFields
  <1>3. /\ DOMAIN as = DOMAIN acts /\ as \in [DOMAIN acts -> Activity]
        /\ as[i] = DecidedRow(i) /\ \A j \in DOMAIN acts : j # i => as[j] = acts[j]
        /\ Table(as)
    <2>1. /\ DOMAIN as = DOMAIN acts /\ as \in [DOMAIN acts -> Activity]
          /\ as[i] = DecidedRow(i) /\ \A j \in DOMAIN acts : j # i => as[j] = acts[j]
      BY <1>0, <1>2 DEF Table
    <2> HIDE DEF as
    <2> QED BY <1>0, <2>1 DEF Table
  <1>4. \/ /\ Quiescent(acts, t)
           /\ acts' = [j \in DOMAIN as |->
                         IF j \notin others THEN as[j]
                         ELSE IF as[j].state = "active" THEN Disown(Cancel(as[j]))
                         ELSE Cancel(as[j])]
           /\ subj' = [subj EXCEPT ![t].phase = "revision_needed", ![t].superseded = TRUE]
        \/ /\ d = "approved" /\ acts' = Advance(as, t)
           /\ subj' = [subj EXCEPT ![t] = Advanced(Amended(subj[t]), t)]
        \/ d = "approved" /\ acts' = as /\ subj' = subj
    BY DEF Review, DecidedRow
  <1>5. i \notin others /\ \A j \in others : j \in DOMAIN acts /\ j # i /\ j.task = t
    BY DEF OfCurrent, Of
  <1> HIDE DEF as, others, rv
  <1>6. \A j \in DOMAIN acts : acts[j] \in Activity /\ as[j] \in Activity
    BY <1>0, <1>3 DEF Table
  <1>7. ASSUME acts' = as, d = "approved", subj' = subj PROVE WorkInv'
    <2>1. Deciding(i)
      <3>1. i.kind # "integration" /\ acts[i].state \in {"queued", "active"}
        BY <1>0 DEF ReviewKinds, Owns, Eligible
      <3>2. acts'[i] = DecidedRow(i) /\ \A j \in DOMAIN acts : j # i => acts'[j] = acts[j]
        BY <1>3, <1>7
      <3>3. DOMAIN acts' = DOMAIN acts /\ acts' \in [DOMAIN acts -> Activity]
        BY <1>3, <1>7
      <3> QED BY <1>2, <3>1, <3>2, <3>3 DEF Deciding
    <2>2. Judged(i, d)
      BY <1>0, <1>1, <1>7 DEF Judged
    <2> QED BY <1>0, <2>1, <2>2, DecisionKeeps DEF rv
  <1>8. ASSUME d = "approved", acts' = Advance(as, t),
               subj' = [subj EXCEPT ![t] = Advanced(Amended(subj[t]), t)]
        PROVE  WorkInv'
    <2> DEFINE new == Advanced(Amended(subj[t]), t)
    <2>1. /\ new \in Subject /\ new.phase \in {"integration", "done"} /\ new.sub = subj[t].sub
          /\ ~new.superseded /\ new.contributors = subj[t].contributors /\ new.pinned = new.digest
      <3> DEFINE am == Amended(subj[t])
      <3>1. /\ am \in Subject /\ am.pinned = am.digest /\ am.sub = subj[t].sub
            /\ am.superseded = subj[t].superseded /\ am.contributors = subj[t].contributors
        BY <1>0, <1>1, AmendedSubject
      <3> HIDE DEF am
      <3>2. /\ Advanced(am, t) \in Subject /\ Advanced(am, t).phase \in {"integration", "done"}
            /\ Advanced(am, t).sub = am.sub /\ Advanced(am, t).superseded = am.superseded
            /\ Advanced(am, t).contributors = am.contributors
            /\ Advanced(am, t).pinned = am.pinned /\ Advanced(am, t).digest = am.digest
        BY <1>0, <3>1, AdvancedSubject
      <3>3. new = Advanced(am, t)
        BY DEF am
      <3> HIDE DEF new
      <3> QED BY <1>1, <3>1, <3>2, <3>3
    <2> HIDE DEF new
    <2>2. subj' = [subj EXCEPT ![t] = new]
      BY <1>8 DEF new
    <2>3. Judged(i, d)
      <3>1. subj' \in [Tasks -> Subject] /\ subj'[t] = new /\ \A r \in Tasks \ {t} : subj'[r] = subj[r]
        BY <1>0, <2>1, <2>2
      <3> QED BY <1>1, <1>8, <2>1, <3>1 DEF Judged
    <2>4. LighterTable(as, acts')
      BY <1>0, <1>3, <1>8, AdvanceLightens
    <2>5. \A j \in DOMAIN acts : j.task # t => acts'[j] = as[j]
      BY <1>3, <1>8 DEF Advance, OfCurrent, Of
    <2>6. subj'[t].phase # "review"
      BY <1>0, <2>1, <2>2
    <2>7. /\ DOMAIN acts' = DOMAIN acts /\ acts' \in [DOMAIN acts -> Activity]
          /\ \A j \in DOMAIN acts : Lighter(as[j], acts'[j])
      BY <1>3, <2>4 DEF LighterTable, Table
    <2>8. acts'[i].state = "completed"
      BY <1>2, <1>3, <2>7 DEF Lighter
    <2>9. \A j \in DOMAIN acts : j.kind = "integration" /\ subj'[j.task].phase = "review" =>
            acts'[j].blocked = acts[j].blocked
      BY <1>0, <1>3, <2>5, <2>6 DEF ReviewKinds
    <2>10. \A j \in DOMAIN acts :
             /\ acts'[j].push = acts[j].push /\ acts'[j].passed = acts[j].passed
             /\ acts'[j].hold = acts[j].hold /\ acts'[j].busy = acts[j].busy
             /\ acts'[j].live => acts[j].live
      <3> SUFFICES ASSUME NEW j \in DOMAIN acts
                   PROVE  /\ acts'[j].push = acts[j].push /\ acts'[j].passed = acts[j].passed
                          /\ acts'[j].hold = acts[j].hold /\ acts'[j].busy = acts[j].busy
                          /\ acts'[j].live => acts[j].live
        OBVIOUS
      <3>1. /\ as[j].push = acts[j].push /\ as[j].passed = acts[j].passed
            /\ as[j].hold = acts[j].hold /\ as[j].busy = acts[j].busy
            /\ as[j].live => acts[j].live
        <4>1. CASE j = i
          BY <1>2, <1>3, <4>1
        <4>2. CASE j # i
          BY <1>3, <4>2
        <4> QED BY <4>1, <4>2
      <3>2. /\ acts'[j].push = as[j].push /\ acts'[j].passed = as[j].passed
            /\ acts'[j].hold = as[j].hold /\ acts'[j].busy = as[j].busy
            /\ acts'[j].live = as[j].live
        BY <2>7 DEF Lighter
      <3> QED BY <3>1, <3>2
    <2>11. \A j \in DOMAIN acts :
             /\ j # i => (acts'[j].state = "completed" <=> acts[j].state = "completed")
             /\ acts[j].state \notin {"queued", "active"} => acts'[j].state \notin {"queued", "active"}
      <3> SUFFICES ASSUME NEW j \in DOMAIN acts
                   PROVE  /\ j # i => (acts'[j].state = "completed" <=> acts[j].state = "completed")
                          /\ acts[j].state \notin {"queued", "active"} =>
                               acts'[j].state \notin {"queued", "active"}
        OBVIOUS
      <3>1. CASE j = i
        BY <2>8, <3>1
      <3>2. CASE j # i
        <4>1. as[j] = acts[j]
          BY <1>3, <3>2
        <4>2. acts'[j].state = as[j].state \/ (as[j].state = "queued" /\ acts'[j].state = "canceled")
          BY <2>7 DEF Lighter
        <4> QED BY <3>2, <4>1, <4>2
      <3> QED BY <3>1, <3>2
    <2>12. Deciding(i)
      BY <2>7, <2>8, <2>9, <2>10, <2>11 DEF Deciding
    <2> QED BY <1>0, <2>3, <2>12, DecisionKeeps DEF rv
  <1>9. ASSUME Quiescent(acts, t),
               acts' = [j \in DOMAIN as |->
                         IF j \notin others THEN as[j]
                         ELSE IF as[j].state = "active" THEN Disown(Cancel(as[j]))
                         ELSE Cancel(as[j])],
               subj' = [subj EXCEPT ![t].phase = "revision_needed", ![t].superseded = TRUE]
        PROVE  WorkInv'
    <2> DEFINE back == [subj[t] EXCEPT !.phase = "revision_needed", !.superseded = TRUE]
    <2>1. /\ subj' = [subj EXCEPT ![t] = back] /\ back \in Subject
          /\ back.phase = "revision_needed" /\ back.superseded /\ back.sub = subj[t].sub
          /\ back.contributors = subj[t].contributors
      BY <1>0, <1>9 DEF Subject
    <2> HIDE DEF back
    <2>2. Judged(i, d)
      <3>1. subj' \in [Tasks -> Subject] /\ subj'[t] = back /\ \A r \in Tasks \ {t} : subj'[r] = subj[r]
        BY <1>0, <2>1
      <3> QED BY <1>1, <1>9, <2>1, <3>1 DEF Judged
    <2>3. ASSUME NEW j \in others
          PROVE  /\ acts'[j] \in Activity /\ j # i
                 /\ acts'[j].push = acts[j].push /\ acts'[j].passed = acts[j].passed
                 /\ acts'[j].hold = acts[j].hold /\ acts'[j].busy = acts[j].busy
                 /\ acts'[j].blocked = acts[j].blocked /\ (acts'[j].live => acts[j].live)
                 /\ acts'[j].state = (IF acts[j].state \in {"queued", "active"} THEN "canceled"
                                                                               ELSE acts[j].state)
      <3> DEFINE c == Cancel(acts[j])
      <3>1. j \in DOMAIN acts /\ j # i /\ as[j] = acts[j] /\ acts[j] \in Activity
        BY <1>3, <1>5, <1>6
      <3>2. /\ c \in Activity /\ c.live = acts[j].live /\ c.blocked = acts[j].blocked
            /\ c.busy = acts[j].busy /\ c.hold = acts[j].hold /\ c.passed = acts[j].passed
            /\ c.push = acts[j].push
            /\ c.state = (IF acts[j].state \in {"queued", "active"} THEN "canceled" ELSE acts[j].state)
        BY <3>1, CancelRow
      <3>3. acts'[j] = IF acts[j].state = "active" THEN Disown(c) ELSE c
        BY <1>3, <1>9, <3>1
      <3> HIDE DEF c
      <3>4. /\ Disown(c) \in Activity /\ ~Disown(c).live /\ Disown(c).state = c.state
            /\ Disown(c).blocked = c.blocked /\ Disown(c).busy = c.busy /\ Disown(c).hold = c.hold
            /\ Disown(c).passed = c.passed /\ Disown(c).push = c.push
        BY <3>2, DisownRow
      <3>5. CASE acts[j].state = "active"
        BY <3>1, <3>2, <3>3, <3>4, <3>5
      <3>6. CASE acts[j].state # "active"
        BY <3>1, <3>2, <3>3, <3>6
      <3> QED BY <3>5, <3>6
    <2>4. \A j \in DOMAIN acts \ others : acts'[j] = as[j]
      BY <1>3, <1>9
    <2>5. acts'[i] = DecidedRow(i)
      BY <1>3, <1>5, <2>4
    <2>6. \A j \in DOMAIN acts \ others : j # i => acts'[j] = acts[j]
      BY <1>3, <2>4
    <2>7. DOMAIN acts' = DOMAIN acts /\ acts' \in [DOMAIN acts -> Activity]
      <3>1. DOMAIN acts' = DOMAIN acts
        BY <1>3, <1>9
      <3>2. \A j \in DOMAIN acts : acts'[j] \in Activity
        BY <1>6, <2>3, <2>4
      <3>3. acts' = [j \in DOMAIN acts' |-> acts'[j]]
        BY <1>9
      <3> QED BY <3>1, <3>2, <3>3
    <2>8. Deciding(i)
      <3>1. i.kind # "integration" /\ acts[i].state \in {"queued", "active"}
        BY <1>0 DEF ReviewKinds, Owns, Eligible
      <3>2. acts'[i].state = "completed"
        BY <1>2, <2>5
      <3>3. ASSUME NEW j \in DOMAIN acts
            PROVE  /\ acts'[j].push = acts[j].push /\ acts'[j].passed = acts[j].passed
                   /\ acts'[j].hold = acts[j].hold /\ acts'[j].busy = acts[j].busy
                   /\ j # i => (acts'[j].state = "completed" <=> acts[j].state = "completed")
                   /\ acts[j].state \notin {"queued", "active"} => acts'[j].state \notin {"queued", "active"}
                   /\ acts'[j].live => acts[j].live
                   /\ j.kind = "integration" => acts'[j].blocked = acts[j].blocked
        <4>1. CASE j \in others
          BY <2>3, <4>1
        <4>2. CASE j = i
          BY <1>2, <2>5, <3>1, <4>2
        <4>3. CASE j \notin others /\ j # i
          BY <2>6, <4>3
        <4> QED BY <4>1, <4>2, <4>3
      <3> QED BY <2>7, <3>2, <3>3 DEF Deciding
    <2> QED BY <1>0, <2>2, <2>8, DecisionKeeps DEF rv
  <1> QED BY <1>4, <1>7, <1>8, <1>9

---------------------------------------------------------------------------
(* The specification keeps the invariant.                                   *)

LEMMA InitKeeps ==
  ASSUME Init PROVE WorkInv
  <1>1. DOMAIN Empty = {} /\ \A S : Empty \in [DOMAIN Empty -> S]
    BY DEF Empty
  <1>2. /\ acts = Empty /\ reviews = Empty /\ intents = Empty /\ results = Empty /\ recons = Empty
        /\ landed = <<Foreign(0)>>
    BY DEF Init
  <1>3. Foreign(0) \in Revision /\ Foreign(0).task = NoTask /\ Foreign(0).at = 0
    BY DEF Foreign, Revision
  <1>4. landed \in Seq(Revision) /\ landed # <<>> /\ Len(landed) = 1 /\ landed[1] = Foreign(0)
    BY <1>2, <1>3
  <1>5. /\ subj \in [Tasks -> Subject]
        /\ \A t \in Tasks : subj[t].phase = "none" /\ ~subj[t].superseded /\ subj[t].sub = 0
    BY DEF Init, Subject
  <1>6. policy \in PolicyRow
    BY DEF Init, PolicyRow
  <1>7. Types
    BY <1>1, <1>2, <1>4, <1>5, <1>6 DEF Types
  <1>8. Dense(DOMAIN acts)
    <2>1. 0 \in Nat /\ \A s \in Nat : ~(s >= 1 /\ s <= 0)
      OBVIOUS
    <2> QED BY <1>1, <1>2, <2>1 DEF Dense
  <1>9. BranchGrows
    <2>1. Foreigns = {1}
      BY <1>3, <1>4 DEF Foreigns, Elsewhere
    <2>2. Cardinality(Foreigns) = 1
      BY <2>1, FS_Singleton
    <2> QED BY <1>3, <1>4, <2>1, <2>2 DEF BranchGrows, Elsewhere
  <1>10. LandingsChecked
    BY <1>3, <1>4 DEF LandingsChecked
  <1>11. PubInv
    BY <1>1, <1>2, <1>9, <1>10
       DEF PubInv, Held, IntentsTell, ClearedMay, ReconciledEnds, FinalizedIsLanded,
           AgentNonPublicationIsFinal
  <1>12. RevInv
    BY <1>1, <1>2, <1>5 DEF RevInv, Submitted, Superseded, Decided, Waiting, JudgedIsCurrent
  <1> QED BY <1>7, <1>8, <1>11, <1>12 DEF WorkInv

LEMMA StepKeeps ==
  ASSUME WorkInv, [Next]_vars
  PROVE  WorkInv'
  <1>1. CASE PolicyStep
    BY <1>1, PolicyKeeps
  <1>2. ASSUME NEW t \in Tasks, TaskStep(t) PROVE WorkInv'
    BY <1>2, TaskKeeps, SubmitKeeps, ReopenKeeps DEF TaskStep
  <1>3. ASSUME NEW i \in DOMAIN acts, ActivityStep(i) PROVE WorkInv'
    BY <1>3, ClaimActivityKeeps, ReleaseKeeps, ReviewKeeps, LapseKeeps, StartWorkKeeps, EndWorkKeeps
       DEF ActivityStep
  <1>4. ASSUME NEW i \in DOMAIN acts, IntegrationStep(i) PROVE WorkInv'
    BY <1>4, AuthorizeKeeps, IntentKeeps, ClearKeeps, EndPublishKeeps, ResultKeeps, ReconcileKeeps,
       AgentReconcileKeeps, FinalizeKeeps
       DEF IntegrationStep
  <1>5. CASE ForeignPush
    BY <1>5, ForeignPushKeeps
  <1>6. CASE UNCHANGED vars
    <2>1. Types' /\ Dense(DOMAIN acts')
      BY <1>6 DEF WorkInv, Types, vars
    <2>2. PubQuiet /\ RevQuiet
      BY <1>6 DEF PubQuiet, RevQuiet, vars, WorkInv, Types
    <2> QED BY <2>1, <2>2, PubFrame, RevFrame DEF WorkInv
  <1> QED BY <1>1, <1>2, <1>3, <1>4, <1>5, <1>6 DEF Next

LEMMA WorkInvariant == Spec => []WorkInv
  <1>1. Init => WorkInv
    BY InitKeeps
  <1>2. WorkInv /\ [Next]_vars => WorkInv'
    BY StepKeeps
  <1> QED BY <1>1, <1>2, PTL DEF Spec

---------------------------------------------------------------------------
(* Counting approvals.                                                      *)

LEMMA DisjointUnion ==
  ASSUME NEW S, NEW T, IsFiniteSet(S), IsFiniteSet(T), S \cap T = {}
  PROVE  /\ IsFiniteSet(S \cup T) /\ Cardinality(S \cup T) = Cardinality(S) + Cardinality(T)
         /\ Cardinality(S) \in Nat /\ Cardinality(T) \in Nat
  <1>1. Cardinality(S) \in Nat /\ Cardinality(T) \in Nat
    BY FS_CardinalityType
  <1>2. Cardinality(S \cap T) = 0
    BY FS_EmptySet
  <1>3. /\ IsFiniteSet(S \cup T)
        /\ Cardinality(S \cup T) = Cardinality(S) + Cardinality(T) - Cardinality(S \cap T)
    BY FS_Union
  <1> QED BY <1>1, <1>2, <1>3

LEMMA SubmissionFinite ==
  ASSUME NEW as, DOMAIN as \subseteq Key, Dense(DOMAIN as), NEW t \in Tasks, NEW n \in Nat
  PROVE  IsFiniteSet({i \in Of(as, t) : i.sub = n})
  <1> DEFINE S(k) == OfKind(as, t, n, k)
             A == S("agent_review")
             B == S("human_review")
             C == S("either_review")
             D == S("integration")
  <1>1. IsFiniteSet(A) /\ IsFiniteSet(B) /\ IsFiniteSet(C) /\ IsFiniteSet(D)
    BY SlotCount DEF Kinds, ReviewKinds
  <1>2. {i \in Of(as, t) : i.sub = n} \subseteq ((A \cup B) \cup C) \cup D
    <2> SUFFICES ASSUME NEW i \in Of(as, t), i.sub = n PROVE i \in ((A \cup B) \cup C) \cup D
      OBVIOUS
    <2>1. i.kind \in Kinds
      BY KeyFields DEF Of
    <2> QED BY <2>1 DEF Kinds, ReviewKinds, OfKind
  <1> HIDE DEF A, B, C, D
  <1>3. IsFiniteSet(((A \cup B) \cup C) \cup D)
    BY <1>1, FS_Union
  <1> QED BY <1>2, <1>3, FS_Subset

\* The approvals of a subject past review satisfy the reviews it completed.
LEMMA ApprovedOnceAdvanced ==
  ASSUME WorkInv, NEW t \in Tasks, subj[t].phase = "integration"
  PROVE  Approved(t)
  <1> DEFINE done(k) == {i \in OfCurrent(acts, t) : i.kind = k /\ acts[i].state = "completed"}
             given == Approvals(reviews, t)
             byH == {i \in given : reviews[i].by \in Humans}
             byA == {i \in given : reviews[i].by \in Agents}
             A == done("agent_review")
             H == done("human_review")
             E == done("either_review")
  <1>1. ~subj[t].superseded /\ subj[t].sub \in Nat
    BY DEF WorkInv, RevInv, Superseded, Types, Subject
  <1>2. DOMAIN acts \subseteq Key /\ Dense(DOMAIN acts) /\ DOMAIN reviews \subseteq DOMAIN acts
    BY DEF WorkInv, Types
  <1>3. IsFiniteSet(OfCurrent(acts, t))
    BY <1>1, <1>2, SubmissionFinite DEF OfCurrent
  <1>4. IsFiniteSet(A) /\ IsFiniteSet(H) /\ IsFiniteSet(E)
    BY <1>3, FS_Subset
  <1>5. \A i : i \in given <=> i \in OfCurrent(acts, t) /\ i.kind \in ReviewKinds
                               /\ acts[i].state = "completed"
    BY <1>1, <1>2 DEF WorkInv, RevInv, Decided, Approvals, OfCurrent, Of
  <1>6. \A i \in given : MayDecide(reviews[i].by, i.kind)
    BY DEF WorkInv, RevInv, Decided, Approvals
  <1> HIDE DEF given
  <1> DEFINE EA == E \cap byA
             EH == E \cap byH
  <1>7. byA = A \cup EA /\ A \cap EA = {}
    BY <1>5, <1>6 DEF MayDecide, ReviewKinds
  <1>8. byH = H \cup EH /\ H \cap EH = {}
    BY <1>5, <1>6 DEF MayDecide, ReviewKinds
  <1>9. E = EA \cup EH /\ EA \cap EH = {}
    BY <1>5, <1>6 DEF MayDecide, ReviewKinds
  <1>10. IsFiniteSet(EA) /\ IsFiniteSet(EH)
    BY <1>4, FS_Subset
  <1> DEFINE need == [k \in ReviewKinds |-> Cardinality(done(k))]
  <1>11. need["agent_review"] = Cardinality(A) /\ need["human_review"] = Cardinality(H)
         /\ need["either_review"] = Cardinality(E)
    BY DEF ReviewKinds
  <1>12. Approved(t) <=> ReviewsSatisfied(need, Cardinality(byH), Cardinality(byA))
    <2>1. [k \in ReviewKinds |-> IF subj[t].phase # "review" THEN Cardinality(done(k))
                                 ELSE IF k \in RequiredKinds(policy.mode) THEN 1 ELSE 0] = need
      OBVIOUS
    <2> QED BY <2>1 DEF Approved, ApprovalsSatisfied, given
  <1> HIDE DEF A, H, E, byA, byH, EA, EH, need
  <1>13. /\ Cardinality(byA) = Cardinality(A) + Cardinality(EA)
         /\ Cardinality(A) \in Nat /\ Cardinality(EA) \in Nat
    BY <1>4, <1>7, <1>10, DisjointUnion
  <1>14. /\ Cardinality(byH) = Cardinality(H) + Cardinality(EH)
         /\ Cardinality(H) \in Nat /\ Cardinality(EH) \in Nat
    BY <1>4, <1>8, <1>10, DisjointUnion
  <1>15. Cardinality(E) = Cardinality(EA) + Cardinality(EH)
    BY <1>9, <1>10, DisjointUnion
  <1> DEFINE a == Cardinality(A)
             h == Cardinality(H)
             ea == Cardinality(EA)
             eh == Cardinality(EH)
  <1>16. a \in Nat /\ h \in Nat /\ ea \in Nat /\ eh \in Nat
    BY <1>13, <1>14
  <1>17. /\ need["agent_review"] = a /\ need["human_review"] = h
         /\ need["either_review"] = ea + eh
         /\ Cardinality(byH) = h + eh /\ Cardinality(byA) = a + ea
    BY <1>11, <1>13, <1>14, <1>15
  <1> HIDE DEF a, h, ea, eh
  <1>18. ReviewsSatisfied(need, h + eh, a + ea)
    BY <1>16, <1>17 DEF ReviewsSatisfied
  <1> QED BY <1>12, <1>17, <1>18

LEMMA ReviewsAreSound == WorkInv => ReviewsSound
  <1> SUFFICES ASSUME WorkInv PROVE ReviewsSound
    OBVIOUS
  <1>1. IntegrationApproved
    BY ApprovedOnceAdvanced DEF IntegrationApproved
  <1>2. ApprovalsIndependent
    BY DEF ApprovalsIndependent, Approvals, WorkInv, RevInv, Decided
  <1>3. RevisionStartsQuiet
    BY DEF RevisionStartsQuiet, WorkInv, RevInv, Superseded
  <1>4. JudgedIsCurrent
    BY DEF WorkInv, RevInv
  <1> QED BY <1>1, <1>2, <1>3, <1>4 DEF ReviewsSound

LEMMA PublicationsAreSound == WorkInv => PublicationSound
  <1> SUFFICES ASSUME WorkInv PROVE PublicationSound
    OBVIOUS
  <1>1. TypeOK
    <2>1. \A k \in DOMAIN landed : landed[k] \in Revision
      BY DEF WorkInv, Types
    <2>2. \A i \in DOMAIN intents : /\ intents[i].base \in Revision /\ intents[i].result \in Revision
                                    /\ intents[i].roster \in Rosters /\ intents[i].gen \in Nat
      BY DEF WorkInv, Types, IntentRow
    <2> QED BY <2>1, <2>2 DEF TypeOK, WorkInv, Types
  <1>2. UnsettledIntentHolds
    <2>1. ASSUME NEW i \in DOMAIN acts, Unresolved(i) PROVE acts[i].hold = "held"
      BY <2>1 DEF WorkInv, PubInv, Held, Unresolved
    <2> QED BY <2>1 DEF WorkInv, PubInv, Held, UnsettledIntentHolds
  <1> QED BY <1>1, <1>2 DEF PublicationSound, WorkInv, PubInv

---------------------------------------------------------------------------
(* Leaving review.                                                          *)

\* What reviews_satisfied accepts is a matching of the required reviews to approvals.
LEMMA SatisfiedMatches ==
  ASSUME NEW mode \in ReviewModes, NEW rv, NEW G, IsFiniteSet(G), NEW h, NEW a,
         h = Cardinality({i \in G : rv[i].by \in Humans}),
         a = Cardinality({i \in G : rv[i].by \in Agents}),
         ReviewsSatisfied(Needed(mode), h, a)
  PROVE  Matched(RequiredKinds(mode), rv, G)
  <1> DEFINE GH == {i \in G : rv[i].by \in Humans}
             GA == {i \in G : rv[i].by \in Agents}
             kinds == RequiredKinds(mode)
             need(k) == IF k \in kinds THEN 1 ELSE 0
             na == need("agent_review")
             nh == need("human_review")
             ne == need("either_review")
  <1>1. /\ IsFiniteSet(GH) /\ IsFiniteSet(GA) /\ h \in Nat /\ a \in Nat
        /\ h = 0 <=> GH = {}
        /\ a = 0 <=> GA = {}
    <2>1. IsFiniteSet(GH) /\ IsFiniteSet(GA)
      BY FS_Subset
    <2>2. h = Cardinality(GH) /\ a = Cardinality(GA)
      OBVIOUS
    <2> HIDE DEF GH, GA
    <2> QED BY <2>1, <2>2, FS_CardinalityType, FS_EmptySet
  <1>2. /\ Needed(mode)["agent_review"] = na /\ Needed(mode)["human_review"] = nh
        /\ Needed(mode)["either_review"] = ne
    BY DEF Needed, ReviewKinds
  <1>3. na \in 0 .. 1 /\ nh \in 0 .. 1 /\ ne \in 0 .. 1
    OBVIOUS
  <1> HIDE DEF na, nh, ne, kinds
  <1>4. /\ nh <= h
        /\ na > a => nh = 0 /\ h >= 1
        /\ ne > 0 => na > 0 \/ nh > 0 \/ h >= 1 \/ a >= 1
    BY <1>1, <1>2, <1>3 DEF ReviewsSatisfied
  <1>5. \A k \in kinds : need(k) = 1
    BY DEF kinds
  <1> HIDE DEF GH, GA
  <1>6. \A x \in GH : x \in G /\ rv[x].by \in Humans
    BY DEF GH
  <1>7. \A x \in GA : x \in G /\ rv[x].by \in Agents
    BY DEF GA
  <1>8. CASE mode = "none"
    <2>1. kinds = {}
      BY <1>8 DEF kinds, RequiredKinds
    <2> DEFINE f == [k \in {} |-> k]
    <2>2. f \in [kinds -> G]
      BY <2>1
    <2> QED BY <2>1, <2>2 DEF Matched, kinds
  <1>9. CASE mode \in {"agent", "either"}
    <2>1. kinds = {IF mode = "agent" THEN "agent_review" ELSE "either_review"}
      BY <1>9 DEF kinds, RequiredKinds
    <2>2. h >= 1 \/ a >= 1
      BY <1>1, <1>3, <1>4, <1>9 DEF na, nh, ne, kinds, RequiredKinds
    <2>3. PICK x \in G : rv[x].by \in Humans \cup Agents
      BY <1>1, <1>6, <1>7, <2>2
    <2> DEFINE f == [k \in kinds |-> x]
    <2>4. f \in [kinds -> G] /\ \A k, l \in kinds : k = l
      BY <2>1
    <2>5. \A k \in kinds : MaySatisfy(k, rv[f[k]].by, kinds)
      BY <2>1, <2>3 DEF MaySatisfy
    <2> HIDE DEF f
    <2> QED BY <2>4, <2>5 DEF Matched, kinds
  <1>10. CASE mode = "human"
    <2>1. kinds = {"human_review"}
      BY <1>10 DEF kinds, RequiredKinds
    <2>2. h >= 1
      BY <1>1, <1>4, <2>1 DEF nh
    <2>3. PICK x \in G : rv[x].by \in Humans
      BY <1>1, <1>6, <2>2
    <2> DEFINE f == [k \in kinds |-> x]
    <2>4. f \in [kinds -> G] /\ \A k, l \in kinds : k = l
      BY <2>1
    <2>5. \A k \in kinds : MaySatisfy(k, rv[f[k]].by, kinds)
      BY <2>1, <2>3 DEF MaySatisfy
    <2> HIDE DEF f
    <2> QED BY <2>4, <2>5 DEF Matched, kinds
  <1>11. CASE mode = "both"
    <2>1. kinds = {"agent_review", "human_review"}
      BY <1>11 DEF kinds, RequiredKinds
    <2>2. h >= 1 /\ a >= 1
      BY <1>1, <1>4, <2>1 DEF nh, na
    <2>3. PICK x \in G : rv[x].by \in Agents
      BY <1>1, <1>7, <2>2
    <2>4. PICK y \in G : rv[y].by \in Humans
      BY <1>1, <1>6, <2>2
    <2>5. x # y
      BY <2>3, <2>4
    <2> DEFINE f == [k \in kinds |-> IF k = "agent_review" THEN x ELSE y]
    <2>6. f \in [kinds -> G] /\ \A k, l \in kinds : f[k] = f[l] => k = l
      BY <2>1, <2>5
    <2>7. \A k \in kinds : MaySatisfy(k, rv[f[k]].by, kinds)
      BY <2>1, <2>3, <2>4 DEF MaySatisfy
    <2> HIDE DEF f
    <2> QED BY <2>6, <2>7 DEF Matched, kinds
  <1> QED BY <1>8, <1>9, <1>10, <1>11 DEF ReviewModes

\* A subject in review moves forwards only on approvals that satisfy the mode.
Leaves(t) == subj[t].phase = "review" /\ subj'[t].phase \in {"integration", "done"}
Satisfied(t) ==
  ReviewsSatisfied(Needed(policy'.mode), By(reviews', t, Humans), By(reviews', t, Agents))

LEMMA ReconciledEarns ==
  ASSUME WorkInv, NEW mode \in ReviewModes, NEW advance \in BOOLEAN, Reconciled(mode, advance),
         reviews' = reviews, policy'.mode = mode, NEW t \in Tasks, Leaves(t)
  PROVE  Satisfied(t)
  <1>1. subj'[t] = ReconcileSubject(t, mode, advance).subj
    BY DEF Reconciled
  <1>2. ReconcileSubject(t, mode, advance).subj # subj[t]
    BY <1>1 DEF Leaves
  <1> QED BY <1>2, ReconcileOne DEF Satisfied

LEMMA ReviewEarns ==
  ASSUME WorkInv, NEW i \in DOMAIN acts, NEW p \in People, NEW d \in {"approved", "changes_requested"},
         Review(p, i, d), NEW t \in Tasks, Leaves(t)
  PROVE  Satisfied(t)
  <1> DEFINE as == [acts EXCEPT ![i] = [Disown(@) EXCEPT !.state = "completed", !.blocked = FALSE]]
             rv == Insert(reviews, i, [decision |-> d, by |-> p])
  <1>1. reviews' = rv /\ policy' = policy
    BY DEF Review
  <1>2. subj \in [Tasks -> Subject] /\ i.task \in Tasks
    BY KeyFields DEF WorkInv, Types
  <1>3. t = i.task
    BY <1>2 DEF Review, Leaves
  <1>4. ApprovalsSatisfied(as, rv, i.task, policy.mode)
    <2>1. \/ subj' = [subj EXCEPT ![i.task].phase = "revision_needed", ![i.task].superseded = TRUE]
          \/ ApprovalsSatisfied(as, rv, i.task, policy.mode)
          \/ subj' = subj
      BY DEF Review
    <2> HIDE DEF as, rv
    <2>2. subj' # subj
      BY DEF Leaves
    <2>3. subj' # [subj EXCEPT ![i.task].phase = "revision_needed", ![i.task].superseded = TRUE]
      <3> SUFFICES ASSUME subj' = [subj EXCEPT ![i.task].phase = "revision_needed",
                                                ![i.task].superseded = TRUE]
                   PROVE  FALSE
        OBVIOUS
      <3>1. subj[t] \in Subject /\ t \in Tasks
        BY <1>2, <1>3
      <3> DEFINE back == [subj[t] EXCEPT !.phase = "revision_needed", !.superseded = TRUE]
      <3>2. back.phase = "revision_needed"
        BY <3>1 DEF Subject
      <3>3. subj'[t] = back
        BY <1>2, <1>3, <3>1
      <3> HIDE DEF back
      <3> QED BY <3>2, <3>3 DEF Leaves
    <2> QED BY <2>1, <2>2, <2>3
  <1> HIDE DEF as, rv
  <1>5. subj[t].phase = "review"
    BY DEF Leaves
  <1>6. ReviewsSatisfied(Needed(policy.mode), By(rv, t, Humans), By(rv, t, Agents))
    BY <1>3, <1>4, <1>5, JudgedByMode
  <1> QED BY <1>1, <1>6 DEF Satisfied

LEMMA FinalizeNeverLeaves ==
  ASSUME WorkInv, NEW i \in DOMAIN acts, NEW p \in People, Finalize(p, i), NEW t \in Tasks
  PROVE  ~Leaves(t)
  <1>1. /\ subj \in [Tasks -> Subject] /\ i.task \in Tasks /\ i.kind = "integration"
    BY KeyFields DEF WorkInv, Types, PubInv, IntentsTell, Finalize, ReportedAs
  <1>2. i.sub = subj[i.task].sub /\ acts[i].live
    BY DEF Finalize, Owns, Eligible, PinsCurrent
  <1>3. subj[i.task].phase # "review"
    BY <1>1, <1>2 DEF WorkInv, RevInv, Waiting
  <1>4. t # i.task => subj'[t] = subj[t]
    BY <1>1 DEF Finalize
  <1> QED BY <1>3, <1>4 DEF Leaves

LEMMA TaskNeverLeaves ==
  ASSUME WorkInv, NEW r \in Tasks, TaskStep(r), NEW t \in Tasks
  PROVE  ~Leaves(t)
  <1>0. subj \in [Tasks -> Subject]
    BY DEF WorkInv, Types
  <1>1. ASSUME NEW p \in Agents, ClaimTask(p, r) PROVE ~Leaves(t)
    BY <1>0, <1>1 DEF ClaimTask, Claimable, Leaves
  <1>2. ASSUME NEW p \in Agents, NEW amend \in BOOLEAN, Submit(p, r, amend) PROVE ~Leaves(t)
    <2>1. subj[r].phase # "review" /\ (t # r => subj'[t] = subj[t])
      BY <1>0, <1>2 DEF Submit, Claimable
    <2> QED BY <2>1 DEF Leaves
  <1>3. ASSUME NEW p \in People, Reopen(p, r) PROVE ~Leaves(t)
    <2>1. subj'[r].phase = "revision_needed" /\ (t # r => subj'[t] = subj[t])
      BY <1>0, <1>3 DEF Reopen
    <2> QED BY <2>1 DEF Leaves
  <1>4. ASSUME EditTask(r) PROVE ~Leaves(t)
    BY <1>0, <1>4 DEF EditTask, Claimable, Leaves
  <1>5. ASSUME CompleteExternally(r) PROVE ~Leaves(t)
    BY <1>0, <1>5 DEF CompleteExternally, Leaves
  <1> QED BY <1>1, <1>2, <1>3, <1>4, <1>5 DEF TaskStep

LEMMA StepEarns ==
  ASSUME WorkInv, [Next]_vars, NEW t \in Tasks, Leaves(t)
  PROVE  Satisfied(t)
  <1>0. subj'[t] # subj[t] /\ policy.mode \in ReviewModes
    BY DEF Leaves, WorkInv, Types, PolicyRow
  <1>1. CASE PolicyStep
    <2>1. ASSUME NEW m \in Modes, NEW a \in Automatics, NEW r \in Recoveries, UpdatePolicy(m, a, r)
          PROVE  Satisfied(t)
      <3>1. policy'.mode = m
        BY <2>1 DEF UpdatePolicy, WorkInv, Types, PolicyRow
      <3>2. m \in ReviewModes /\ TRUE \in BOOLEAN /\ Reconciled(m, TRUE) /\ reviews' = reviews
        BY <2>1 DEF UpdatePolicy
      <3> QED BY <3>1, <3>2, ReconciledEarns
    <2>2. ASSUME NEW roster \in Rosters, PutWorkflowPolicy(roster) PROVE FALSE
      BY <1>0, <2>2 DEF PutWorkflowPolicy
    <2>3. ASSUME Startup PROVE Satisfied(t)
      <3>1. FALSE \in BOOLEAN /\ Reconciled(policy.mode, FALSE) /\ reviews' = reviews
            /\ policy'.mode = policy.mode
        BY <2>3 DEF Startup
      <3> QED BY <1>0, <3>1, ReconciledEarns
    <2> QED BY <1>1, <2>1, <2>2, <2>3 DEF PolicyStep
  <1>2. ASSUME NEW r \in Tasks, TaskStep(r) PROVE FALSE
    BY <1>2, TaskNeverLeaves
  <1>3. ASSUME NEW i \in DOMAIN acts, ActivityStep(i) PROVE Satisfied(t)
    <2>1. ASSUME NEW p \in People, ClaimActivity(p, i) PROVE FALSE
      BY <1>0, <2>1 DEF ClaimActivity
    <2>2. ASSUME NEW p \in People, ReleaseActivity(p, i) PROVE FALSE
      BY <1>0, <2>2 DEF ReleaseActivity
    <2>3. ASSUME LapseActivity(i) \/ StartWork(i) \/ \E checks \in SUBSET Checks : EndWork(i, checks)
          PROVE  FALSE
      BY <1>0, <2>3 DEF LapseActivity, StartWork, EndWork
    <2> QED BY <1>3, <2>1, <2>2, <2>3, ReviewEarns DEF ActivityStep
  <1>4. ASSUME NEW i \in DOMAIN acts, IntegrationStep(i) PROVE FALSE
    <2>1. ASSUME Authorize(i) \/ Clear(i) \/ EndPublish(i) PROVE FALSE
      BY <1>0, <2>1 DEF Authorize, Clear, EndPublish
    <2>2. ASSUME NEW p \in People, PublicationIntent(p, i) PROVE FALSE
      BY <1>0, <2>2 DEF PublicationIntent
    <2>3. ASSUME NEW p \in People, NEW s \in {"published", "not_published", "uncertain"},
                 IntegrationResult(p, i, s)
          PROVE  FALSE
      BY <1>0, <2>3 DEF IntegrationResult
    <2>4. ASSUME NEW d \in {"published", "not_published", "target_moved"}, Reconcile(i, d) PROVE FALSE
      BY <1>0, <2>4 DEF Reconcile
    <2>5. ASSUME NEW d \in {"published", "not_published"}, AgentReconcile(i, d) PROVE FALSE
      BY <1>0, <2>5 DEF AgentReconcile
    <2>6. ASSUME NEW p \in People, Finalize(p, i) PROVE FALSE
      BY <2>6, FinalizeNeverLeaves
    <2> QED BY <1>4, <2>1, <2>2, <2>3, <2>4, <2>5, <2>6 DEF IntegrationStep
  <1>5. CASE ForeignPush
    BY <1>0, <1>5 DEF ForeignPush
  <1>6. CASE UNCHANGED vars
    BY <1>0, <1>6 DEF vars
  <1> QED BY <1>1, <1>2, <1>3, <1>4, <1>5, <1>6 DEF Next

LEMMA LeavingIsEarned ==
  ASSUME WorkInv, [Next]_vars, NEW t \in Tasks, Leaves(t)
  PROVE  LET given == {i \in DOMAIN reviews' : i.task = t /\ i.sub = subj[t].sub
                                              /\ reviews'[i].decision = "approved"}
         IN Matched(RequiredKinds(policy'.mode), reviews', given)
  <1> DEFINE given == {i \in DOMAIN reviews' : i.task = t /\ i.sub = subj[t].sub
                                              /\ reviews'[i].decision = "approved"}
             n == subj[t].sub
             S == {i \in Of(acts', t) : i.sub = n}
  <1>1. WorkInv'
    BY StepKeeps
  <1>2. /\ DOMAIN acts' \subseteq Key /\ Dense(DOMAIN acts') /\ DOMAIN reviews' \subseteq DOMAIN acts'
        /\ policy'.mode \in ReviewModes
    <2>1. Types' /\ Dense(DOMAIN acts')
      BY <1>1 DEF WorkInv
    <2> QED BY <2>1 DEF Types, PolicyRow
  <1>3. n \in Nat
    BY DEF WorkInv, Types, Subject
  <1> HIDE DEF n
  <1>4. IsFiniteSet(S)
    BY <1>2, <1>3, SubmissionFinite
  <1>5. given \subseteq S
    BY <1>2 DEF Of, n
  <1>6. IsFiniteSet(given)
    BY <1>4, <1>5, FS_Subset
  <1>7. given = Approvals(reviews', t)
    BY DEF Approvals
  <1> HIDE DEF given
  <1>8. ReviewsSatisfied(Needed(policy'.mode), By(reviews', t, Humans), By(reviews', t, Agents))
    BY StepEarns DEF Satisfied
  <1>9. /\ By(reviews', t, Humans) = Cardinality({i \in given : reviews'[i].by \in Humans})
        /\ By(reviews', t, Agents) = Cardinality({i \in given : reviews'[i].by \in Agents})
    BY <1>7 DEF By
  <1>10. Matched(RequiredKinds(policy'.mode), reviews', given)
    BY <1>2, <1>6, <1>8, <1>9, SatisfiedMatches
  <1> QED BY <1>10 DEF given

---------------------------------------------------------------------------
(* Theorems.                                                                *)

\* What a publication leaves on the target and on the books (finalize,
\* reconcile_publication): what landed had passed its intent's roster, what is finalized
\* is on the target, and one activity holds the target for whatever is not settled.
THEOREM PublicationIsSound == Spec => []PublicationSound
  BY WorkInvariant, PublicationsAreSound, PTL

\* What an agent reconciled as not published is never pushed by that publication
\* afterwards (agent_reconcile_publication).
THEOREM NonPublicationIsFinal == Spec => []AgentNonPublicationIsFinal
  <1>1. WorkInv => AgentNonPublicationIsFinal
    BY DEF WorkInv, PubInv
  <1> QED BY <1>1, WorkInvariant, PTL

\* What reviews are worth (approvals_satisfied, ensure_independent_reviewer, revise): a
\* subject in integration keeps the approvals it passed review under, none of them by a
\* contributor, and what is handed back runs nothing.
THEOREM ReviewsStand == Spec => []ReviewsSound
  BY WorkInvariant, ReviewsAreSound, PTL

\* A subject leaves review forwards only on approvals that match the reviews its mode
\* requires then (reviews_satisfied, advance_approved_subject).
THEOREM AdvancesAreEarned == Spec => AdvanceIsEarned
  <1>1. WorkInv /\ [Next]_vars =>
          [\A t \in Tasks :
             subj[t].phase = "review" /\ subj'[t].phase \in {"integration", "done"}
               => LET given == {i \in DOMAIN reviews' : i.task = t /\ i.sub = subj[t].sub
                                                       /\ reviews'[i].decision = "approved"}
                  IN Matched(RequiredKinds(policy'.mode), reviews', given)]_vars
    BY LeavingIsEarned DEF Leaves
  <1> QED BY <1>1, WorkInvariant, PTL DEF Spec, AdvanceIsEarned
=============================================================================
