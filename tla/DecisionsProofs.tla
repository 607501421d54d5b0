---------------------------- MODULE DecisionsProofs ----------------------------
(***************************************************************************)
(* Scoped decisions, for any tasks, policies, generations and sweeps: an    *)
(* allow that frees a task was given about the scope as it stands, a status *)
(* never runs ahead of the guard, and a decision reserved for a human is    *)
(* answered by one, under a relaying policy it names, or by the timeout of a *)
(* cycle a human opened.                                                    *)
(*                                                                         *)
(* The invariant (DecInv) says what every recorded answer remembers: the    *)
(* generation it belongs to, and why its author might give it.  It holds    *)
(* over any set T of tasks, so that one argument serves both parts of the   *)
(* model: an action of either part extends the policies or the cycles       *)
(* (Extends), and whatever extends them keeps it.                           *)
(***************************************************************************)
EXTENDS MCDecisions, SequenceTheorems, WellFoundedInduction, TLAPS

USE DecisionsAssumption

Policies == [rules : Rules \cup {R}, relay : BOOLEAN]

Pins(T) == UNION {[scope -> Nat] : scope \in SUBSET T \ {{}}}

CycleOf(T) == [pins : Pins(T), policy : Nat, opener : Kinds, created : Nat, expires : Nat,
               answer : Seq(Answer)]

Typed(T) ==
  /\ revisions \in [T -> Seq(Contents \cup {C})]
  /\ policies \in Seq(Policies) /\ policies # <<>>
  /\ DOMAIN decisions = DOMAIN cycles
  /\ cycles \in [DOMAIN cycles -> Seq(CycleOf(T))]
  /\ \A d \in DOMAIN cycles : cycles[d] # <<>>
  /\ now \in Nat

\* Revision r of the policies p allows relaying, and starts the run of those that do.
Enables(p, r) ==
  /\ r \in DOMAIN p
  /\ p[r].relay
  /\ r > 1 => ~p[r - 1].relay

\* Why an answer to a decision reserved for a human counts.
Earned(p, answer, opener) ==
  \/ answer.by = "human"
  \/ answer.by = "relay" /\ Enables(p, answer.authority)
  \/ answer.by = "timeout" /\ opener = "human"

\* The answers of cycle g were read off it, and were their authors' to give.
Recalls(p, row, g, question) ==
  \A i \in DOMAIN row.answer :
    /\ row.answer[i].read = g
    /\ question.required = "human" => Earned(p, row.answer[i], row.opener)

Remembers ==
  \A d \in DOMAIN cycles : \A g \in DOMAIN cycles[d] :
    Recalls(policies, cycles[d][g], g, decisions[d])

DecInv(T) == Typed(T) /\ Remembers

---------------------------------------------------------------------------
(* What a step does.                                                        *)

\* An answer to the current cycle of a decision, that its author may give.
Fits(d, answer) ==
  /\ answer \in Answer
  /\ answer.read = Len(cycles[d])
  /\ decisions[d].required = "human" =>
       Earned(policies, answer, cycles[d][Len(cycles[d])].opener)

AnsweredWith(d, answer) == [cycles[d] EXCEPT ![Len(cycles[d])].answer = <<answer>>]

Unanswered(T) == {row \in CycleOf(T) : row.answer = <<>>}

\* A decision keeps its cycles, gets a new one, or gets an answer to the current one.
Grows(d, T) ==
  \/ cycles'[d] = cycles[d]
  \/ \E row \in Unanswered(T) : cycles'[d] = Append(cycles[d], row)
  \/ \E answer : Fits(d, answer) /\ cycles'[d] = AnsweredWith(d, answer)

Extends(T) ==
  /\ revisions' \in [T -> Seq(Contents \cup {C})]
  /\ policies' = policies \/ \E p \in Policies : policies' = Append(policies, p)
  /\ now' \in Nat
  /\ DOMAIN decisions' = DOMAIN cycles' /\ DOMAIN cycles \subseteq DOMAIN cycles'
  /\ cycles' = [d \in DOMAIN cycles' |-> cycles'[d]]
  /\ \A d \in DOMAIN cycles : decisions'[d] = decisions[d] /\ Grows(d, T)
  /\ \A d \in DOMAIN cycles' \ DOMAIN cycles :
       \E row \in Unanswered(T) : cycles'[d] = <<row>>

LEMMA AnswerTakes ==
  ASSUME NEW T, NEW s \in Seq(CycleOf(T)), s # <<>>, NEW answer \in Answer
  PROVE  LET new == [s EXCEPT ![Len(s)].answer = <<answer>>]
         IN /\ new \in Seq(CycleOf(T)) /\ new # <<>> /\ Len(new) = Len(s)
            /\ \A g \in 1 .. Len(s) : g # Len(s) => new[g] = s[g]
            /\ new[Len(s)].answer = <<answer>>
            /\ new[Len(s)].opener = s[Len(s)].opener
  <1> DEFINE n == Len(s)
             row == [s[n] EXCEPT !.answer = <<answer>>]
             new == [s EXCEPT ![n] = row]
  <1>1. n \in Nat /\ n >= 1 /\ n \in 1 .. n /\ DOMAIN s = 1 .. n
    OBVIOUS
  <1>2. s \in [1 .. n -> CycleOf(T)]
    BY <1>1
  <1>3. s[n] \in CycleOf(T)
    BY <1>1, <1>2
  <1>4. <<answer>> \in Seq(Answer)
    OBVIOUS
  <1>5. row \in CycleOf(T) /\ row.answer = <<answer>> /\ row.opener = s[n].opener
    BY <1>3, <1>4 DEF CycleOf
  <1> HIDE DEF row
  <1>6. new \in [1 .. n -> CycleOf(T)] /\ new[n] = row /\ \A g \in 1 .. n : g # n => new[g] = s[g]
    BY <1>1, <1>2, <1>5
  <1> HIDE DEF new
  <1>7. new \in Seq(CycleOf(T)) /\ DOMAIN new = 1 .. n
    <2> HIDE DEF n
    <2> QED BY <1>1, <1>6
  <1>8. Len(new) = n /\ new # <<>>
    BY <1>1, <1>7
  <1>9. new = [s EXCEPT ![Len(s)].answer = <<answer>>]
    BY DEF row, new
  <1> QED BY <1>5, <1>6, <1>7, <1>8, <1>9

\* Appending a policy takes no authority away.
LEMMA StillEnables ==
  ASSUME NEW T, Typed(T), Extends(T), NEW r, Enables(policies, r)
  PROVE  Enables(policies', r)
  <1>1. r \in DOMAIN policies /\ policies[r].relay /\ (r > 1 => ~policies[r - 1].relay)
    BY DEF Enables
  <1>2. policies \in Seq(Policies) /\ DOMAIN policies = 1 .. Len(policies) /\ Len(policies) \in Nat
    BY DEF Typed
  <1>3. CASE policies' = policies
    BY <1>3
  <1>4. CASE \E p \in Policies : policies' = Append(policies, p)
    <2>1. PICK p \in Policies : policies' = Append(policies, p)
      BY <1>4
    <2>2. /\ Len(policies') = Len(policies) + 1 /\ policies' \in Seq(Policies)
          /\ \A i \in 1 .. Len(policies) : policies'[i] = policies[i]
      <3> HIDE DEF Policies
      <3> QED BY <1>2, <2>1, AppendProperties
    <2>3. r \in DOMAIN policies' /\ policies'[r] = policies[r]
      BY <1>1, <1>2, <2>2
    <2>4. r > 1 => policies'[r - 1] = policies[r - 1]
      BY <1>1, <1>2, <2>2
    <2> QED BY <1>1, <2>3, <2>4 DEF Enables
  <1> QED BY <1>3, <1>4 DEF Extends

LEMMA StillRecalls ==
  ASSUME NEW T, Typed(T), Extends(T), NEW row, NEW g, NEW question,
         Recalls(policies, row, g, question)
  PROVE  Recalls(policies', row, g, question)
  BY StillEnables DEF Recalls, Earned

\* Whatever extends the policies and the cycles keeps what the answers remember.
LEMMA CyclesKept ==
  ASSUME NEW T, DecInv(T), Extends(T), NEW d \in DOMAIN cycles
  PROVE  /\ cycles'[d] \in Seq(CycleOf(T)) /\ cycles'[d] # <<>>
         /\ \A g \in DOMAIN cycles'[d] : Recalls(policies', cycles'[d][g], g, decisions'[d])
  <1> DEFINE s == cycles[d]
             n == Len(s)
  <1>1. s \in Seq(CycleOf(T)) /\ s # <<>>
    BY DEF DecInv, Typed
  <1>2. n \in Nat /\ n >= 1 /\ DOMAIN s = 1 .. n
    BY <1>1
  <1>3. decisions'[d] = decisions[d]
    BY DEF Extends
  <1>4. \A g \in DOMAIN s : Recalls(policies', s[g], g, decisions'[d])
    BY <1>3, StillRecalls DEF DecInv, Remembers
  <1>5. CASE cycles'[d] = s
    BY <1>1, <1>4, <1>5
  <1>6. CASE \E row \in Unanswered(T) : cycles'[d] = Append(s, row)
    <2>1. PICK row \in Unanswered(T) : cycles'[d] = Append(s, row)
      BY <1>6
    <2>2. row \in CycleOf(T) /\ row.answer = <<>>
      BY DEF Unanswered
    <2>3. /\ cycles'[d] \in Seq(CycleOf(T)) /\ cycles'[d] # <<>> /\ Len(cycles'[d]) = n + 1
          /\ \A g \in 1 .. n : cycles'[d][g] = s[g]
          /\ cycles'[d][n + 1] = row
      BY <1>1, <2>1, <2>2, AppendProperties
    <2>4. DOMAIN cycles'[d] = 1 .. n + 1
      BY <2>3
    <2>5. Recalls(policies', row, n + 1, decisions'[d])
      BY <2>2 DEF Recalls
    <2>6. ASSUME NEW g \in DOMAIN cycles'[d]
          PROVE  Recalls(policies', cycles'[d][g], g, decisions'[d])
      <3>1. g \in 1 .. n \/ g = n + 1
        BY <1>2, <2>4
      <3> QED BY <1>2, <1>4, <2>3, <2>5, <3>1
    <2> QED BY <2>3, <2>6
  <1>7. CASE \E answer : Fits(d, answer) /\ cycles'[d] = AnsweredWith(d, answer)
    <2>1. PICK answer : Fits(d, answer) /\ cycles'[d] = AnsweredWith(d, answer)
      BY <1>7
    <2>2. /\ answer \in Answer /\ answer.read = n
          /\ decisions[d].required = "human" => Earned(policies, answer, s[n].opener)
      BY <2>1 DEF Fits
    <2> DEFINE new == [s EXCEPT ![n].answer = <<answer>>]
    <2>3. cycles'[d] = new
      BY <2>1 DEF AnsweredWith
    <2>4. /\ new \in Seq(CycleOf(T)) /\ new # <<>> /\ Len(new) = n
          /\ \A g \in 1 .. n : g # n => new[g] = s[g]
          /\ new[n].answer = <<answer>>
          /\ new[n].opener = s[n].opener
      BY <1>1, <2>2, AnswerTakes
    <2> HIDE DEF new
    <2>5. decisions[d].required = "human" => Earned(policies', answer, s[n].opener)
      BY <2>2, StillEnables DEF Earned, DecInv
    <2>6. Recalls(policies', new[n], n, decisions'[d])
      BY <1>3, <2>2, <2>4, <2>5 DEF Recalls
    <2>7. DOMAIN new = 1 .. n
      BY <2>4
    <2>8. \A g \in DOMAIN new : Recalls(policies', new[g], g, decisions'[d])
      BY <1>2, <1>4, <2>4, <2>6, <2>7
    <2> QED BY <2>3, <2>4, <2>8
  <1> QED BY <1>5, <1>6, <1>7 DEF Extends, Grows

LEMMA ExtendsKeeps ==
  ASSUME NEW T, DecInv(T), Extends(T)
  PROVE  DecInv(T)'
  <1>1. \A d \in DOMAIN cycles :
          /\ cycles'[d] \in Seq(CycleOf(T)) /\ cycles'[d] # <<>>
          /\ \A g \in DOMAIN cycles'[d] : Recalls(policies', cycles'[d][g], g, decisions'[d])
    BY CyclesKept
  <1>2. ASSUME NEW d \in DOMAIN cycles' \ DOMAIN cycles
        PROVE  /\ cycles'[d] \in Seq(CycleOf(T)) /\ cycles'[d] # <<>>
               /\ \A g \in DOMAIN cycles'[d] : Recalls(policies', cycles'[d][g], g, decisions'[d])
    <2>1. PICK row \in Unanswered(T) : cycles'[d] = <<row>>
      BY <1>2 DEF Extends
    <2>2. row \in CycleOf(T) /\ row.answer = <<>>
      BY DEF Unanswered
    <2>3. \A g : Recalls(policies', row, g, decisions'[d])
      BY <2>2 DEF Recalls
    <2> HIDE DEF Recalls
    <2> QED BY <2>1, <2>2, <2>3
  <1>3. policies' \in Seq(Policies) /\ policies' # <<>>
    <2>1. policies \in Seq(Policies) /\ policies # <<>>
      BY DEF DecInv, Typed
    <2>2. CASE policies' = policies
      BY <2>1, <2>2
    <2>3. CASE \E p \in Policies : policies' = Append(policies, p)
      <3> HIDE DEF Policies
      <3> QED BY <2>1, <2>3, AppendProperties
    <2> QED BY <2>2, <2>3 DEF Extends
  <1>4. Typed(T)'
    <2>1. \A d \in DOMAIN cycles' : cycles'[d] \in Seq(CycleOf(T)) /\ cycles'[d] # <<>>
      BY <1>1, <1>2
    <2>2. cycles' \in [DOMAIN cycles' -> Seq(CycleOf(T))]
      BY <2>1 DEF Extends
    <2>3. /\ revisions' \in [T -> Seq(Contents \cup {C})] /\ now' \in Nat
          /\ DOMAIN decisions' = DOMAIN cycles'
      BY DEF Extends
    <2> QED BY <1>3, <2>1, <2>2, <2>3 DEF Typed
  <1>5. Remembers'
    BY <1>1, <1>2 DEF Remembers
  <1> QED BY <1>4, <1>5 DEF DecInv

---------------------------------------------------------------------------
(* Each operation extends the policies or the cycles.                       *)

LEMMA Editing ==
  ASSUME NEW T, Typed(T), NEW t \in T, NEW c \in Contents \cup {C},
         revisions' = [revisions EXCEPT ![t] = Append(@, c)],
         UNCHANGED <<policies, decisions, cycles, now>>
  PROVE  Extends(T)
  <1>1. revisions[t] \in Seq(Contents \cup {C})
    BY DEF Typed
  <1>2. Append(revisions[t], c) \in Seq(Contents \cup {C})
    BY <1>1
  <1>3. revisions' \in [T -> Seq(Contents \cup {C})]
    <2> HIDE <1>1
    <2> DEFINE new == Append(revisions[t], c)
    <2>1. revisions' = [revisions EXCEPT ![t] = new] /\ new \in Seq(Contents \cup {C})
      BY <1>2
    <2> HIDE DEF new
    <2> QED BY <2>1 DEF Typed
  <1> QED BY <1>3 DEF Extends, Grows, Typed

LEMMA Governing ==
  ASSUME NEW T, Typed(T), NEW p \in Policies, policies' = Append(policies, p),
         UNCHANGED <<revisions, decisions, cycles, now>>
  PROVE  Extends(T)
  BY DEF Extends, Grows, Typed

LEMMA Opening ==
  ASSUME NEW T, Typed(T), NEW d, d \notin DOMAIN decisions, NEW question,
         NEW row \in Unanswered(T),
         decisions' = [e \in DOMAIN decisions \cup {d} |->
                         IF e = d THEN question ELSE decisions[e]],
         cycles' = [e \in DOMAIN cycles \cup {d} |-> IF e = d THEN <<row>> ELSE cycles[e]],
         UNCHANGED <<revisions, policies, now>>
  PROVE  Extends(T)
  <1>1. DOMAIN decisions = DOMAIN cycles
    BY DEF Typed
  <1>2. /\ DOMAIN cycles' = DOMAIN cycles \cup {d} /\ DOMAIN decisions' = DOMAIN cycles'
        /\ cycles' = [e \in DOMAIN cycles' |-> cycles'[e]]
    BY <1>1
  <1>3. \A e \in DOMAIN cycles : decisions'[e] = decisions[e] /\ cycles'[e] = cycles[e]
    BY <1>1
  <1>4. \A e \in DOMAIN cycles' \ DOMAIN cycles : cycles'[e] = <<row>>
    BY <1>2
  <1> QED BY <1>2, <1>3, <1>4 DEF Extends, Grows, Typed

LEMMA Reopening ==
  ASSUME NEW T, Typed(T), NEW d \in DOMAIN decisions, NEW row \in Unanswered(T),
         cycles' = [cycles EXCEPT ![d] = Append(@, row)],
         UNCHANGED <<revisions, policies, decisions, now>>
  PROVE  Extends(T)
  <1>1. DOMAIN decisions = DOMAIN cycles
    BY DEF Typed
  <1>2. DOMAIN cycles' = DOMAIN cycles /\ cycles' = [e \in DOMAIN cycles' |-> cycles'[e]]
    BY DEF Typed
  <1>3. \A e \in DOMAIN cycles :
          cycles'[e] = IF e = d THEN Append(cycles[e], row) ELSE cycles[e]
    BY DEF Typed
  <1> QED BY <1>1, <1>2, <1>3 DEF Extends, Grows, Typed

LEMMA Answering ==
  ASSUME NEW T, Typed(T), NEW d \in DOMAIN decisions, NEW answer, Fits(d, answer),
         cycles' = [cycles EXCEPT ![d] = [@ EXCEPT ![Len(@)].answer = <<answer>>]],
         UNCHANGED <<revisions, policies, decisions, now>>
  PROVE  Extends(T)
  <1>1. DOMAIN decisions = DOMAIN cycles
    BY DEF Typed
  <1> DEFINE new == AnsweredWith(d, answer)
  <1>2. cycles' = [cycles EXCEPT ![d] = new]
    BY DEF AnsweredWith
  <1> HIDE DEF new
  <1>3. DOMAIN cycles' = DOMAIN cycles /\ cycles' = [e \in DOMAIN cycles' |-> cycles'[e]]
    BY <1>2 DEF Typed
  <1>4. \A e \in DOMAIN cycles : cycles'[e] = IF e = d THEN new ELSE cycles[e]
    BY <1>2 DEF Typed
  <1>5. \A e \in DOMAIN cycles : cycles'[e] = cycles[e] \/
          \E a : Fits(e, a) /\ cycles'[e] = AnsweredWith(e, a)
    BY <1>4 DEF new
  <1> QED BY <1>1, <1>3, <1>5 DEF Extends, Grows, Typed

\* Every decision of the batch gets the answer a(d).
LEMMA Sweeping ==
  ASSUME NEW T, Typed(T), NEW due, NEW a,
         \A d \in due \cap DOMAIN decisions : Fits(d, a[d]),
         cycles' = [d \in DOMAIN cycles |->
                      IF d \in due THEN AnsweredWith(d, a[d]) ELSE cycles[d]],
         UNCHANGED <<revisions, policies, decisions, now>>
  PROVE  Extends(T)
  <1>1. DOMAIN decisions = DOMAIN cycles
    BY DEF Typed
  <1>2. DOMAIN cycles' = DOMAIN cycles /\ cycles' = [e \in DOMAIN cycles' |-> cycles'[e]]
    OBVIOUS
  <1>3. \A e \in DOMAIN cycles : cycles'[e] = cycles[e] \/
          \E b : Fits(e, b) /\ cycles'[e] = AnsweredWith(e, b)
    BY <1>1
  <1> QED BY <1>1, <1>2, <1>3 DEF Extends, Grows, Typed

LEMMA Ticking ==
  ASSUME NEW T, Typed(T), now' = now + 1, UNCHANGED <<revisions, policies, decisions, cycles>>
  PROVE  Extends(T)
  BY DEF Extends, Grows, Typed

---------------------------------------------------------------------------
(* What an operation records.                                               *)

\* A cycle pins the current revision of every task of its scope.
LEMMA NewCycleIs ==
  ASSUME NEW T, Typed(T), NEW kind \in Kinds, NEW scope \in SUBSET T \ {{}}, NEW life \in Nat
  PROVE  NewCycle(kind, scope, life) \in Unanswered(T)
  <1> DEFINE pins == [t \in scope |-> Len(revisions[t])]
             ends == IF life = 0 THEN 0 ELSE now + life
  <1>1. pins \in [scope -> Nat]
    BY DEF Typed
  <1>2. pins \in Pins(T)
    BY <1>1 DEF Pins
  <1>3. ends \in Nat /\ now \in Nat /\ Len(policies) \in Nat
    BY DEF Typed
  <1>4. NewCycle(kind, scope, life) =
          [pins |-> pins, policy |-> Len(policies), opener |-> kind, created |-> now,
           expires |-> ends, answer |-> <<>>]
    BY DEF NewCycle
  <1>5. <<>> \in Seq(Answer)
    OBVIOUS
  <1> HIDE DEF pins, ends
  <1> QED BY <1>2, <1>3, <1>4, <1>5 DEF Unanswered, CycleOf

\* The policies that relay now have a first revision of their run.
LEMMA AuthorityIs ==
  ASSUME NEW T, Typed(T), Last(policies).relay
  PROVE  RelayAuthority \in Nat /\ Enables(policies, RelayAuthority)
  <1> DEFINE n == Len(policies)
             S == {r \in 1 .. n : \A i \in r .. n : policies[i].relay}
             Less == OpToRel(<, Nat)
  <1>1. n \in Nat /\ n >= 1 /\ DOMAIN policies = 1 .. n
    BY DEF Typed
  <1>2. n \in S /\ S \subseteq Nat
    BY <1>1 DEF Last
  <1>3. Less = {ss \in Nat \X Nat : ss[1] < ss[2]}
    BY Zenon DEF OpToRel
  <1>4. IsWellFoundedOn(Less, Nat)
    BY NatLessThanWellFounded
  <1> HIDE DEF Less
  <1>5. \E x \in S : \A y \in S : ~(<<y, x>> \in Less)
    <2> HIDE DEF S
    <2> QED BY <1>2, <1>4, WFMin
  <1>6. PICK x \in S : \A y \in S : ~(<<y, x>> \in Less)
    BY <1>5
  <1>7. x \in 1 .. n /\ \A i \in x .. n : policies[i].relay
    OBVIOUS
  <1>8. x > 1 => ~policies[x - 1].relay
    <2> SUFFICES ASSUME x > 1, policies[x - 1].relay PROVE FALSE
      OBVIOUS
    <2>1. x - 1 \in 1 .. n /\ \A i \in (x - 1) .. n : i = x - 1 \/ i \in x .. n
      BY <1>1, <1>7
    <2>2. x - 1 \in S
      BY <1>7, <2>1
    <2>3. <<x - 1, x>> \in Less
      BY <1>2, <1>3, <2>1, <2>2
    <2> QED BY <1>6, <2>2, <2>3
  <1>9. \E r \in DOMAIN policies : /\ \A i \in r .. Len(policies) : policies[i].relay
                                   /\ r > 1 => ~policies[r - 1].relay
    BY <1>1, <1>7, <1>8
  <1>10. /\ RelayAuthority \in DOMAIN policies
         /\ \A i \in RelayAuthority .. Len(policies) : policies[i].relay
         /\ RelayAuthority > 1 => ~policies[RelayAuthority - 1].relay
    BY <1>9, Zenon DEF RelayAuthority
  <1>11. RelayAuthority \in RelayAuthority .. n
    BY <1>1, <1>10
  <1> QED BY <1>1, <1>10, <1>11 DEF Enables

\* Who may answer a decision reserved for a human earns it.
LEMMA AnswerFits ==
  ASSUME NEW T, Typed(T), NEW d \in DOMAIN decisions, NEW by \in Kinds \cup {"relay"},
         NEW disposition \in Dispositions, ActorMayAnswer(d, by)
  PROVE  Fits(d, [disposition |-> disposition, read |-> Generation(d), by |-> by,
                  authority |-> IF by = "relay" THEN RelayAuthority ELSE 0])
  <1> DEFINE authority == IF by = "relay" THEN RelayAuthority ELSE 0
             answer == [disposition |-> disposition, read |-> Generation(d), by |-> by,
                        authority |-> authority]
  <1>1. by = "relay" => RelayAuthority \in Nat /\ Enables(policies, RelayAuthority)
    BY AuthorityIs DEF ActorMayAnswer
  <1>2. authority \in Nat
    BY <1>1
  <1>3. Generation(d) \in Nat
    BY DEF Typed, Generation
  <1> HIDE DEF authority
  <1>4. answer \in Answer
    BY <1>2, <1>3 DEF Answer, Kinds
  <1>5. decisions[d].required = "human" =>
          by = "human" \/ (by = "relay" /\ Enables(policies, authority))
    <2>1. by \in Kinds => authority = 0
      BY DEF Kinds, authority
    <2>2. by = "relay" => authority = RelayAuthority
      BY DEF authority
    <2> QED BY <1>1, <2>2 DEF ActorMayAnswer, Kinds
  <1>6. Fits(d, answer)
    BY <1>4, <1>5 DEF Fits, Earned, Generation
  <1> QED BY <1>6 DEF authority

\* The answer the sweep gives is the timeout's, to a cycle that a human opened if the
\* decision is reserved for one.
TimedOut(d) == [disposition |-> "allow", read |-> Generation(d), by |-> "timeout", authority |-> 0]

LEMMA TimeoutFits ==
  ASSUME NEW T, Typed(T), NEW d \in DOMAIN decisions, Due(d)
  PROVE  Fits(d, TimedOut(d))
  <1>1. Generation(d) \in Nat
    BY DEF Typed, Generation
  <1>2. TimedOut(d) \in Answer
    BY <1>1 DEF TimedOut, Answer
  <1>3. decisions[d].required = "human" => cycles[d][Len(cycles[d])].opener = "human"
    BY DEF Due, Current, Last
  <1> QED BY <1>2, <1>3 DEF Fits, Earned, TimedOut, Generation

---------------------------------------------------------------------------
(* The actions of either part.                                              *)

\* What the two parts share: their helpers, read over the same variables.
LEMMA SameHelpers ==
  /\ Queue!Kinds = Kinds
  /\ \A d : Queue!Generation(d) = Generation(d) /\ Queue!Due(d) = Due(d)
  /\ \A d, by : Queue!ActorMayAnswer(d, by) = ActorMayAnswer(d, by)
  /\ Queue!RelayAuthority = RelayAuthority
  /\ \A kind, scope, life : Queue!NewCycle(kind, scope, life) = NewCycle(kind, scope, life)
  <1>1. Queue!Kinds = Kinds
    BY DEF Queue!Kinds, Kinds
  <1>2. \A d : Queue!Generation(d) = Generation(d)
    BY DEF Queue!Generation, Generation
  <1>3. \A d : Queue!Due(d) = Due(d)
    BY DEF Queue!Due, Due, Queue!Current, Current, Queue!Last, Last
  <1>4. \A d, by : Queue!ActorMayAnswer(d, by) = ActorMayAnswer(d, by)
    BY DEF Queue!ActorMayAnswer, ActorMayAnswer, Queue!Last, Last
  <1>5. Queue!RelayAuthority = RelayAuthority
    BY DEF Queue!RelayAuthority, RelayAuthority
  <1>6. \A kind, scope, life : Queue!NewCycle(kind, scope, life) = NewCycle(kind, scope, life)
    BY DEF Queue!NewCycle, NewCycle
  <1> QED BY <1>1, <1>2, <1>3, <1>4, <1>5, <1>6

LEMMA AnsweredIs ==
  ASSUME NEW T, Typed(T), NEW d \in DOMAIN cycles, NEW answer
  PROVE  /\ Answered(d, answer)[d] = AnsweredWith(d, answer)
         /\ Queue!Answered(d, answer)[d] = AnsweredWith(d, answer)
  BY DEF Answered, Queue!Answered, AnsweredWith, Typed

LEMMA AnswersExtend ==
  ASSUME DecInv(Tasks), Next
  PROVE  Extends(Tasks)
  <1> Typed(Tasks)
    BY DEF DecInv
  <1>1. CASE \E t \in Tasks, c \in Contents : EditTask(t, c)
    BY <1>1, Editing DEF EditTask
  <1>2. CASE \E p \in Policy : UpdatePolicy(p)
    <2>1. Policy \subseteq Policies
      BY DEF Policy, Policies
    <2> QED BY <1>2, <2>1, Governing DEF UpdatePolicy
  <1>3. CASE \E d \in DecisionIds, kind \in Kinds, question \in Question,
               scope \in SUBSET Tasks \ {{}}, life \in Expiries :
               CreateDecision(d, kind, question, scope, life)
    <2>1. PICK d \in DecisionIds, kind \in Kinds, question \in Question,
               scope \in SUBSET Tasks \ {{}}, life \in Expiries :
               CreateDecision(d, kind, question, scope, life)
      BY <1>3
    <2>2. NewCycle(kind, scope, life) \in Unanswered(Tasks)
      BY NewCycleIs
    <2> QED BY <2>1, <2>2, Opening DEF CreateDecision
  <1>4. CASE \E d \in DOMAIN decisions, by \in Kinds \cup {"relay"},
               disposition \in Dispositions, read \in 1 .. MaxGeneration :
               AnswerDecision(d, by, disposition, read)
    <2>1. PICK d \in DOMAIN decisions, by \in Kinds \cup {"relay"},
               disposition \in Dispositions, read \in 1 .. MaxGeneration :
               AnswerDecision(d, by, disposition, read)
      BY <1>4
    <2>2. ActorMayAnswer(d, by) /\ read = Generation(d)
      BY <2>1 DEF AnswerDecision
    <2> DEFINE answer == [disposition |-> disposition, read |-> Generation(d), by |-> by,
                          authority |-> IF by = "relay" THEN RelayAuthority ELSE 0]
    <2>3. Fits(d, answer)
      BY <2>2, AnswerFits
    <2>4. /\ cycles' = [cycles EXCEPT ![d] = [@ EXCEPT ![Len(@)].answer = <<answer>>]]
          /\ UNCHANGED <<revisions, policies, decisions, now>>
      BY <2>1, <2>2 DEF AnswerDecision, Answered
    <2> HIDE DEF answer
    <2> QED BY <2>3, <2>4, Answering
  <1>5. CASE \E d \in DOMAIN decisions, kind \in Kinds, scope \in SUBSET Tasks \ {{}},
               life \in Expiries, read \in 1 .. MaxGeneration :
               ReopenDecision(d, kind, scope, life, read)
    <2>1. PICK d \in DOMAIN decisions, kind \in Kinds, scope \in SUBSET Tasks \ {{}},
               life \in Expiries, read \in 1 .. MaxGeneration :
               ReopenDecision(d, kind, scope, life, read)
      BY <1>5
    <2>2. NewCycle(kind, scope, life) \in Unanswered(Tasks)
      BY NewCycleIs
    <2> QED BY <2>1, <2>2, Reopening DEF ReopenDecision
  <1>6. CASE Sweep
    <2> DEFINE due == {d \in Batch : ScopeCurrent(d)}
               a == [d \in DOMAIN decisions |-> TimedOut(d)]
    <2>1. \A d \in due \cap DOMAIN decisions : Fits(d, a[d])
      BY TimeoutFits DEF Batch
    <2>2. \A d \in DOMAIN cycles : d \in due =>
            Answered(d, [disposition |-> "allow", read |-> Generation(d), by |-> "timeout",
                         authority |-> 0])[d] = AnsweredWith(d, a[d])
      BY AnsweredIs DEF TimedOut, Typed
    <2>3. \A d : d \in due <=> (d \in Batch /\ ScopeCurrent(d))
      OBVIOUS
    <2> HIDE DEF due, a
    <2>4. cycles' = [d \in DOMAIN cycles |->
                       IF d \in due THEN AnsweredWith(d, a[d]) ELSE cycles[d]]
      BY <1>6, <2>2, <2>3 DEF Sweep
    <2>5. UNCHANGED <<revisions, policies, decisions, now>>
      BY <1>6 DEF Sweep
    <2> QED BY <2>1, <2>4, <2>5, Sweeping
  <1>7. CASE Tick
    BY <1>7, Ticking DEF Tick
  <1> QED BY <1>1, <1>2, <1>3, <1>4, <1>5, <1>6, <1>7 DEF Next

LEMMA QueueExtends ==
  ASSUME DecInv({t3}), Queue!Next
  PROVE  Extends({t3})
  <1> DEFINE T == {t3}
  <1> Typed(T)
    BY DEF DecInv
  <1>1. CASE \E t \in T, c \in {C} : Queue!EditTask(t, c)
    BY <1>1, Editing DEF Queue!EditTask
  <1>2. CASE \E p \in Queue!Policy : Queue!UpdatePolicy(p)
    <2>1. Queue!Policy \subseteq Policies
      BY DEF Queue!Policy, Policies
    <2> QED BY <1>2, <2>1, Governing DEF Queue!UpdatePolicy
  <1>3. CASE \E d \in {1, 2, 3}, kind \in Kinds, question \in Queue!Question,
               scope \in SUBSET T \ {{}}, life \in {0, 1} :
               Queue!CreateDecision(d, kind, question, scope, life)
    <2>1. PICK d \in {1, 2, 3}, kind \in Kinds, question \in Queue!Question,
               scope \in SUBSET T \ {{}}, life \in {0, 1} :
               Queue!CreateDecision(d, kind, question, scope, life)
      BY <1>3
    <2>2. NewCycle(kind, scope, life) \in Unanswered(T)
      BY NewCycleIs
    <2> QED BY <2>1, <2>2, SameHelpers, Opening DEF Queue!CreateDecision
  <1>4. CASE \E d \in DOMAIN decisions, by \in Kinds \cup {"relay"},
               disposition \in Dispositions, read \in 1 .. 1 :
               Queue!AnswerDecision(d, by, disposition, read)
    <2>1. PICK d \in DOMAIN decisions, by \in Kinds \cup {"relay"},
               disposition \in Dispositions, read \in 1 .. 1 :
               Queue!AnswerDecision(d, by, disposition, read)
      BY <1>4
    <2>2. ActorMayAnswer(d, by) /\ read = Generation(d)
      BY <2>1, SameHelpers DEF Queue!AnswerDecision
    <2> DEFINE answer == [disposition |-> disposition, read |-> Generation(d), by |-> by,
                          authority |-> IF by = "relay" THEN RelayAuthority ELSE 0]
    <2>3. Fits(d, answer)
      BY <2>2, AnswerFits
    <2>4. /\ cycles' = [cycles EXCEPT ![d] = [@ EXCEPT ![Len(@)].answer = <<answer>>]]
          /\ UNCHANGED <<revisions, policies, decisions, now>>
      BY <2>1, <2>2, SameHelpers DEF Queue!AnswerDecision, Queue!Answered
    <2> HIDE DEF answer
    <2> QED BY <2>3, <2>4, Answering
  <1>5. CASE \E d \in DOMAIN decisions, kind \in Kinds, scope \in SUBSET T \ {{}},
               life \in {0, 1}, read \in 1 .. 1 :
               Queue!ReopenDecision(d, kind, scope, life, read)
    <2>1. PICK d \in DOMAIN decisions, kind \in Kinds, scope \in SUBSET T \ {{}},
               life \in {0, 1}, read \in 1 .. 1 :
               Queue!ReopenDecision(d, kind, scope, life, read)
      BY <1>5
    <2>2. NewCycle(kind, scope, life) \in Unanswered(T)
      BY NewCycleIs
    <2> QED BY <2>1, <2>2, SameHelpers, Reopening DEF Queue!ReopenDecision
  <1>6. CASE Queue!Sweep
    <2> DEFINE due == {d \in Queue!Batch : Queue!ScopeCurrent(d)}
               a == [d \in DOMAIN decisions |-> TimedOut(d)]
    <2>1. \A d \in due \cap DOMAIN decisions : Fits(d, a[d])
      BY TimeoutFits, SameHelpers DEF Queue!Batch
    <2>2. \A d \in DOMAIN cycles : d \in due =>
            Queue!Answered(d, [disposition |-> "allow", read |-> Queue!Generation(d),
                               by |-> "timeout", authority |-> 0])[d] = AnsweredWith(d, a[d])
      BY AnsweredIs, SameHelpers DEF TimedOut, Typed
    <2>3. \A d : d \in due <=> (d \in Queue!Batch /\ Queue!ScopeCurrent(d))
      OBVIOUS
    <2> HIDE DEF due, a
    <2>4. cycles' = [d \in DOMAIN cycles |->
                       IF d \in due THEN AnsweredWith(d, a[d]) ELSE cycles[d]]
      BY <1>6, <2>2, <2>3 DEF Queue!Sweep
    <2>5. UNCHANGED <<revisions, policies, decisions, now>>
      BY <1>6 DEF Queue!Sweep
    <2> QED BY <2>1, <2>4, <2>5, Sweeping
  <1>7. CASE Queue!Tick
    BY <1>7, Ticking DEF Queue!Tick
  <1> QED BY <1>1, <1>2, <1>3, <1>4, <1>5, <1>6, <1>7, SameHelpers DEF Queue!Next

---------------------------------------------------------------------------
(* What the answers let happen.                                             *)

PartsInv == DecInv(IF part = "answers" THEN Tasks ELSE {t3})

LEMMA PartsStart ==
  ASSUME PartsInit
  PROVE  PartsInv
  <1> DEFINE T == IF part = "answers" THEN Tasks ELSE {t3}
  <1>1. /\ \E c \in Contents \cup {C} : revisions = [t \in T |-> <<c>>]
        /\ \E r \in Rules \cup {R} : policies = <<[rules |-> r, relay |-> FALSE]>>
        /\ decisions = [d \in {} |-> TRUE] /\ cycles = [d \in {} |-> <<>>] /\ now = 0
    BY DEF PartsInit, Init, Queue!Init
  <1> HIDE DEF T
  <1>2. revisions \in [T -> Seq(Contents \cup {C})]
    BY <1>1
  <1>3. policies \in Seq(Policies) /\ policies # <<>>
    BY <1>1 DEF Policies
  <1>4. DOMAIN decisions = {} /\ DOMAIN cycles = {} /\ cycles \in [DOMAIN cycles -> Seq(CycleOf(T))]
    BY <1>1
  <1> QED BY <1>1, <1>2, <1>3, <1>4 DEF PartsInv, DecInv, Typed, Remembers, T

LEMMA PartsStep ==
  ASSUME PartsInv, [PartsNext]_<<vars, part>>
  PROVE  PartsInv'
  <1>1. CASE part = "answers" /\ Next /\ UNCHANGED part
    BY <1>1, AnswersExtend, ExtendsKeeps DEF PartsInv
  <1>2. CASE part = "queue" /\ Queue!Next /\ UNCHANGED part
    BY <1>2, QueueExtends, ExtendsKeeps DEF PartsInv
  <1>3. CASE UNCHANGED <<vars, part>>
    BY <1>3 DEF vars, PartsInv, DecInv, Typed, Remembers
  <1> QED BY <1>1, <1>2, <1>3 DEF PartsNext

\* The current cycle of a decision, and an allow on it, were read off its generation.
LEMMA AllowIsOwn ==
  ASSUME NEW T, DecInv(T), NEW d \in DOMAIN decisions, Allowed(d)
  PROVE  cycles[d][Current(d).answer[1].read] = Current(d)
  <1>1. d \in DOMAIN cycles /\ cycles[d] \in Seq(CycleOf(T)) /\ cycles[d] # <<>>
    BY DEF DecInv, Typed
  <1>2. Len(cycles[d]) \in DOMAIN cycles[d] /\ cycles[d][Len(cycles[d])] \in CycleOf(T)
    BY <1>1
  <1>3. Current(d).answer \in Seq(Answer)
    BY <1>2 DEF Current, Last, CycleOf
  <1>4. 1 \in DOMAIN Current(d).answer
    BY <1>3 DEF Allowed
  <1>5. Current(d).answer[1].read = Len(cycles[d])
    BY <1>1, <1>2, <1>4 DEF DecInv, Remembers, Recalls, Current, Last
  <1> QED BY <1>5 DEF Current, Last

LEMMA Answers ==
  ASSUME DecInv(Tasks)
  PROVE  DecisionsSound
  <1>1. AllowJudgedCurrentWork
    BY AllowIsOwn DEF AllowJudgedCurrentWork, Blocks, ScopeChanged, Scope
  <1>2. StatusNeverAhead
    BY DEF StatusNeverAhead, DecisionsReady, ScopeCurrent, Blocks, ScopeChanged, Last
  <1>3. HumansDecide
    BY DEF HumansDecide, DecInv, Typed, Remembers, Recalls, Earned, Enables
  <1> QED BY <1>1, <1>2, <1>3 DEF DecisionsSound

LEMMA QueueAnswers ==
  ASSUME DecInv({t3})
  PROVE  Queue!DecisionsSound
  <1>1. Queue!AllowJudgedCurrentWork
    BY AllowIsOwn DEF Queue!AllowJudgedCurrentWork, Queue!Blocks, Queue!ScopeChanged, Queue!Scope,
       Queue!Allowed, Queue!Current, Allowed, Current, Queue!Last, Last
  <1>2. Queue!StatusNeverAhead
    BY DEF Queue!StatusNeverAhead, Queue!DecisionsReady, Queue!ScopeCurrent, Queue!Blocks,
       Queue!ScopeChanged, Queue!Last
  <1>3. Queue!HumansDecide
    BY DEF Queue!HumansDecide, DecInv, Typed, Remembers, Recalls, Earned, Enables
  <1> QED BY <1>1, <1>2, <1>3 DEF Queue!DecisionsSound

\* An allow that frees a task was given about its whole scope as it stands, a task
\* reported free of decisions is refused for none, and an answer to a decision that
\* requires a human is a human's, is relayed under a policy whose enabling revision it
\* names, or is the timeout of a cycle a human opened (knowledge.rs, attention.rs).
THEOREM AnswersAreSound == PartsSpec => []AnswersSound
  <1>1. PartsInv => AnswersSound
    BY Answers, QueueAnswers DEF PartsInv, AnswersSound
  <1> QED BY PartsStart, PartsStep, <1>1, PTL DEF PartsSpec
=============================================================================
