---------------------------- MODULE ServiceProofs ----------------------------
(***************************************************************************)
(* The service's credentials, the attribution of failed checks, the        *)
(* artifact store, the accounts and the plan, for any number of principals,*)
(* sessions, checks, reruns, crashes, uploads, backups, restores, sign-ins,*)
(* mails, tasks, weeks and previews.                                       *)
(*                                                                         *)
(* Credentials (CredInv): credentials are issued in order, each to a       *)
(* principal; an open session has an issued credential that lives; and a   *)
(* subagent's name has the parent that its principal's name has.           *)
(*                                                                         *)
(* Attribution (AttrInv): a job's result is bound by its cause and by what *)
(* had changed outside when its attempt began; the attempts the integrator *)
(* has recorded are all but one that it has just requested; and a check it *)
(* blames the author for passed on the target in an attempt that began     *)
(* after the failure it explains.                                          *)
(*                                                                         *)
(* Artifacts (StoreInv): a handler that may remove or publish content holds*)
(* the artifact's lock; cleanup has seen that what it removes will stay    *)
(* unavailable; the quota is held at the time of the last mutation, which  *)
(* every image carries along; and a backup that holds the guard finds every*)
(* content its image lists.                                                *)
(*                                                                         *)
(* Accounts (AccountsInv): an account that was made has a password, and the*)
(* hash a request works out off the lock is one that was made; some        *)
(* administrator is enabled; what the creation key has answered is the     *)
(* password it made; a sign-in that lives rests on its account's present   *)
(* password; and only the newest link of a kind can work, the one that     *)
(* proved the address an account has.                                      *)
(*                                                                         *)
(* Plan (PlanInv): the admissions of a week are within the budget; a held  *)
(* task is in the queue or canceled; prerequisites and children make no    *)
(* circle, which closed sets of tasks show; work on an objective began with*)
(* its required children done; and the task of a checklist item is as the  *)
(* import left it exactly while the import was the last to write it.       *)
(***************************************************************************)
EXTENDS MCService, FiniteSetTheorems, SequenceTheorems, WellFoundedInduction, TLAPS

---------------------------------------------------------------------------
(* Numbers.                                                                 *)

\* A set of naturals that is not empty has a least element, and a bounded one a
\* greatest.
LEMMA LeastNatural ==
  ASSUME NEW T \in SUBSET Nat, T # {}
  PROVE  \E x \in T : \A y \in T : x <= y
  <1> DEFINE R == OpToRel(<, Nat)
  <1>1. IsWellFoundedOn(R, Nat)
    BY NatLessThanWellFounded
  <1>2. R = {ss \in Nat \X Nat : ss[1] < ss[2]}
    BY Zenon DEF OpToRel
  <1> HIDE DEF R
  <1>3. \E x \in T : \A y \in T : ~ (<<y, x>> \in R)
    BY <1>1, WFMin
  <1>4. PICK x \in T : \A y \in T : ~ (<<y, x>> \in R)
    BY <1>3
  <1>5. ASSUME NEW y \in T PROVE ~(y < x)
    BY <1>2, <1>4
  <1>6. \A y \in T : x <= y
    BY <1>5
  <1> QED BY <1>6

LEMMA GreatestNatural ==
  ASSUME NEW n \in Nat, NEW T \in SUBSET (1 .. n), T # {}
  PROVE  \E x \in T : \A y \in T : y <= x
  <1> DEFINE U == {n - x : x \in T}
  <1>0. \A x \in T : x \in Int /\ n - x \in Nat
    OBVIOUS
  <1>1. U \in SUBSET Nat /\ U # {}
    BY <1>0
  <1>2. PICK u \in U : \A v \in U : u <= v
    BY <1>1, LeastNatural
  <1>3. PICK x \in T : u = n - x
    BY <1>2
  <1>4. \A y \in T : n - x <= n - y
    BY <1>2, <1>3
  <1> QED BY <1>0, <1>4

---------------------------------------------------------------------------
(* Accounts: their rows, sign-ins, links and the work done off the lock.    *)

Accts == Others \cup {Root}

AccountRow == [made : BOOLEAN, role : {"admin", "operator"}, enabled : BOOLEAN, hash : Nat,
               rev : Nat, email : Addresses \cup {NoOne}, verified : BOOLEAN]

BrowserRow == [who : Accts, hash : Nat, by : Nat, live : BOOLEAN]

LinkRow == [kind : {"verify", "reset"}, who : Accts, email : Addresses \cup {NoOne},
            state : {"usable", "void", "used"}]

ChallengeRow == [purpose : {"register", "sign_in"}, who : Accts \cup {NoOne}, open : BOOLEAN]

LoginWork == [op : {"login"}, who : Accts, hash : Nat]

CreateWork == [op : {"create"}, who : Others, via : Nat, secret : Secrets, seen : BOOLEAN,
               hash : Nat, matches : BOOLEAN]

ChangeWork == [op : {"change"}, who : Accts, via : Nat, old : Nat, hash : Nat, rev : Nat]

ResetWork == [op : {"reset"}, link : Nat, hash : Nat]

AccountTypes ==
  /\ account \in [Accts -> AccountRow]
  /\ secretOf \in Seq(Secrets)
  /\ receipt \in {NoOne} \cup [who : Accts, hash : Nat]

\* An enabled account was made, and one that was made has a password.
AccountsMade ==
  \A a \in Accts : /\ account[a].enabled => account[a].made
                   /\ account[a].made => account[a].hash \in DOMAIN secretOf

\* What a request carries over the time it spends outside the lock.
Carries(w) ==
  /\ w \in LoginWork \cup CreateWork \cup ChangeWork \cup ResetWork
  /\ w.op \in {"create", "change", "reset"} => w.hash \in DOMAIN secretOf
  /\ w.op = "reset" => w.link \in DOMAIN links
  /\ w.op = "change" => account[w.who].made
  /\ w.op = "create" =>
       /\ ~w.seen \/ w.matches => secretOf[w.hash] = w.secret
       /\ w.seen => receipt # NoOne

WorkTells == \A w \in work : Carries(w)

SomeAdmin == \E a \in Accts : account[a].enabled /\ account[a].role = "admin"

\* The creation key answers for the password of the account it made.
OneAnswer ==
  /\ receipt = NoOne => answered = {}
  /\ receipt # NoOne => /\ receipt.hash \in DOMAIN secretOf
                        /\ account[receipt.who].made
                        /\ answered \subseteq {secretOf[receipt.hash]}

AdministrationInv ==
  AccountTypes /\ AccountsMade /\ WorkTells /\ SomeAdmin /\ OneAnswer

Live(a) == {i \in DOMAIN browser : browser[i].who = a /\ browser[i].live}

\* A live session rests on the account as it is, and one made under a challenge on
\* one that can be used no more.
SignInsTell ==
  /\ browser \in Seq(BrowserRow) /\ challenges \in Seq(ChallengeRow)
  /\ \A i \in DOMAIN browser : browser[i].live =>
       /\ account[browser[i].who].enabled
       /\ browser[i].hash = account[browser[i].who].hash
  /\ \A i \in DOMAIN browser : browser[i].by # 0 =>
       browser[i].by \in DOMAIN challenges /\ ~challenges[browser[i].by].open
  /\ \A i, j \in DOMAIN browser : browser[i].by = browser[j].by /\ i # j => browser[i].by = 0
  /\ \A a \in Accts : Cardinality(Live(a)) <= MaxLive

\* Only the newest link of a kind works for an account, and a verified address is the
\* one the newest verification link was used from.
Newest(l) == \A k \in DOMAIN links :
  links[k].who = links[l].who /\ links[k].kind = links[l].kind => k <= l

LinksTell ==
  /\ links \in Seq(LinkRow)
  /\ \A l \in DOMAIN links : links[l].state = "usable" => Newest(l)
  /\ \A a \in Accts : account[a].verified =>
       \E l \in DOMAIN links : /\ links[l].who = a /\ links[l].kind = "verify"
                               /\ links[l].state = "used" /\ links[l].email = account[a].email
                               /\ Newest(l)

AccountsInv == AdministrationInv /\ SignInsTell /\ LinksTell

---------------------------------------------------------------------------
(* Sign-ins.                                                                *)

LEMMA AccountSets ==
  /\ People!People = Accts
  /\ \A S : People!Cardinality(S) = Cardinality(S)
  /\ \A a : People!LiveOf(a) = Live(a)
  BY DEF People!People, Accts, People!Cardinality, Cardinality, People!LiveOf, People!Sessions, Live

LEMMA LiveFinite ==
  ASSUME browser \in Seq(BrowserRow), NEW S \in SUBSET DOMAIN browser
  PROVE  IsFiniteSet(S)
  <1>1. DOMAIN browser = 1 .. Len(browser) /\ Len(browser) \in Nat
    OBVIOUS
  <1>2. IsFiniteSet(1 .. Len(browser))
    BY <1>1, FS_Interval
  <1> QED BY <1>1, <1>2, FS_Subset

\* The newest m elements of a finite set of numbers are at most m.
LEMMA NewestFew ==
  ASSUME NEW L \in SUBSET Nat, IsFiniteSet(L), NEW m \in Nat
  PROVE  LET K == {i \in L : Cardinality({j \in L : j > i}) < m}
         IN IsFiniteSet(K) /\ Cardinality(K) <= m
  <1> DEFINE K == {i \in L : Cardinality({j \in L : j > i}) < m}
  <1>1. IsFiniteSet(K) /\ K \subseteq L
    BY FS_Subset
  <1>2. ASSUME K = {} PROVE Cardinality(K) <= m
    <2> HIDE DEF K
    <2>1. Cardinality(K) = 0
      BY <1>2, FS_EmptySet
    <2> QED BY <1>1, <2>1
  <1>3. ASSUME K # {} PROVE Cardinality(K) <= m
    <2>1. PICK x \in K : \A y \in K : x <= y
      <3>1. K \in SUBSET Nat
        BY <1>1
      <3> HIDE DEF K
      <3> QED BY <1>3, <3>1, LeastNatural
    <2> DEFINE above == {j \in L : j > x}
    <2>2. Cardinality(above) < m
      OBVIOUS
    <2>9. x \in K
      BY <2>1
    <2>3. K \ {x} \subseteq above
      <3>1. \A y \in K : y \in L /\ y \in Nat
        BY <1>1
      <3>2. x \in Nat
        BY <3>1
      <3> HIDE DEF K
      <3> QED BY <2>1, <3>1, <3>2
    <2> HIDE DEF K
    <2>4. IsFiniteSet(above) /\ Cardinality(above) \in Nat
      <3>1. above \in SUBSET L
        OBVIOUS
      <3> HIDE DEF above
      <3> QED BY <3>1, FS_Subset, FS_CardinalityType
    <2> HIDE DEF above
    <2>5. IsFiniteSet(K \ {x}) /\ Cardinality(K \ {x}) <= Cardinality(above)
      BY <2>3, <2>4, FS_Subset
    <2>6. Cardinality(K \ {x}) = Cardinality(K) - 1 /\ Cardinality(K) \in Nat
      BY <1>1, <2>9, FS_RemoveElement, FS_CardinalityType
    <2>7. Cardinality(K) - 1 <= Cardinality(above) /\ Cardinality(above) < m
      BY <2>2, <2>5, <2>6
    <2>8. Cardinality(K) <= m
      BY <2>4, <2>6, <2>7
    <2> QED BY <1>1, <2>8
  <1> QED BY <1>1, <1>2, <1>3

\* Signing sessions off keeps what the others rest on, when an account whose password
\* or access changes loses all of its own.
LEMMA SignOff ==
  ASSUME account \in [Accts -> AccountRow], SignInsTell, NEW S,
         browser' = [i \in DOMAIN browser |->
           IF i \in S THEN [browser[i] EXCEPT !.live = FALSE] ELSE browser[i]],
         challenges' \in Seq(ChallengeRow), DOMAIN challenges \subseteq DOMAIN challenges',
         \A c \in DOMAIN challenges : ~challenges[c].open => ~challenges'[c].open,
         \A a \in Accts :
           \/ account'[a].enabled = account[a].enabled /\ account'[a].hash = account[a].hash
           \/ \A i \in DOMAIN browser : browser[i].who = a => i \in S
  PROVE  SignInsTell'
  <1>1. /\ browser \in Seq(BrowserRow) /\ DOMAIN browser = 1 .. Len(browser) /\ Len(browser) \in Nat
        /\ \A i \in DOMAIN browser : browser[i] \in BrowserRow
    BY DEF SignInsTell
  <1>2. DOMAIN browser' = DOMAIN browser
    OBVIOUS
  <1>3. \A i \in DOMAIN browser :
          /\ browser'[i] \in BrowserRow /\ browser'[i].who = browser[i].who
          /\ browser'[i].hash = browser[i].hash /\ browser'[i].by = browser[i].by
          /\ browser'[i].live => browser[i].live /\ i \notin S
    BY <1>1 DEF BrowserRow
  <1>4. browser' \in Seq(BrowserRow)
    BY <1>1, <1>2, <1>3
  <1>5. \A i \in DOMAIN browser : browser'[i].live =>
          /\ account'[browser[i].who].enabled
          /\ browser[i].hash = account'[browser[i].who].hash
    <2> SUFFICES ASSUME NEW i \in DOMAIN browser, browser'[i].live
                 PROVE  /\ account'[browser[i].who].enabled
                        /\ browser[i].hash = account'[browser[i].who].hash
      OBVIOUS
    <2>1. browser[i].live /\ i \notin S /\ browser[i].who \in Accts
      BY <1>1, <1>3 DEF BrowserRow
    <2>2. account[browser[i].who].enabled /\ browser[i].hash = account[browser[i].who].hash
      BY <2>1 DEF SignInsTell
    <2> QED BY <2>1, <2>2
  <1>6. ASSUME NEW a \in Accts PROVE Cardinality(Live(a)') <= MaxLive
    <2>1. Live(a)' \subseteq Live(a)
      BY <1>2, <1>3 DEF Live
    <2>2. IsFiniteSet(Live(a))
      <3>1. Live(a) \in SUBSET DOMAIN browser
        BY DEF Live
      <3> QED BY <1>1, <3>1, LiveFinite
    <2>3. /\ Cardinality(Live(a)') <= Cardinality(Live(a)) /\ Cardinality(Live(a)) \in Nat
          /\ Cardinality(Live(a)') \in Nat
      BY <2>1, <2>2, FS_Subset, FS_CardinalityType
    <2>4. Cardinality(Live(a)) <= MaxLive
      BY DEF SignInsTell
    <2> QED BY <2>3, <2>4, AccountsAssumption
  <1>7. \A i \in DOMAIN browser : browser[i].by # 0 =>
          browser[i].by \in DOMAIN challenges' /\ ~challenges'[browser[i].by].open
    BY DEF SignInsTell
  <1>8. \A i, j \in DOMAIN browser : browser[i].by = browser[j].by /\ i # j => browser[i].by = 0
    BY DEF SignInsTell
  <1> QED BY <1>2, <1>3, <1>4, <1>5, <1>6, <1>7, <1>8 DEF SignInsTell

\* A new session ends what is over the limit, and rests on the account as it is.
LEMMA SignIn ==
  ASSUME account \in [Accts -> AccountRow], SignInsTell, NEW a \in Accts, NEW h, NEW by,
         account[a].enabled, h = account[a].hash, account' = account,
         People!IssueSession(a, h, by),
         challenges' \in Seq(ChallengeRow), DOMAIN challenges \subseteq DOMAIN challenges',
         \A c \in DOMAIN challenges : ~challenges[c].open => ~challenges'[c].open,
         by = 0 \/ (by \in DOMAIN challenges /\ challenges[by].open /\ ~challenges'[by].open)
  PROVE  SignInsTell'
  <1> DEFINE n == Len(browser) + 1
             off == Live(a) \ People!Kept(a)
             old == [i \in DOMAIN browser |->
               IF i \in off THEN [browser[i] EXCEPT !.live = FALSE] ELSE browser[i]]
             entry == [who |-> a, hash |-> h, by |-> by, live |-> TRUE]
  <1>1. /\ browser \in Seq(BrowserRow) /\ DOMAIN browser = 1 .. Len(browser) /\ Len(browser) \in Nat
        /\ \A i \in DOMAIN browser : browser[i] \in BrowserRow
    BY DEF SignInsTell
  <1>2. browser' = Append(old, entry)
    BY AccountSets DEF People!IssueSession, People!Sessions
  <1>3. entry \in BrowserRow
    <2>1. by \in Nat /\ h \in Nat
      BY DEF SignInsTell, AccountRow
    <2> QED BY <2>1 DEF BrowserRow
  <1>4. \A i \in DOMAIN browser :
          /\ old[i] \in BrowserRow /\ old[i].who = browser[i].who
          /\ old[i].hash = browser[i].hash /\ old[i].by = browser[i].by
          /\ old[i].live => browser[i].live /\ i \notin off
    BY <1>1 DEF BrowserRow
  <1>5. old \in Seq(BrowserRow) /\ Len(old) = Len(browser)
    <2>1. old \in [1 .. Len(browser) -> BrowserRow]
      BY <1>1, <1>4
    <2> HIDE DEF old
    <2> QED BY <1>1, <2>1
  <1> HIDE DEF old
  <1>6. /\ browser' \in Seq(BrowserRow) /\ Len(browser') = n /\ DOMAIN browser' = 1 .. n
        /\ \A i \in 1 .. Len(browser) : browser'[i] = old[i]
        /\ browser'[n] = entry
    <2> HIDE DEF entry
    <2> QED BY <1>1, <1>2, <1>3, <1>5, AppendProperties
  <1>7. \A i \in DOMAIN browser' : i \in DOMAIN browser \/ i = n
    BY <1>1, <1>6
  <1>8. \A i \in DOMAIN browser' : browser'[i].live =>
          /\ account'[browser'[i].who].enabled
          /\ browser'[i].hash = account'[browser'[i].who].hash
    <2>1. \A i \in DOMAIN browser : browser'[i].live =>
            /\ account[browser'[i].who].enabled
            /\ browser'[i].hash = account[browser'[i].who].hash
      <3>1. \A i \in DOMAIN browser : browser[i].live =>
              account[browser[i].who].enabled /\ browser[i].hash = account[browser[i].who].hash
        BY DEF SignInsTell
      <3>2. \A i \in DOMAIN browser : browser'[i] = old[i]
        BY <1>1, <1>6
      <3> QED BY <1>4, <3>1, <3>2
    <2>2. browser'[n].who = a /\ browser'[n].hash = account[a].hash
      BY <1>6
    <2> HIDE DEF n, entry
    <2> QED BY <1>7, <2>1, <2>2
  <1>9. \A i \in DOMAIN browser : browser[i].by # 0 =>
          browser[i].by \in DOMAIN challenges /\ ~challenges[browser[i].by].open
    BY DEF SignInsTell
  <1>10. \A i \in DOMAIN browser' : browser'[i].by # 0 =>
           browser'[i].by \in DOMAIN challenges' /\ ~challenges'[browser'[i].by].open
    BY <1>1, <1>4, <1>6, <1>7, <1>9
  <1>11. \A i, j \in DOMAIN browser' :
           browser'[i].by = browser'[j].by /\ i # j => browser'[i].by = 0
    <2>1. \A i, j \in DOMAIN browser : browser[i].by = browser[j].by /\ i # j => browser[i].by = 0
      BY DEF SignInsTell
    <2>2. \A i \in DOMAIN browser : browser'[i].by = browser[i].by
      BY <1>1, <1>4, <1>6
    <2>3. browser'[n].by = by
      BY <1>6
    <2>4. \A i \in DOMAIN browser : browser[i].by = by => by = 0
      BY <1>9
    <2> QED BY <1>7, <2>1, <2>2, <2>3, <2>4
  <1>12. ASSUME NEW b \in Accts PROVE Cardinality(Live(b)') <= MaxLive
    <2>1. Live(b) \in SUBSET DOMAIN browser /\ Live(b) \in SUBSET Nat
      BY <1>1 DEF Live
    <2>2. IsFiniteSet(Live(b)) /\ Cardinality(Live(b)) \in Nat
      BY <1>1, <2>1, LiveFinite, FS_CardinalityType
    <2>3. CASE b # a
      <3>1. Live(b)' \subseteq Live(b)
        BY <1>1, <1>4, <1>6, <1>7, <2>3 DEF Live
      <3>2. Cardinality(Live(b)') <= Cardinality(Live(b)) /\ Cardinality(Live(b)') \in Nat
        BY <2>2, <3>1, FS_Subset, FS_CardinalityType
      <3>3. Cardinality(Live(b)) <= MaxLive
        BY DEF SignInsTell
      <3> QED BY <2>2, <3>2, <3>3, AccountsAssumption
    <2>4. CASE b = a
      <3> DEFINE kept == {i \in Live(a) : Cardinality({j \in Live(a) : j > i}) < MaxLive - 1}
      <3>1. People!Kept(a) = kept
        BY AccountSets DEF People!Kept
      <3>2. IsFiniteSet(kept) /\ Cardinality(kept) <= MaxLive - 1
        <4> DEFINE m == MaxLive - 1
                   L == Live(a)
        <4>1. m \in Nat /\ L \in SUBSET Nat /\ IsFiniteSet(L)
          BY <2>1, <2>2, <2>4, AccountsAssumption
        <4> HIDE DEF m, L
        <4>2. LET K == {i \in L : Cardinality({j \in L : j > i}) < m}
              IN IsFiniteSet(K) /\ Cardinality(K) <= m
          BY <4>1, NewestFew
        <4> QED BY <4>2 DEF m, L
      <3> HIDE DEF kept
      <3>3. Live(a)' \subseteq kept \cup {n}
        BY <1>1, <1>4, <1>6, <1>7, <3>1 DEF Live
      <3>4. /\ IsFiniteSet(kept \cup {n}) /\ Cardinality(kept \cup {n}) <= Cardinality(kept) + 1
            /\ Cardinality(kept) \in Nat /\ Cardinality(kept \cup {n}) \in Nat
        <4> HIDE DEF n
        <4>1. Cardinality(kept) \in Nat
          BY <3>2, FS_CardinalityType
        <4>2. IsFiniteSet(kept \cup {n}) /\ Cardinality(kept \cup {n}) \in
                {Cardinality(kept), Cardinality(kept) + 1}
          BY <3>2, FS_AddElement
        <4> QED BY <4>1, <4>2
      <3>5. Cardinality(Live(a)') <= Cardinality(kept \cup {n}) /\ Cardinality(Live(a)') \in Nat
        <4> HIDE DEF n
        <4> QED BY <3>3, <3>4, FS_Subset, FS_CardinalityType
      <3> QED BY <2>4, <3>2, <3>4, <3>5, AccountsAssumption
    <2> QED BY <2>3, <2>4
  <1> QED BY <1>6, <1>8, <1>10, <1>11, <1>12 DEF SignInsTell

---------------------------------------------------------------------------
(* Mailed links.                                                            *)

LEMMA ToSeq ==
  ASSUME NEW S, IsFiniteSet(S)
  PROVE  LET q == People!SetToSeq(S)
         IN q \in Seq(S) /\ \A i, j \in DOMAIN q : q[i] = q[j] => i = j
  <1> DEFINE n == Cardinality(S)
  <1>1. n \in Nat /\ ExistsBijection(1 .. n, S)
    BY FS_CardinalityType
  <1>2. PICK f : f \in Bijection(1 .. n, S)
    BY <1>1 DEF ExistsBijection
  <1>3. f \in [1 .. n -> S] /\ \A i, j \in DOMAIN f : f[i] = f[j] => i = j
    BY <1>2 DEF Bijection, Injection, IsInjective
  <1>4. \E g \in [1 .. n -> S] : People!IsInjective(g)
    BY <1>3 DEF People!IsInjective
  <1>5. People!SetToSeq(S) = CHOOSE g \in [1 .. n -> S] : People!IsInjective(g)
    BY AccountSets DEF People!SetToSeq
  <1> HIDE DEF n
  <1>6. /\ People!SetToSeq(S) \in [1 .. n -> S]
        /\ People!IsInjective(People!SetToSeq(S))
    BY <1>4, <1>5, Zenon
  <1> QED BY <1>1, <1>6 DEF People!IsInjective

\* The links that are used or void stay so, and an address is verified by the newest.
LEMMA LinksMove ==
  ASSUME LinksTell,
         links' = [k \in DOMAIN links |-> links'[k]],
         \A k \in DOMAIN links :
           /\ links'[k] \in LinkRow
           /\ links'[k].who = links[k].who /\ links'[k].kind = links[k].kind
           /\ links'[k].email = links[k].email
           /\ links'[k].state = "usable" => links[k].state = "usable"
           /\ links[k].state = "used" => links'[k].state = "used",
         \A a \in Accts : account'[a].verified =>
           \/ account[a].verified /\ account'[a].email = account[a].email
           \/ \E l \in DOMAIN links :
                /\ links[l].who = a /\ links[l].kind = "verify" /\ Newest(l)
                /\ links'[l].state = "used" /\ links[l].email = account'[a].email
  PROVE  LinksTell'
  <1>1. links \in Seq(LinkRow) /\ DOMAIN links = 1 .. Len(links) /\ Len(links) \in Nat
    BY DEF LinksTell
  <1>2. DOMAIN links' = DOMAIN links
    OBVIOUS
  <1>3. links' \in Seq(LinkRow)
    BY <1>1, <1>2
  <1>4. \A l \in DOMAIN links : Newest(l) => Newest(l)'
    BY <1>2 DEF Newest
  <1>5. \A l \in DOMAIN links : links'[l].state = "usable" => Newest(l)'
    BY <1>4 DEF LinksTell
  <1>6. ASSUME NEW a \in Accts, account'[a].verified
        PROVE  \E l \in DOMAIN links' :
                 /\ links'[l].who = a /\ links'[l].kind = "verify"
                 /\ links'[l].state = "used" /\ links'[l].email = account'[a].email
                 /\ Newest(l)'
    <2>1. PICK l \in DOMAIN links :
            /\ links[l].who = a /\ links[l].kind = "verify" /\ Newest(l)
            /\ links'[l].state = "used" /\ links[l].email = account'[a].email
      BY <1>6 DEF LinksTell
    <2> QED BY <1>2, <1>4, <2>1
  <1> QED BY <1>2, <1>3, <1>5, <1>6 DEF LinksTell

\* New links void the unused ones of their kind.
LEMMA MailKeeps ==
  ASSUME LinksTell, IsFiniteSet(Accts), NEW kind \in {"verify", "reset"}, NEW as \in SUBSET Accts,
         NEW e \in Addresses \cup {NoOne}, People!Mail(kind, as, e),
         \A a \in Accts : account'[a].verified =>
           /\ account[a].verified /\ account'[a].email = account[a].email
           /\ kind = "verify" => a \notin as
  PROVE  LinksTell' /\ DOMAIN links \subseteq DOMAIN links'
  <1> DEFINE S == {[kind |-> kind, who |-> a, email |-> e, state |-> "usable"] : a \in as}
             old == [l \in DOMAIN links |->
               IF links[l].who \in as /\ links[l].kind = kind /\ links[l].state = "usable"
                 THEN [links[l] EXCEPT !.state = "void"] ELSE links[l]]
             new == People!SetToSeq(S)
             n == Len(links)
  <1>1. links \in Seq(LinkRow) /\ DOMAIN links = 1 .. n /\ n \in Nat
    BY DEF LinksTell
  <1>2. links' = old \o new
    BY DEF People!Mail
  <1>3. IsFiniteSet(S)
    <2>1. IsFiniteSet(as)
      BY FS_Subset
    <2> DEFINE f == [a \in as |-> [kind |-> kind, who |-> a, email |-> e, state |-> "usable"]]
    <2>2. f \in [as -> S] /\ \A x \in S : \E a \in as : f[a] = x
      OBVIOUS
    <2> HIDE DEF f, S
    <2>3. f \in Surjection(as, S)
      BY <2>2 DEF Surjection
    <2> QED BY <2>1, <2>3, FS_Surjection
  <1>4. \A l \in DOMAIN links :
          /\ old[l] \in LinkRow /\ old[l].who = links[l].who /\ old[l].kind = links[l].kind
          /\ old[l].email = links[l].email
          /\ old[l].state = "usable" =>
               links[l].state = "usable" /\ ~(links[l].who \in as /\ links[l].kind = kind)
          /\ links[l].state = "used" => old[l].state = "used"
    <2> SUFFICES ASSUME NEW l \in DOMAIN links
                 PROVE  /\ old[l] \in LinkRow /\ old[l].who = links[l].who
                        /\ old[l].kind = links[l].kind /\ old[l].email = links[l].email
                        /\ old[l].state = "usable" => links[l].state = "usable" /\
                             ~(links[l].who \in as /\ links[l].kind = kind)
                        /\ links[l].state = "used" => old[l].state = "used"
      OBVIOUS
    <2>1. links[l] \in LinkRow
      BY <1>1
    <2>2. old[l] = IF links[l].who \in as /\ links[l].kind = kind /\ links[l].state = "usable"
                     THEN [links[l] EXCEPT !.state = "void"] ELSE links[l]
      OBVIOUS
    <2> HIDE DEF old
    <2> QED BY <2>1, <2>2 DEF LinkRow
  <1>5. old \in Seq(LinkRow) /\ Len(old) = n
    <2>1. old \in [1 .. n -> LinkRow]
      BY <1>1, <1>4
    <2> HIDE DEF old
    <2> QED BY <1>1, <2>1
  <1>6. /\ S \subseteq LinkRow
        /\ \A x \in S : x.who \in as /\ x.kind = kind
        /\ \A x, y \in S : x.who = y.who => x = y
    <2>1. \A x \in S : \E a \in as : x = [kind |-> kind, who |-> a, email |-> e, state |-> "usable"]
      OBVIOUS
    <2> HIDE DEF S
    <2>2. ASSUME NEW x \in S
          PROVE  /\ x \in LinkRow /\ x.who \in as /\ x.kind = kind
                 /\ x = [kind |-> kind, who |-> x.who, email |-> e, state |-> "usable"]
      <3>1. PICK a \in as : x = [kind |-> kind, who |-> a, email |-> e, state |-> "usable"]
        BY <2>1
      <3>2. a \in Accts
        OBVIOUS
      <3> QED BY <3>1, <3>2 DEF LinkRow
    <2>3. ASSUME NEW x \in S, NEW y \in S, x.who = y.who PROVE x = y
      BY <2>2, <2>3, Zenon
    <2> QED BY <2>2, <2>3
  <1>7. new \in Seq(S) /\ \A i, j \in DOMAIN new : new[i] = new[j] => i = j
    <2> HIDE DEF S
    <2> QED BY <1>3, ToSeq
  <1> HIDE DEF S, old, new
  <1>8. /\ new \in Seq(LinkRow) /\ Len(new) \in Nat /\ DOMAIN new = 1 .. Len(new)
        /\ \A i \in 1 .. Len(new) : new[i].who \in as /\ new[i].kind = kind
        /\ \A i, j \in 1 .. Len(new) : new[i].who = new[j].who => i = j
    <2>1. /\ Len(new) \in Nat /\ DOMAIN new = 1 .. Len(new)
          /\ \A i \in 1 .. Len(new) : new[i] \in S
      BY <1>7
    <2>2. new \in Seq(LinkRow)
      BY <1>6, <1>7
    <2> QED BY <1>6, <1>7, <2>1, <2>2
  <1> DEFINE m == n + Len(new)
  <1>9. /\ links' \in Seq(LinkRow) /\ Len(links') = m /\ DOMAIN links' = 1 .. m
        /\ \A i \in 1 .. n : links'[i] = old[i]
        /\ \A i \in 1 .. m : i > n => links'[i] = new[i - n]
    <2>1. /\ links' \in Seq(LinkRow) /\ Len(links') = m
          /\ \A i \in 1 .. m : links'[i] = IF i <= n THEN old[i] ELSE new[i - n]
      <3>1. /\ old \o new \in Seq(LinkRow) /\ Len(old \o new) = Len(old) + Len(new)
            /\ \A i \in 1 .. Len(old) + Len(new) : (old \o new)[i] =
                 IF i <= Len(old) THEN old[i] ELSE new[i - Len(old)]
        <4>1. new \in Seq(LinkRow) /\ old \in Seq(LinkRow)
          BY <1>5, <1>8
        <4> QED BY <4>1, ConcatProperties
      <3> QED BY <1>2, <1>5, <3>1
    <2> QED BY <1>1, <1>8, <2>1
  <1>10. DOMAIN links \subseteq DOMAIN links'
    BY <1>1, <1>8, <1>9
  <1>11. \A l \in DOMAIN links : Newest(l) /\ ~(links[l].who \in as /\ links[l].kind = kind) =>
           Newest(l)'
    <2> SUFFICES ASSUME NEW l \in DOMAIN links, Newest(l),
                        ~(links[l].who \in as /\ links[l].kind = kind),
                        NEW k \in DOMAIN links', links'[k].who = links'[l].who,
                        links'[k].kind = links'[l].kind
                 PROVE  k <= l
      BY DEF Newest
    <2>1. links'[l].who = links[l].who /\ links'[l].kind = links[l].kind
      BY <1>1, <1>4, <1>9
    <2>2. CASE k <= n
      <3>1. k \in DOMAIN links /\ links'[k].who = links[k].who /\ links'[k].kind = links[k].kind
        <4>1. k \in 1 .. n
          BY <1>1, <1>8, <1>9, <2>2
        <4> QED BY <1>1, <1>4, <1>9, <4>1
      <3> QED BY <2>1, <3>1 DEF Newest
    <2>3. CASE ~(k <= n)
      <3>1. k \in 1 .. m /\ k > n
        BY <1>1, <1>9, <2>3
      <3>2. links'[k] = new[k - n]
        BY <1>9, <3>1
      <3>3. k - n \in 1 .. Len(new)
        BY <1>1, <1>8, <3>1
      <3>4. new[k - n].who \in as /\ new[k - n].kind = kind
        BY <1>8, <3>3
      <3> QED BY <2>1, <3>2, <3>4
    <2> QED BY <2>2, <2>3
  <1>12. \A l \in DOMAIN links' : l > n => Newest(l)'
    <2> SUFFICES ASSUME NEW l \in DOMAIN links', l > n,
                        NEW k \in DOMAIN links', links'[k].who = links'[l].who,
                        links'[k].kind = links'[l].kind
                 PROVE  k <= l
      BY DEF Newest
    <2>1. l \in Nat /\ k \in Nat /\ l - n \in 1 .. Len(new) /\ links'[l] = new[l - n]
      BY <1>1, <1>8, <1>9
    <2>2. CASE k <= n
      BY <1>1, <2>1, <2>2
    <2>3. CASE ~(k <= n)
      <3>1. k \in 1 .. m /\ k > n
        BY <1>1, <1>9, <2>3
      <3>2. links'[k] = new[k - n]
        BY <1>9, <3>1
      <3>3. k - n \in 1 .. Len(new)
        BY <1>1, <1>8, <3>1
      <3>4. k - n = l - n
        BY <1>8, <2>1, <3>2, <3>3
      <3> QED BY <1>1, <2>1, <3>4
    <2> QED BY <2>2, <2>3
  <1>13. \A l \in DOMAIN links' : links'[l].state = "usable" => Newest(l)'
    <2> SUFFICES ASSUME NEW l \in DOMAIN links', links'[l].state = "usable"
                 PROVE  Newest(l)'
      OBVIOUS
    <2>1. CASE l > n
      BY <1>12, <2>1
    <2>2. CASE ~(l > n)
      <3>1. l \in DOMAIN links /\ links'[l] = old[l]
        BY <1>1, <1>8, <1>9, <2>2
      <3>2. links[l].state = "usable" /\ ~(links[l].who \in as /\ links[l].kind = kind)
        BY <1>4, <3>1
      <3> QED BY <1>11, <3>1, <3>2 DEF LinksTell
    <2> QED BY <2>1, <2>2
  <1>14. ASSUME NEW a \in Accts, account'[a].verified
         PROVE  \E l \in DOMAIN links' :
                  /\ links'[l].who = a /\ links'[l].kind = "verify"
                  /\ links'[l].state = "used" /\ links'[l].email = account'[a].email
                  /\ Newest(l)'
    <2>1. /\ account[a].verified /\ account'[a].email = account[a].email
          /\ kind = "verify" => a \notin as
      BY <1>14
    <2>2. PICK l \in DOMAIN links :
            /\ links[l].who = a /\ links[l].kind = "verify" /\ links[l].state = "used"
            /\ links[l].email = account[a].email /\ Newest(l)
      BY <2>1 DEF LinksTell
    <2>3. links'[l] = old[l]
      BY <1>1, <1>9
    <2>4. Newest(l)'
      BY <1>11, <2>1, <2>2
    <2>5. /\ links'[l].who = links[l].who /\ links'[l].kind = links[l].kind
          /\ links'[l].email = links[l].email /\ links'[l].state = "used"
      BY <1>4, <2>2, <2>3
    <2>6. l \in DOMAIN links'
      BY <1>10
    <2> QED BY <2>1, <2>2, <2>4, <2>5, <2>6
  <1> QED BY <1>9, <1>10, <1>13, <1>14 DEF LinksTell

LEMMA LinksKept ==
  ASSUME LinksTell, links' = links,
         \A a \in Accts : account'[a].verified =>
           account[a].verified /\ account'[a].email = account[a].email
  PROVE  LinksTell'
  <1>1. links \in Seq(LinkRow)
    BY DEF LinksTell
  <1>2. links' = [k \in DOMAIN links |-> links'[k]] /\ \A k \in DOMAIN links : links'[k] \in LinkRow
    BY <1>1
  <1> QED BY <1>2, LinksMove

---------------------------------------------------------------------------
(* Administration.                                                          *)

SecretsGrow ==
  /\ secretOf' \in Seq(Secrets) /\ DOMAIN secretOf \subseteq DOMAIN secretOf'
  /\ \A h \in DOMAIN secretOf : secretOf'[h] = secretOf[h]

LEMMA HashGrows ==
  ASSUME AccountTypes, NEW s \in Secrets, People!Hash(s)
  PROVE  /\ SecretsGrow /\ People!FreshHash \in DOMAIN secretOf' /\ People!FreshHash \in Nat
         /\ secretOf'[People!FreshHash] = s
  <1>1. secretOf \in Seq(Secrets) /\ secretOf' = Append(secretOf, s)
    BY DEF AccountTypes, People!Hash
  <1>2. /\ secretOf' \in Seq(Secrets) /\ Len(secretOf') = Len(secretOf) + 1
        /\ \A h \in 1 .. Len(secretOf) : secretOf'[h] = secretOf[h]
        /\ secretOf'[Len(secretOf) + 1] = s
    BY <1>1, AppendProperties
  <1>3. DOMAIN secretOf = 1 .. Len(secretOf) /\ Len(secretOf) \in Nat
        /\ DOMAIN secretOf' = 1 .. Len(secretOf) + 1
    BY <1>1, <1>2
  <1> QED BY <1>2, <1>3 DEF SecretsGrow, People!FreshHash

LEMMA SameSecrets ==
  ASSUME AccountTypes, secretOf' = secretOf
  PROVE  SecretsGrow
  BY DEF AccountTypes, SecretsGrow

\* A change of one account keeps an administrator, and the password of what was made.
LEMMA OneChanges ==
  ASSUME AdministrationInv, SecretsGrow, NEW a \in Accts,
         account' \in [Accts -> AccountRow], \A b \in Accts \ {a} : account'[b] = account[b],
         account'[a].made, account'[a].hash \in DOMAIN secretOf',
         \/ account'[a].enabled /\ account'[a].role = "admin"
         \/ ~(account[a].enabled /\ account[a].role = "admin")
         \/ \E b \in Accts \ {a} : account[b].enabled /\ account[b].role = "admin"
  PROVE  /\ AccountsMade' /\ SomeAdmin'
         /\ \A b \in Accts : account[b].made => account'[b].made
  <1>1. \A b \in Accts : /\ account[b].enabled => account[b].made
                         /\ account[b].made => account[b].hash \in DOMAIN secretOf
    BY DEF AdministrationInv, AccountsMade
  <1>2. AccountsMade'
    BY <1>1 DEF AccountsMade, SecretsGrow
  <1>3. SomeAdmin'
    <2>1. PICK b \in Accts : account[b].enabled /\ account[b].role = "admin"
      BY DEF AdministrationInv, SomeAdmin
    <2> QED BY <2>1 DEF SomeAdmin
  <1> QED BY <1>2, <1>3

\* What was made, hashed, mailed and answered stays, and so does what requests carry.
LEMMA RestKept ==
  ASSUME AdministrationInv, SecretsGrow, account' \in [Accts -> AccountRow],
         AccountsMade', SomeAdmin', \A b \in Accts : account[b].made => account'[b].made,
         DOMAIN links \subseteq DOMAIN links', receipt' = receipt, answered' = answered,
         \A w \in work' : w \in work \/ Carries(w)'
  PROVE  AdministrationInv'
  <1>1. AccountTypes'
    BY DEF AdministrationInv, AccountTypes, SecretsGrow
  <1>2. \A w \in work : Carries(w) => Carries(w)'
    BY DEF Carries, SecretsGrow, LoginWork, CreateWork, ChangeWork, ResetWork
  <1>3. WorkTells'
    BY <1>2 DEF AdministrationInv, WorkTells
  <1>4. OneAnswer'
    <2>1. receipt # NoOne => receipt.who \in Accts
      BY DEF AdministrationInv, AccountTypes
    <2> QED BY <2>1 DEF AdministrationInv, OneAnswer, SecretsGrow
  <1> QED BY <1>1, <1>3, <1>4 DEF AdministrationInv

\* A step that changes no account.
LEMMA SameAccounts ==
  ASSUME AdministrationInv, SecretsGrow, account' = account,
         DOMAIN links \subseteq DOMAIN links', receipt' = receipt, answered' = answered,
         \A w \in work' : w \in work \/ Carries(w)'
  PROVE  AdministrationInv'
  <1>1. account \in [Accts -> AccountRow]
    BY DEF AdministrationInv, AccountTypes
  <1>2. AccountsMade'
    BY DEF AdministrationInv, AccountsMade, SecretsGrow
  <1>3. SomeAdmin'
    BY DEF AdministrationInv, SomeAdmin
  <1> QED BY <1>1, <1>2, <1>3, RestKept

LEMMA SignInsKept ==
  ASSUME account \in [Accts -> AccountRow], SignInsTell, browser' = browser, challenges' = challenges,
         \A a \in Accts :
           account'[a].enabled = account[a].enabled /\ account'[a].hash = account[a].hash
  PROVE  SignInsTell'
  <1>1. browser \in Seq(BrowserRow) /\ challenges \in Seq(ChallengeRow)
    BY DEF SignInsTell
  <1> DEFINE none == {}
  <1>2. browser' = [i \in DOMAIN browser |->
           IF i \in none THEN [browser[i] EXCEPT !.live = FALSE] ELSE browser[i]]
    BY <1>1
  <1>3. /\ challenges' \in Seq(ChallengeRow) /\ DOMAIN challenges \subseteq DOMAIN challenges'
        /\ \A c \in DOMAIN challenges : ~challenges[c].open => ~challenges'[c].open
    BY <1>1
  <1> HIDE DEF none
  <1> QED BY <1>2, <1>3, SignOff

---------------------------------------------------------------------------
(* The operations.                                                          *)

LEMMA AccountFacts ==
  ASSUME AccountsInv
  PROVE  /\ account \in [Accts -> AccountRow] /\ AccountTypes /\ IsFiniteSet(Accts)
         /\ browser \in Seq(BrowserRow) /\ links \in Seq(LinkRow)
         /\ challenges \in Seq(ChallengeRow)
         /\ \A i \in DOMAIN browser : browser[i].who \in Accts
         /\ \A l \in DOMAIN links : links[l].who \in Accts /\ links[l] \in LinkRow
         /\ \A w \in work : Carries(w)
         /\ Root \in Accts
  <1>1. IsFiniteSet(Accts)
    BY AccountsAssumption, FS_AddElement DEF Accts
  <1>2. /\ account \in [Accts -> AccountRow] /\ AccountTypes
        /\ browser \in Seq(BrowserRow) /\ links \in Seq(LinkRow)
        /\ challenges \in Seq(ChallengeRow)
    BY DEF AccountsInv, AdministrationInv, AccountTypes, SignInsTell, LinksTell
  <1>3. /\ \A i \in DOMAIN browser : browser[i] \in BrowserRow
        /\ \A l \in DOMAIN links : links[l] \in LinkRow
    BY <1>2
  <1>4. \A w \in work : Carries(w)
    BY DEF AccountsInv, AdministrationInv, WorkTells
  <1> QED BY <1>1, <1>2, <1>3, <1>4 DEF BrowserRow, LinkRow, Accts

\* What is done off the lock begins.
LEMMA WorkBegins ==
  ASSUME AccountsInv, SecretsGrow, NEW w, Carries(w)', work' = work \cup {w},
         UNCHANGED <<account, browser, links, challenges, receipt, answered>>
  PROVE  AccountsInv'
  <1>1. AdministrationInv'
    BY SameAccounts DEF AccountsInv
  <1>2. SignInsTell' /\ LinksTell'
    BY AccountFacts, SignInsKept, LinksKept DEF AccountsInv
  <1> QED BY <1>1, <1>2 DEF AccountsInv

\* A request is given up.
LEMMA WorkEnds ==
  ASSUME AccountsInv, work' \subseteq work,
         UNCHANGED <<account, secretOf, browser, links, challenges, receipt, answered>>
  PROVE  AccountsInv'
  <1>1. AdministrationInv'
    BY AccountFacts, SameSecrets, SameAccounts DEF AccountsInv
  <1>2. SignInsTell' /\ LinksTell'
    BY AccountFacts, SignInsKept, LinksKept DEF AccountsInv
  <1> QED BY <1>1, <1>2 DEF AccountsInv

LEMMA LoginBegins ==
  ASSUME AccountsInv, NEW a \in Accts, People!BeginLogin(a)
  PROVE  AccountsInv'
  <1>0. PICK w : w = [op |-> "login", who |-> a, hash |-> account[a].hash]
    OBVIOUS
  <1>1. account[a].hash \in Nat
    BY AccountFacts DEF AccountRow
  <1>2. Carries(w)'
    BY <1>0, <1>1 DEF Carries, LoginWork
  <1>3. /\ work' = work \cup {w} /\ secretOf' = secretOf
        /\ UNCHANGED <<account, browser, links, challenges, receipt, answered>>
    BY <1>0 DEF People!BeginLogin, People!Off
  <1> QED BY <1>2, <1>3, AccountFacts, SameSecrets, WorkBegins

LEMMA LoginEnds ==
  ASSUME AccountsInv, NEW w \in work, People!FinishLogin(w)
  PROVE  AccountsInv'
  <1>1. /\ work' \subseteq work
        /\ UNCHANGED <<account, secretOf, links, challenges, receipt, answered>>
    BY DEF People!FinishLogin
  <1>2. CASE UNCHANGED browser
    BY <1>1, <1>2, WorkEnds
  <1>3. CASE People!StillTheAccount(w.who, w.hash) /\ People!IssueSession(w.who, w.hash, 0)
    <2>1. w.who \in Accts
      BY AccountFacts DEF Carries, LoginWork, CreateWork, ChangeWork, ResetWork, People!FinishLogin
    <2>2. account[w.who].enabled /\ w.hash = account[w.who].hash
      BY <1>3 DEF People!StillTheAccount
    <2>3. SignInsTell'
      BY <1>1, <1>3, <2>1, <2>2, AccountFacts, SignIn DEF AccountsInv
    <2>4. AdministrationInv'
      BY <1>1, AccountFacts, SameSecrets, SameAccounts DEF AccountsInv
    <2>5. LinksTell'
      BY <1>1, LinksKept DEF AccountsInv
    <2> QED BY <2>3, <2>4, <2>5 DEF AccountsInv
  <1> QED BY <1>2, <1>3 DEF People!FinishLogin

\* A sign-out, or the end of a session.
LEMMA SessionEnds ==
  ASSUME AccountsInv, NEW j \in DOMAIN browser,
         browser' = [browser EXCEPT ![j].live = FALSE],
         UNCHANGED <<account, secretOf, links, challenges, work, receipt, answered>>
  PROVE  AccountsInv'
  <1> DEFINE S == {j}
  <1>1. browser' = [i \in DOMAIN browser |->
           IF i \in S THEN [browser[i] EXCEPT !.live = FALSE] ELSE browser[i]]
    BY AccountFacts
  <1> HIDE DEF S
  <1>2. SignInsTell'
    BY <1>1, AccountFacts, SignOff DEF AccountsInv
  <1>3. AdministrationInv' /\ LinksTell'
    BY AccountFacts, SameSecrets, SameAccounts, LinksKept DEF AccountsInv
  <1> QED BY <1>2, <1>3 DEF AccountsInv

\* A change of an account that signs it out.
LEMMA SignedOutKeeps ==
  ASSUME AccountsInv, NEW a \in Accts, browser' = People!SignedOut(a), challenges' = challenges,
         \A b \in Accts \ {a} : account'[b] = account[b]
  PROVE  SignInsTell'
  <1> DEFINE S == {i \in DOMAIN browser : browser[i].who = a}
  <1>1. browser' = [i \in DOMAIN browser |->
           IF i \in S THEN [browser[i] EXCEPT !.live = FALSE] ELSE browser[i]]
    BY DEF People!SignedOut, People!Sessions
  <1>2. \A i \in DOMAIN browser : browser[i].who = a => i \in S
    OBVIOUS
  <1> HIDE DEF S
  <1>3. \A b \in Accts :
          \/ account'[b].enabled = account[b].enabled /\ account'[b].hash = account[b].hash
          \/ \A i \in DOMAIN browser : browser[i].who = b => i \in S
    BY <1>2
  <1>4. /\ challenges' \in Seq(ChallengeRow) /\ DOMAIN challenges \subseteq DOMAIN challenges'
        /\ \A c \in DOMAIN challenges : ~challenges[c].open => ~challenges'[c].open
    BY AccountFacts
  <1> QED BY <1>1, <1>3, <1>4, AccountFacts, SignOff DEF AccountsInv

LEMMA CreateBegins ==
  ASSUME AccountsInv, NEW i \in DOMAIN browser, NEW a \in Others, NEW s \in Secrets,
         People!BeginCreate(i, a, s)
  PROVE  AccountsInv'
  <1>0. i \in Nat
    BY AccountFacts
  <1>1. CASE receipt = NoOne
    <2>0. PICK w : w = [op |-> "create", who |-> a, via |-> i, secret |-> s, seen |-> FALSE,
                        hash |-> People!FreshHash, matches |-> TRUE]
      OBVIOUS
    <2>1. /\ People!Hash(s) /\ work' = work \cup {w}
          /\ UNCHANGED <<account, browser, links, challenges, receipt, answered>>
      BY <1>1, <2>0 DEF People!BeginCreate, People!Off
    <2>2. /\ SecretsGrow /\ People!FreshHash \in DOMAIN secretOf' /\ People!FreshHash \in Nat
          /\ secretOf'[People!FreshHash] = s
      BY <2>1, AccountFacts, HashGrows
    <2>3. w \in CreateWork /\ w.op = "create" /\ w.hash = People!FreshHash /\ w.secret = s /\ ~w.seen
      BY <1>0, <2>0, <2>2 DEF CreateWork
    <2>4. Carries(w)'
      BY <2>2, <2>3 DEF Carries
    <2> QED BY <2>1, <2>2, <2>4, WorkBegins
  <1>2. CASE receipt # NoOne
    <2> DEFINE h == account[receipt.who].hash
               m == secretOf[h] = s
    <2>0. PICK w : w = [op |-> "create", who |-> a, via |-> i, secret |-> s, seen |-> TRUE,
                        hash |-> h, matches |-> m]
      OBVIOUS
    <2>1. /\ secretOf' = secretOf /\ work' = work \cup {w}
          /\ UNCHANGED <<account, browser, links, challenges, receipt, answered>>
      BY <1>2, <2>0 DEF People!BeginCreate, People!Off, People!Retried
    <2>2. h \in DOMAIN secretOf /\ h \in Nat
      BY <1>2, AccountFacts DEF AccountsInv, AdministrationInv, AccountTypes, AccountsMade, OneAnswer
    <2>3. m \in BOOLEAN
      OBVIOUS
    <2>4. w \in CreateWork /\ w.op = "create" /\ w.hash = h /\ w.secret = s
      <3> HIDE DEF h, m
      <3> QED BY <1>0, <2>0, <2>2, <2>3, Zenon DEF CreateWork
    <2>5. w.matches => secretOf[h] = s
      <3>1. w.matches = m
        <4> HIDE DEF m
        <4> QED BY <2>0, Zenon
      <3> QED BY <3>1
    <2>6. Carries(w)'
      <3> HIDE DEF h
      <3> QED BY <1>2, <2>0, <2>1, <2>2, <2>4, <2>5 DEF Carries
    <2> QED BY <2>1, <2>6, AccountFacts, SameSecrets, WorkBegins
  <1> QED BY <1>1, <1>2

LEMMA CreateRaces ==
  ASSUME AccountsInv, NEW w \in work, People!CreateRaced(w)
  PROVE  AccountsInv'
  <1> DEFINE h == account[receipt.who].hash
  <1>1. /\ w.op = "create" /\ receipt # NoOne
        /\ UNCHANGED <<account, secretOf, browser, links, challenges, receipt, answered>>
    BY DEF People!CreateRaced
  <1>2. h \in DOMAIN secretOf /\ h \in Nat
    BY <1>1, AccountFacts DEF AccountsInv, AdministrationInv, AccountTypes, AccountsMade, OneAnswer
  <1>3. w \in CreateWork
    BY <1>1, AccountFacts DEF Carries, LoginWork, ChangeWork, ResetWork
  <1>4. PICK v : v = [w EXCEPT !.seen = TRUE, !.hash = h]
    OBVIOUS
  <1>5. \A x \in work' : x \in work \/ (x = v /\ secretOf[h] = w.secret)
    BY <1>4 DEF People!CreateRaced, People!Retried
  <1>6. secretOf[h] = w.secret => Carries(v)'
    <2> SUFFICES ASSUME secretOf[h] = w.secret PROVE Carries(v)'
      OBVIOUS
    <2>1. v \in CreateWork /\ v.op = "create" /\ v.hash = h /\ v.secret = w.secret
      <3> HIDE DEF h
      <3> QED BY <1>2, <1>3, <1>4 DEF CreateWork
    <2> HIDE DEF h
    <2> QED BY <1>1, <1>2, <2>1 DEF Carries
  <1> HIDE DEF h
  <1>7. \A x \in work' : x \in work \/ Carries(x)'
    BY <1>5, <1>6
  <1>8. AdministrationInv'
    BY <1>1, <1>7, AccountFacts, SameSecrets, SameAccounts DEF AccountsInv
  <1>9. SignInsTell' /\ LinksTell'
    BY <1>1, AccountFacts, SignInsKept, LinksKept DEF AccountsInv
  <1> QED BY <1>8, <1>9 DEF AccountsInv

LEMMA CreateReplays ==
  ASSUME AccountsInv, NEW w \in work, People!CreateReplayed(w)
  PROVE  AccountsInv'
  <1>1. /\ w.op = "create" /\ receipt # NoOne /\ w.seen /\ work' \subseteq work
        /\ UNCHANGED <<account, secretOf, browser, links, challenges, receipt>>
    BY DEF People!CreateReplayed
  <1>2. w.matches => secretOf[w.hash] = w.secret
    BY <1>1, AccountFacts DEF Carries
  <1>3. OneAnswer'
    <2>1. answered' = answered \/ (answered' = answered \cup {w.secret} /\ People!Replayable(w))
      BY DEF People!CreateReplayed
    <2> QED BY <1>1, <1>2, <2>1 DEF AccountsInv, AdministrationInv, OneAnswer, People!Replayable
  <1>4. AccountTypes' /\ AccountsMade' /\ SomeAdmin'
    BY <1>1 DEF AccountsInv, AdministrationInv, AccountTypes, AccountsMade, SomeAdmin
  <1>5. WorkTells'
    BY <1>1, AccountFacts DEF WorkTells, Carries
  <1>6. SignInsTell' /\ LinksTell'
    BY <1>1, AccountFacts, SignInsKept, LinksKept DEF AccountsInv
  <1> QED BY <1>3, <1>4, <1>5, <1>6 DEF AccountsInv, AdministrationInv

LEMMA CreateMakes ==
  ASSUME AccountsInv, NEW w \in work, NEW role \in {"admin", "operator"}, NEW e \in Addresses,
         People!CreateOperator(w, role, e)
  PROVE  AccountsInv'
  <1> DEFINE a == w.who
             entry == [made |-> TRUE, role |-> role, enabled |-> TRUE, hash |-> w.hash, rev |-> 1,
                       email |-> e, verified |-> FALSE]
  <1>1. /\ w.op = "create" /\ receipt = NoOne /\ ~account[a].made /\ work' \subseteq work
        /\ account' = [account EXCEPT ![a] = entry]
        /\ receipt' = [who |-> a, hash |-> w.hash] /\ answered' = answered \cup {w.secret}
        /\ People!Mail("verify", {a}, e) /\ UNCHANGED <<secretOf, browser, challenges>>
    BY DEF People!CreateOperator
  <1>2. /\ w \in CreateWork /\ w.hash \in DOMAIN secretOf /\ w.hash \in Nat /\ a \in Accts
        /\ ~w.seen /\ secretOf[w.hash] = w.secret
    <2>1. Carries(w) /\ w \in CreateWork
      BY <1>1, AccountFacts DEF Carries, LoginWork, ChangeWork, ResetWork
    <2> QED BY <1>1, <2>1 DEF Carries, CreateWork, Accts
  <1>3. entry \in AccountRow
    BY <1>2 DEF AccountRow
  <1>4. ~account[a].enabled
    BY <1>1, <1>2 DEF AccountsInv, AdministrationInv, AccountsMade
  <1>5. /\ entry.made /\ entry.enabled /\ entry.hash = w.hash /\ ~entry.verified
    OBVIOUS
  <1> HIDE DEF a, entry
  <1>6. /\ account' \in [Accts -> AccountRow] /\ account'[a] = entry
        /\ \A b \in Accts \ {a} : account'[b] = account[b]
    BY <1>1, <1>2, <1>3, AccountFacts
  <1>7. SecretsGrow
    BY <1>1, AccountFacts, SameSecrets
  <1>8. /\ AccountsMade' /\ SomeAdmin'
        /\ \A b \in Accts : account[b].made => account'[b].made
    BY <1>1, <1>2, <1>4, <1>5, <1>6, <1>7, OneChanges DEF AccountsInv
  <1>9. LinksTell' /\ DOMAIN links \subseteq DOMAIN links'
    <2>1. {a} \in SUBSET Accts
      BY <1>2
    <2>2. \A b \in Accts : account'[b].verified =>
            /\ account[b].verified /\ account'[b].email = account[b].email
            /\ b \notin {a}
      BY <1>5, <1>6
    <2> QED BY <1>1, <2>1, <2>2, AccountFacts, MailKeeps DEF AccountsInv
  <1>10. SignInsTell'
    <2> DEFINE S == {i \in DOMAIN browser : browser[i].who = a}
    <2>1. \A i \in S : ~browser[i].live
      BY <1>4 DEF AccountsInv, SignInsTell
    <2>2. \A i \in S : browser[i] = [browser[i] EXCEPT !.live = FALSE]
      <3>1. \A i \in S : browser[i] \in BrowserRow
        BY AccountFacts
      <3> QED BY <2>1, <3>1 DEF BrowserRow
    <2>3. \A i \in DOMAIN browser : browser[i].who = a => i \in S
      OBVIOUS
    <2>4. browser' = [i \in DOMAIN browser |->
             IF i \in S THEN [browser[i] EXCEPT !.live = FALSE] ELSE browser[i]]
      <3> HIDE DEF S
      <3>1. browser' = browser /\ browser = [i \in DOMAIN browser |-> browser[i]]
        BY <1>1, AccountFacts
      <3>2. [i \in DOMAIN browser |-> browser[i]] =
              [i \in DOMAIN browser |->
                IF i \in S THEN [browser[i] EXCEPT !.live = FALSE] ELSE browser[i]]
        BY <2>2
      <3> QED BY <3>1, <3>2
    <2> HIDE DEF S
    <2>5. \A b \in Accts :
            \/ account'[b].enabled = account[b].enabled /\ account'[b].hash = account[b].hash
            \/ \A i \in DOMAIN browser : browser[i].who = b => i \in S
      BY <1>6, <2>3
    <2>6. /\ challenges' \in Seq(ChallengeRow) /\ DOMAIN challenges \subseteq DOMAIN challenges'
          /\ \A c \in DOMAIN challenges : ~challenges[c].open => ~challenges'[c].open
      BY <1>1, AccountFacts
    <2> QED BY <2>4, <2>5, <2>6, AccountFacts, SignOff DEF AccountsInv
  <1>11. receipt' \in [who : Accts, hash : Nat] /\ receipt' # NoOne
    BY <1>1, <1>2, AccountsAssumption DEF a, Accts
  <1>12. receipt'.who = a /\ receipt'.hash = w.hash
    BY <1>1
  <1>13. OneAnswer'
    BY <1>1, <1>2, <1>5, <1>6, <1>11, <1>12 DEF OneAnswer, AccountsInv, AdministrationInv
  <1>14. WorkTells'
    <2>1. \A x \in work : Carries(x) => Carries(x)'
      <3>1. \A x \in ChangeWork : x.who \in Accts
        BY DEF ChangeWork
      <3>2. \A x \in LoginWork \cup CreateWork \cup ResetWork : x.op # "change"
        BY DEF LoginWork, CreateWork, ResetWork
      <3> QED BY <1>1, <1>8, <1>9, <1>11, <3>1, <3>2 DEF Carries
    <2> QED BY <1>1, <2>1, AccountFacts DEF WorkTells
  <1>15. AccountTypes'
    BY <1>6, <1>7, <1>11 DEF AccountTypes, SecretsGrow
  <1> QED BY <1>8, <1>9, <1>10, <1>13, <1>14, <1>15 DEF AccountsInv, AdministrationInv

LEMMA ManyAdmins ==
  ASSUME AccountsInv, NEW a \in Accts, ~People!LastAdmin(a)
  PROVE  \/ ~(account[a].enabled /\ account[a].role = "admin")
         \/ \E b \in Accts \ {a} : account[b].enabled /\ account[b].role = "admin"
  <1> DEFINE admins == {b \in Accts : account[b].enabled /\ account[b].role = "admin"}
  <1>1. a \notin admins \/ ~(Cardinality(admins) <= 1)
    BY AccountSets DEF People!LastAdmin, People!Admins
  <1>2. IsFiniteSet(admins)
    BY AccountFacts, FS_Subset
  <1>3. ~(Cardinality(admins) <= 1) => \E b \in admins : b # a
    <2> HIDE DEF admins
    <2> SUFFICES ASSUME admins \subseteq {a} PROVE Cardinality(admins) <= 1
      OBVIOUS
    <2>1. IsFiniteSet({a}) /\ Cardinality({a}) = 1
      BY FS_Singleton
    <2>2. Cardinality(admins) <= Cardinality({a})
      BY <2>1, FS_Subset
    <2> QED BY <2>1, <2>2
  <1> QED BY <1>1, <1>3

\* An account whose address was proved.
LEMMA RowProved ==
  ASSUME NEW old \in AccountRow,
         NEW new, new = [old EXCEPT !.verified = TRUE, !.rev = old.rev + 1]
  PROVE  /\ new \in AccountRow /\ new.role = old.role /\ new.enabled = old.enabled
         /\ new.made = old.made /\ new.hash = old.hash /\ new.email = old.email
  <1>1. old.rev + 1 \in Nat
    BY DEF AccountRow
  <1>2. /\ new.role = old.role /\ new.enabled = old.enabled
        /\ new.made = old.made /\ new.hash = old.hash /\ new.email = old.email
    BY DEF AccountRow
  <1>3. new \in AccountRow
    BY <1>1 DEF AccountRow
  <1> QED BY <1>2, <1>3

LEMMA AccessChanges ==
  ASSUME AccountsInv, NEW i \in DOMAIN browser, NEW a \in Accts,
         NEW role \in {"admin", "operator"}, NEW enabled \in BOOLEAN,
         People!UpdateAccess(i, a, role, enabled)
  PROVE  AccountsInv'
  <1>1. /\ account[a].made /\ ~(People!LastAdmin(a) /\ (role # "admin" \/ ~enabled))
        /\ account' = [account EXCEPT ![a].role = role, ![a].enabled = enabled,
                                      ![a].rev = account[a].rev + 1]
        /\ browser' = People!SignedOut(a)
        /\ UNCHANGED <<secretOf, links, challenges, work, receipt, answered>>
    BY DEF People!UpdateAccess, People!Revised
  <1>2. /\ account' \in [Accts -> AccountRow] /\ \A b \in Accts \ {a} : account'[b] = account[b]
        /\ account'[a].role = role /\ account'[a].enabled = enabled
        /\ account'[a].made = account[a].made /\ account'[a].hash = account[a].hash
        /\ account'[a].verified = account[a].verified /\ account'[a].email = account[a].email
    <2>1. PICK new : new = [account[a] EXCEPT !.role = role, !.enabled = enabled,
                                              !.rev = account[a].rev + 1]
      OBVIOUS
    <2>2. account[a] \in AccountRow
      BY AccountFacts
    <2>3. new.role = role /\ new.enabled = enabled
      BY <2>1, <2>2 DEF AccountRow
    <2>4. /\ new.made = account[a].made /\ new.hash = account[a].hash
          /\ new.verified = account[a].verified /\ new.email = account[a].email
      BY <2>1, <2>2 DEF AccountRow
    <2>5. new \in AccountRow
      <3>1. account[a].rev + 1 \in Nat
        BY <2>2 DEF AccountRow
      <3> QED BY <2>1, <2>2, <3>1 DEF AccountRow
    <2>6. account' = [account EXCEPT ![a] = new]
      BY <1>1, <2>1, AccountFacts
    <2> QED BY <2>3, <2>4, <2>5, <2>6, AccountFacts
  <1>3. SecretsGrow /\ account[a].hash \in DOMAIN secretOf'
    BY <1>1, AccountFacts, SameSecrets DEF AccountsInv, AdministrationInv, AccountsMade
  <1>4. \/ role = "admin" /\ enabled
        \/ ~(account[a].enabled /\ account[a].role = "admin")
        \/ \E b \in Accts \ {a} : account[b].enabled /\ account[b].role = "admin"
    BY <1>1, ManyAdmins
  <1>5. /\ AccountsMade' /\ SomeAdmin'
        /\ \A b \in Accts : account[b].made => account'[b].made
    BY <1>1, <1>2, <1>3, <1>4, OneChanges DEF AccountsInv
  <1>6. AdministrationInv'
    BY <1>1, <1>2, <1>3, <1>5, RestKept DEF AccountsInv
  <1>7. SignInsTell'
    BY <1>1, <1>2, SignedOutKeeps
  <1>8. LinksTell'
    BY <1>1, <1>2, LinksKept DEF AccountsInv
  <1> QED BY <1>6, <1>7, <1>8 DEF AccountsInv

LEMMA ChangeBegins ==
  ASSUME AccountsInv, NEW i \in DOMAIN browser, NEW s \in Secrets, People!BeginChange(i, s)
  PROVE  AccountsInv'
  <1>0. PICK w : w = [op |-> "change", who |-> browser[i].who, via |-> i,
                      old |-> account[browser[i].who].hash, hash |-> People!FreshHash,
                      rev |-> account[browser[i].who].rev]
    OBVIOUS
  <1>1. /\ People!Hash(s) /\ work' = work \cup {w}
        /\ UNCHANGED <<account, browser, links, challenges, receipt, answered>>
    BY <1>0 DEF People!BeginChange, People!Off, People!Actor
  <1>2. SecretsGrow /\ People!FreshHash \in DOMAIN secretOf' /\ People!FreshHash \in Nat
    BY <1>1, AccountFacts, HashGrows
  <1>3. i \in Nat /\ browser[i].who \in Accts /\ account[browser[i].who] \in AccountRow
    BY AccountFacts
  <1>4. w \in ChangeWork /\ w.op = "change" /\ w.hash = People!FreshHash
    BY <1>0, <1>2, <1>3 DEF ChangeWork, AccountRow
  <1>5. w.who = browser[i].who /\ account[browser[i].who].made
    <2>1. People!Authentic(i)
      BY DEF People!BeginChange
    <2> QED BY <1>0, <1>3, <2>1 DEF People!Authentic, AccountsInv, AdministrationInv, AccountsMade
  <1>6. Carries(w)'
    BY <1>1, <1>2, <1>4, <1>5 DEF Carries
  <1> QED BY <1>1, <1>2, <1>6, WorkBegins

\* A new password of an account that exists.
LEMMA PasswordSets ==
  ASSUME AccountsInv, SecretsGrow, NEW a \in Accts, NEW h \in Nat, account[a].made,
         h \in DOMAIN secretOf', People!SetPassword(a, h),
         work' \subseteq work, UNCHANGED <<challenges, receipt, answered>>,
         LinksTell /\ (\A b \in Accts :
           account'[b].verified = account[b].verified /\ account'[b].email = account[b].email)
           => LinksTell' /\ DOMAIN links \subseteq DOMAIN links'
  PROVE  AccountsInv'
  <1>1. /\ account' = [account EXCEPT ![a].hash = h, ![a].rev = account[a].rev + 1]
        /\ browser' = People!SignedOut(a)
    BY DEF People!SetPassword, People!Revised
  <1>2. /\ account' \in [Accts -> AccountRow] /\ \A b \in Accts \ {a} : account'[b] = account[b]
        /\ account'[a].role = account[a].role /\ account'[a].enabled = account[a].enabled
        /\ account'[a].made = account[a].made /\ account'[a].hash = h
        /\ account'[a].verified = account[a].verified /\ account'[a].email = account[a].email
    <2>1. account \in [Accts -> AccountRow] /\ account[a] \in AccountRow
      BY AccountFacts
    <2>2. account' \in [Accts -> AccountRow] /\ \A b \in Accts \ {a} : account'[b] = account[b]
      BY <1>1, <2>1 DEF AccountRow
    <2> QED BY <1>1, <2>1, <2>2 DEF AccountRow
  <1>3. /\ AccountsMade' /\ SomeAdmin'
        /\ \A b \in Accts : account[b].made => account'[b].made
    <2>1. \/ account'[a].enabled /\ account'[a].role = "admin"
          \/ ~(account[a].enabled /\ account[a].role = "admin")
      BY <1>2
    <2> QED BY <1>2, <2>1, OneChanges DEF AccountsInv
  <1>4. SignInsTell'
    BY <1>1, <1>2, SignedOutKeeps
  <1>5. LinksTell' /\ DOMAIN links \subseteq DOMAIN links'
    BY <1>2 DEF AccountsInv
  <1>6. AdministrationInv'
    BY <1>2, <1>3, <1>5, RestKept DEF AccountsInv
  <1> QED BY <1>4, <1>5, <1>6 DEF AccountsInv

LEMMA ChangeEnds ==
  ASSUME AccountsInv, NEW w \in work, People!FinishChange(w)
  PROVE  AccountsInv'
  <1>1. /\ w.op = "change" /\ work' \subseteq work
        /\ UNCHANGED <<secretOf, links, challenges, receipt, answered>>
    BY DEF People!FinishChange
  <1>2. CASE UNCHANGED <<account, browser>>
    BY <1>1, <1>2, WorkEnds
  <1>3. CASE /\ People!Authentic(w.via) /\ account[w.who].hash = w.old
             /\ People!SetPassword(w.who, w.hash)
    <2>1. /\ w.who \in Accts /\ w.hash \in Nat /\ w.hash \in DOMAIN secretOf
          /\ account[w.who].made
      BY <1>1, AccountFacts DEF Carries, LoginWork, CreateWork, ChangeWork, ResetWork
    <2>2. SecretsGrow
      BY <1>1, AccountFacts, SameSecrets
    <2>3. LinksTell /\ (\A b \in Accts :
            account'[b].verified = account[b].verified /\ account'[b].email = account[b].email)
            => LinksTell' /\ DOMAIN links \subseteq DOMAIN links'
      BY <1>1, LinksKept
    <2>4. w.hash \in DOMAIN secretOf'
      BY <1>1, <2>1
    <2> QED BY <1>1, <1>3, <2>1, <2>2, <2>3, <2>4, PasswordSets
  <1> QED BY <1>2, <1>3 DEF People!FinishChange

LEMMA PasswordRecovers ==
  ASSUME AccountsInv, NEW a \in Accts, NEW s \in Secrets, People!RecoverPassword(a, s)
  PROVE  AccountsInv'
  <1> DEFINE h == People!FreshHash
  <1>1. /\ account[a].made /\ People!Hash(s)
        /\ account' = [account EXCEPT ![a].hash = h, ![a].enabled = TRUE,
                                      ![a].rev = account[a].rev + 1]
        /\ browser' = People!SignedOut(a)
        /\ UNCHANGED <<links, challenges, work, receipt, answered>>
    BY DEF People!RecoverPassword, People!Revised
  <1>2. SecretsGrow /\ h \in DOMAIN secretOf' /\ h \in Nat
    BY <1>1, AccountFacts, HashGrows
  <1> HIDE DEF h
  <1>3. /\ account' \in [Accts -> AccountRow] /\ \A b \in Accts \ {a} : account'[b] = account[b]
        /\ account'[a].role = account[a].role /\ account'[a].enabled
        /\ account'[a].made = account[a].made /\ account'[a].hash = h
        /\ account'[a].verified = account[a].verified /\ account'[a].email = account[a].email
    <2>1. PICK new : new = [account[a] EXCEPT !.hash = h, !.enabled = TRUE,
                                              !.rev = account[a].rev + 1]
      OBVIOUS
    <2>2. account[a] \in AccountRow
      BY AccountFacts
    <2>3. /\ new.role = account[a].role /\ new.enabled /\ new.made = account[a].made
          /\ new.hash = h /\ new.verified = account[a].verified
          /\ new.email = account[a].email
      BY <2>1, <2>2 DEF AccountRow
    <2>4. new \in AccountRow
      <3>1. account[a].rev + 1 \in Nat
        BY <2>2 DEF AccountRow
      <3> QED BY <1>2, <2>1, <2>2, <3>1 DEF AccountRow
    <2>5. account' = [account EXCEPT ![a] = new]
      BY <1>1, <2>1, AccountFacts
    <2> QED BY <2>3, <2>4, <2>5, AccountFacts
  <1>4. /\ AccountsMade' /\ SomeAdmin'
        /\ \A b \in Accts : account[b].made => account'[b].made
    <2>1. \/ account'[a].enabled /\ account'[a].role = "admin"
          \/ ~(account[a].enabled /\ account[a].role = "admin")
      BY <1>3
    <2> QED BY <1>1, <1>2, <1>3, <2>1, OneChanges DEF AccountsInv
  <1>5. AdministrationInv'
    BY <1>1, <1>2, <1>3, <1>4, RestKept DEF AccountsInv
  <1>6. SignInsTell'
    BY <1>1, <1>3, SignedOutKeeps
  <1>7. LinksTell'
    BY <1>1, <1>3, LinksKept DEF AccountsInv
  <1> QED BY <1>5, <1>6, <1>7 DEF AccountsInv

\* A mail goes out to accounts whose verified address it does not change.
LEMMA MailGoes ==
  ASSUME AccountsInv, NEW kind \in {"verify", "reset"}, NEW as \in SUBSET Accts,
         NEW e \in Addresses \cup {NoOne}, People!Mail(kind, as, e),
         kind = "verify" => \A a \in as : ~account[a].verified,
         UNCHANGED <<account, secretOf, browser, challenges, work, receipt, answered>>
  PROVE  AccountsInv'
  <1>1. LinksTell' /\ DOMAIN links \subseteq DOMAIN links'
    BY AccountFacts, MailKeeps DEF AccountsInv
  <1>2. AdministrationInv'
    BY <1>1, AccountFacts, SameSecrets, SameAccounts DEF AccountsInv
  <1>3. SignInsTell'
    BY AccountFacts, SignInsKept DEF AccountsInv
  <1> QED BY <1>1, <1>2, <1>3 DEF AccountsInv

LEMMA EmailSets ==
  ASSUME AccountsInv, NEW i \in DOMAIN browser, NEW e \in Addresses, People!SetEmail(i, e)
  PROVE  AccountsInv'
  <1> DEFINE a == browser[i].who
  <1>1. /\ account' = [account EXCEPT ![a].email = e, ![a].verified = FALSE,
                                      ![a].rev = account[a].rev + 1]
        /\ People!Authentic(i) /\ People!Mail("verify", {a}, e)
        /\ UNCHANGED <<secretOf, browser, challenges, work, receipt, answered>>
    BY DEF People!SetEmail, People!Revised, People!Actor
  <1>2. a \in Accts /\ account[a].enabled
    BY <1>1, AccountFacts DEF People!Authentic
  <1> HIDE DEF a
  <1>3. /\ account' \in [Accts -> AccountRow] /\ \A b \in Accts \ {a} : account'[b] = account[b]
        /\ account'[a].role = account[a].role /\ account'[a].enabled = account[a].enabled
        /\ account'[a].made = account[a].made /\ account'[a].hash = account[a].hash
        /\ ~account'[a].verified
    <2>1. PICK new : new = [account[a] EXCEPT !.email = e, !.verified = FALSE,
                                              !.rev = account[a].rev + 1]
      OBVIOUS
    <2>2. account[a] \in AccountRow
      BY <1>2, AccountFacts
    <2>3. /\ new.role = account[a].role /\ new.enabled = account[a].enabled
          /\ new.made = account[a].made /\ new.hash = account[a].hash /\ ~new.verified
      BY <2>1, <2>2 DEF AccountRow
    <2>4. new \in AccountRow
      <3>1. account[a].rev + 1 \in Nat
        BY <2>2 DEF AccountRow
      <3> QED BY <2>1, <2>2, <3>1 DEF AccountRow
    <2>5. account' = [account EXCEPT ![a] = new]
      BY <1>1, <1>2, <2>1, AccountFacts
    <2> QED BY <1>2, <2>3, <2>4, <2>5, AccountFacts
  <1>4. SecretsGrow
    BY <1>1, AccountFacts, SameSecrets
  <1>5. /\ AccountsMade' /\ SomeAdmin'
        /\ \A b \in Accts : account[b].made => account'[b].made
    <2>1. account[a].made /\ account[a].hash \in DOMAIN secretOf'
      BY <1>1, <1>2 DEF AccountsInv, AdministrationInv, AccountsMade
    <2>2. \/ account'[a].enabled /\ account'[a].role = "admin"
          \/ ~(account[a].enabled /\ account[a].role = "admin")
      BY <1>3
    <2> QED BY <1>2, <1>3, <1>4, <2>1, <2>2, OneChanges DEF AccountsInv
  <1>6. LinksTell' /\ DOMAIN links \subseteq DOMAIN links'
    <2>1. {a} \in SUBSET Accts
      BY <1>2
    <2>2. \A b \in Accts : account'[b].verified =>
            /\ account[b].verified /\ account'[b].email = account[b].email
            /\ b \notin {a}
      BY <1>3
    <2> QED BY <1>1, <2>1, <2>2, AccountFacts, MailKeeps DEF AccountsInv
  <1>7. AdministrationInv'
    BY <1>1, <1>3, <1>4, <1>5, <1>6, RestKept DEF AccountsInv
  <1>8. SignInsTell'
    BY <1>1, <1>3, AccountFacts, SignInsKept DEF AccountsInv
  <1> QED BY <1>6, <1>7, <1>8 DEF AccountsInv

LEMMA VerificationMailed ==
  ASSUME AccountsInv, NEW i \in DOMAIN browser, People!ResendVerification(i)
  PROVE  AccountsInv'
  <1> DEFINE a == browser[i].who
             e == account[a].email
  <1>1. /\ ~account[a].verified /\ People!Mail("verify", {a}, e)
        /\ UNCHANGED <<account, secretOf, browser, challenges, work, receipt, answered>>
    BY DEF People!ResendVerification, People!Actor
  <1>2. a \in Accts /\ e \in Addresses \cup {NoOne}
    BY AccountFacts DEF AccountRow
  <1> HIDE DEF a, e
  <1>3. {a} \in SUBSET Accts /\ \A b \in {a} : ~account[b].verified
    BY <1>1, <1>2
  <1> QED BY <1>1, <1>2, <1>3, MailGoes

\* Links are spent or run out: what was usable is used or void.
LEMMA SpentLinks ==
  ASSUME AccountsInv, NEW l \in DOMAIN links, links' = People!Spent(l)
  PROVE  /\ links' = [k \in DOMAIN links |-> links'[k]] /\ DOMAIN links' = DOMAIN links
         /\ \A k \in DOMAIN links :
              /\ links'[k] \in LinkRow
              /\ links'[k].who = links[k].who /\ links'[k].kind = links[k].kind
              /\ links'[k].email = links[k].email
              /\ links'[k].state = "usable" => links[k].state = "usable"
              /\ links[k].state = "used" => links'[k].state = "used"
         /\ links'[l].state = "used"
  <1>1. \A k \in DOMAIN links : links[k] \in LinkRow
    BY AccountFacts
  <1>2. \A k \in DOMAIN links :
          links'[k] \in {links[k], [links[k] EXCEPT !.state = "used"]}
          \/ (links'[k] = [links[k] EXCEPT !.state = "void"] /\ links[k].state = "usable")
    BY DEF People!Spent
  <1>3. links'[l] = [links[l] EXCEPT !.state = "used"]
    BY DEF People!Spent
  <1>4. links' = [k \in DOMAIN links |-> links'[k]] /\ DOMAIN links' = DOMAIN links
    BY DEF People!Spent
  <1>5. \A k \in DOMAIN links :
          /\ links'[k] \in LinkRow
          /\ links'[k].who = links[k].who /\ links'[k].kind = links[k].kind
          /\ links'[k].email = links[k].email
          /\ links'[k].state = "usable" => links[k].state = "usable"
          /\ links[k].state = "used" => links'[k].state = "used"
    <2> SUFFICES ASSUME NEW k \in DOMAIN links
                 PROVE  /\ links'[k] \in LinkRow
                        /\ links'[k].who = links[k].who /\ links'[k].kind = links[k].kind
                        /\ links'[k].email = links[k].email
                        /\ links'[k].state = "usable" => links[k].state = "usable"
                        /\ links[k].state = "used" => links'[k].state = "used"
      OBVIOUS
    <2>1. CASE links'[k] = links[k]
      BY <1>1, <2>1
    <2>2. CASE links'[k] = [links[k] EXCEPT !.state = "used"]
      BY <1>1, <2>2 DEF LinkRow
    <2>3. CASE links'[k] = [links[k] EXCEPT !.state = "void"] /\ links[k].state = "usable"
      BY <1>1, <2>3 DEF LinkRow
    <2> QED BY <1>2, <2>1, <2>2, <2>3
  <1>6. links'[l].state = "used"
    BY <1>1, <1>3 DEF LinkRow
  <1> QED BY <1>4, <1>5, <1>6

LEMMA VerificationUsed ==
  ASSUME AccountsInv, NEW l \in DOMAIN links, People!ConsumeVerification(l)
  PROVE  AccountsInv'
  <1> DEFINE a == links[l].who
  <1>1. /\ People!UsableVerification(l) /\ links' = People!Spent(l)
        /\ account' = [account EXCEPT ![a].verified = TRUE, ![a].rev = account[a].rev + 1]
        /\ UNCHANGED <<secretOf, browser, challenges, work, receipt, answered>>
    BY DEF People!ConsumeVerification, People!Revised
  <1>2. /\ a \in Accts /\ account[a].enabled /\ account[a].email = links[l].email
        /\ links[l].kind = "verify" /\ links[l].state = "usable"
    BY <1>1, AccountFacts DEF People!UsableVerification, People!Usable
  <1>3. Newest(l)
    BY <1>2 DEF AccountsInv, LinksTell
  <1>4. links[l].who = a
    OBVIOUS
  <1> HIDE DEF a
  <1>5. /\ account' \in [Accts -> AccountRow] /\ \A b \in Accts \ {a} : account'[b] = account[b]
        /\ account'[a].role = account[a].role /\ account'[a].enabled = account[a].enabled
        /\ account'[a].made = account[a].made /\ account'[a].hash = account[a].hash
        /\ account'[a].email = account[a].email
    <2>1. PICK new : new = [account[a] EXCEPT !.verified = TRUE, !.rev = account[a].rev + 1]
      OBVIOUS
    <2>2. account[a] \in AccountRow
      BY <1>2, AccountFacts
    <2>3. /\ new \in AccountRow /\ new.role = account[a].role
          /\ new.enabled = account[a].enabled /\ new.made = account[a].made
          /\ new.hash = account[a].hash /\ new.email = account[a].email
      BY <2>1, <2>2, RowProved
    <2>4. account' = [account EXCEPT ![a] = new]
      BY <1>1, <1>2, <2>1, AccountFacts
    <2> QED BY <1>2, <2>3, <2>4, AccountFacts
  <1>6. SecretsGrow
    BY <1>1, AccountFacts, SameSecrets
  <1>7. /\ AccountsMade' /\ SomeAdmin'
        /\ \A b \in Accts : account[b].made => account'[b].made
    <2>1. account[a].made /\ account[a].hash \in DOMAIN secretOf'
      BY <1>1, <1>2 DEF AccountsInv, AdministrationInv, AccountsMade
    <2>2. \/ account'[a].enabled /\ account'[a].role = "admin"
          \/ ~(account[a].enabled /\ account[a].role = "admin")
      BY <1>5
    <2> QED BY <1>2, <1>5, <1>6, <2>1, <2>2, OneChanges DEF AccountsInv
  <1>8. /\ links' = [k \in DOMAIN links |-> links'[k]] /\ DOMAIN links' = DOMAIN links
        /\ \A k \in DOMAIN links :
             /\ links'[k] \in LinkRow
             /\ links'[k].who = links[k].who /\ links'[k].kind = links[k].kind
             /\ links'[k].email = links[k].email
             /\ links'[k].state = "usable" => links[k].state = "usable"
             /\ links[k].state = "used" => links'[k].state = "used"
        /\ links'[l].state = "used"
    BY <1>1, SpentLinks
  <1>9. \A b \in Accts : account'[b].verified =>
          \/ account[b].verified /\ account'[b].email = account[b].email
          \/ \E k \in DOMAIN links :
               /\ links[k].who = b /\ links[k].kind = "verify" /\ Newest(k)
               /\ links'[k].state = "used" /\ links[k].email = account'[b].email
    BY <1>2, <1>3, <1>4, <1>5, <1>8
  <1>10. LinksTell'
    BY <1>8, <1>9, LinksMove DEF AccountsInv
  <1>11. AdministrationInv'
    BY <1>1, <1>5, <1>6, <1>7, <1>8, RestKept DEF AccountsInv
  <1>12. SignInsTell'
    BY <1>1, <1>5, AccountFacts, SignInsKept DEF AccountsInv
  <1> QED BY <1>10, <1>11, <1>12 DEF AccountsInv

LEMMA ResetRequested ==
  ASSUME AccountsInv, NEW e \in Addresses, NEW as \in SUBSET Accts, People!RequestReset(e, as)
  PROVE  AccountsInv'
  BY MailGoes DEF People!RequestReset

LEMMA ResetBegins ==
  ASSUME AccountsInv, NEW l \in DOMAIN links, NEW s \in Secrets, People!BeginReset(l, s)
  PROVE  AccountsInv'
  <1>0. PICK w : w = [op |-> "reset", link |-> l, hash |-> People!FreshHash]
    OBVIOUS
  <1>1. /\ People!Hash(s) /\ work' = work \cup {w}
        /\ UNCHANGED <<account, browser, links, challenges, receipt, answered>>
    BY <1>0 DEF People!BeginReset, People!Off
  <1>2. SecretsGrow /\ People!FreshHash \in DOMAIN secretOf' /\ People!FreshHash \in Nat
    BY <1>1, AccountFacts, HashGrows
  <1>3. l \in Nat
    BY AccountFacts
  <1>4. w \in ResetWork /\ w.op = "reset" /\ w.hash = People!FreshHash /\ w.link = l
    BY <1>0, <1>2, <1>3 DEF ResetWork
  <1>5. Carries(w)'
    BY <1>1, <1>2, <1>4 DEF Carries
  <1> QED BY <1>1, <1>2, <1>5, WorkBegins

LEMMA ResetEnds ==
  ASSUME AccountsInv, NEW w \in work, People!FinishReset(w)
  PROVE  AccountsInv'
  <1>1. /\ w.op = "reset" /\ work' \subseteq work
        /\ UNCHANGED <<secretOf, challenges, receipt, answered>>
    BY DEF People!FinishReset
  <1>2. CASE UNCHANGED <<account, browser, links>>
    BY <1>1, <1>2, WorkEnds
  <1>3. CASE /\ People!UsableReset(w.link) /\ links' = People!Spent(w.link)
             /\ People!SetPassword(links[w.link].who, w.hash)
    <2> DEFINE a == links[w.link].who
    <2>1. w.hash \in Nat /\ w.hash \in DOMAIN secretOf /\ w.link \in DOMAIN links
      BY <1>1, AccountFacts DEF Carries, LoginWork, CreateWork, ChangeWork, ResetWork
    <2>2. a \in Accts /\ account[a].enabled
      BY <1>3, <2>1, AccountFacts DEF People!UsableReset, People!Usable
    <2>3. account[a].made
      BY <2>2 DEF AccountsInv, AdministrationInv, AccountsMade
    <2>4. SecretsGrow /\ w.hash \in DOMAIN secretOf'
      BY <1>1, <2>1, AccountFacts, SameSecrets
    <2>5. ASSUME \A b \in Accts :
            account'[b].verified = account[b].verified /\ account'[b].email = account[b].email
          PROVE  LinksTell' /\ DOMAIN links \subseteq DOMAIN links'
      <3>1. /\ links' = [k \in DOMAIN links |-> links'[k]] /\ DOMAIN links' = DOMAIN links
            /\ \A k \in DOMAIN links :
                 /\ links'[k] \in LinkRow
                 /\ links'[k].who = links[k].who /\ links'[k].kind = links[k].kind
                 /\ links'[k].email = links[k].email
                 /\ links'[k].state = "usable" => links[k].state = "usable"
                 /\ links[k].state = "used" => links'[k].state = "used"
        BY <1>3, <2>1, SpentLinks
      <3> QED BY <2>5, <3>1, LinksMove DEF AccountsInv
    <2> HIDE DEF a
    <2>6. People!SetPassword(a, w.hash)
      BY <1>3 DEF a
    <2> QED BY <1>1, <2>1, <2>2, <2>3, <2>4, <2>5, <2>6, PasswordSets
  <1> QED BY <1>2, <1>3 DEF People!FinishReset

LEMMA LinkEnds ==
  ASSUME AccountsInv, NEW l \in DOMAIN links, People!LinkExpires(l)
  PROVE  AccountsInv'
  <1>1. /\ links[l].state = "usable" /\ links' = [links EXCEPT ![l].state = "void"]
        /\ UNCHANGED <<account, secretOf, browser, challenges, work, receipt, answered>>
    BY DEF People!LinkExpires
  <1>2. /\ links' = [k \in DOMAIN links |-> links'[k]] /\ DOMAIN links' = DOMAIN links
        /\ \A k \in DOMAIN links :
             links'[k] = IF k = l THEN [links[k] EXCEPT !.state = "void"] ELSE links[k]
    BY <1>1, AccountFacts
  <1>3. \A k \in DOMAIN links : links[k] \in LinkRow
    BY AccountFacts
  <1>4. \A k \in DOMAIN links :
          /\ links'[k] \in LinkRow
          /\ links'[k].who = links[k].who /\ links'[k].kind = links[k].kind
          /\ links'[k].email = links[k].email
          /\ links'[k].state = "usable" => links[k].state = "usable"
          /\ links[k].state = "used" => links'[k].state = "used"
    BY <1>1, <1>2, <1>3 DEF LinkRow
  <1>5. LinksTell'
    BY <1>1, <1>2, <1>4, LinksMove DEF AccountsInv
  <1>6. AdministrationInv' /\ SignInsTell'
    BY <1>1, <1>2, AccountFacts, SameSecrets, SameAccounts, SignInsKept DEF AccountsInv
  <1> QED BY <1>5, <1>6 DEF AccountsInv

\* A challenge is made or taken: what was taken stays taken.
LEMMA ChallengesMove ==
  ASSUME AccountsInv, challenges' \in Seq(ChallengeRow),
         DOMAIN challenges \subseteq DOMAIN challenges',
         \A c \in DOMAIN challenges : ~challenges[c].open => ~challenges'[c].open,
         UNCHANGED <<account, secretOf, browser, links, work, receipt, answered>>
  PROVE  AccountsInv'
  <1> DEFINE none == {}
  <1>1. browser' = [i \in DOMAIN browser |->
           IF i \in none THEN [browser[i] EXCEPT !.live = FALSE] ELSE browser[i]]
    BY AccountFacts
  <1> HIDE DEF none
  <1>2. SignInsTell'
    BY <1>1, AccountFacts, SignOff DEF AccountsInv
  <1>3. AdministrationInv' /\ LinksTell'
    BY AccountFacts, SameSecrets, SameAccounts, LinksKept DEF AccountsInv
  <1> QED BY <1>2, <1>3 DEF AccountsInv

LEMMA CeremonyBegins ==
  ASSUME AccountsInv, NEW purpose \in {"register", "sign_in"}, NEW a \in Accts \cup {NoOne},
         People!BeginCeremony(purpose, a)
  PROVE  AccountsInv'
  <1> DEFINE entry == [purpose |-> purpose, who |-> a, open |-> TRUE]
  <1>1. /\ challenges' = Append(challenges, entry)
        /\ UNCHANGED <<account, secretOf, browser, links, work, receipt, answered>>
    BY DEF People!BeginCeremony
  <1>2. challenges \in Seq(ChallengeRow) /\ entry \in ChallengeRow
    BY AccountFacts DEF ChallengeRow
  <1> HIDE DEF entry
  <1>3. /\ challenges' \in Seq(ChallengeRow) /\ Len(challenges') = Len(challenges) + 1
        /\ \A c \in 1 .. Len(challenges) : challenges'[c] = challenges[c]
    BY <1>1, <1>2, AppendProperties
  <1>4. DOMAIN challenges = 1 .. Len(challenges) /\ DOMAIN challenges' = 1 .. Len(challenges) + 1
        /\ Len(challenges) \in Nat
    BY <1>2, <1>3
  <1>5. DOMAIN challenges \subseteq DOMAIN challenges'
    BY <1>4
  <1> QED BY <1>1, <1>3, <1>4, <1>5, ChallengesMove

LEMMA ChallengeTaken ==
  ASSUME AccountsInv, NEW c \in DOMAIN challenges, NEW purpose, People!TakeChallenge(c, purpose)
  PROVE  /\ challenges' \in Seq(ChallengeRow) /\ DOMAIN challenges' = DOMAIN challenges
         /\ \A d \in DOMAIN challenges : ~challenges[d].open => ~challenges'[d].open
         /\ challenges[c].open /\ ~challenges'[c].open
  <1>1. challenges[c].open /\ challenges' = [challenges EXCEPT ![c].open = FALSE]
    BY DEF People!TakeChallenge
  <1>2. /\ challenges \in Seq(ChallengeRow) /\ DOMAIN challenges = 1 .. Len(challenges)
        /\ Len(challenges) \in Nat
        /\ \A d \in DOMAIN challenges : challenges[d] \in ChallengeRow
    BY AccountFacts
  <1>3. \A d \in DOMAIN challenges :
          challenges'[d] = IF d = c THEN [challenges[d] EXCEPT !.open = FALSE] ELSE challenges[d]
    BY <1>1
  <1>4. \A d \in DOMAIN challenges :
          /\ challenges'[d] \in ChallengeRow
          /\ ~challenges[d].open => ~challenges'[d].open
    BY <1>2, <1>3 DEF ChallengeRow
  <1>5. ~challenges'[c].open
    BY <1>2, <1>3 DEF ChallengeRow
  <1>6. challenges' \in [1 .. Len(challenges) -> ChallengeRow]
    BY <1>1, <1>2, <1>4
  <1>7. challenges' \in Seq(ChallengeRow)
    BY <1>2, <1>6
  <1> QED BY <1>1, <1>2, <1>4, <1>5, <1>6, <1>7

LEMMA PasskeyRegistered ==
  ASSUME AccountsInv, NEW i, NEW c \in DOMAIN challenges, NEW n, People!RegisterPasskey(i, c, n)
  PROVE  AccountsInv'
  BY ChallengeTaken, ChallengesMove DEF People!RegisterPasskey

LEMMA PasskeySignsIn ==
  ASSUME AccountsInv, NEW c \in DOMAIN challenges, NEW a \in Accts, NEW n,
         People!PasskeySignIn(c, a, n)
  PROVE  AccountsInv'
  <1>1. /\ People!TakeChallenge(c, "sign_in")
        /\ UNCHANGED <<account, secretOf, links, work, receipt, answered>>
    BY DEF People!PasskeySignIn
  <1>2. /\ challenges' \in Seq(ChallengeRow) /\ DOMAIN challenges' = DOMAIN challenges
        /\ \A d \in DOMAIN challenges : ~challenges[d].open => ~challenges'[d].open
        /\ challenges[c].open /\ ~challenges'[c].open
    BY <1>1, ChallengeTaken
  <1>3. CASE UNCHANGED browser
    BY <1>1, <1>2, <1>3, ChallengesMove
  <1>4. CASE People!Asserted(a, n) /\ People!IssueSession(a, account[a].hash, c)
    <2>1. account[a].enabled
      BY <1>4 DEF People!Asserted
    <2>2. PICK h : h = account[a].hash
      OBVIOUS
    <2>3. People!IssueSession(a, h, c)
      BY <1>4, <2>2
    <2>4. SignInsTell'
      BY <1>1, <1>2, <2>1, <2>2, <2>3, AccountFacts, SignIn DEF AccountsInv
    <2>5. AdministrationInv' /\ LinksTell'
      BY <1>1, AccountFacts, SameSecrets, SameAccounts, LinksKept DEF AccountsInv
    <2> QED BY <2>4, <2>5 DEF AccountsInv
  <1> QED BY <1>3, <1>4 DEF People!PasskeySignIn

LEMMA AccountsStep == AccountsInv /\ People!AccountsNext => AccountsInv'
  <1> SUFFICES ASSUME AccountsInv, People!AccountsNext PROVE AccountsInv'
    OBVIOUS
  <1> USE AccountSets DEF People!Sessions
  <1>1. CASE People!SignInNext
    <2>1. CASE \E a \in People!People : People!BeginLogin(a)
      BY <2>1, LoginBegins
    <2>2. CASE \E w \in work : People!FinishLogin(w) \/ People!FinishChange(w)
      BY <2>2, LoginEnds, ChangeEnds
    <2>3. CASE \E i, j \in DOMAIN browser : People!RevokeSession(i, j)
      BY <2>3, SessionEnds DEF People!RevokeSession
    <2>4. CASE \E i \in DOMAIN browser : People!SessionExpires(i)
      BY <2>4, SessionEnds DEF People!SessionExpires
    <2>5. CASE \E i \in DOMAIN browser, s \in Secrets : People!BeginChange(i, s)
      BY <2>5, ChangeBegins
    <2>6. CASE \E a \in People!People, s \in Secrets : People!RecoverPassword(a, s)
      BY <2>6, PasswordRecovers
    <2> QED BY <1>1, <2>1, <2>2, <2>3, <2>4, <2>5, <2>6 DEF People!SignInNext
  <1>2. CASE People!AdministrationNext
    <2>1. CASE \E i \in DOMAIN browser, a \in Others, s \in Secrets : People!BeginCreate(i, a, s)
      BY <2>1, CreateBegins
    <2>2. CASE \E i \in DOMAIN browser, a \in People!People, role \in People!Roles,
                  enabled \in BOOLEAN : People!UpdateAccess(i, a, role, enabled)
      BY <2>2, AccessChanges DEF People!Roles
    <2>3. CASE \E w \in work : People!CreateRaced(w) \/ People!CreateReplayed(w)
      BY <2>3, CreateRaces, CreateReplays
    <2>4. CASE \E w \in work : People!CreateRefused(w)
      BY <2>4, WorkEnds DEF People!CreateRefused
    <2>5. CASE \E w \in work, role \in People!Roles, e \in Addresses :
                  People!CreateOperator(w, role, e)
      BY <2>5, CreateMakes DEF People!Roles
    <2> QED BY <1>2, <2>1, <2>2, <2>3, <2>4, <2>5 DEF People!AdministrationNext
  <1>3. CASE People!MailNext
    <2>1. CASE \E i \in DOMAIN browser : People!ResendVerification(i)
      BY <2>1, VerificationMailed
    <2>2. CASE \E i \in DOMAIN browser, e \in Addresses : People!SetEmail(i, e)
      BY <2>2, EmailSets
    <2>3. CASE \E l \in DOMAIN links : People!ConsumeVerification(l) \/ People!LinkExpires(l)
      BY <2>3, VerificationUsed, LinkEnds
    <2>4. CASE \E l \in DOMAIN links, s \in Secrets : People!BeginReset(l, s)
      BY <2>4, ResetBegins
    <2>5. CASE \E e \in Addresses, as \in SUBSET People!People : People!RequestReset(e, as)
      BY <2>5, ResetRequested
    <2>6. CASE \E w \in work : People!FinishReset(w)
      BY <2>6, ResetEnds
    <2> QED BY <1>3, <2>1, <2>2, <2>3, <2>4, <2>5, <2>6 DEF People!MailNext
  <1>4. CASE People!PasskeyNext
    <2>1. CASE \E i \in DOMAIN browser : People!RegistrationOptions(i)
      BY <2>1, AccountFacts, CeremonyBegins DEF People!RegistrationOptions, People!Actor
    <2>2. CASE \E i \in DOMAIN browser : People!DeletePasskey(i)
      BY <2>2, WorkEnds DEF People!DeletePasskey
    <2>3. CASE \E i \in DOMAIN browser, c \in DOMAIN challenges, n \in Counts :
                 People!RegisterPasskey(i, c, n)
      BY <2>3, PasskeyRegistered
    <2>4. CASE People!SignInOptions
      BY <2>4, CeremonyBegins DEF People!SignInOptions
    <2>5. CASE \E c \in DOMAIN challenges, a \in People!People, n \in Counts :
                 People!PasskeySignIn(c, a, n)
      BY <2>5, PasskeySignsIn
    <2> QED BY <1>4, <2>1, <2>2, <2>3, <2>4, <2>5 DEF People!PasskeyNext
  <1> QED BY <1>1, <1>2, <1>3, <1>4 DEF People!AccountsNext

LEMMA AccountsStart == People!AccountsInit => AccountsInv
  <1> SUFFICES ASSUME People!AccountsInit PROVE AccountsInv
    OBVIOUS
  <1>1. /\ account = [a \in Accts |->
              IF a = Root THEN [People!Blank EXCEPT !.made = TRUE, !.role = "admin",
                                  !.enabled = TRUE, !.hash = 1, !.rev = 1]
              ELSE People!Blank]
        /\ browser = <<>> /\ links = <<>> /\ challenges = <<>>
        /\ work = {} /\ receipt = NoOne /\ answered = {}
    BY AccountSets DEF People!AccountsInit
  <1>2. PICK s \in Secrets : secretOf = <<s>>
    BY DEF People!AccountsInit
  <1>3. secretOf \in Seq(Secrets) /\ 1 \in DOMAIN secretOf
    BY <1>2
  <1>4. /\ account \in [Accts -> AccountRow]
        /\ \A a \in Accts : /\ account[a].enabled => account[a].made
                            /\ account[a].made => account[a].hash = 1
                            /\ ~account[a].verified
        /\ account[Root].enabled /\ account[Root].role = "admin"
    BY <1>1 DEF People!Blank, AccountRow, Accts
  <1>5. Root \in Accts
    BY DEF Accts
  <1>6. AdministrationInv
    BY <1>1, <1>3, <1>4, <1>5 DEF AdministrationInv, AccountTypes, AccountsMade, WorkTells, SomeAdmin,
       OneAnswer
  <1>7. SignInsTell
    <2>1. \A a \in Accts : Live(a) = {}
      BY <1>1 DEF Live
    <2>2. browser \in Seq(BrowserRow) /\ challenges \in Seq(ChallengeRow) /\ DOMAIN browser = {}
      BY <1>1
    <2>3. \A a \in Accts : Cardinality(Live(a)) <= MaxLive
      BY <2>1, FS_EmptySet, AccountsAssumption
    <2> QED BY <2>2, <2>3 DEF SignInsTell
  <1>8. LinksTell
    BY <1>1, <1>4 DEF LinksTell
  <1> QED BY <1>6, <1>7, <1>8 DEF AccountsInv

\* A set all of whose elements are the same has at most one.
LEMMA AtMostOne ==
  ASSUME NEW S, \A x, y \in S : x = y
  PROVE  Cardinality(S) <= 1
  <1>1. CASE S = {}
    <2>1. Cardinality(S) = 0
      BY <1>1, FS_EmptySet, Zenon
    <2> QED BY <2>1
  <1>2. CASE S # {}
    <2>1. PICK x \in S : TRUE
      BY <1>2
    <2>2. S = {x}
      BY <2>1
    <2>3. Cardinality({x}) = 1
      BY FS_Singleton, Zenon
    <2> QED BY <2>2, <2>3
  <1> QED BY <1>1, <1>2

\* A browser session that works rests on the account's present password; there is
\* always an administrator, and a creation key answers for one password; one working
\* link of a kind, and a verified address that was proved, through any number of
\* requests, retries, sign-ins and mails (auth.rs, passkey.rs, operator_access.rs,
\* account_email.rs, password_reset.rs).
THEOREM AccountsAreSound == Spec => []AccountsSound
  <1>1. Init => AccountsInv
    BY AccountsStart DEF Init
  <1>2. AccountsInv /\ [Next]_all => AccountsInv'
    <2> SUFFICES ASSUME AccountsInv, [Next]_all PROVE AccountsInv'
      OBVIOUS
    <2>1. CASE People!AccountsNext
      BY <2>1, AccountsStep
    <2>2. CASE UNCHANGED accountVars
      BY <2>2, WorkEnds DEF accountVars
    <2> QED BY <2>1, <2>2 DEF Next, AccountsPart, People!AccountsNext, all
  <1>3. AccountsInv => AccountsSound
    <2> SUFFICES ASSUME AccountsInv PROVE AccountsSound
      OBVIOUS
    <2>1. People!SessionsAreCurrent
      BY AccountSets DEF People!SessionsAreCurrent, People!Sessions, AccountsInv, SignInsTell
    <2>2. People!AdministrationSafe
      <3>1. People!Admins # {}
        BY AccountSets DEF People!Admins, AccountsInv, AdministrationInv, SomeAdmin
      <3>2. \A x, y \in answered : x = y
        BY DEF AccountsInv, AdministrationInv, OneAnswer
      <3> QED BY <3>1, <3>2, AtMostOne, AccountSets DEF People!AdministrationSafe
    <2>3. People!LinksAreCurrent
      <3>1. ASSUME NEW a \in Accts, NEW kind \in {"verify", "reset"}
            PROVE  Cardinality({l \in DOMAIN links : /\ links[l].who = a
                     /\ links[l].kind = kind /\ links[l].state = "usable"}) <= 1
        <4> DEFINE usable == {l \in DOMAIN links : /\ links[l].who = a
                               /\ links[l].kind = kind /\ links[l].state = "usable"}
        <4>1. \A k, l \in usable : k <= l /\ l <= k
          BY DEF AccountsInv, LinksTell, Newest
        <4>2. \A k \in usable : k \in Nat
          BY AccountFacts
        <4>3. \A k, l \in usable : k = l
          BY <4>1, <4>2
        <4> HIDE DEF usable
        <4>4. Cardinality(usable) <= 1
          BY <4>3, AtMostOne
        <4> QED BY <4>4 DEF usable
      <3>2. ASSUME NEW a \in Accts, account[a].verified
            PROVE  LET sent == {l \in DOMAIN links : links[l].who = a /\ links[l].kind = "verify"}
                   IN \E l \in sent : /\ \A k \in sent : k <= l
                                      /\ links[l].state = "used"
                                      /\ links[l].email = account[a].email
        BY <3>2 DEF AccountsInv, LinksTell, Newest
      <3> QED BY <3>1, <3>2, AccountSets DEF People!LinksAreCurrent
    <2> QED BY <2>1, <2>2, <2>3 DEF AccountsSound
  <1> QED BY <1>1, <1>2, <1>3, PTL DEF Spec

---------------------------------------------------------------------------
(* The plan: budget, graph, frozen scope and imports.                       *)

PreviewRow == [item : Plan!Items, prior : Nat, fresh : BOOLEAN, applied : BOOLEAN]

RecordRow == [task : Tasks, revision : Nat, at : Nat, closed : BOOLEAN]

PlanTypes ==
  /\ week \in 1 .. MaxWeek
  /\ rows \in [Tasks -> Plan!Row \cup {Nil}]
  /\ needs \subseteq Tasks \X Tasks /\ members \subseteq Plan!Member
  /\ records \in [Identities -> RecordRow \cup {Nil}]
  /\ previews \in [Previews -> PreviewRow \cup {Nil}]
  /\ hold \in [Tasks -> {"never", "held", "released"}]
  /\ writer \in [Tasks -> {"service", "import", "overwritten"}]

\* The work agents opened in a week.
Opened(rs, w) == {t \in Tasks : rs[t] # Nil /\ rs[t].admitted = w}

WithinBudget == \A w \in 1 .. MaxWeek : Cardinality(Opened(rows, w)) <= Budget

\* A task the budget holds is in the queue, where only a human takes it out, or canceled.
HoldTells ==
  \A t \in Tasks :
    /\ rows[t] = Nil => hold[t] = "never"
    /\ hold[t] = "held" => /\ rows[t] # Nil
                           /\ \/ rows[t].life = "canceled"
                              \/ rows[t].life = "planned" /\ rows[t].held

\* No task follows one that waits for it.
Acyclic(ns, ms) ==
  \A t, u \in Tasks : Plan!Follows(ns, ms, t, u) => ~Plan!ReachesIn(ns, ms, u, t)

OneParent == \A r, s \in members : r.child = s.child => r = s

MembersExist == \A r \in members : rows[r.objective] # Nil /\ rows[r.child] # Nil

\* The task of a checklist item is as the import left it exactly while the import
\* was the last to write it; a later edit shows in its revision, work in its stage.
RecordTells(i) ==
  LET t == records[i].task
  IN /\ rows[t] # Nil /\ hold[t] # "held"
     /\ records[i].at <= rows[t].revision
     /\ writer[t] = "import" =>
          /\ Plan!ImportManaged(t, records[i].at)
          /\ records[i].closed => rows[t].life = "done"
     /\ writer[t] # "import" =>
          records[i].at < rows[t].revision \/ rows[t].work # "none"

RecordsTell ==
  /\ \A t \in Tasks : writer[t] # "overwritten"
  /\ \A i \in Identities : records[i] # Nil => RecordTells(i)
  /\ \A i, j \in Identities :
       records[i] # Nil /\ records[j] # Nil /\ i # j => records[i].task # records[j].task

PlanInv ==
  /\ PlanTypes /\ WithinBudget /\ HoldTells
  /\ Acyclic(needs, members) /\ OneParent
  /\ MembersExist /\ Plan!FrozenScopeIsDone
  /\ RecordsTell

LEMMA OpenedInWeek == \A w : Plan!AdmittedInWeek(w) = Cardinality(Opened(rows, w))
  BY DEF Plan!AdmittedInWeek, Plan!Exists, Opened, Plan!Cardinality, Cardinality

---------------------------------------------------------------------------
(* The graph.                                                               *)

\* A task that is given new followers, none of which waits for it, closes no cycle;
\* edges may go away anywhere.  U gathers what is closed without the task: it is
\* closed after the change, and holds the new followers.
LEMMA GraphStaysAcyclic ==
  ASSUME NEW ns, NEW ms, NEW ns2, NEW ms2, NEW t \in Tasks, NEW ds \in SUBSET Tasks,
         Acyclic(ns, ms),
         \A x \in Tasks \ {t}, y \in Tasks :
            Plan!Follows(ns2, ms2, x, y) => Plan!Follows(ns, ms, x, y),
         \A y \in Tasks :
            Plan!Follows(ns2, ms2, t, y) => Plan!Follows(ns, ms, t, y) \/ y \in ds,
         \A d \in ds : ~Plan!ReachesIn(ns, ms, d, t)
  PROVE  Acyclic(ns2, ms2)
  <1> DEFINE Before(S) == S \in SUBSET Tasks /\ Plan!ClosedIn(ns, ms, S)
             After(S) == S \in SUBSET Tasks /\ Plan!ClosedIn(ns2, ms2, S)
             U == {u \in Tasks : \E V \in SUBSET Tasks : Before(V) /\ t \notin V /\ u \in V}
  <1>1. ASSUME NEW x, NEW y, ~Plan!ReachesIn(ns, ms, x, y)
        PROVE  \E S : Before(S) /\ x \in S /\ y \notin S
    BY <1>1 DEF Plan!ReachesIn
  <1>2. \A S, x, y : After(S) /\ x \in S /\ y \notin S => ~Plan!ReachesIn(ns2, ms2, x, y)
    BY DEF Plan!ReachesIn
  <1>3. ASSUME NEW S, Before(S), t \notin S
        PROVE  After(S)
    BY <1>3 DEF Plan!ClosedIn
  <1>4. Before(U) /\ t \notin U /\ ds \subseteq U
    <2>1. ASSUME NEW u \in U, NEW y \in Tasks, Plan!Follows(ns, ms, u, y)
          PROVE  y \in U
      <3>1. PICK V \in SUBSET Tasks : Before(V) /\ t \notin V /\ u \in V
        BY DEF U
      <3>2. y \in V
        BY <2>1, <3>1 DEF Plan!ClosedIn
      <3> QED BY <3>1, <3>2
    <2>2. ASSUME NEW d \in ds PROVE d \in U
      <3>1. PICK V : Before(V) /\ d \in V /\ t \notin V
        BY <1>1
      <3> QED BY <3>1
    <2>3. U \in SUBSET Tasks /\ t \notin U
      OBVIOUS
    <2> HIDE DEF U
    <2> QED BY <2>1, <2>2, <2>3 DEF Plan!ClosedIn
  <1>5. After(U)
    BY <1>3, <1>4
  <1> HIDE DEF U
  <1>6. ASSUME NEW x \in Tasks, NEW y \in Tasks, Plan!Follows(ns2, ms2, x, y)
        PROVE  \E S : After(S) /\ y \in S /\ x \notin S
    <2>1. CASE y \in U /\ x \notin U
      BY <1>5, <2>1
    <2>2. CASE x \in U
      <3>1. Plan!Follows(ns, ms, x, y) /\ y \in U
        BY <1>4, <1>5, <1>6, <2>2 DEF Plan!ClosedIn
      <3>2. PICK S : Before(S) /\ y \in S /\ x \notin S
        BY <1>1, <3>1 DEF Acyclic
      <3>3. Before(S \cap U) /\ t \notin S \cap U
        BY <1>4, <3>2 DEF Plan!ClosedIn
      <3>4. After(S \cap U)
        BY <1>3, <3>3
      <3> QED BY <3>1, <3>2, <3>4
    <2>3. CASE x \notin U /\ y \notin U
      <3>1. Plan!Follows(ns, ms, x, y)
        BY <1>4, <1>6, <2>3
      <3>2. PICK S : Before(S) /\ y \in S /\ x \notin S
        BY <1>1, <3>1 DEF Acyclic
      <3>3. After(S \cup U)
        <4>1. ASSUME NEW u \in S \cup U, NEW v \in Tasks, Plan!Follows(ns2, ms2, u, v)
              PROVE  v \in S \cup U
          <5>1. CASE u \in U
            BY <1>5, <4>1, <5>1 DEF Plan!ClosedIn
          <5>2. CASE u \in S /\ Plan!Follows(ns, ms, u, v)
            BY <3>2, <4>1, <5>2 DEF Plan!ClosedIn
          <5>3. CASE u \in S /\ ~Plan!Follows(ns, ms, u, v)
            <6>1. u = t /\ v \in ds
              BY <3>2, <4>1, <5>3
            <6> QED BY <1>4, <6>1
          <5> QED BY <4>1, <5>1, <5>2, <5>3
        <4>2. S \cup U \in SUBSET Tasks
          BY <1>4, <3>2
        <4> QED BY <4>1, <4>2 DEF Plan!ClosedIn
      <3> QED BY <2>3, <3>2, <3>3
    <2> QED BY <2>1, <2>2, <2>3
  <1> HIDE DEF After
  <1> QED BY <1>2, <1>6 DEF Acyclic

---------------------------------------------------------------------------
(* What a step does to one row.                                             *)

\* A change of one row that the service made: the row it leaves is newer or at work,
\* done stays done, and nothing leaves the queue but by a human.
Rewrites(t, new) ==
  /\ rows[t] # Nil /\ rows' = [rows EXCEPT ![t] = new] /\ new \in Plan!Row
  /\ new.admitted \in {0, rows[t].admitted}
  /\ rows[t].life = "done" => new.life = "done"
  /\ \/ new.revision > rows[t].revision
     \/ new.revision = rows[t].revision /\ new.work # "none"
  /\ hold' \in [Tasks -> {"never", "held", "released"}]
  /\ \A u \in Tasks \ {t} : hold'[u] = hold[u]
  /\ hold'[t] = "held" => /\ hold[t] = "held"
                          /\ \/ new.life = "canceled"
                             \/ new.life = "planned" /\ new.held
  /\ writer' = [writer EXCEPT ![t] = "service"]
  /\ previews' = Plan!Evented(previews)
  /\ UNCHANGED <<week, records>>

LEMMA PreviewsEvented ==
  ASSUME PlanTypes, previews' = Plan!Evented(previews)
  PROVE  previews' \in [Previews -> PreviewRow \cup {Nil}]
  BY DEF PlanTypes, Plan!Evented, PreviewRow

\* Fewer tasks than counted, or the same.
LEMMA FewerOpened ==
  ASSUME PlanTypes, WithinBudget,
         \A t \in Tasks, w \in 1 .. MaxWeek :
            rows'[t] # Nil /\ rows'[t].admitted = w =>
              rows[t] # Nil /\ rows[t].admitted = w
  PROVE  WithinBudget'
  <1> SUFFICES ASSUME NEW w \in 1 .. MaxWeek
               PROVE  Cardinality(Opened(rows, w)') <= Budget
    BY DEF WithinBudget, Opened
  <1>1. Opened(rows, w)' \subseteq Opened(rows, w) /\ Opened(rows, w) \subseteq Tasks
    BY DEF Opened
  <1>2. /\ IsFiniteSet(Opened(rows, w))
        /\ Cardinality(Opened(rows, w)') <= Cardinality(Opened(rows, w))
        /\ Cardinality(Opened(rows, w)') \in Nat /\ Cardinality(Opened(rows, w)) \in Nat
    BY <1>1, PlanningAssumption, FS_Subset, FS_CardinalityType
  <1>3. Cardinality(Opened(rows, w)) <= Budget /\ Budget \in Nat
    BY PlanningAssumption DEF WithinBudget
  <1> QED BY <1>2, <1>3

\* What a rewritten row leaves of the invariant.
LEMMA RewriteKeeps ==
  ASSUME PlanInv, NEW t \in Tasks, NEW new, Rewrites(t, new)
  PROVE  /\ rows' \in [Tasks -> Plan!Row \cup {Nil}]
         /\ \A u \in Tasks : rows[u] # Nil => rows'[u] # Nil
         /\ \A u \in Tasks : rows[u] # Nil /\ rows[u].life = "done" => rows'[u].life = "done"
         /\ hold' \in [Tasks -> {"never", "held", "released"}]
         /\ writer' \in [Tasks -> {"service", "import", "overwritten"}]
         /\ previews' \in [Previews -> PreviewRow \cup {Nil}]
         /\ WithinBudget' /\ HoldTells' /\ RecordsTell'
  <1>1. /\ new \in Plan!Row /\ new # Nil /\ rows[t] # Nil /\ rows[t] \in Plan!Row
        /\ rows'[t] = new /\ \A u \in Tasks \ {t} : rows'[u] = rows[u]
    BY PlanningAssumption DEF Rewrites, PlanInv, PlanTypes
  <1>2. rows' \in [Tasks -> Plan!Row \cup {Nil}]
    BY DEF Rewrites, PlanInv, PlanTypes
  <1>3. \A u \in Tasks : rows[u] # Nil => rows'[u] # Nil
    BY <1>1
  <1>4. \A u \in Tasks : rows[u] # Nil /\ rows[u].life = "done" => rows'[u].life = "done"
    BY <1>1 DEF Rewrites
  <1>5. /\ writer' \in [Tasks -> {"service", "import", "overwritten"}]
        /\ writer'[t] = "service" /\ \A u \in Tasks \ {t} : writer'[u] = writer[u]
    BY DEF Rewrites, PlanInv, PlanTypes
  <1>6. WithinBudget'
    <2>1. new.admitted \in {0, rows[t].admitted}
      BY DEF Rewrites
    <2>2. \A w \in 1 .. MaxWeek : w # 0
      BY PlanningAssumption
    <2>3. \A u \in Tasks, w \in 1 .. MaxWeek :
             rows'[u] # Nil /\ rows'[u].admitted = w => rows[u] # Nil /\ rows[u].admitted = w
      BY <1>1, <2>1, <2>2
    <2> QED BY <2>3, FewerOpened DEF PlanInv
  <1>7. HoldTells'
    BY <1>1 DEF Rewrites, HoldTells, PlanInv
  <1>8. RecordsTell'
    <2>1. \A u \in Tasks : writer'[u] # "overwritten"
      BY <1>5 DEF PlanInv, RecordsTell
    <2>2. ASSUME NEW i \in Identities, records[i] # Nil
          PROVE  RecordTells(i)'
      <3>1. RecordTells(i) /\ records[i].task \in Tasks /\ records[i].at \in Nat
            /\ records' = records
        BY <2>2 DEF PlanInv, PlanTypes, RecordsTell, RecordRow, Rewrites
      <3>2. CASE records[i].task # t
        BY <1>1, <1>5, <3>1, <3>2 DEF RecordTells, Rewrites, Plan!ImportManaged
      <3>3. CASE records[i].task = t
        <4>1. new.revision \in Nat /\ rows[t].revision \in Nat
          BY <1>1, PlanningAssumption DEF Plan!Row
        <4>2. hold'[t] # "held"
          BY <3>1, <3>3 DEF RecordTells, Rewrites
        <4>3. records[i].at <= rows[t].revision
          BY <3>1, <3>3 DEF RecordTells
        <4>4. \/ new.revision > rows[t].revision
              \/ new.revision = rows[t].revision /\ new.work # "none"
          BY DEF Rewrites
        <4>5. /\ records[i].at <= new.revision
              /\ records[i].at < new.revision \/ new.work # "none"
          BY <3>1, <4>1, <4>3, <4>4
        <4> QED BY <1>1, <1>5, <3>1, <3>3, <4>2, <4>5 DEF RecordTells
      <3> QED BY <3>2, <3>3
    <2>3. records' = records
      BY DEF Rewrites
    <2> QED BY <2>1, <2>2, <2>3 DEF PlanInv, RecordsTell
  <1>9. previews' \in [Previews -> PreviewRow \cup {Nil}]
    BY PreviewsEvented DEF Rewrites, PlanInv
  <1> QED BY <1>2, <1>3, <1>4, <1>5, <1>6, <1>7, <1>8, <1>9 DEF Rewrites

\* A rewritten row starts work only on an objective whose required children are done.
LEMMA RewriteStep ==
  ASSUME PlanInv, NEW t \in Tasks, NEW new, Rewrites(t, new),
         members' = members, needs' \subseteq Tasks \X Tasks, Acyclic(needs, members)',
         new.work # "none" => rows[t].work # "none" \/ Plan!RequiredChildrenDone(t)
  PROVE  PlanInv'
  <1>1. /\ rows[t] # Nil /\ rows'[t] = new /\ \A u \in Tasks \ {t} : rows'[u] = rows[u]
        /\ week' = week /\ records' = records
    BY DEF Rewrites, PlanInv, PlanTypes
  <1>2. PlanTypes'
    BY <1>1, RewriteKeeps DEF PlanInv, PlanTypes
  <1>3. \A r \in members : r.objective \in Tasks /\ r.child \in Tasks
    BY DEF PlanInv, PlanTypes, Plan!Member
  <1>4. MembersExist'
    BY <1>3, RewriteKeeps DEF PlanInv, MembersExist
  <1>5. Plan!FrozenScopeIsDone'
    <2> SUFFICES ASSUME NEW u \in Tasks, rows'[u] # Nil, rows'[u].work # "none",
                        NEW r \in members, r.objective = u, r.required
                 PROVE  rows'[r.child].life = "done"
      BY DEF Plan!FrozenScopeIsDone, Plan!Exists, Plan!RequiredChildrenDone
    <2>1. rows[u] # Nil /\ rows[u].work # "none" => Plan!RequiredChildrenDone(u)
      BY DEF PlanInv, Plan!FrozenScopeIsDone, Plan!Exists
    <2>2. Plan!RequiredChildrenDone(u)
      BY <1>1, <2>1
    <2>3. rows[r.child].life = "done"
      BY <2>2 DEF Plan!RequiredChildrenDone
    <2>4. rows[r.child] # Nil
      BY DEF PlanInv, MembersExist
    <2> QED BY <1>3, <2>3, <2>4, RewriteKeeps
  <1>6. OneParent'
    BY DEF PlanInv, OneParent
  <1> QED BY <1>2, <1>4, <1>5, <1>6, RewriteKeeps DEF PlanInv

\* An edit writes one newer row.
LEMMA EditWrites ==
  ASSUME PlanInv, NEW t \in Tasks, rows[t] # Nil, NEW edited \in Plan!Row,
         edited.revision = rows[t].revision, Plan!Edit(t, edited)
  PROVE  \E new \in Plan!Row :
           /\ rows' = [rows EXCEPT ![t] = new]
           /\ new.life = edited.life /\ new.held = edited.held
           /\ new.work = edited.work /\ new.admitted = edited.admitted
           /\ new.revision > rows[t].revision
           /\ writer' = [writer EXCEPT ![t] = "service"]
           /\ previews' = Plan!Evented(previews)
  <1> DEFINE new == [edited EXCEPT !.revision = @ + 1]
  <1>1. /\ rows[t] \in Plan!Row /\ rows[t].revision \in 1 .. MaxTaskRevision
        /\ rows[t].revision < MaxTaskRevision
    BY DEF PlanInv, PlanTypes, Plan!Row, Plan!Edit
  <1>2. edited.revision + 1 \in 1 .. MaxTaskRevision /\ edited.revision + 1 > rows[t].revision
    BY <1>1, PlanningAssumption
  <1>3. new \in Plan!Row /\ new.revision = edited.revision + 1
    BY <1>2 DEF Plan!Row
  <1>4. /\ new.life = edited.life /\ new.held = edited.held
        /\ new.work = edited.work /\ new.admitted = edited.admitted
    BY DEF Plan!Row
  <1>5. /\ rows' = [rows EXCEPT ![t] = new]
        /\ writer' = [writer EXCEPT ![t] = "service"] /\ previews' = Plan!Evented(previews)
    BY DEF Plan!Edit
  <1> HIDE DEF new
  <1> QED BY <1>2, <1>3, <1>4, <1>5

---------------------------------------------------------------------------
(* Prerequisites and children.                                              *)

LEMMA DependenciesSet ==
  ASSUME PlanInv, NEW t \in Tasks, NEW ds \in SUBSET Tasks, Plan!SetDependencies(t, ds)
  PROVE  needs' \subseteq Tasks \X Tasks /\ Acyclic(needs', members)
  <1>1. needs' = {n \in needs : n[1] # t} \cup {<<t, d>> : d \in ds}
    BY DEF Plan!SetDependencies
  <1>2. needs' \subseteq Tasks \X Tasks
    BY <1>1 DEF PlanInv, PlanTypes
  <1>3. \A d \in ds : ~Plan!ReachesIn(needs, members, d, t)
    BY DEF Plan!SetDependencies, Plan!DependencyCycles
  <1>4. \A x \in Tasks \ {t}, y \in Tasks :
          Plan!Follows(needs', members, x, y) => Plan!Follows(needs, members, x, y)
    BY <1>1 DEF Plan!Follows
  <1>5. \A y \in Tasks :
          Plan!Follows(needs', members, t, y) => Plan!Follows(needs, members, t, y) \/ y \in ds
    BY <1>1 DEF Plan!Follows
  <1>6. Acyclic(needs, members)
    BY DEF PlanInv
  <1> HIDE DEF PlanInv
  <1> QED BY <1>2, <1>3, <1>4, <1>5, <1>6, GraphStaysAcyclic

LEMMA ChildrenReplaced ==
  ASSUME PlanInv, NEW o \in Tasks, NEW ms \in Plan!Memberships[o], Plan!ReplaceChildren(o, ms)
  PROVE  /\ members' \subseteq Plan!Member /\ Acyclic(needs, members') /\ OneParent'
         /\ \A r \in members' : \/ r \in members /\ r.objective # o
                                \/ r.objective = o /\ r.child # o /\ rows[r.child] # Nil
  <1>1. members' = {r \in members : r.objective # o} \cup ms
    BY DEF Plan!ReplaceChildren
  <1>2. /\ ms \subseteq Plan!Member /\ \A r \in ms : r.objective = o
        /\ \A r, s \in ms : r.child = s.child => r = s
    BY DEF Plan!Memberships
  <1>3. \A r \in ms : /\ r.child # o /\ rows[r.child] # Nil
                      /\ ~\E other \in members : other.child = r.child /\ other.objective # o
                      /\ ~Plan!ReachesIn(needs, members, r.child, o)
    BY DEF Plan!ReplaceChildren, Plan!ValidChildren, Plan!Exists, Plan!DependencyCycles
  <1>4. members' \subseteq Plan!Member
    BY <1>1, <1>2 DEF PlanInv, PlanTypes
  <1>5. OneParent'
    <2>1. \A r, s \in members : r.child = s.child => r = s
      BY DEF PlanInv, OneParent
    <2> QED BY <1>1, <1>2, <1>3, <2>1 DEF OneParent
  <1>6. Acyclic(needs, members')
    <2> DEFINE ds == {r.child : r \in ms}
    <2>1. ds \in SUBSET Tasks
      BY <1>2 DEF Plan!Member
    <2>2. \A d \in ds : ~Plan!ReachesIn(needs, members, d, o)
      BY <1>3
    <2>3. \A x \in Tasks \ {o}, y \in Tasks :
            Plan!Follows(needs, members', x, y) => Plan!Follows(needs, members, x, y)
      BY <1>1, <1>2 DEF Plan!Follows
    <2>4. \A y \in Tasks :
            Plan!Follows(needs, members', o, y) => Plan!Follows(needs, members, o, y) \/ y \in ds
      BY <1>1, <1>2 DEF Plan!Follows
    <2>5. Acyclic(needs, members)
      BY DEF PlanInv
    <2> HIDE DEF ds
    <2> QED BY <2>1, <2>2, <2>3, <2>4, <2>5, GraphStaysAcyclic
  <1>7. ASSUME NEW r \in members'
        PROVE  \/ r \in members /\ r.objective # o
               \/ r.objective = o /\ r.child # o /\ rows[r.child] # Nil
    <2>1. CASE r \in ms
      BY <1>2, <1>3, <2>1
    <2> QED BY <1>1, <1>7, <2>1
  <1> QED BY <1>4, <1>5, <1>6, <1>7

---------------------------------------------------------------------------
(* Edits.                                                                   *)

LEMMA TaskUpdates ==
  ASSUME PlanInv, NEW t \in Tasks, NEW by \in {"human", "agent"}, NEW planned \in BOOLEAN,
         NEW ds \in SUBSET Tasks, Plan!UpdateTask(t, by, planned, ds)
  PROVE  PlanInv'
  <1>1. /\ rows[t] # Nil /\ rows[t].life \in {"open", "planned"}
        /\ by = "agent" => ~(rows[t].held /\ rows[t].life = "planned" /\ ~planned)
        /\ UNCHANGED <<week, members, records>>
    BY DEF Plan!UpdateTask, Plan!Editable, Plan!Visible, Plan!Exists, Plan!MayRelease
  <1>2. hold' = [hold EXCEPT ![t] = IF @ = "held" /\ by = "human" /\ ~planned
                                    THEN "released" ELSE @]
    BY DEF Plan!UpdateTask
  <1>3. rows[t] \in Plan!Row
    BY <1>1 DEF PlanInv, PlanTypes
  <1>4. PICK edited : edited = [rows[t] EXCEPT !.life = IF planned THEN "planned" ELSE "open",
                                               !.held = planned /\ @]
    OBVIOUS
  <1>5. /\ edited \in Plan!Row /\ edited.life = (IF planned THEN "planned" ELSE "open")
        /\ edited.held = (planned /\ rows[t].held)
        /\ edited.work = rows[t].work /\ edited.admitted = rows[t].admitted
        /\ edited.revision = rows[t].revision
    BY <1>3, <1>4 DEF Plan!Row
  <1>6. Plan!Edit(t, edited)
    BY <1>4 DEF Plan!UpdateTask
  <1>7. PICK new \in Plan!Row :
           /\ rows' = [rows EXCEPT ![t] = new]
           /\ new.life = edited.life /\ new.held = edited.held
           /\ new.work = edited.work /\ new.admitted = edited.admitted
           /\ new.revision > rows[t].revision
           /\ writer' = [writer EXCEPT ![t] = "service"]
           /\ previews' = Plan!Evented(previews)
    BY <1>1, <1>5, <1>6, EditWrites
  <1>8. Rewrites(t, new)
    <2>1. /\ hold' \in [Tasks -> {"never", "held", "released"}]
          /\ \A u \in Tasks \ {t} : hold'[u] = hold[u]
          /\ hold'[t] = IF hold[t] = "held" /\ by = "human" /\ ~planned
                        THEN "released" ELSE hold[t]
      BY <1>2 DEF PlanInv, PlanTypes
    <2>2. hold[t] = "held" => rows[t].life = "planned" /\ rows[t].held
      BY <1>1 DEF PlanInv, HoldTells
    <2>3. hold'[t] = "held" => hold[t] = "held" /\ planned
      BY <1>1, <2>1, <2>2
    <2>4. hold'[t] = "held" => new.life = "planned" /\ new.held
      BY <1>5, <1>7, <2>2, <2>3
    <2>5. /\ new.admitted \in {0, rows[t].admitted} /\ rows[t].life # "done"
          /\ new.revision > rows[t].revision
      BY <1>1, <1>5, <1>7
    <2> QED BY <1>1, <1>7, <2>1, <2>3, <2>4, <2>5 DEF Rewrites
  <1>9. needs' \subseteq Tasks \X Tasks /\ Acyclic(needs, members)'
    BY <1>1, DependenciesSet DEF Plan!UpdateTask
  <1>10. new.work # "none" => rows[t].work # "none"
    BY <1>5, <1>7
  <1> QED BY <1>1, <1>8, <1>9, <1>10, RewriteStep

\* An edit that leaves what the budget holds in the queue or ends it.
LEMMA EditStep ==
  ASSUME PlanInv, NEW t \in Tasks, rows[t] # Nil, NEW edited \in Plan!Row,
         Plan!Edit(t, edited), edited.revision = rows[t].revision,
         edited.work = rows[t].work, edited.admitted = rows[t].admitted,
         rows[t].life = "done" => edited.life = "done",
         hold[t] = "held" => \/ edited.life = "canceled"
                             \/ edited.life = "planned" /\ edited.held,
         UNCHANGED <<week, needs, members, records, hold>>
  PROVE  PlanInv'
  <1>1. PICK new \in Plan!Row :
           /\ rows' = [rows EXCEPT ![t] = new]
           /\ new.life = edited.life /\ new.held = edited.held
           /\ new.work = edited.work /\ new.admitted = edited.admitted
           /\ new.revision > rows[t].revision
           /\ writer' = [writer EXCEPT ![t] = "service"]
           /\ previews' = Plan!Evented(previews)
    BY EditWrites
  <1>2. hold \in [Tasks -> {"never", "held", "released"}]
    BY DEF PlanInv, PlanTypes
  <1>3. Rewrites(t, new)
    BY <1>1, <1>2 DEF Rewrites
  <1>4. /\ needs' \subseteq Tasks \X Tasks /\ Acyclic(needs, members)' /\ members' = members
        /\ new.work # "none" => rows[t].work # "none"
    BY <1>1 DEF PlanInv, PlanTypes, Acyclic
  <1> QED BY <1>3, <1>4, RewriteStep

LEMMA TaskEnds ==
  ASSUME PlanInv, NEW t \in Tasks, NEW by \in {"human", "agent"},
         Plan!CancelTask(t, by) \/ Plan!DeleteTask(t, by) \/ Plan!CompleteExternal(t)
  PROVE  PlanInv'
  <1>1. /\ rows[t] # Nil /\ rows[t] \in Plan!Row /\ rows[t].life # "done"
        /\ UNCHANGED <<week, needs, members, records, hold>>
    BY DEF Plan!CancelTask, Plan!DeleteTask, Plan!CompleteExternal, Plan!Editable, Plan!Visible,
       Plan!Exists, PlanInv, PlanTypes
  <1>2. hold[t] = "held" => \/ rows[t].life = "canceled"
                            \/ rows[t].life = "planned" /\ rows[t].held
    BY DEF PlanInv, HoldTells
  <1>3. CASE Plan!CancelTask(t, by)
    <2>1. PICK edited : edited = [rows[t] EXCEPT !.life = "canceled",
                                                 !.deleted = ~Plan!HasRetainedHistory(t)]
      OBVIOUS
    <2>2. /\ edited \in Plan!Row /\ edited.life = "canceled"
          /\ edited.work = rows[t].work /\ edited.admitted = rows[t].admitted
          /\ edited.revision = rows[t].revision
      <3>1. (~Plan!HasRetainedHistory(t)) \in BOOLEAN
        BY Zenon
      <3> QED BY <1>1, <2>1, <3>1 DEF Plan!Row
    <2>3. Plan!Edit(t, edited)
      BY <1>3, <2>1 DEF Plan!CancelTask
    <2> QED BY <1>1, <2>2, <2>3, EditStep
  <1>4. CASE Plan!DeleteTask(t, by)
    <2>1. PICK edited : edited = [rows[t] EXCEPT !.deleted = TRUE]
      OBVIOUS
    <2>2. /\ edited \in Plan!Row /\ edited.life = rows[t].life /\ edited.held = rows[t].held
          /\ edited.work = rows[t].work /\ edited.admitted = rows[t].admitted
          /\ edited.revision = rows[t].revision
      BY <1>1, <2>1 DEF Plan!Row
    <2>3. Plan!Edit(t, edited)
      BY <1>4, <2>1 DEF Plan!DeleteTask
    <2> QED BY <1>1, <1>2, <2>2, <2>3, EditStep
  <1>5. CASE Plan!CompleteExternal(t)
    <2>1. PICK edited : edited = [rows[t] EXCEPT !.life = "done"]
      OBVIOUS
    <2>2. /\ edited \in Plan!Row /\ edited.life = "done"
          /\ edited.work = rows[t].work /\ edited.admitted = rows[t].admitted
          /\ edited.revision = rows[t].revision
      BY <1>1, <2>1 DEF Plan!Row
    <2>3. Plan!Edit(t, edited) /\ rows[t].life = "open"
      BY <1>5, <2>1 DEF Plan!CompleteExternal
    <2> QED BY <1>1, <1>2, <2>2, <2>3, EditStep
  <1> QED BY <1>3, <1>4, <1>5

\* The membership of an objective changes only before any work on it.
LEMMA ChildrenUpdate ==
  ASSUME PlanInv, NEW o \in Tasks, NEW ms \in Plan!Memberships[o], Plan!UpdateChildren(o, ms)
  PROVE  PlanInv'
  <1>1. /\ rows[o] # Nil /\ rows[o].life \in {"open", "planned"} /\ rows[o].work = "none"
        /\ Plan!ReplaceChildren(o, ms) /\ Plan!Edit(o, rows[o])
        /\ UNCHANGED <<week, needs, records, hold>>
    BY DEF Plan!UpdateChildren, Plan!Exists, Plan!MembershipOpen
  <1>2. rows[o] \in Plan!Row /\ hold \in [Tasks -> {"never", "held", "released"}]
    BY <1>1 DEF PlanInv, PlanTypes
  <1>3. PICK new \in Plan!Row :
           /\ rows' = [rows EXCEPT ![o] = new]
           /\ new.life = rows[o].life /\ new.held = rows[o].held
           /\ new.work = rows[o].work /\ new.admitted = rows[o].admitted
           /\ new.revision > rows[o].revision
           /\ writer' = [writer EXCEPT ![o] = "service"]
           /\ previews' = Plan!Evented(previews)
    BY <1>1, <1>2, EditWrites
  <1>4. hold[o] = "held" => rows[o].life = "planned" /\ rows[o].held
    BY <1>1 DEF PlanInv, HoldTells
  <1>5. Rewrites(o, new)
    BY <1>1, <1>2, <1>3, <1>4 DEF Rewrites
  <1>6. /\ rows'[o] = new /\ \A u \in Tasks \ {o} : rows'[u] = rows[u]
    BY <1>3 DEF PlanInv, PlanTypes
  <1>7. /\ members' \subseteq Plan!Member /\ Acyclic(needs, members') /\ OneParent'
        /\ \A r \in members' : \/ r \in members /\ r.objective # o
                               \/ r.objective = o /\ r.child # o /\ rows[r.child] # Nil
    BY <1>1, ChildrenReplaced
  <1>8. PlanTypes'
    BY <1>1, <1>5, <1>7, RewriteKeeps DEF PlanInv, PlanTypes
  <1>9. \A r \in members' : r.objective \in Tasks /\ r.child \in Tasks
    BY <1>7 DEF Plan!Member
  <1>10. MembersExist'
    <2>1. \A r \in members' : rows[r.objective] # Nil /\ rows[r.child] # Nil
      BY <1>1, <1>7 DEF PlanInv, MembersExist
    <2> QED BY <1>5, <1>9, <2>1, RewriteKeeps DEF MembersExist
  <1>11. Plan!FrozenScopeIsDone'
    <2> SUFFICES ASSUME NEW u \in Tasks, rows'[u] # Nil, rows'[u].work # "none",
                        NEW r \in members', r.objective = u, r.required
                 PROVE  rows'[r.child].life = "done"
      BY DEF Plan!FrozenScopeIsDone, Plan!Exists, Plan!RequiredChildrenDone
    <2>1. u # o /\ rows[u] # Nil /\ rows[u].work # "none"
      BY <1>1, <1>3, <1>6
    <2>2. r \in members
      BY <1>7, <2>1
    <2>3. rows[r.child].life = "done" /\ rows[r.child] # Nil
      BY <2>1, <2>2 DEF PlanInv, Plan!FrozenScopeIsDone, Plan!Exists, Plan!RequiredChildrenDone,
         MembersExist
    <2> QED BY <1>5, <1>9, <2>3, RewriteKeeps
  <1>12. Acyclic(needs, members)'
    BY <1>1, <1>7 DEF Acyclic
  <1> QED BY <1>5, <1>7, <1>8, <1>10, <1>11, <1>12, RewriteKeeps DEF PlanInv

---------------------------------------------------------------------------
(* Work.                                                                    *)

LEMMA WorkStep ==
  ASSUME PlanInv, NEW t \in Tasks, rows[t] # Nil, NEW new \in Plan!Row, Plan!Work(t, new),
         new.revision = rows[t].revision, new.admitted = rows[t].admitted,
         new.work # "none", rows[t].work # "none" \/ Plan!RequiredChildrenDone(t),
         rows[t].life = "done" => new.life = "done",
         hold[t] = "held" => new.life = rows[t].life /\ new.held = rows[t].held
  PROVE  PlanInv'
  <1>1. /\ rows' = [rows EXCEPT ![t] = new]
        /\ writer' = [writer EXCEPT ![t] = "service"] /\ previews' = Plan!Evented(previews)
        /\ UNCHANGED <<week, needs, members, records, hold>>
    BY DEF Plan!Work
  <1>2. hold \in [Tasks -> {"never", "held", "released"}]
    BY DEF PlanInv, PlanTypes
  <1>3. hold[t] = "held" => \/ new.life = "canceled"
                            \/ new.life = "planned" /\ new.held
    BY DEF PlanInv, HoldTells
  <1>4. Rewrites(t, new)
    BY <1>1, <1>2, <1>3 DEF Rewrites
  <1>5. needs' \subseteq Tasks \X Tasks /\ Acyclic(needs, members)' /\ members' = members
    BY <1>1 DEF PlanInv, PlanTypes, Acyclic
  <1> QED BY <1>4, <1>5, RewriteStep

LEMMA WorkMoves ==
  ASSUME PlanInv, NEW t \in Tasks,
         \/ Plan!Claim(t) \/ Plan!Release(t) \/ Plan!Submit(t)
         \/ Plan!CompleteGeneralSubject(t) \/ Plan!ReopenSubmission(t)
  PROVE  PlanInv'
  <1>1. /\ rows[t] # Nil /\ rows[t] \in Plan!Row
        /\ rows[t].work # "none" \/ Plan!RequiredChildrenDone(t)
    BY DEF Plan!Claim, Plan!Release, Plan!Submit, Plan!CompleteGeneralSubject,
       Plan!ReopenSubmission, Plan!Editable, Plan!Visible, Plan!Exists, PlanInv, PlanTypes
  <1>2. ASSUME NEW stage \in {"owned", "released", "submitted"},
               Plan!Work(t, [rows[t] EXCEPT !.work = stage])
        PROVE  PlanInv'
    <2>1. PICK new : new = [rows[t] EXCEPT !.work = stage]
      OBVIOUS
    <2>2. /\ new \in Plan!Row /\ new.work # "none" /\ new.revision = rows[t].revision
          /\ new.admitted = rows[t].admitted /\ new.life = rows[t].life
          /\ new.held = rows[t].held
      BY <1>1, <2>1 DEF Plan!Row
    <2>3. Plan!Work(t, new)
      BY <1>2, <2>1
    <2> QED BY <1>1, <2>2, <2>3, WorkStep
  <1>3. CASE Plan!CompleteGeneralSubject(t)
    <2>1. PICK new : new = [rows[t] EXCEPT !.life = "done"]
      OBVIOUS
    <2>2. /\ new \in Plan!Row /\ new.life = "done" /\ new.revision = rows[t].revision
          /\ new.admitted = rows[t].admitted /\ new.work = rows[t].work
      BY <1>1, <2>1 DEF Plan!Row
    <2>3. Plan!Work(t, new) /\ rows[t].work = "submitted" /\ rows[t].life = "open"
      BY <1>3, <2>1 DEF Plan!CompleteGeneralSubject
    <2>4. hold[t] # "held"
      BY <2>3 DEF PlanInv, HoldTells
    <2>5. /\ new.work # "none" /\ rows[t].work # "none"
          /\ rows[t].life = "done" => new.life = "done"
      BY <2>2, <2>3
    <2> QED BY <1>1, <2>2, <2>3, <2>4, <2>5, WorkStep
  <1> QED BY <1>2, <1>3 DEF Plan!Claim, Plan!Release, Plan!Submit, Plan!ReopenSubmission

---------------------------------------------------------------------------
(* New tasks.                                                               *)

\* A task enters with no work, within the budget, and in the queue if it is held.
Enters(t, new) ==
  /\ rows[t] = Nil /\ rows' = [rows EXCEPT ![t] = new] /\ new \in Plan!Row
  /\ new.work = "none"
  /\ new.admitted # 0 => new.admitted = week /\ Cardinality(Opened(rows, week)) < Budget
  /\ hold' \in [Tasks -> {"never", "held", "released"}]
  /\ \A u \in Tasks \ {t} : hold'[u] = hold[u]
  /\ hold'[t] = "held" => new.life = "planned" /\ new.held
  /\ writer' \in [Tasks -> {"service", "import", "overwritten"}]
  /\ \A u \in Tasks \ {t} : writer'[u] = writer[u]
  /\ writer'[t] # "overwritten"
  /\ members' \subseteq Plan!Member
  /\ \A r \in members' : \/ r \in members /\ r.objective # t
                         \/ r.objective = t /\ r.child # t /\ rows[r.child] # Nil

LEMMA EntryWithinBudget ==
  ASSUME PlanInv, NEW t \in Tasks, NEW new, Enters(t, new)
  PROVE  WithinBudget'
  <1> SUFFICES ASSUME NEW w \in 1 .. MaxWeek
               PROVE  Cardinality(Opened(rows, w)') <= Budget
    BY DEF WithinBudget, Opened
  <1>1. /\ rows'[t] = new /\ new # Nil /\ \A u \in Tasks \ {t} : rows'[u] = rows[u]
    BY PlanningAssumption DEF Enters, PlanInv, PlanTypes
  <1>2. Opened(rows, w) \subseteq Tasks /\ t \notin Opened(rows, w)
    BY DEF Opened, Enters
  <1>3. /\ IsFiniteSet(Opened(rows, w)) /\ Cardinality(Opened(rows, w)) \in Nat
        /\ Cardinality(Opened(rows, w)) <= Budget /\ Budget \in Nat
    BY <1>2, PlanningAssumption, FS_Subset, FS_CardinalityType DEF PlanInv, WithinBudget
  <1>4. CASE new.admitted = w
    <2>1. Opened(rows, w)' \subseteq Opened(rows, w) \cup {t}
      BY <1>1 DEF Opened
    <2>2. Cardinality(Opened(rows, w)) < Budget
      <3>1. w # 0
        BY PlanningAssumption
      <3> QED BY <1>4, <3>1 DEF Enters
    <2>3. /\ IsFiniteSet(Opened(rows, w) \cup {t})
          /\ Cardinality(Opened(rows, w) \cup {t}) = Cardinality(Opened(rows, w)) + 1
      BY <1>2, <1>3, FS_AddElement
    <2>4. /\ Cardinality(Opened(rows, w)') <= Cardinality(Opened(rows, w) \cup {t})
          /\ Cardinality(Opened(rows, w)') \in Nat
      BY <2>1, <2>3, FS_Subset, FS_CardinalityType
    <2> QED BY <1>3, <2>2, <2>3, <2>4
  <1>5. CASE new.admitted # w
    <2>1. Opened(rows, w)' \subseteq Opened(rows, w)
      BY <1>1, <1>5 DEF Opened
    <2>2. /\ Cardinality(Opened(rows, w)') <= Cardinality(Opened(rows, w))
          /\ Cardinality(Opened(rows, w)') \in Nat
      BY <1>3, <2>1, FS_Subset, FS_CardinalityType
    <2> QED BY <1>3, <2>2
  <1> QED BY <1>4, <1>5

LEMMA EntryKeeps ==
  ASSUME PlanInv, NEW t \in Tasks, NEW new, Enters(t, new)
  PROVE  /\ rows' \in [Tasks -> Plan!Row \cup {Nil}]
         /\ rows'[t] = new /\ \A u \in Tasks \ {t} : rows'[u] = rows[u]
         /\ HoldTells' /\ MembersExist' /\ Plan!FrozenScopeIsDone'
         /\ \A i \in Identities : records[i] # Nil => records[i].task # t
         /\ \A i \in Identities : records[i] # Nil /\ records'[i] = records[i] => RecordTells(i)'
  <1>1. /\ rows'[t] = new /\ new # Nil /\ rows[t] = Nil
        /\ \A u \in Tasks \ {t} : rows'[u] = rows[u]
        /\ rows' \in [Tasks -> Plan!Row \cup {Nil}]
    BY PlanningAssumption DEF Enters, PlanInv, PlanTypes
  <1>2. \A r \in members' : r.objective \in Tasks /\ r.child \in Tasks
    BY DEF Enters, Plan!Member
  <1>3. \A r \in members' : /\ r.child # t /\ rows[r.child] # Nil
                            /\ r.objective # t => r \in members /\ rows[r.objective] # Nil
    BY <1>1 DEF Enters, PlanInv, MembersExist
  <1>4. HoldTells'
    BY <1>1 DEF Enters, PlanInv, HoldTells
  <1>5. MembersExist'
    BY <1>1, <1>2, <1>3 DEF MembersExist
  <1>6. Plan!FrozenScopeIsDone'
    <2> SUFFICES ASSUME NEW u \in Tasks, rows'[u] # Nil, rows'[u].work # "none",
                        NEW r \in members', r.objective = u, r.required
                 PROVE  rows'[r.child].life = "done"
      BY DEF Plan!FrozenScopeIsDone, Plan!Exists, Plan!RequiredChildrenDone
    <2>1. u # t /\ rows[u] # Nil /\ rows[u].work # "none"
      BY <1>1 DEF Enters
    <2>2. rows[r.child].life = "done"
      BY <1>3, <2>1 DEF PlanInv, Plan!FrozenScopeIsDone, Plan!Exists, Plan!RequiredChildrenDone
    <2> QED BY <1>1, <1>2, <1>3, <2>2
  <1>7. ASSUME NEW i \in Identities, records[i] # Nil
        PROVE  /\ records[i].task # t
               /\ records'[i] = records[i] => RecordTells(i)'
    <2>1. RecordTells(i) /\ records[i].task \in Tasks
      BY <1>7 DEF PlanInv, PlanTypes, RecordsTell, RecordRow
    <2>2. records[i].task # t
      BY <1>1, <2>1 DEF RecordTells
    <2> QED BY <1>1, <2>1, <2>2 DEF RecordTells, Enters, Plan!ImportManaged
  <1> QED BY <1>1, <1>4, <1>5, <1>6, <1>7

\* A task a mutation created.
LEMMA InsertStep ==
  ASSUME PlanInv, NEW t \in Tasks, NEW by \in {"human", "agent"}, NEW planned \in BOOLEAN,
         NEW class, NEW objective \in BOOLEAN,
         Plan!Insert(t, Plan!Admitted(by, planned, class, objective)),
         needs' \subseteq Tasks \X Tasks, members' \subseteq Plan!Member,
         Acyclic(needs, members)', OneParent',
         \A r \in members' : \/ r \in members /\ r.objective # t
                             \/ r.objective = t /\ r.child # t /\ rows[r.child] # Nil,
         UNCHANGED <<week, records>>
  PROVE  PlanInv'
  <1>1. /\ \E c \in BOOLEAN : c <=> Plan!Budgeted(by, class) /\ ~planned
        /\ \E c \in BOOLEAN : c <=> Plan!AdmittedInWeek(week) < Budget
    BY Zenon
  <1>2. PICK counted \in BOOLEAN : counted <=> Plan!Budgeted(by, class) /\ ~planned
    BY <1>1
  <1>3. PICK within \in BOOLEAN : within <=> Plan!AdmittedInWeek(week) < Budget
    BY <1>1
  <1>4. PICK new :
           new = [life      |-> IF planned \/ (counted /\ ~within) THEN "planned" ELSE "open",
                  deleted   |-> FALSE,
                  origin    |-> by,
                  admitted  |-> IF counted /\ within THEN week ELSE 0,
                  held      |-> counted /\ ~within,
                  revision  |-> 1,
                  work      |-> "none",
                  objective |-> objective]
    OBVIOUS
  <1>5. new = Plan!Admitted(by, planned, class, objective)
    BY <1>2, <1>3, <1>4 DEF Plan!Admitted
  <1>6. /\ new.admitted = (IF counted /\ within THEN week ELSE 0)
        /\ new.held = (counted /\ ~within) /\ new.work = "none"
        /\ new.held => new.life = "planned"
    BY <1>4
  <1>7. new \in Plan!Row
    <2>1. week \in 0 .. MaxWeek /\ 0 \in 0 .. MaxWeek /\ 1 \in 1 .. MaxTaskRevision
      BY PlanningAssumption DEF PlanInv, PlanTypes
    <2> QED BY <1>4, <2>1 DEF Plan!Row
  <1>8. /\ rows[t] = Nil /\ rows' = [rows EXCEPT ![t] = new]
        /\ hold' = [hold EXCEPT ![t] = IF new.held THEN "held" ELSE @]
        /\ writer' = [writer EXCEPT ![t] = "service"]
        /\ previews' = Plan!Evented(previews)
    BY <1>5 DEF Plan!Insert, Plan!Exists
  <1>9. hold[t] = "never"
    BY <1>8 DEF PlanInv, HoldTells
  <1>10. Enters(t, new)
    <2>1. new.admitted # 0 => new.admitted = week /\ Cardinality(Opened(rows, week)) < Budget
      BY <1>3, <1>6, OpenedInWeek
    <2>2. /\ hold' \in [Tasks -> {"never", "held", "released"}]
          /\ \A u \in Tasks \ {t} : hold'[u] = hold[u]
          /\ hold'[t] = "held" => new.held
      BY <1>8, <1>9 DEF PlanInv, PlanTypes
    <2>3. /\ writer' \in [Tasks -> {"service", "import", "overwritten"}]
          /\ \A u \in Tasks \ {t} : writer'[u] = writer[u]
          /\ writer'[t] # "overwritten"
      BY <1>8 DEF PlanInv, PlanTypes
    <2> QED BY <1>6, <1>7, <1>8, <2>1, <2>2, <2>3 DEF Enters
  <1>11. PlanTypes'
    BY <1>8, <1>10, EntryKeeps, PreviewsEvented DEF PlanInv, PlanTypes, Enters
  <1>12. RecordsTell'
    <2>1. \A u \in Tasks : writer'[u] # "overwritten"
      BY <1>10 DEF PlanInv, RecordsTell, Enters
    <2>2. \A i \in Identities : records'[i] # Nil => RecordTells(i)'
      BY <1>10, EntryKeeps
    <2> QED BY <2>1, <2>2 DEF PlanInv, RecordsTell
  <1> QED BY <1>10, <1>11, <1>12, EntryKeeps, EntryWithinBudget DEF PlanInv

LEMMA TaskCreated ==
  ASSUME PlanInv, NEW t \in Tasks, NEW by \in {"human", "agent"}, NEW planned \in BOOLEAN,
         NEW class, NEW backed, NEW ds \in SUBSET Tasks,
         Plan!CreateTask(t, by, planned, class, backed, ds)
  PROVE  PlanInv'
  <1>1. /\ Plan!Insert(t, Plan!Admitted(by, planned, class, FALSE))
        /\ Plan!SetDependencies(t, ds) /\ UNCHANGED <<week, members, records>>
    BY DEF Plan!CreateTask
  <1>2. needs' \subseteq Tasks \X Tasks /\ Acyclic(needs, members)'
    BY <1>1, DependenciesSet
  <1>3. members' \subseteq Plan!Member /\ OneParent'
    BY <1>1 DEF PlanInv, PlanTypes, OneParent
  <1>4. \A r \in members' : r \in members /\ r.objective # t
    BY <1>1 DEF PlanInv, MembersExist, Plan!Insert, Plan!Exists
  <1> QED BY <1>1, <1>2, <1>3, <1>4, InsertStep

LEMMA ObjectiveCreated ==
  ASSUME PlanInv, NEW t \in Tasks, NEW by \in {"human", "agent"}, NEW planned \in BOOLEAN,
         NEW ms \in Plan!Memberships[t], Plan!CreateObjective(t, by, planned, ms)
  PROVE  PlanInv'
  <1>1. /\ Plan!Insert(t, Plan!Admitted(by, planned, "none", TRUE))
        /\ Plan!ReplaceChildren(t, ms) /\ UNCHANGED <<week, needs, records>>
    BY DEF Plan!CreateObjective
  <1>2. /\ members' \subseteq Plan!Member /\ Acyclic(needs, members') /\ OneParent'
        /\ \A r \in members' : \/ r \in members /\ r.objective # t
                               \/ r.objective = t /\ r.child # t /\ rows[r.child] # Nil
    BY <1>1, ChildrenReplaced
  <1>3. needs' \subseteq Tasks \X Tasks /\ Acyclic(needs, members)'
    BY <1>1, <1>2 DEF PlanInv, PlanTypes, Acyclic
  <1> QED BY <1>1, <1>2, <1>3, InsertStep

---------------------------------------------------------------------------
(* Imports.                                                                 *)

LEMMA PreviewTaken ==
  ASSUME PlanInv, NEW p \in Previews, NEW item \in Plan!Items, Plan!Preview(p, item)
  PROVE  PlanInv'
  <1>1. item.identity \in Identities
    BY DEF Plan!Items
  <1>2. Plan!RecordRevision(item.identity) \in Nat
    BY <1>1 DEF PlanInv, PlanTypes, RecordRow, Plan!RecordRevision
  <1>3. previews' \in [Previews -> PreviewRow \cup {Nil}]
    <2>1. PICK new : new = [item |-> item, prior |-> Plan!RecordRevision(item.identity),
                            fresh |-> TRUE, applied |-> FALSE]
      OBVIOUS
    <2>2. new \in PreviewRow /\ previews' = [previews EXCEPT ![p] = new]
      BY <1>2, <2>1 DEF Plan!Preview, PreviewRow
    <2> QED BY <2>2 DEF PlanInv, PlanTypes
  <1>4. UNCHANGED <<week, rows, needs, members, records, hold, writer>>
    BY DEF Plan!Preview
  <1> QED BY <1>3, <1>4 DEF PlanInv, PlanTypes, WithinBudget, Opened, HoldTells, Acyclic, OneParent,
             MembersExist, Plan!FrozenScopeIsDone, Plan!Exists, Plan!RequiredChildrenDone,
             RecordsTell, RecordTells, Plan!ImportManaged

\* What an application does beside the rows and the records.
Applies(p) ==
  /\ previews[p] # Nil /\ previews[p].item \in Plan!Items
  /\ previews' \in [Previews -> PreviewRow \cup {Nil}]
  /\ UNCHANGED <<week, needs, members, hold>>

LEMMA Applied ==
  ASSUME PlanInv, NEW p \in Previews, NEW t \in Tasks, Plan!Apply(p, t)
  PROVE  /\ Applies(p)
         /\ LET item == previews[p].item
            IN \/ records[item.identity] = Nil /\ Plan!ApplyNew(item, t)
               \/ /\ records[item.identity] # Nil /\ t = records[item.identity].task
                  /\ Plan!ApplyExisting(item)
  <1>1. /\ previews[p] # Nil /\ previews[p] \in PreviewRow
        /\ previews' = [Plan!Evented(previews) EXCEPT ![p].applied = TRUE]
        /\ UNCHANGED <<week, needs, members, hold>>
    BY DEF Plan!Apply, Plan!Applicable, PlanInv, PlanTypes
  <1>2. PICK evented : evented = Plan!Evented(previews)
    OBVIOUS
  <1>3. evented \in [Previews -> PreviewRow \cup {Nil}] /\ evented[p] \in PreviewRow
    BY <1>1, <1>2 DEF PlanInv, PlanTypes, Plan!Evented, PreviewRow
  <1>4. PICK new : new = [evented[p] EXCEPT !.applied = TRUE]
    OBVIOUS
  <1>5. new \in PreviewRow
    BY <1>3, <1>4 DEF PreviewRow
  <1>6. previews' = [evented EXCEPT ![p] = new]
    BY <1>1, <1>2, <1>4
  <1>7. previews' \in [Previews -> PreviewRow \cup {Nil}]
    BY <1>3, <1>5, <1>6
  <1>8. Applies(p)
    BY <1>1, <1>7 DEF Applies, PreviewRow
  <1> QED BY <1>8 DEF Plan!Apply

\* An item with no record yet makes a task of its own.
LEMMA ImportedNew ==
  ASSUME PlanInv, NEW p \in Previews, Applies(p), NEW t \in Tasks,
         records[previews[p].item.identity] = Nil, Plan!ApplyNew(previews[p].item, t)
  PROVE  PlanInv'
  <1>1. PICK item \in Plan!Items : item = previews[p].item
    BY DEF Applies
  <1>2. PICK i \in Identities : i = item.identity
    BY DEF Plan!Items
  <1>3. PICK new : new = Plan!ImportedRow(item.closed)
    OBVIOUS
  <1>4. PICK record : record = [task |-> t, revision |-> 1, at |-> 1, closed |-> item.closed]
    OBVIOUS
  <1>5. /\ rows[t] = Nil /\ rows' = [rows EXCEPT ![t] = new]
        /\ writer' = [writer EXCEPT ![t] = "import"]
        /\ records' = [records EXCEPT ![i] = record] /\ records[i] = Nil
    BY <1>1, <1>2, <1>3, <1>4 DEF Plan!ApplyNew, Plan!Exists
  <1>6. /\ new \in Plan!Row /\ new.work = "none" /\ new.admitted = 0 /\ new.revision = 1
        /\ new.life = IF item.closed THEN "done" ELSE "planned"
    <2>1. 0 \in 0 .. MaxWeek /\ 1 \in 1 .. MaxTaskRevision
      BY PlanningAssumption
    <2> QED BY <1>3, <2>1 DEF Plan!ImportedRow, Plan!Row
  <1>7. /\ record \in RecordRow /\ record.task = t /\ record.at = 1
        /\ record.closed = item.closed
    BY <1>4 DEF RecordRow, Plan!Items
  <1>8. hold[t] = "never" /\ hold' = hold
    BY <1>5 DEF PlanInv, HoldTells, Applies
  <1>9. \A r \in members : r.objective # t
    BY <1>5 DEF PlanInv, MembersExist
  <1>10. Enters(t, new)
    <2>1. /\ writer' \in [Tasks -> {"service", "import", "overwritten"}]
          /\ \A u \in Tasks \ {t} : writer'[u] = writer[u]
          /\ writer'[t] # "overwritten"
      BY <1>5 DEF PlanInv, PlanTypes
    <2>2. hold \in [Tasks -> {"never", "held", "released"}] /\ members \subseteq Plan!Member
      BY DEF PlanInv, PlanTypes
    <2> QED BY <1>5, <1>6, <1>8, <1>9, <2>1, <2>2 DEF Enters, Applies
  <1>11. /\ records' \in [Identities -> RecordRow \cup {Nil}]
         /\ records'[i] = record /\ \A j \in Identities \ {i} : records'[j] = records[j]
    BY <1>5, <1>7 DEF PlanInv, PlanTypes
  <1>12. PlanTypes'
    BY <1>10, <1>11, EntryKeeps DEF PlanInv, PlanTypes, Enters, Applies
  <1>13. rows'[t] = new /\ new # Nil
    BY <1>6, <1>10, EntryKeeps, PlanningAssumption
  <1>14. RecordsTell'
    <2>1. \A u \in Tasks : writer'[u] # "overwritten"
      BY <1>10 DEF PlanInv, RecordsTell, Enters
    <2>2. RecordTells(i)'
      BY <1>6, <1>7, <1>8, <1>11, <1>13, <1>5 DEF RecordTells, Plan!ImportManaged, PlanInv, PlanTypes
    <2>3. \A j \in Identities \ {i} : records'[j] # Nil => RecordTells(j)'
      BY <1>10, <1>11, EntryKeeps
    <2>4. \A j \in Identities : records[j] # Nil => records[j].task # t
      BY <1>10, EntryKeeps
    <2>5. \A j, k \in Identities : records'[j] # Nil /\ records'[k] # Nil /\ j # k =>
                                    records'[j].task # records'[k].task
      BY <1>7, <1>11, <2>4 DEF PlanInv, RecordsTell
    <2> QED BY <2>1, <2>2, <2>3, <2>5 DEF RecordsTell
  <1>15. Acyclic(needs, members)' /\ OneParent'
    BY DEF PlanInv, Applies, Acyclic, OneParent
  <1> QED BY <1>10, <1>12, <1>14, <1>15, EntryKeeps, EntryWithinBudget DEF PlanInv

\* An item with a record: its task is brought up to date only if the import was the
\* last to write it, and what is closed stays so.
LEMMA ImportedAgain ==
  ASSUME PlanInv, NEW p \in Previews, Applies(p),
         records[previews[p].item.identity] # Nil, Plan!ApplyExisting(previews[p].item)
  PROVE  PlanInv'
  <1>1. PICK item \in Plan!Items : item = previews[p].item
    BY DEF Applies
  <1>2. PICK i \in Identities : i = item.identity
    BY DEF Plan!Items
  <1>3. PICK old : old = records[i]
    OBVIOUS
  <1>4. old \in RecordRow /\ records[i] = old /\ old # Nil
    BY <1>1, <1>2, <1>3 DEF PlanInv, PlanTypes
  <1>5. PICK t \in Tasks : t = old.task
    BY <1>4 DEF RecordRow
  <1>6. /\ old.at \in Nat /\ old.revision \in Nat /\ old.closed \in BOOLEAN
        /\ RecordTells(i)
    BY <1>4 DEF RecordRow, PlanInv, RecordsTell
  <1>7. /\ rows[t] # Nil /\ rows[t] \in Plan!Row /\ hold[t] # "held"
        /\ old.at <= rows[t].revision
        /\ writer[t] = "import" =>
             /\ Plan!ImportManaged(t, old.at)
             /\ old.closed => rows[t].life = "done"
        /\ writer[t] # "import" => old.at < rows[t].revision \/ rows[t].work # "none"
    BY <1>4, <1>5, <1>6 DEF RecordTells, PlanInv, PlanTypes
  <1>8. PICK closed : closed = Plan!StaysClosed(old, item)
    OBVIOUS
  <1>9. closed \in BOOLEAN
    BY <1>8 DEF Plan!StaysClosed
  <1>10. PICK life : life = IF closed THEN "done" ELSE "planned"
    OBVIOUS
  <1>11. PICK changed :
           changed = (Plan!ImportManaged(t, old.at) /\ (item.retitled \/ rows[t].life # life))
    OBVIOUS
  <1>12. changed \in BOOLEAN
    BY <1>11
  <1>13. PICK record : record = [task |-> t, revision |-> old.revision + 1,
                                 at |-> IF changed THEN old.at + 1 ELSE old.at,
                                 closed |-> closed]
    OBVIOUS
  <1>14. PICK new : new = [rows[t] EXCEPT !.life = life, !.revision = @ + 1]
    OBVIOUS
  <1>15. /\ changed => rows[t].revision < MaxTaskRevision
         /\ rows' = IF changed THEN [rows EXCEPT ![t] = new] ELSE rows
         /\ writer' = IF changed /\ writer[t] # "import"
                      THEN [writer EXCEPT ![t] = "overwritten"]
                      ELSE writer
         /\ records' = [records EXCEPT ![i] = record]
    <2>1. Plan!ApplyExisting(item) /\ item.identity = i /\ records[i] = old /\ old.task = t
      BY <1>1, <1>2, <1>3, <1>5
    <2>2. changed => rows[t].revision < MaxTaskRevision
      BY <1>8, <1>10, <1>11, <2>1 DEF Plan!ApplyExisting
    <2>3. rows' = IF changed THEN [rows EXCEPT ![t] = new] ELSE rows
      <3>1. CASE changed
        <4>1. rows' = [rows EXCEPT ![t].life = life, ![t].revision = rows[t].revision + 1]
          BY <1>8, <1>10, <1>11, <2>1, <3>1 DEF Plan!ApplyExisting
        <4>2. rows' = [rows EXCEPT ![t] = new]
          BY <1>14, <4>1 DEF PlanInv, PlanTypes
        <4> QED BY <3>1, <4>2
      <3>2. CASE ~changed
        BY <1>8, <1>10, <1>11, <2>1, <3>2 DEF Plan!ApplyExisting
      <3> QED BY <3>1, <3>2
    <2>4. writer' = IF changed /\ writer[t] # "import"
                    THEN [writer EXCEPT ![t] = "overwritten"]
                    ELSE writer
      BY <1>8, <1>10, <1>11, <2>1 DEF Plan!ApplyExisting
    <2>5. records' = [records EXCEPT ![i] = record]
      BY <1>8, <1>10, <1>11, <1>13, <2>1 DEF Plan!ApplyExisting
    <2> QED BY <2>2, <2>3, <2>4, <2>5
  <1>16. changed => writer[t] = "import" /\ rows[t].revision = old.at /\ rows[t].work = "none"
    <2>1. changed => Plan!ImportManaged(t, old.at)
      BY <1>11, Zenon
    <2>2. Plan!ImportManaged(t, old.at) => rows[t].revision = old.at /\ rows[t].work = "none"
      BY DEF Plan!ImportManaged
    <2>3. rows[t].revision = old.at => ~(old.at < rows[t].revision)
      BY <1>6
    <2> QED BY <1>7, <2>1, <2>2, <2>3
  <1>17. writer' = writer
    BY <1>15, <1>16
  <1>18. rows[t].life = "done" => closed
    BY <1>5, <1>8 DEF Plan!StaysClosed
  <1>19. /\ rows[t].revision \in Nat
         /\ changed => rows[t].revision + 1 \in 1 .. MaxTaskRevision
    BY <1>7, <1>15, PlanningAssumption DEF Plan!Row
  <1>20. changed => /\ new \in Plan!Row /\ new.life = life /\ new.work = rows[t].work
                    /\ new.admitted = rows[t].admitted /\ new.revision = rows[t].revision + 1
    BY <1>7, <1>10, <1>14, <1>19 DEF Plan!Row
  <1>21. PICK now : now = rows'[t]
    OBVIOUS
  <1>22. /\ rows'[t] = now /\ now \in Plan!Row /\ now # Nil
         /\ \A u \in Tasks \ {t} : rows'[u] = rows[u]
         /\ rows' \in [Tasks -> Plan!Row \cup {Nil}]
         /\ now.work = rows[t].work /\ now.admitted = rows[t].admitted
         /\ rows[t].life = "done" => now.life = "done"
    <2>1. CASE changed
      <3>1. rows' = [rows EXCEPT ![t] = new]
        BY <1>15, <2>1
      <3>2. rows'[t] = new /\ new \in Plan!Row /\ now = new
        BY <1>20, <1>21, <2>1, <3>1 DEF PlanInv, PlanTypes
      <3>3. rows[t].life = "done" => new.life = "done"
        BY <1>10, <1>18, <1>20, <2>1
      <3> QED BY <1>20, <2>1, <3>1, <3>2, <3>3, PlanningAssumption DEF PlanInv, PlanTypes
    <2>2. CASE ~changed
      BY <1>7, <1>15, <1>21, <2>2 DEF PlanInv, PlanTypes
    <2> QED BY <2>1, <2>2
  <1>23. record \in RecordRow /\ record.task = t /\ record.closed = closed
    BY <1>6, <1>9, <1>12, <1>13 DEF RecordRow
  <1>24. /\ records' \in [Identities -> RecordRow \cup {Nil}] /\ records'[i] = record
         /\ \A j \in Identities \ {i} : records'[j] = records[j]
    BY <1>15, <1>23 DEF PlanInv, PlanTypes
  <1>25. /\ \A u \in Tasks : rows[u] # Nil => rows'[u] # Nil
         /\ \A u \in Tasks : rows'[u] # Nil =>
              /\ rows[u] # Nil /\ rows'[u].admitted = rows[u].admitted
              /\ rows'[u].work = rows[u].work
         /\ \A u \in Tasks : rows[u] # Nil /\ rows[u].life = "done" => rows'[u].life = "done"
    BY <1>7, <1>22
  <1>26. PlanTypes'
    BY <1>17, <1>22, <1>24 DEF PlanInv, PlanTypes, Applies
  <1>27. WithinBudget'
    BY <1>25, FewerOpened DEF PlanInv
  <1>28. HoldTells'
    BY <1>7, <1>22 DEF PlanInv, HoldTells, Applies
  <1>29. members' = members /\ \A r \in members : r.objective \in Tasks /\ r.child \in Tasks
    BY DEF PlanInv, PlanTypes, Plan!Member, Applies
  <1>30. MembersExist'
    BY <1>25, <1>29 DEF PlanInv, MembersExist
  <1>31. Plan!FrozenScopeIsDone'
    BY <1>25, <1>29 DEF PlanInv, MembersExist, Plan!FrozenScopeIsDone, Plan!Exists,
       Plan!RequiredChildrenDone
  <1>32. RecordTells(i)'
    <2>1. CASE changed
      <3>1. /\ now.life = life /\ now.revision = old.at + 1 /\ now.work = "none"
            /\ record.at = old.at + 1 /\ writer'[t] = "import"
        BY <1>13, <1>15, <1>16, <1>17, <1>20, <1>22, <2>1 DEF PlanInv, PlanTypes
      <3> QED BY <1>6, <1>7, <1>10, <1>22, <1>23, <1>24, <3>1 DEF RecordTells, Applies,
                 Plan!ImportManaged
    <2>2. CASE ~changed
      <3>1. rows' = rows /\ record.at = old.at
        BY <1>13, <1>15, <2>2
      <3>2. writer[t] = "import" /\ closed => rows[t].life = "done"
        BY <1>7, <1>9, <1>10, <1>11, <2>2
      <3> QED BY <1>7, <1>17, <1>23, <1>24, <3>1, <3>2 DEF RecordTells, Applies, Plan!ImportManaged
    <2> QED BY <2>1, <2>2
  <1>33. RecordsTell'
    <2>1. \A j \in Identities \ {i} : records[j] # Nil =>
            RecordTells(j) /\ records[j].task \in Tasks /\ records[j].task # t
      BY <1>4, <1>5 DEF PlanInv, PlanTypes, RecordsTell, RecordRow
    <2>2. \A j \in Identities \ {i} : records'[j] # Nil => RecordTells(j)'
      BY <1>17, <1>22, <1>24, <2>1 DEF RecordTells, Applies, Plan!ImportManaged
    <2>3. \A j, k \in Identities : records'[j] # Nil /\ records'[k] # Nil /\ j # k =>
                                    records'[j].task # records'[k].task
      BY <1>23, <1>24, <2>1 DEF PlanInv, RecordsTell
    <2>4. \A u \in Tasks : writer'[u] # "overwritten"
      BY <1>17 DEF PlanInv, RecordsTell
    <2> QED BY <1>32, <2>2, <2>3, <2>4 DEF RecordsTell
  <1>34. Acyclic(needs, members)' /\ OneParent'
    BY DEF PlanInv, Applies, Acyclic, OneParent
  <1> QED BY <1>26, <1>27, <1>28, <1>30, <1>31, <1>33, <1>34 DEF PlanInv

---------------------------------------------------------------------------
LEMMA PlanCreates ==
  ASSUME PlanInv, NEW actors \in SUBSET {"human", "agent"}, NEW classes, NEW n,
         Plan!CreateNext(actors, classes, n)
  PROVE  PlanInv'
  <1>1. PICK t \in Tasks, by \in actors, planned \in BOOLEAN :
          \/ \E class \in classes, backed \in BOOLEAN, ds \in Plan!Prerequisites[t] :
               Plan!CreateTask(t, by, planned, class, backed, ds)
          \/ \E ms \in Plan!Memberships[t] : Plan!CreateObjective(t, by, planned, ms)
    BY DEF Plan!CreateNext
  <1>2. Plan!Prerequisites[t] \subseteq SUBSET Tasks
    BY DEF Plan!Prerequisites
  <1> QED BY <1>1, <1>2, TaskCreated, ObjectiveCreated

LEMMA PlanEdits ==
  ASSUME PlanInv, NEW actors \in SUBSET {"human", "agent"}, NEW n, Plan!EditNext(actors, n)
  PROVE  PlanInv'
  <1>1. ASSUME NEW t \in Tasks PROVE Plan!Prerequisites[t] \subseteq SUBSET Tasks
    BY DEF Plan!Prerequisites
  <1>2. CASE \E t \in Tasks, by \in actors :
               \/ Plan!CancelTask(t, by)
               \/ \E planned \in BOOLEAN, ds \in Plan!Prerequisites[t] :
                    Plan!UpdateTask(t, by, planned, ds)
    BY <1>1, <1>2, TaskEnds, TaskUpdates
  <1>3. CASE \E t \in Tasks : Plan!CompleteExternal(t) \/ \E by \in actors : Plan!DeleteTask(t, by)
    BY <1>3, TaskEnds
  <1>4. CASE \E o \in Tasks : \E ms \in Plan!Memberships[o] : Plan!UpdateChildren(o, ms)
    BY <1>4, ChildrenUpdate
  <1> QED BY <1>2, <1>3, <1>4 DEF Plan!EditNext

LEMMA PlanStep ==
  ASSUME PlanInv, PlanningPart
  PROVE  PlanInv'
  <1>1. CASE Plan!NextWeek
    <2>1. week' \in 1 .. MaxWeek /\ UNCHANGED <<rows, needs, members, records, previews, hold, writer>>
      BY <1>1, PlanningAssumption DEF Plan!NextWeek, PlanInv, PlanTypes
    <2> QED BY <2>1 DEF PlanInv, PlanTypes, WithinBudget, Opened, HoldTells, Acyclic, OneParent,
               MembersExist, Plan!FrozenScopeIsDone, Plan!Exists, Plan!RequiredChildrenDone,
               RecordsTell, RecordTells, Plan!ImportManaged
  <1>2. CASE \E actors \in SUBSET {"human", "agent"} : \E classes, n :
               Plan!CreateNext(actors, classes, n)
    BY <1>2, PlanCreates
  <1>3. CASE \E actors \in SUBSET {"human", "agent"} : \E n : Plan!EditNext(actors, n)
    BY <1>3, PlanEdits
  <1>4. CASE Plan!WorkNext
    BY <1>4, WorkMoves DEF Plan!WorkNext
  <1>5. CASE Plan!ImportNext
    <2>1. ASSUME NEW p \in Previews, NEW t \in Tasks, Plan!Apply(p, t)
          PROVE  PlanInv'
      BY <2>1, Applied, ImportedNew, ImportedAgain
    <2> QED BY <1>5, <2>1, PreviewTaken DEF Plan!ImportNext
  <1>6. CASE \E t \in Tasks : Plan!CreateObjective(t, "human", FALSE, {})
    <2>1. PICK t \in Tasks : Plan!CreateObjective(t, "human", FALSE, {})
      BY <1>6
    <2>2. Plan!Cardinality({}) = 0
      BY FS_EmptySet DEF Plan!Cardinality, Cardinality
    <2>3. {} \in Plan!Memberships[t]
      BY <2>2, PlanningAssumption DEF Plan!Memberships
    <2> QED BY <2>1, <2>3, ObjectiveCreated
  <1>7. Humans \in SUBSET {"human", "agent"} /\ Everyone \in SUBSET {"human", "agent"}
    BY DEF Humans, Everyone
  <1> QED BY <1>1, <1>2, <1>3, <1>4, <1>5, <1>6, <1>7 DEF PlanningPart

\* Nobody's work exceeds the week's budget or leaves the queue without a human, the
\* plan has no circle and no task two parents, work on an objective follows its
\* required children, and an import changes nothing the service wrote since, for any
\* number of tasks, weeks, items and previews (admission.rs, objectives.rs, imports.rs,
\* coordination.rs update_task).
THEOREM PlanIsSound == Spec => []PlanningSound
  <1>1. Init => PlanInv
    <2> SUFFICES ASSUME Init PROVE PlanInv
      OBVIOUS
    <2>1. /\ week = 1 /\ rows = [t \in Tasks |-> Nil] /\ needs = {} /\ members = {}
          /\ records = [i \in Identities |-> Nil] /\ previews = [p \in Previews |-> Nil]
          /\ hold = [t \in Tasks |-> "never"] /\ writer = [t \in Tasks |-> "service"]
      BY DEF Init, Plan!PlanningInit
    <2>2. PlanTypes
      BY <2>1, PlanningAssumption DEF PlanTypes
    <2>3. WithinBudget
      <3>1. \A w : Opened(rows, w) = {}
        BY <2>1 DEF Opened
      <3> QED BY <3>1, FS_EmptySet, PlanningAssumption DEF WithinBudget
    <2>4. Acyclic(needs, members)
      BY <2>1 DEF Acyclic, Plan!Follows
    <2>5. HoldTells /\ OneParent /\ MembersExist /\ RecordsTell
      BY <2>1 DEF HoldTells, OneParent, MembersExist, RecordsTell
    <2>6. Plan!FrozenScopeIsDone
      BY <2>1 DEF Plan!FrozenScopeIsDone, Plan!Exists
    <2> QED BY <2>2, <2>3, <2>4, <2>5, <2>6 DEF PlanInv
  <1>2. PlanInv /\ [Next]_all => PlanInv'
    <2> SUFFICES ASSUME PlanInv, [Next]_all PROVE PlanInv'
      OBVIOUS
    <2>1. CASE PlanningPart
      BY <2>1, PlanStep
    <2>2. CASE UNCHANGED planningVars
      BY <2>2 DEF planningVars, PlanInv, PlanTypes, WithinBudget, Opened, HoldTells, Acyclic,
         OneParent, MembersExist, Plan!FrozenScopeIsDone, Plan!Exists, Plan!RequiredChildrenDone,
         RecordsTell, RecordTells, Plan!ImportManaged
    <2> QED BY <2>1, <2>2 DEF Next, all
  <1>3. PlanInv => PlanningSound
    <2> SUFFICES ASSUME PlanInv PROVE PlanningSound
      OBVIOUS
    <2>1. Plan!BudgetHeld
      <3>1. \A w \in 1 .. MaxWeek :
              Plan!Cardinality({t \in Tasks : Plan!Exists(t) /\ rows[t].admitted = w}) <= Budget
        BY OpenedInWeek DEF PlanInv, WithinBudget, Plan!AdmittedInWeek
      <3>2. \A t \in Tasks : hold[t] = "held" => rows[t].life \in {"planned", "canceled"}
        BY DEF PlanInv, HoldTells
      <3> QED BY <3>1, <3>2 DEF Plan!BudgetHeld
    <2>2. Plan!PlanIsATree
      BY DEF PlanInv, Acyclic, OneParent, Plan!PlanIsATree
    <2>3. Plan!ImportsKeepTheRecord
      BY DEF PlanInv, RecordsTell, RecordTells, Plan!ImportsKeepTheRecord
    <2> QED BY <2>1, <2>2, <2>3 DEF PlanInv, PlanningSound, Plan!PlanningSound
  <1> QED BY <1>1, <1>2, <1>3, PTL DEF Spec

---------------------------------------------------------------------------
(* Credentials, agent sessions and subagent identities.                     *)

USE NoNameAssumption

CredentialRow == [who : Principals \cup {NoName}, state : {"none", "live", "revoked", "deleted"},
                  access : Agents!Access, asked : BOOLEAN]

SessionRow == [cred : Agents!Credentials, parent : SessionIds \cup {NoName},
               identity : Names \cup {NoName}, open : BOOLEAN]

CredentialTypes ==
  /\ credential \in [Agents!Credentials -> CredentialRow]
  /\ issued \in Nat /\ issued <= MaxCredentials
  /\ session \in [SessionIds -> SessionRow \cup {NoName}]
  /\ identity \in [Principals -> [Names -> Names \cup {NoName, "none"}]]

\* Credentials are issued in order, each to a principal.
IssuedInOrder ==
  \A c \in Agents!Credentials :
    /\ c <= issued => credential[c].who \in Principals /\ credential[c].state # "none"
    /\ c > issued => credential[c].who = NoName /\ credential[c].state = "none"

\* A session belongs to an issued credential, is open only while that one lives, and
\* its subagent's name has the parent that the principal's name has.
SessionsTell ==
  \A s \in SessionIds : session[s] # NoName =>
    /\ session[s].cred <= issued
    /\ session[s].open => credential[session[s].cred].state = "live"
    /\ session[s].parent # NoName =>
         /\ session[s].parent \in SessionIds /\ session[session[s].parent] # NoName
         /\ session[s].identity \in Names
         /\ credential[session[session[s].parent].cred].who = credential[session[s].cred].who
         /\ identity[credential[session[s].cred].who][session[s].identity]
              = session[session[s].parent].identity

CredInv == CredentialTypes /\ IssuedInOrder /\ SessionsTell /\ Agents!AccessWasChosen

LEMMA CredentialNumbers ==
  ASSUME CredentialTypes
  PROVE  /\ \A c \in Agents!Credentials : c \in Nat /\ c >= 1 /\ c <= MaxCredentials
         /\ \A c \in Nat : c >= 1 /\ c <= MaxCredentials => c \in Agents!Credentials
         /\ \A c \in 1 .. issued : c \in Agents!Credentials
  BY DEF Agents!Credentials, CredentialTypes

\* What was ever given to somebody was issued, and so was all that came before.
LEMMA IssuedOnes ==
  ASSUME CredInv
  PROVE  /\ \A c \in Agents!Credentials :
              credential[c].state # "none" \/ credential[c].who # NoName =>
                c \in 1 .. issued /\ c <= issued /\ credential[c].who \in Principals
         /\ \A c \in 1 .. issued, d \in Agents!Credentials : d < c => d \in 1 .. issued
  <1>1. issued \in Nat /\ \A c \in Agents!Credentials : c \in Nat /\ c >= 1
    BY CredentialNumbers DEF CredInv, CredentialTypes
  <1>2. \A c \in Agents!Credentials :
          /\ c <= issued => credential[c].who \in Principals
          /\ c > issued => credential[c].who = NoName /\ credential[c].state = "none"
    BY DEF CredInv, IssuedInOrder
  <1> QED BY <1>1, <1>2

\* The credentials that are there before an issue: some may have been revoked by it.
OthersKept(others) ==
  /\ others \in [Agents!Credentials -> CredentialRow]
  /\ \A c \in Agents!Credentials : /\ others[c].who = credential[c].who
                                   /\ others[c].access = credential[c].access
                                   /\ others[c].asked = credential[c].asked
                                   /\ others[c].state = "none" <=> credential[c].state = "none"

\* Sessions stay or are closed, and those of a revoked credential are closed.
SessionsKept(others) ==
  /\ session' \in [SessionIds -> SessionRow \cup {NoName}]
  /\ \A s \in SessionIds :
       /\ session'[s] # NoName <=> session[s] # NoName
       /\ session[s] # NoName =>
            /\ session'[s].cred = session[s].cred
            /\ session'[s].parent = session[s].parent
            /\ session'[s].identity = session[s].identity
            /\ session'[s].open => session[s].open /\ others[session[s].cred].state = "live"

\* Issuing a credential whose access was chosen, now or for an earlier one of the
\* principal, while sessions stay or are closed.
LEMMA IssueKeeps ==
  ASSUME CredInv, NEW p \in Principals, NEW access \in Agents!Access, NEW asked \in BOOLEAN,
         NEW others, OthersKept(others),
         ~asked => \E d \in 1 .. issued : /\ credential[d].who = p
                                          /\ credential[d].access = access
                                          /\ credential[d].asked,
         Agents!Issue(p, access, asked, others),
         identity' = identity,
         SessionsKept(others)
  PROVE  CredInv'
  <1> USE DEF OthersKept, SessionsKept
  <1> DEFINE n == issued + 1
             fresh == [who |-> p, state |-> "live", access |-> access, asked |-> asked]
  <1>1. n \in Nat /\ n >= 1 /\ n <= MaxCredentials /\ issued' = n /\ issued \in Nat
    BY DEF Agents!Issue, CredInv, CredentialTypes
  <1>2. n \in Agents!Credentials /\ fresh \in CredentialRow
    BY <1>1, CredentialNumbers DEF CredInv, CredentialRow
  <1>3. credential' = [others EXCEPT ![n] = fresh]
    BY DEF Agents!Issue
  <1>4. /\ credential' \in [Agents!Credentials -> CredentialRow]
        /\ credential'[n] = fresh
        /\ \A c \in Agents!Credentials : c # n => credential'[c] = others[c]
    BY <1>2, <1>3
  <1>5. CredentialTypes'
    BY <1>1, <1>4 DEF CredentialTypes, CredInv, Agents!Credentials
  <1>6. \A c \in Agents!Credentials : c \in Nat
    BY CredentialNumbers DEF CredInv
  <1>7. IssuedInOrder'
    BY <1>1, <1>2, <1>4, <1>6 DEF IssuedInOrder, CredInv, Agents!Credentials
  <1>8. \A c \in Agents!Credentials : c <= issued =>
          /\ credential'[c].who = credential[c].who
          /\ credential'[c].access = credential[c].access
          /\ credential'[c].asked = credential[c].asked
          /\ credential'[c].state = others[c].state
    BY <1>1, <1>4, <1>6
  <1>9. SessionsTell'
    <2>1. \A s \in SessionIds : session[s] # NoName =>
            session[s] \in SessionRow /\ session[s].cred \in Agents!Credentials
      BY DEF CredInv, CredentialTypes, SessionRow
    <2> QED BY SMTT(30), <1>1, <1>6, <1>8, <2>1 DEF SessionsTell, CredInv
  <1>10. Agents!AccessWasChosen'
    <2> SUFFICES ASSUME NEW c \in 1 .. issued', ~credential'[c].asked
                 PROVE  \E d \in Agents!Of(credential[c].who)' :
                          d < c /\ credential'[d].asked /\ credential'[d].access = credential'[c].access
      BY DEF Agents!AccessWasChosen
    <2>0. \A d \in Agents!Credentials : \A q : credential'[d].who = q => d \in Agents!Of(q)'
      BY DEF Agents!Of, Agents!Credentials
    <2>1. CASE c = n
      <3>1. PICK d \in 1 .. issued : credential[d].who = p /\ credential[d].access = access
                                     /\ credential[d].asked
        BY <1>2, <1>4, <2>1
      <3>2. d \in Agents!Credentials /\ d <= issued /\ d < n
        BY <1>1, CredentialNumbers DEF CredInv
      <3> QED BY <1>4, <1>8, <2>0, <2>1, <3>1, <3>2
    <2>2. CASE c # n
      <3>1. c \in 1 .. issued /\ c \in Agents!Credentials /\ c <= issued
        BY <1>1, <2>2, CredentialNumbers DEF CredInv
      <3>2. PICK d \in Agents!Of(credential[c].who) :
              d < c /\ credential[d].asked /\ credential[d].access = credential[c].access
        BY <1>8, <3>1 DEF CredInv, Agents!AccessWasChosen
      <3>3. d \in Agents!Credentials /\ credential[d].who = credential[c].who /\ d <= issued
        <4>1. d \in Agents!Credentials /\ credential[d].who = credential[c].who
          BY <3>2 DEF Agents!Of
        <4>2. c \in Nat /\ d \in Nat /\ issued \in Nat
          BY <1>1, <1>6, <3>1, <4>1
        <4> QED BY <3>1, <3>2, <4>1, <4>2
      <3> QED BY <1>8, <2>0, <3>1, <3>2, <3>3
    <2> QED BY <2>1, <2>2
  <1> QED BY <1>5, <1>7, <1>9, <1>10 DEF CredInv

\* The sessions of a credential are closed, the others kept.
LEMMA ClosedSessions ==
  ASSUME CredentialTypes, NEW c
  PROVE  /\ Agents!Closed(c) \in [SessionIds -> SessionRow \cup {NoName}]
         /\ \A s \in SessionIds :
              LET closed == Agents!Closed(c)[s] IN
              /\ closed # NoName <=> session[s] # NoName
              /\ session[s] # NoName =>
                   /\ closed.cred = session[s].cred
                   /\ closed.parent = session[s].parent
                   /\ closed.identity = session[s].identity
                   /\ closed.open => session[s].open /\ session[s].cred # c
  <1>1. \A s \in SessionIds : session[s] = NoName \/ session[s] \in SessionRow
    BY DEF CredentialTypes
  <1>2. NoName \notin SessionRow
    BY DEF SessionRow, Agents!Credentials
  <1>3. ASSUME NEW s \in SessionIds, session[s] # NoName, session[s].cred = c
        PROVE  /\ [session[s] EXCEPT !.open = FALSE] \in SessionRow
               /\ [session[s] EXCEPT !.open = FALSE].cred = session[s].cred
               /\ [session[s] EXCEPT !.open = FALSE].parent = session[s].parent
               /\ [session[s] EXCEPT !.open = FALSE].identity = session[s].identity
               /\ ~[session[s] EXCEPT !.open = FALSE].open
    BY <1>1, <1>3 DEF SessionRow
  <1> QED BY <1>1, <1>2, <1>3 DEF Agents!Closed

LEMMA IssueExistingKeeps ==
  ASSUME CredInv, NEW p \in Principals, NEW access \in Agents!Access \cup {NoName},
         Agents!IssueExisting(p, access)
  PROVE  CredInv'
  <1>1. /\ credential \in [Agents!Credentials -> CredentialRow]
        /\ session' = session /\ identity' = identity
        /\ session \in [SessionIds -> SessionRow \cup {NoName}]
    BY DEF Agents!IssueExisting, CredInv, CredentialTypes
  <1>2. \A s \in SessionIds : session[s] # NoName =>
          (session[s].open => credential[session[s].cred].state = "live")
    BY DEF CredInv, SessionsTell
  <1>3. CASE access = NoName
    <2> DEFINE c == Agents!Newest(p)
    <2>1. c \in Agents!Of(p)
      <3>1. Agents!Of(p) \in SUBSET (1 .. MaxCredentials) /\ Agents!Of(p) # {}
        BY DEF Agents!Of, Agents!Credentials, Agents!IssueExisting
      <3>2. \E x \in Agents!Of(p) : \A y \in Agents!Of(p) : y <= x
        BY <3>1, GreatestNatural
      <3>3. \E x \in Agents!Of(p) : \A y \in Agents!Of(p) : x >= y
        BY <3>1, <3>2
      <3> QED BY <3>3 DEF Agents!Newest
    <2>2. c \in Agents!Credentials /\ credential[c].who = p
      BY <2>1 DEF Agents!Of
    <2>3. c \in 1 .. issued
      BY <2>2, IssuedOnes
    <2>4. credential[c].access \in Agents!Access /\ Agents!Issue(p, credential[c].access, FALSE, credential)
      BY <1>1, <1>3, <2>2 DEF Agents!IssueExisting, CredentialRow
    <2> HIDE DEF c
    <2>5. \E d \in 1 .. issued : /\ credential[d].who = p
                                 /\ credential[d].access = credential[c].access
                                 /\ credential[d].asked
      <3>1. CASE credential[c].asked
        BY <2>2, <2>3, <3>1
      <3>2. CASE ~credential[c].asked
        <4>1. PICK d \in Agents!Of(p) :
                d < c /\ credential[d].asked /\ credential[d].access = credential[c].access
          BY <2>2, <2>3, <3>2 DEF CredInv, Agents!AccessWasChosen
        <4>2. d \in 1 .. issued /\ credential[d].who = p
          BY <2>3, <4>1, IssuedOnes DEF Agents!Of
        <4> QED BY <4>1, <4>2
      <3> QED BY <3>1, <3>2
    <2>6. OthersKept(credential) /\ SessionsKept(credential)
      BY <1>1, <1>2 DEF OthersKept, SessionsKept
    <2> QED BY <1>1, <2>2, <2>4, <2>5, <2>6, IssueKeeps
  <1>4. CASE access # NoName
    <2>1. access \in Agents!Access /\ Agents!Issue(p, access, TRUE, credential)
      BY <1>4 DEF Agents!IssueExisting
    <2>2. OthersKept(credential) /\ SessionsKept(credential)
      BY <1>1, <1>2 DEF OthersKept, SessionsKept
    <2> QED BY <1>1, <2>1, <2>2, IssueKeeps
  <1> QED BY <1>3, <1>4

LEMMA RotateKeeps ==
  ASSUME CredInv, NEW c \in Agents!Credentials, NEW revokeOld \in BOOLEAN,
         Agents!Rotate(c, revokeOld)
  PROVE  CredInv'
  <1> DEFINE others == IF revokeOld THEN [credential EXCEPT ![c].state = "revoked"] ELSE credential
  <1>1. /\ credential \in [Agents!Credentials -> CredentialRow] /\ credential[c] \in CredentialRow
        /\ credential[c].state = "live" /\ identity' = identity
        /\ Agents!Issue(credential[c].who, credential[c].access, FALSE, others)
        /\ session' = IF revokeOld THEN Agents!Closed(c) ELSE session
        /\ session \in [SessionIds -> SessionRow \cup {NoName}]
    BY DEF Agents!Rotate, Agents!Live, CredInv, CredentialTypes
  <1>2. c \in 1 .. issued /\ credential[c].who \in Principals /\ credential[c].access \in Agents!Access
    BY <1>1, IssuedOnes DEF CredentialRow
  <1>3. \A s \in SessionIds : session[s] # NoName =>
          (session[s].open => credential[session[s].cred].state = "live")
    BY DEF CredInv, SessionsTell
  <1>4. \E d \in 1 .. issued : /\ credential[d].who = credential[c].who
                               /\ credential[d].access = credential[c].access
                               /\ credential[d].asked
    <2>1. CASE credential[c].asked
      BY <1>2, <2>1
    <2>2. CASE ~credential[c].asked
      <3>1. PICK d \in Agents!Of(credential[c].who) :
              d < c /\ credential[d].asked /\ credential[d].access = credential[c].access
        BY <1>2, <2>2 DEF CredInv, Agents!AccessWasChosen
      <3>2. d \in 1 .. issued /\ credential[d].who = credential[c].who
        BY <1>2, <3>1, IssuedOnes DEF Agents!Of
      <3> QED BY <3>1, <3>2
    <2> QED BY <2>1, <2>2
  <1>5. /\ others \in [Agents!Credentials -> CredentialRow]
        /\ \A d \in Agents!Credentials :
             /\ others[d].who = credential[d].who
             /\ others[d].access = credential[d].access
             /\ others[d].asked = credential[d].asked
             /\ others[d].state = "none" <=> credential[d].state = "none"
             /\ others[d].state = IF revokeOld /\ d = c THEN "revoked" ELSE credential[d].state
    BY <1>1 DEF CredentialRow
  <1> HIDE DEF others
  <1>6. /\ session' \in [SessionIds -> SessionRow \cup {NoName}]
        /\ \A s \in SessionIds :
             /\ session'[s] # NoName <=> session[s] # NoName
             /\ session[s] # NoName =>
                  /\ session'[s].cred = session[s].cred
                  /\ session'[s].parent = session[s].parent
                  /\ session'[s].identity = session[s].identity
                  /\ session'[s].open => session[s].open /\ ~(revokeOld /\ session[s].cred = c)
    BY <1>1, ClosedSessions DEF CredInv
  <1>7. \A s \in SessionIds : session[s] # NoName => session[s].cred \in Agents!Credentials
    BY DEF CredInv, CredentialTypes, SessionRow
  <1>8. \A s \in SessionIds : session[s] # NoName =>
          (session'[s].open => session[s].open /\ others[session[s].cred].state = "live")
    BY <1>3, <1>5, <1>6, <1>7
  <1>9. Agents!Issue(credential[c].who, credential[c].access, FALSE, others) /\ identity' = identity
    BY <1>1
  <1>10. SessionsKept(others)
    BY <1>6, <1>8 DEF SessionsKept
  <1>11. OthersKept(others)
    BY <1>5 DEF OthersKept
  <1> DEFINE p == credential[c].who
             access == credential[c].access
  <1>13. /\ p \in Principals /\ access \in Agents!Access
         /\ Agents!Issue(p, access, FALSE, others)
         /\ \E d \in 1 .. issued : /\ credential[d].who = p
                                   /\ credential[d].access = access
                                   /\ credential[d].asked
    BY <1>2, <1>4, <1>9
  <1> HIDE DEF p, access
  <1> QED BY <1>9, <1>10, <1>11, <1>13, IssueKeeps

\* A credential is revoked with its sessions, or a revoked one is deleted.
LEMMA StateKeeps ==
  ASSUME CredInv, NEW c \in Agents!Credentials, Agents!RevokeCredential(c) \/ Agents!DeleteCredential(c)
  PROVE  CredInv'
  <1>1. PICK state \in {"revoked", "deleted"} :
          /\ credential' = [credential EXCEPT ![c].state = state]
          /\ credential[c].state \in {"live", "revoked"}
          /\ credential[c].state = "revoked" => session' = session
          /\ credential[c].state = "live" => session' = Agents!Closed(c)
          /\ issued' = issued /\ identity' = identity
    BY DEF Agents!RevokeCredential, Agents!DeleteCredential, Agents!Live
  <1>2. credential \in [Agents!Credentials -> CredentialRow]
    BY DEF CredInv, CredentialTypes
  <1>3. /\ credential' \in [Agents!Credentials -> CredentialRow]
        /\ \A d \in Agents!Credentials :
             /\ credential'[d].who = credential[d].who
             /\ credential'[d].access = credential[d].access
             /\ credential'[d].asked = credential[d].asked
             /\ credential'[d].state = IF d = c THEN state ELSE credential[d].state
    BY <1>1, <1>2 DEF CredentialRow
  <1>4. /\ session' \in [SessionIds -> SessionRow \cup {NoName}]
        /\ \A s \in SessionIds :
             /\ session'[s] # NoName <=> session[s] # NoName
             /\ session[s] # NoName =>
                  /\ session'[s].cred = session[s].cred
                  /\ session'[s].parent = session[s].parent
                  /\ session'[s].identity = session[s].identity
                  /\ session'[s].open => session[s].open /\ session[s].cred # c
    <2>1. CASE credential[c].state = "live"
      BY <1>1, <2>1, ClosedSessions DEF CredInv
    <2>2. CASE credential[c].state = "revoked"
      BY <1>1, <2>2 DEF CredInv, CredentialTypes, SessionsTell
    <2> QED BY <1>1, <2>1, <2>2
  <1>5. \A s \in SessionIds : session[s] # NoName =>
          session[s] \in SessionRow /\ session[s].cred \in Agents!Credentials
    BY DEF CredInv, CredentialTypes, SessionRow
  <1>6. CredentialTypes' /\ IssuedInOrder'
    BY <1>1, <1>3, <1>4 DEF CredInv, CredentialTypes, IssuedInOrder, Agents!Credentials
  <1>7. SessionsTell'
    BY <1>1, <1>3, <1>4, <1>5 DEF CredInv, SessionsTell
  <1>8. \A q : Agents!Of(q)' = Agents!Of(q)
    BY <1>3 DEF Agents!Of, Agents!Credentials
  <1>9. Agents!AccessWasChosen'
    BY <1>1, <1>3, <1>8, CredentialNumbers DEF CredInv, Agents!AccessWasChosen, Agents!Of
  <1> QED BY <1>6, <1>7, <1>9 DEF CredInv

LEMMA SessionKeeps ==
  ASSUME CredInv, NEW s \in SessionIds,
         \/ \E c \in Agents!Credentials : Agents!CreateSession(s, c)
         \/ Agents!CloseSession(s)
  PROVE  CredInv'
  <1>0. UNCHANGED <<credential, issued, identity>>
    BY DEF Agents!CreateSession, Agents!CloseSession
  <1>1. \A r \in SessionIds : session[r] = NoName \/ session[r] \in SessionRow
    BY DEF CredInv, CredentialTypes
  <1>2. NoName \notin SessionRow
    BY DEF SessionRow, Agents!Credentials
  <1>3. Agents!AccessWasChosen' /\ IssuedInOrder'
    BY <1>0 DEF CredInv, IssuedInOrder, Agents!AccessWasChosen, Agents!Of, Agents!Credentials
  <1>4. ASSUME NEW c \in Agents!Credentials, Agents!CreateSession(s, c)
        PROVE  CredentialTypes' /\ SessionsTell'
    <2> DEFINE fresh == [cred |-> c, parent |-> NoName, identity |-> NoName, open |-> TRUE]
    <2>1. fresh \in SessionRow /\ fresh.cred = c /\ fresh.parent = NoName /\ fresh.identity = NoName
      BY DEF SessionRow
    <2>2. /\ session[s] = NoName /\ session' = [session EXCEPT ![s] = fresh]
          /\ credential[c].state = "live"
      BY <1>4 DEF Agents!CreateSession, Agents!Live
    <2>3. c <= issued
      BY <2>2, IssuedOnes
    <2> HIDE DEF fresh
    <2>4. session'[s] = fresh /\ \A r \in SessionIds \ {s} : session'[r] = session[r]
      BY <2>2 DEF CredInv, CredentialTypes
    <2>5. CredentialTypes'
      BY <1>0, <2>1, <2>2 DEF CredInv, CredentialTypes, Agents!Credentials
    <2> QED BY <1>0, <1>1, <1>2, <2>1, <2>2, <2>3, <2>4, <2>5 DEF CredInv, SessionsTell
  <1>5. ASSUME Agents!CloseSession(s)
        PROVE  CredentialTypes' /\ SessionsTell'
    <2>1. session[s] \in SessionRow /\ session' = [session EXCEPT ![s].open = FALSE]
      BY <1>1, <1>5 DEF Agents!CloseSession
    <2>2. /\ session'[s] \in SessionRow /\ ~session'[s].open
          /\ session'[s].cred = session[s].cred
          /\ session'[s].parent = session[s].parent
          /\ session'[s].identity = session[s].identity
          /\ \A r \in SessionIds \ {s} : session'[r] = session[r]
      BY <2>1 DEF CredInv, CredentialTypes, SessionRow
    <2>3. CredentialTypes'
      BY <1>0, <2>1, <2>2 DEF CredInv, CredentialTypes, Agents!Credentials
    <2>4. \A r \in SessionIds :
            /\ session'[r] # NoName <=> session[r] # NoName
            /\ session[r] # NoName =>
                 /\ session'[r].cred = session[r].cred
                 /\ session'[r].parent = session[r].parent
                 /\ session'[r].identity = session[r].identity
                 /\ session'[r].open => session[r].open
      BY <1>2, <2>1, <2>2
    <2>5. SessionsTell'
      BY SMTT(30), <1>0, <2>4 DEF CredInv, SessionsTell
    <2> QED BY <2>3, <2>5
  <1> QED BY <1>3, <1>4, <1>5 DEF CredInv

LEMMA SubagentKeeps ==
  ASSUME CredInv, NEW s \in SessionIds, NEW parent \in SessionIds, NEW name \in Names,
         NEW c \in Agents!Credentials, Agents!CreateSubagent(s, c, name, parent)
  PROVE  CredInv'
  <1> DEFINE fresh == [cred |-> c, parent |-> parent, identity |-> name, open |-> TRUE]
             p == credential[c].who
             spoken == session[parent].identity
  <1>0. /\ UNCHANGED <<credential, issued>>
        /\ credential[c].state = "live" /\ session[s] = NoName
        /\ parent # s /\ session[parent] # NoName /\ credential[session[parent].cred].who = p
        /\ identity[p][name] # "none" => identity[p][name] = spoken
        /\ session' = [session EXCEPT ![s] = fresh]
        /\ identity' = [identity EXCEPT ![p][name] = spoken]
    BY DEF Agents!CreateSubagent, Agents!Live, Agents!Resolvable, Agents!Speaks
  <1>1. \A r \in SessionIds : session[r] = NoName \/ session[r] \in SessionRow
    BY DEF CredInv, CredentialTypes
  <1>2. NoName \notin SessionRow
    BY DEF SessionRow, Agents!Credentials
  <1>3. Agents!AccessWasChosen' /\ IssuedInOrder'
    BY <1>0 DEF CredInv, IssuedInOrder, Agents!AccessWasChosen, Agents!Of, Agents!Credentials
  <1>4. c <= issued /\ p \in Principals
    BY <1>0, IssuedOnes
  <1>5. fresh \in SessionRow /\ fresh.cred = c /\ fresh.parent = parent /\ fresh.identity = name
    BY DEF SessionRow
  <1>6. spoken \in Names \cup {NoName}
    BY <1>0, <1>1 DEF SessionRow
  <1> HIDE DEF fresh, p, spoken
  <1>7. session'[s] = fresh /\ \A r \in SessionIds \ {s} : session'[r] = session[r]
    BY <1>0 DEF CredInv, CredentialTypes
  <1>8. /\ identity'[p][name] = spoken
        /\ \A q \in Principals, n \in Names :
             <<q, n>> # <<p, name>> => identity'[q][n] = identity[q][n]
    BY <1>0, <1>4 DEF CredInv, CredentialTypes
  <1>9. CredentialTypes'
    BY <1>0, <1>4, <1>5, <1>6 DEF CredInv, CredentialTypes, Agents!Credentials
  \* A name that is spoken for keeps its parent; a new one nobody used yet.
  <1>10. \A q \in Principals, n \in Names :
           identity[q][n] # "none" => identity'[q][n] = identity[q][n]
    BY <1>0, <1>4, <1>8
  <1>11. ASSUME NEW r \in SessionIds, session'[r] # NoName
         PROVE  /\ session'[r].cred <= issued
                /\ session'[r].open => credential[session'[r].cred].state = "live"
                /\ session'[r].parent # NoName =>
                     /\ session'[r].parent \in SessionIds /\ session'[session'[r].parent] # NoName
                     /\ session'[r].identity \in Names
                     /\ credential[session'[session'[r].parent].cred].who
                          = credential[session'[r].cred].who
                     /\ identity'[credential[session'[r].cred].who][session'[r].identity]
                          = session'[session'[r].parent].identity
    <2>1. CASE r = s
      BY <1>0, <1>4, <1>5, <1>7, <1>8, <2>1 DEF p, spoken
    <2>2. CASE r # s
      <3>1. session'[r] = session[r] /\ session[r] # NoName /\ session[r] \in SessionRow
        BY <1>1, <1>7, <1>11, <2>2
      <3>2. CASE session[r].parent = NoName
        BY <3>1, <3>2 DEF CredInv, SessionsTell
      <3>3. CASE session[r].parent # NoName
        <4> DEFINE q == session[r].parent
                   w == credential[session[r].cred].who
        <4>1. /\ q \in SessionIds /\ session[q] # NoName /\ session[r].identity \in Names
              /\ credential[session[q].cred].who = w
              /\ identity[w][session[r].identity] = session[q].identity
              /\ session[r].cred <= issued
              /\ session[r].open => credential[session[r].cred].state = "live"
          BY <3>1, <3>3 DEF CredInv, SessionsTell
        <4>2. q # s /\ session'[q] = session[q]
          BY <1>0, <1>7, <4>1
        <4>3. session[q].identity \in Names \cup {NoName}
          BY <1>1, <4>1 DEF SessionRow
        <4>4. w \in Principals
          BY <3>1, <4>1 DEF CredInv, IssuedInOrder, SessionRow
        <4> HIDE DEF q, w
        <4>5. identity'[w][session[r].identity] = session[q].identity
          BY <1>10, <4>1, <4>3, <4>4
        <4> QED BY <3>1, <4>1, <4>2, <4>5 DEF q, w
      <3> QED BY <3>2, <3>3
    <2> QED BY <2>1, <2>2
  <1>12. SessionsTell'
    BY <1>0, <1>11 DEF SessionsTell
  <1> QED BY <1>3, <1>9, <1>12 DEF CredInv

LEMMA CredInvInit == Agents!CredentialsInit => CredInv
  <1> SUFFICES ASSUME Agents!CredentialsInit PROVE CredInv
    OBVIOUS
  <1>1. Agents!Unissued \in CredentialRow /\ Agents!Unissued.who = NoName
        /\ Agents!Unissued.state = "none"
    BY DEF Agents!Unissued, CredentialRow, Agents!Access
  <1> QED BY <1>1 DEF Agents!CredentialsInit, CredInv, CredentialTypes, IssuedInOrder, SessionsTell,
                      Agents!AccessWasChosen, Agents!Credentials

LEMMA CredInvStep == CredInv /\ Agents!CredentialsNext => CredInv'
  <1> SUFFICES ASSUME CredInv, Agents!CredentialsNext PROVE CredInv'
    OBVIOUS
  <1>1. ASSUME NEW p \in Principals, NEW a \in Agents!Access, Agents!CreateAgent(p, a)
        PROVE  CredInv'
    <2>1. /\ Agents!Issue(p, a, TRUE, credential) /\ session' = session /\ identity' = identity
          /\ credential \in [Agents!Credentials -> CredentialRow]
          /\ session \in [SessionIds -> SessionRow \cup {NoName}]
      BY <1>1 DEF Agents!CreateAgent, CredInv, CredentialTypes
    <2>2. \A s \in SessionIds : session[s] # NoName =>
            (session[s].open => credential[session[s].cred].state = "live")
      BY DEF CredInv, SessionsTell
    <2>3. OthersKept(credential)
      BY <2>1 DEF OthersKept
    <2>4. SessionsKept(credential)
      BY <2>1, <2>2 DEF SessionsKept
    <2> QED BY <2>1, <2>3, <2>4, IssueKeeps
  <1> QED BY <1>1, IssueExistingKeeps, RotateKeeps, StateKeeps, SessionKeeps, SubagentKeeps
          DEF Agents!CredentialsNext

\* Nobody works through a session whose credential ended, a subagent's ancestry stays
\* within its principal and keeps its name's parent, and every inherited access was
\* chosen, for any number of principals, credentials and sessions (auth.rs,
\* operator_access.rs, credential_attributes.rs).
THEOREM CredentialsAreSound == Spec => []CredentialsSound
  <1>1. Init => CredInv
    BY CredInvInit DEF Init
  <1>2. CredInv /\ [Next]_all => CredInv'
    <2> SUFFICES ASSUME CredInv, [Next]_all PROVE CredInv'
      OBVIOUS
    <2>1. CASE Agents!CredentialsNext
      BY <2>1, CredInvStep
    <2>2. CASE UNCHANGED credentialVars
      BY <2>2 DEF credentialVars, CredInv, CredentialTypes, IssuedInOrder, SessionsTell,
                  Agents!AccessWasChosen, Agents!Of, Agents!Credentials
    <2> QED BY <2>1, <2>2 DEF Next, CredentialsPart, all
  <1>3. CredInv => CredentialsSound
    BY DEF CredInv, SessionsTell, CredentialsSound, Agents!CredentialsSound,
           Agents!SessionsHaveCredentials, Agents!Live, Agents!Speaks
  <1> QED BY <1>1, <1>2, <1>3, PTL DEF Spec

---------------------------------------------------------------------------
(* The integrator's attribution of failed checks.                           *)

USE AttributionAssumption

JobRow == [out : {"going", "pass", "fail", "none"}, will : {"pass", "fail"}, after : Nat]

CycleRow == [pc : {"idle", "rerun", "record", "attribute", "refresh", "record_target"},
             seen : Nat, todo : SUBSET Checks, of : Checks \cup {"none"},
             author : SUBSET Checks, wait : BOOLEAN]

AttributionTypes ==
  /\ cause \in [Checks -> Blame!AllCauses]
  /\ outside \in Nat /\ crashes \in Nat
  /\ runs \in [Blame!Commits -> Seq([Checks -> JobRow])]
  /\ memory \in [Blame!Commits -> [count : Nat, attempt : Nat]]
  /\ cycle \in CycleRow

\* How a job that has started is bound to end, by its check's cause.
Bound(k, why, job, started, changes) ==
  /\ job.out \in {"going", "none", job.will}
  /\ job.after <= started
  /\ why = "nothing" => job.will = "pass"
  /\ why = "target" => job.will = "fail"
  /\ why = "candidate" /\ k = "R" => job.will = "fail"
  /\ why = "outside" /\ job.will = "fail" => changes > 0

\* Whatever broke outside the commits before a job of R started had broken before any
\* later job of X: a job of X that passes clears the jobs of R it came after.
ClearedByX(c) ==
  cause[c] = "outside" =>
    \A i \in DOMAIN runs["X"], j \in DOMAIN runs["R"] :
      runs["X"][i][c].will = "pass" /\ j <= runs["X"][i][c].after => runs["R"][j][c].will = "pass"

RunsTell ==
  \A c \in Checks :
    /\ \A k \in Blame!Commits : \A i \in DOMAIN runs[k] : 
         Bound(k, cause[c], runs[k][i][c], Len(runs["R"]), outside)
    /\ ClearedByX(c)

\* What the integrator knows at each step of a cycle.
CycleTells ==
  /\ \A c \in cycle.todo : Blame!With("R", c, "fail") # {}
  /\ \A c \in cycle.author : cause[c] \in {"candidate", "flaky"}
  /\ cycle.pc = "rerun" => runs["R"] # <<>> /\ cycle.seen <= Len(runs["R"])
  /\ cycle.pc = "record" => cycle.seen < Len(runs["R"])
  /\ cycle.pc = "refresh" =>
       cycle.of \in Checks /\ runs["X"] # <<>> /\ cycle.seen <= Len(runs["X"])
  /\ cycle.pc = "record_target" => cycle.seen < Len(runs["X"])
  /\ cycle.pc \in {"rerun", "record"} => memory["R"].count < MaxReruns
  /\ cycle.pc \in {"refresh", "record_target"} => memory["X"].count < MaxReruns

\* A rerun that was requested and not recorded yet.
Unrecorded(k) == IF <<k, cycle.pc>> \in {<<"R", "record">>, <<"X", "record_target">>} THEN 1 ELSE 0

RerunsCounted ==
  \A k \in Blame!Commits :
    /\ Len(runs[k]) <= 1 + memory[k].count + crashes + Unrecorded(k)
    /\ memory[k].count <= MaxReruns
    /\ memory[k].count > 0 => memory[k].attempt < Len(runs[k])

Decided ==
  /\ Blame!BrokenNeverProceeds
  /\ Blame!InnocentNotBlamed

AttrInv == AttributionTypes /\ RunsTell /\ CycleTells /\ RerunsCounted /\ Decided

\* What a new attempt of a run leaves and adds.
LEMMA AttemptAdds ==
  ASSUME AttributionTypes, RunsTell, NEW k \in Blame!Commits, NEW redone \in SUBSET Checks,
         redone = Checks \/ runs[k] # <<>>, Blame!Attempt(k, redone),
         cause' = cause, outside' = outside
  PROVE  /\ runs' \in [Blame!Commits -> Seq([Checks -> JobRow])]
         /\ Len(runs'[k]) = Len(runs[k]) + 1
         /\ \A l \in Blame!Commits : l # k => runs'[l] = runs[l]
         /\ \A l \in Blame!Commits : \A i \in DOMAIN runs[l] :
              i \in DOMAIN runs'[l] /\ runs'[l][i] = runs[l][i]
         /\ RunsTell'
  <1> DEFINE n == Len(runs[k])
  <1>0. /\ runs \in [Blame!Commits -> Seq([Checks -> JobRow])]
        /\ \A l \in Blame!Commits : Len(runs[l]) \in Nat /\ DOMAIN runs[l] = 1 .. Len(runs[l])
        /\ \A l \in Blame!Commits : \A i \in DOMAIN runs[l] : runs[l][i] \in [Checks -> JobRow]
        /\ cause \in [Checks -> Blame!AllCauses]
        /\ "R" \in Blame!Commits /\ "X" \in Blame!Commits
    BY DEF AttributionTypes, Blame!Commits
  <1>1. PICK ends \in [Checks -> {"pass", "fail"}] :
          /\ \A c \in Checks : IF c \in redone THEN ends[c] \in Blame!Ends(k, c) ELSE ends[c] = "pass"
          /\ runs' = [runs EXCEPT ![k] = Append(@, [c \in Checks |->
               IF c \in redone
                 THEN [out |-> "going", will |-> ends[c], after |-> Len(runs["R"])]
                 ELSE Blame!Latest(k)[c]])]
    BY DEF Blame!Attempt
  <1> DEFINE new == [c \in Checks |->
               IF c \in redone
                 THEN [out |-> "going", will |-> ends[c], after |-> Len(runs["R"])]
                 ELSE Blame!Latest(k)[c]]
  <1>2. \A c \in Checks \ redone : n \in DOMAIN runs[k] /\ new[c] = runs[k][n][c]
    <2>1. runs[k] # <<>> => n \in DOMAIN runs[k]
      BY <1>0
    <2> QED BY <2>1 DEF Blame!Latest
  <1>3. \A c \in redone : /\ new[c].out = "going" /\ new[c].will = ends[c]
                          /\ new[c].after = Len(runs["R"]) /\ new[c] \in JobRow
    BY <1>0, <1>1 DEF JobRow
  <1>4. new \in [Checks -> JobRow]
    <2>1. ASSUME NEW c \in Checks PROVE new[c] \in JobRow
      <3>1. CASE c \in redone
        BY <1>3, <3>1
      <3>2. CASE c \notin redone
        <4>1. n \in DOMAIN runs[k] /\ new[c] = runs[k][n][c]
          BY <1>2, <3>2
        <4>2. runs[k][n] \in [Checks -> JobRow]
          BY <1>0, <4>1
        <4> QED BY <4>1, <4>2
      <3> QED BY <3>1, <3>2
    <2> QED BY <2>1
  <1>5. runs' = [runs EXCEPT ![k] = Append(runs[k], new)]
    BY <1>1
  <1>6. \A c \in Checks : Bound(k, cause[c], new[c], Len(runs["R"]), outside)
    <2> SUFFICES ASSUME NEW c \in Checks PROVE Bound(k, cause[c], new[c], Len(runs["R"]), outside)
      OBVIOUS
    <2>1. CASE c \in redone
      <3>1. ends[c] \in Blame!Ends(k, c) /\ ends[c] \in {"pass", "fail"} /\ Len(runs["R"]) \in Nat
        BY <1>0, <1>1, <2>1
      <3>2. /\ cause[c] = "nothing" => ends[c] = "pass"
            /\ cause[c] = "target" => ends[c] = "fail"
            /\ cause[c] = "candidate" /\ k = "R" => ends[c] = "fail"
            /\ cause[c] = "outside" /\ ends[c] = "fail" => outside > 0
        BY <3>1 DEF Blame!Ends
      <3> QED BY <1>3, <2>1, <3>1, <3>2 DEF Bound
    <2>2. CASE c \notin redone
      BY <1>2, <2>2 DEF RunsTell
    <2> QED BY <2>1, <2>2
  \* A job of X that starts now and will pass started while nothing outside was broken.
  <1>7. ASSUME NEW c \in Checks, cause[c] = "outside", k = "X", new[c].will = "pass",
               NEW j \in DOMAIN runs["R"], j <= new[c].after
        PROVE  runs["R"][j][c].will = "pass"
    <2>1. CASE c \in redone
      <3>1. ends[c] \in Blame!Ends(k, c) /\ ends[c] = "pass"
        BY <1>1, <1>3, <1>7, <2>1
      <3>2. ~(outside > 0)
        BY <1>7, <3>1 DEF Blame!Ends
      <3>3. Bound("R", cause[c], runs["R"][j][c], Len(runs["R"]), outside) /\ runs["R"][j][c] \in JobRow
        BY <1>0 DEF RunsTell
      <3> QED BY <1>7, <3>2, <3>3 DEF Bound, JobRow
    <2>2. CASE c \notin redone
      BY <1>2, <1>7, <2>2 DEF RunsTell, ClearedByX
    <2> QED BY <2>1, <2>2
  <1>8. Blame!Commits = {"R", "X"}
    BY DEF Blame!Commits
  <1> HIDE DEF new
  <1>9. /\ runs' \in [Blame!Commits -> Seq([Checks -> JobRow])]
        /\ Len(runs'[k]) = n + 1 /\ DOMAIN runs'[k] = 1 .. (n + 1)
        /\ runs'[k][n + 1] = new
        /\ \A i \in DOMAIN runs[k] : i \in DOMAIN runs'[k] /\ runs'[k][i] = runs[k][i]
        /\ \A i \in DOMAIN runs'[k] : i \in DOMAIN runs[k] \/ i = n + 1
        /\ \A l \in Blame!Commits : l # k => runs'[l] = runs[l]
    BY <1>0, <1>4, <1>5
  <1>10. Len(runs["R"]) <= Len(runs'["R"])
    BY <1>0, <1>8, <1>9
  <1>11. \A l, why : \A job \in JobRow :
           Bound(l, why, job, Len(runs["R"]), outside) => Bound(l, why, job, Len(runs'["R"]), outside)
    <2>1. Len(runs'["R"]) \in Nat
      BY <1>0, <1>9
    <2> QED BY <1>0, <1>10, <2>1 DEF Bound, JobRow
  <1>12. ASSUME NEW c \in Checks, NEW l \in Blame!Commits, NEW i \in DOMAIN runs'[l]
         PROVE  Bound(l, cause'[c], runs'[l][i][c], Len(runs'["R"]), outside')
    <2>1. CASE i \in DOMAIN runs[l]
      <3>1. runs'[l][i] = runs[l][i]
        BY <1>9, <2>1
      <3>2. runs[l][i] \in [Checks -> JobRow]
        BY <1>0, <2>1
      <3>3. Bound(l, cause[c], runs[l][i][c], Len(runs["R"]), outside)
        BY <2>1 DEF RunsTell
      <3> QED BY <1>11, <3>1, <3>2, <3>3
    <2>2. CASE i \notin DOMAIN runs[l]
      <3>1. l = k /\ runs'[l][i] = new /\ new[c] \in JobRow
        BY <1>4, <1>9, <2>2
      <3> QED BY <1>6, <1>11, <3>1
    <2> QED BY <2>1, <2>2
  <1>13. ASSUME NEW c \in Checks PROVE ClearedByX(c)'
    <2> SUFFICES ASSUME cause[c] = "outside",
                        NEW i \in DOMAIN runs'["X"], NEW j \in DOMAIN runs'["R"],
                        runs'["X"][i][c].will = "pass", j <= runs'["X"][i][c].after
                 PROVE  runs'["R"][j][c].will = "pass"
      BY DEF ClearedByX
    <2>1. CASE k = "X"
      <3>1. runs'["R"] = runs["R"]
        BY <1>8, <1>9, <2>1
      <3>2. CASE i \in DOMAIN runs["X"]
        BY <1>9, <2>1, <3>1, <3>2 DEF RunsTell, ClearedByX
      <3>3. CASE i = n + 1
        BY <1>7, <1>9, <2>1, <3>1, <3>3
      <3> QED BY <1>9, <2>1, <3>2, <3>3
    <2>2. CASE k = "R"
      <3>1. runs'["X"] = runs["X"]
        BY <1>8, <1>9, <2>2
      <3>2. runs["X"][i][c] \in JobRow /\ runs["X"][i][c].after <= n
        BY <1>0, <2>2, <3>1 DEF RunsTell, Bound
      <3>3. j \in DOMAIN runs["R"]
        BY <1>0, <1>9, <2>2, <3>1, <3>2 DEF JobRow
      <3> QED BY <1>9, <2>2, <3>1, <3>3 DEF RunsTell, ClearedByX
    <2> QED BY <1>8, <2>1, <2>2
  <1>14. RunsTell'
    BY <1>12, <1>13 DEF RunsTell, Blame!Commits
  <1> QED BY <1>9, <1>14

\* Runs that only grow keep what the integrator knows; the reruns still count when the
\* new attempt is the first of its run, or was requested and is not recorded yet.
LEMMA GrownRuns ==
  ASSUME AttrInv, runs' \in [Blame!Commits -> Seq([Checks -> JobRow])],
         \A l \in Blame!Commits :
           /\ Len(runs[l]) <= Len(runs'[l])
           /\ \A i \in DOMAIN runs[l] : /\ i \in DOMAIN runs'[l]
                                        /\ \A c \in Checks : runs[l][i][c].out = "fail" =>
                                             runs'[l][i][c].out = "fail"
  PROVE  /\ \A c \in Checks : Blame!With("R", c, "fail") # {} => Blame!With("R", c, "fail")' # {}
         /\ \A l \in Blame!Commits : /\ Len(runs'[l]) \in Nat /\ Len(runs[l]) \in Nat
                                     /\ runs[l] # <<>> => runs'[l] # <<>>
         /\ cycle' = cycle /\ memory' = memory /\ cause' = cause => CycleTells'
  <1>1. "R" \in Blame!Commits /\ "X" \in Blame!Commits
    BY DEF Blame!Commits
  <1>2. \A c \in Checks : Blame!With("R", c, "fail") # {} => Blame!With("R", c, "fail")' # {}
    BY <1>1 DEF Blame!With
  <1>3. \A l \in Blame!Commits : /\ Len(runs'[l]) \in Nat /\ Len(runs[l]) \in Nat
                                 /\ runs[l] # <<>> => runs'[l] # <<>>
    <2> SUFFICES ASSUME NEW l \in Blame!Commits
                 PROVE  /\ Len(runs'[l]) \in Nat /\ Len(runs[l]) \in Nat
                        /\ runs[l] # <<>> => runs'[l] # <<>>
      OBVIOUS
    <2>1. runs[l] \in Seq([Checks -> JobRow]) /\ runs'[l] \in Seq([Checks -> JobRow])
      BY DEF AttrInv, AttributionTypes
    <2>2. Len(runs'[l]) \in Nat /\ Len(runs[l]) \in Nat /\ Len(runs[l]) <= Len(runs'[l])
      BY <2>1
    <2>3. runs[l] # <<>> => Len(runs[l]) > 0
      BY <2>1
    <2> QED BY <2>1, <2>2, <2>3
  <1>4. ASSUME cycle' = cycle, memory' = memory, cause' = cause PROVE CycleTells'
    <2>1. cycle.seen \in Nat /\ cycle.todo \in SUBSET Checks
      BY DEF AttrInv, AttributionTypes, CycleRow
    <2>2. \A c \in cycle.todo : Blame!With("R", c, "fail")' # {}
      BY <1>2, <2>1 DEF AttrInv, CycleTells
    <2>3. /\ Len(runs["R"]) <= Len(runs'["R"]) /\ Len(runs["X"]) <= Len(runs'["X"])
          /\ Len(runs["R"]) \in Nat /\ Len(runs["X"]) \in Nat
          /\ Len(runs'["R"]) \in Nat /\ Len(runs'["X"]) \in Nat
          /\ runs["R"] # <<>> => runs'["R"] # <<>>
          /\ runs["X"] # <<>> => runs'["X"] # <<>>
      BY <1>1, <1>3
    <2> QED BY <1>4, <2>1, <2>2, <2>3 DEF AttrInv, CycleTells
  <1> QED BY <1>2, <1>3, <1>4

LEMMA StartRunKeeps ==
  ASSUME AttrInv, NEW k \in Blame!Commits, Blame!StartRun(k)
  PROVE  AttrInv'
  <1>1. /\ runs[k] = <<>> /\ Blame!Attempt(k, Checks)
        /\ UNCHANGED <<cause, outside, memory, cycle, decision, blamed, crashes>>
    BY DEF Blame!StartRun
  <1>2. /\ runs' \in [Blame!Commits -> Seq([Checks -> JobRow])]
        /\ Len(runs'[k]) = Len(runs[k]) + 1
        /\ \A l \in Blame!Commits : l # k => runs'[l] = runs[l]
        /\ \A l \in Blame!Commits : \A i \in DOMAIN runs[l] :
             i \in DOMAIN runs'[l] /\ runs'[l][i] = runs[l][i]
        /\ RunsTell'
    BY <1>1, AttemptAdds DEF AttrInv
  <1>3. \A l \in Blame!Commits : runs[l] \in Seq([Checks -> JobRow]) /\ Len(runs[l]) \in Nat
    BY DEF AttrInv, AttributionTypes
  <1>4. Len(runs[k]) = 0 /\ Len(runs'[k]) = 1
    BY <1>1, <1>2
  <1>5. CycleTells'
    <2>1. \A l \in Blame!Commits :
            /\ Len(runs[l]) <= Len(runs'[l])
            /\ \A i \in DOMAIN runs[l] : i \in DOMAIN runs'[l] /\ runs'[l][i] = runs[l][i]
      <3> TAKE l \in Blame!Commits
      <3>1. Len(runs[l]) <= Len(runs'[l])
        BY <1>2, <1>3, <1>4
      <3> QED BY <1>2, <3>1
    <2> QED BY <1>1, <1>2, <2>1, GrownRuns
  <1>6. AttributionTypes'
    BY <1>1, <1>2 DEF AttrInv, AttributionTypes, Blame!Commits
  <1>7. RerunsCounted'
    <2>1. \A l \in Blame!Commits : Unrecorded(l)' = Unrecorded(l) /\ Unrecorded(l) \in {0, 1}
      BY <1>1 DEF Unrecorded
    <2>2. /\ \A l \in Blame!Commits : memory[l].count \in Nat /\ memory[l].attempt \in Nat
          /\ crashes \in Nat
      BY DEF AttrInv, AttributionTypes
    <2>3. ASSUME NEW l \in Blame!Commits
          PROVE  /\ Len(runs'[l]) <= 1 + memory[l].count + crashes + Unrecorded(l)
                 /\ memory[l].count > 0 => memory[l].attempt < Len(runs'[l])
      <3>1. /\ Len(runs[l]) <= 1 + memory[l].count + crashes + Unrecorded(l)
            /\ memory[l].count > 0 => memory[l].attempt < Len(runs[l])
        BY DEF AttrInv, RerunsCounted
      <3>2. CASE l = k
        <4>1. Len(runs[l]) = 0 /\ Len(runs'[l]) = 1 /\ Unrecorded(l) >= 0 /\ Unrecorded(l) \in Int
          BY <1>4, <2>1, <3>2
        <4>2. memory[l].count \in Nat /\ memory[l].attempt \in Nat /\ crashes \in Nat
          BY <2>2
        <4> QED BY <3>1, <4>1, <4>2
      <3>3. CASE l # k
        BY <1>2, <3>1, <3>3
      <3> QED BY <3>2, <3>3
    <2> QED BY <1>1, <2>1, <2>3 DEF AttrInv, RerunsCounted, Blame!Commits
  <1>8. Decided'
    BY <1>1 DEF AttrInv, Decided, Blame!BrokenNeverProceeds, Blame!InnocentNotBlamed
  <1> QED BY <1>2, <1>5, <1>6, <1>7, <1>8 DEF AttrInv

LEMMA EndJobKeeps ==
  ASSUME AttrInv, NEW k \in Blame!Commits, NEW c \in Checks, Blame!EndJob(k, c)
  PROVE  AttrInv'
  <1> DEFINE n == Len(runs[k])
             job == runs[k][n][c]
  <1>1. PICK out \in {job.will, "none"} :
          /\ runs[k] # <<>> /\ job.out = "going"
          /\ runs' = [runs EXCEPT ![k][n][c].out = out]
          /\ UNCHANGED <<cause, outside, memory, cycle, decision, blamed, crashes>>
    BY DEF Blame!EndJob, Blame!Latest
  <1>2. /\ \A l \in Blame!Commits : /\ runs[l] \in Seq([Checks -> JobRow]) /\ Len(runs[l]) \in Nat
                                    /\ DOMAIN runs[l] = 1 .. Len(runs[l])
                                    /\ \A i \in DOMAIN runs[l] : runs[l][i] \in [Checks -> JobRow]
        /\ "R" \in Blame!Commits /\ "X" \in Blame!Commits
    BY DEF AttrInv, AttributionTypes, Blame!Commits
  <1>3. n \in DOMAIN runs[k] /\ job \in JobRow /\ out \in {"pass", "fail", "none"}
    <2>1. n \in DOMAIN runs[k]
      BY <1>1, <1>2
    <2>2. job \in JobRow
      BY <1>2, <2>1
    <2> QED BY <1>1, <2>1, <2>2 DEF JobRow
  <1> DEFINE ended == [job EXCEPT !.out = out]
             attempt == [runs[k][n] EXCEPT ![c] = ended]
  <1>4. /\ ended \in JobRow /\ ended.out = out
        /\ ended.will = job.will /\ ended.after = job.after
    BY <1>3 DEF JobRow
  <1>5. runs' = [runs EXCEPT ![k] = [runs[k] EXCEPT ![n] = attempt]]
    BY <1>1
  <1>6. /\ attempt \in [Checks -> JobRow] /\ attempt[c] = ended
        /\ \A d \in Checks \ {c} : attempt[d] = runs[k][n][d]
    BY <1>2, <1>3, <1>4
  <1> HIDE DEF attempt, ended
  <1>7. /\ runs' \in [Blame!Commits -> Seq([Checks -> JobRow])]
        /\ Len(runs'[k]) = Len(runs[k]) /\ DOMAIN runs'[k] = DOMAIN runs[k]
        /\ runs'[k][n] = attempt
        /\ \A i \in DOMAIN runs[k] \ {n} : runs'[k][i] = runs[k][i]
        /\ \A l \in Blame!Commits \ {k} : runs'[l] = runs[l]
    <2>1. runs[k] \in Seq([Checks -> JobRow])
      BY <1>2
    <2>2. [runs[k] EXCEPT ![n] = attempt] \in Seq([Checks -> JobRow])
      BY <1>3, <1>6, <2>1
    <2> QED BY SMTT(30), <1>2, <1>3, <1>5, <2>1, <2>2 DEF AttrInv, AttributionTypes
  \* Job by job, only an outcome is new.
  <1>8. \A l \in Blame!Commits :
          /\ Len(runs'[l]) = Len(runs[l]) /\ DOMAIN runs'[l] = DOMAIN runs[l]
          /\ \A i \in DOMAIN runs[l], d \in Checks :
               /\ runs'[l][i][d].will = runs[l][i][d].will
               /\ runs'[l][i][d].after = runs[l][i][d].after
               /\ \/ runs'[l][i][d].out = runs[l][i][d].out
                  \/ /\ runs[l][i][d].out = "going"
                     /\ runs'[l][i][d].out \in {"none", runs[l][i][d].will}
    <2>1. \A d \in Checks : /\ attempt[d].will = runs[k][n][d].will
                            /\ attempt[d].after = runs[k][n][d].after
                            /\ \/ attempt[d].out = runs[k][n][d].out
                               \/ /\ runs[k][n][d].out = "going"
                                  /\ attempt[d].out \in {"none", runs[k][n][d].will}
      BY <1>1, <1>4, <1>6
    <2> QED BY <1>7, <2>1
  <1>9. RunsTell'
    <2>1. ASSUME NEW d \in Checks, NEW l \in Blame!Commits, NEW i \in DOMAIN runs'[l]
          PROVE  Bound(l, cause'[d], runs'[l][i][d], Len(runs'["R"]), outside')
      <3>1. Bound(l, cause[d], runs[l][i][d], Len(runs["R"]), outside)
        BY <1>8 DEF AttrInv, RunsTell
      <3>2. Len(runs'["R"]) = Len(runs["R"]) /\ i \in DOMAIN runs[l]
        BY <1>2, <1>8
      <3> DEFINE old == runs[l][i][d]
                 new == runs'[l][i][d]
      <3>3. /\ new.will = old.will /\ new.after = old.after
            /\ new.out = old.out \/ (old.out = "going" /\ new.out \in {"none", old.will})
        BY <1>8, <3>2
      <3>4. cause' = cause /\ outside' = outside
        BY <1>1
      <3> HIDE DEF old, new
      <3>5. Bound(l, cause[d], new, Len(runs["R"]), outside)
        BY <3>1, <3>3 DEF Bound, old
      <3> QED BY <3>2, <3>4, <3>5 DEF new
    <2>2. ASSUME NEW d \in Checks PROVE ClearedByX(d)'
      <3>1. ClearedByX(d)
        BY DEF AttrInv, RunsTell
      <3>2. \A l \in Blame!Commits : \A i \in DOMAIN runs'[l] :
              /\ i \in DOMAIN runs[l] /\ runs'[l][i][d].will = runs[l][i][d].will
              /\ runs'[l][i][d].after = runs[l][i][d].after
        BY <1>8
      <3>3. cause' = cause /\ "X" \in Blame!Commits /\ "R" \in Blame!Commits
        BY <1>1 DEF Blame!Commits
      <3> SUFFICES ASSUME cause[d] = "outside",
                          NEW i \in DOMAIN runs'["X"], NEW j \in DOMAIN runs'["R"],
                          runs'["X"][i][d].will = "pass", j <= runs'["X"][i][d].after
                   PROVE  runs'["R"][j][d].will = "pass"
        BY <3>3 DEF ClearedByX
      <3>4. /\ i \in DOMAIN runs["X"] /\ runs["X"][i][d].will = "pass"
            /\ j <= runs["X"][i][d].after
        BY <3>2, <3>3
      <3>5. j \in DOMAIN runs["R"] /\ runs'["R"][j][d].will = runs["R"][j][d].will
        BY <3>2, <3>3
      <3> QED BY <3>1, <3>4, <3>5 DEF ClearedByX
    <2> QED BY <2>1, <2>2 DEF RunsTell, Blame!Commits
  <1>10. CycleTells'
    <2>1. \A l \in Blame!Commits :
            /\ Len(runs[l]) <= Len(runs'[l])
            /\ \A i \in DOMAIN runs[l] : /\ i \in DOMAIN runs'[l]
                                         /\ \A d \in Checks : runs[l][i][d].out = "fail" =>
                                              runs'[l][i][d].out = "fail"
      BY <1>2, <1>8
    <2> QED BY <1>1, <1>7, <2>1, GrownRuns
  <1>11. AttributionTypes'
    BY <1>1, <1>7 DEF AttrInv, AttributionTypes, Blame!Commits
  <1>12. RerunsCounted'
    BY <1>1, <1>8 DEF AttrInv, RerunsCounted, Unrecorded, Blame!Commits
  <1>13. Decided'
    BY <1>1 DEF AttrInv, Decided, Blame!BrokenNeverProceeds, Blame!InnocentNotBlamed
  <1> QED BY <1>9, <1>10, <1>11, <1>12, <1>13 DEF AttrInv

LEMMA IdleCycleRow ==
  /\ Blame!IdleCycle \in CycleRow
  /\ Blame!IdleCycle.pc = "idle" /\ Blame!IdleCycle.seen = 0 /\ Blame!IdleCycle.todo = {}
  /\ Blame!IdleCycle.of = "none" /\ Blame!IdleCycle.author = {}
  BY DEF Blame!IdleCycle, CycleRow

\* A cycle that ends knows nothing and owes nothing, once a death is counted for the
\* request it may leave unrecorded.
LEMMA CycleEnds ==
  ASSUME AttrInv, cycle' = Blame!IdleCycle, UNCHANGED <<cause, outside, runs, memory>>,
         crashes' \in Nat,
         \A k \in Blame!Commits : crashes + Unrecorded(k) <= crashes', Decided'
  PROVE  AttrInv'
  <1>1. RunsTell'
    BY DEF AttrInv, RunsTell, ClearedByX, Blame!Commits
  <1>2. CycleTells'
    BY IdleCycleRow DEF CycleTells
  <1>3. AttributionTypes'
    BY IdleCycleRow DEF AttrInv, AttributionTypes, Blame!Commits
  <1>4. RerunsCounted'
    <2>1. \A k \in Blame!Commits : Unrecorded(k)' = 0
      BY IdleCycleRow DEF Unrecorded
    <2>2. ASSUME NEW k \in Blame!Commits
          PROVE  Len(runs[k]) <= 1 + memory[k].count + crashes' + 0
      <3>1. Len(runs[k]) <= 1 + memory[k].count + crashes + Unrecorded(k)
        BY DEF AttrInv, RerunsCounted
      <3>2. /\ Len(runs[k]) \in Nat /\ memory[k].count \in Nat /\ crashes \in Nat
            /\ Unrecorded(k) \in Nat
        BY DEF AttrInv, AttributionTypes, Unrecorded
      <3>3. crashes + Unrecorded(k) <= crashes'
        OBVIOUS
      <3> QED BY SMTT(30), <3>1, <3>2, <3>3
    <2> QED BY <2>1, <2>2 DEF AttrInv, RerunsCounted, Blame!Commits
  <1> QED BY <1>1, <1>2, <1>3, <1>4 DEF AttrInv

LEMMA PollKeeps ==
  ASSUME AttrInv, Blame!Poll
  PROVE  AttrInv'
  <1> DEFINE pc == IF Blame!Judged("rerun") # {} THEN "rerun"
                   ELSE IF Blame!Judged("reproduced") # {} THEN "attribute" ELSE "idle"
             todo == IF pc = "attribute" THEN Blame!Judged("reproduced") ELSE {}
  <1>1. /\ runs["R"] # <<>> /\ cycle.pc = "idle"
        /\ cycle' = [Blame!IdleCycle EXCEPT !.pc = pc, !.seen = Len(runs["R"]), !.todo = todo]
        /\ decision' = IF pc # "idle" THEN "pending"
                       ELSE IF Blame!Judged("undecided") # {} THEN "blocked" ELSE "proceed"
        /\ UNCHANGED <<cause, outside, runs, memory, blamed, crashes>>
    BY DEF Blame!Poll
  <1>2. /\ "R" \in Blame!Commits /\ runs["R"] \in Seq([Checks -> JobRow])
        /\ Len(runs["R"]) \in DOMAIN runs["R"] /\ Len(runs["R"]) \in Nat
        /\ memory["R"].count \in Nat
    <2>1. "R" \in Blame!Commits /\ runs["R"] \in Seq([Checks -> JobRow]) /\ memory["R"].count \in Nat
      BY DEF AttrInv, AttributionTypes, Blame!Commits
    <2> QED BY <1>1, <2>1
  <1>3. \A c \in Checks : Blame!Latest("R")[c] \in JobRow
                          /\ Bound("R", cause[c], Blame!Latest("R")[c], Len(runs["R"]), outside)
    <2>1. \A i \in DOMAIN runs["R"] : runs["R"][i] \in [Checks -> JobRow]
      BY <1>2
    <2>2. Blame!Latest("R") = runs["R"][Len(runs["R"])]
      BY DEF Blame!Latest
    <2>3. \A c \in Checks :
            Bound("R", cause[c], runs["R"][Len(runs["R"])][c], Len(runs["R"]), outside)
      BY <1>2 DEF AttrInv, RunsTell
    <2> QED BY <1>2, <2>1, <2>2, <2>3
  <1>4. \A c \in Checks : Blame!Verdict(c) = "reproduced" => Blame!With("R", c, "fail") # {}
    <2> SUFFICES ASSUME NEW c \in Checks, Blame!Verdict(c) = "reproduced"
                 PROVE  Blame!With("R", c, "fail") # {}
      OBVIOUS
    <2>1. Blame!Latest("R")[c].out = "fail"
      BY DEF Blame!Verdict
    <2> QED BY <1>2, <2>1 DEF Blame!With, Blame!Latest
  <1>5. \A c \in Checks : Blame!Verdict(c) = "rerun" => memory["R"].count < MaxReruns
    <2> SUFFICES ASSUME NEW c \in Checks, Blame!Verdict(c) = "rerun"
                 PROVE  memory["R"].count < MaxReruns
      OBVIOUS
    <2>1. ~Blame!Spent("R")
      BY DEF Blame!Verdict
    <2> QED BY <1>2, <2>1 DEF Blame!Spent
  <1>6. ASSUME NEW c \in Checks, Blame!Verdict(c) \notin {"rerun", "reproduced", "undecided"}
        PROVE  cause[c] \notin {"candidate", "target"}
    <2>1. Blame!Latest("R")[c].out = "pass"
      BY <1>6 DEF Blame!Verdict
    <2> QED BY <1>3, <2>1 DEF Bound
  <1>7. todo \in SUBSET Checks /\ \A c \in todo : Blame!With("R", c, "fail") # {}
    BY <1>4 DEF Blame!Judged
  <1>8. pc = "rerun" => memory["R"].count < MaxReruns
    BY <1>5 DEF Blame!Judged
  <1>9. decision' = "proceed" => \A c \in Checks : cause[c] \notin {"candidate", "target"}
    BY <1>1, <1>6 DEF Blame!Judged
  <1>10. pc \in {"idle", "rerun", "attribute"}
    OBVIOUS
  <1> HIDE DEF pc, todo
  <1>11. /\ cycle' \in CycleRow /\ cycle'.pc = pc /\ cycle'.seen = Len(runs["R"])
         /\ cycle'.todo = todo /\ cycle'.author = {}
    BY <1>1, <1>2, <1>7, <1>10, IdleCycleRow DEF CycleRow
  <1>12. RunsTell'
    BY <1>1 DEF AttrInv, RunsTell, ClearedByX, Blame!Commits
  <1>13. CycleTells'
    BY <1>1, <1>2, <1>7, <1>8, <1>10, <1>11 DEF CycleTells, Blame!With
  <1>14. AttributionTypes'
    BY <1>1, <1>11 DEF AttrInv, AttributionTypes, Blame!Commits
  <1>15. RerunsCounted'
    <2>1. \A k \in Blame!Commits : Unrecorded(k) = 0 /\ Unrecorded(k)' = 0
      BY <1>1, <1>10, <1>11 DEF Unrecorded
    <2> QED BY <1>1, <2>1 DEF AttrInv, RerunsCounted, Blame!Commits
  <1>16. Decided'
    BY <1>1, <1>9 DEF AttrInv, Decided, Blame!BrokenNeverProceeds, Blame!InnocentNotBlamed
  <1> QED BY <1>12, <1>13, <1>14, <1>15, <1>16 DEF AttrInv

\* The forge accepts a rerun of run k that was asked for at step asks, and the
\* integrator goes on to record it.
LEMMA AcceptedKeeps ==
  ASSUME AttrInv, NEW k \in Blame!Commits, NEW redone \in SUBSET Checks,
         NEW pc \in {"record", "record_target"}, runs[k] # <<>>, Blame!Attempt(k, redone),
         cycle' = [cycle EXCEPT !.pc = pc],
         <<k, cycle.pc, pc>> \in {<<"R", "rerun", "record">>, <<"X", "refresh", "record_target">>},
         UNCHANGED <<cause, outside, memory, decision, blamed, crashes>>
  PROVE  AttrInv'
  <1>1. /\ runs' \in [Blame!Commits -> Seq([Checks -> JobRow])]
        /\ Len(runs'[k]) = Len(runs[k]) + 1
        /\ \A l \in Blame!Commits : l # k => runs'[l] = runs[l]
        /\ \A l \in Blame!Commits : \A i \in DOMAIN runs[l] :
             i \in DOMAIN runs'[l] /\ runs'[l][i] = runs[l][i]
        /\ RunsTell'
    BY AttemptAdds DEF AttrInv
  <1>2. /\ cycle' \in CycleRow /\ cycle'.pc = pc /\ cycle'.seen = cycle.seen
        /\ cycle'.todo = cycle.todo /\ cycle'.author = cycle.author /\ cycle'.of = cycle.of
        /\ cycle.todo \in SUBSET Checks /\ cycle.seen \in Nat
    BY DEF AttrInv, AttributionTypes, CycleRow
  <1>3. \A l \in Blame!Commits : /\ Len(runs[l]) \in Nat /\ Len(runs[l]) <= Len(runs'[l])
                                 /\ Len(runs'[l]) \in Nat
    <2> TAKE l \in Blame!Commits
    <2>1. Len(runs[l]) \in Nat
      BY DEF AttrInv, AttributionTypes
    <2> QED BY <1>1, <2>1
  <1>4. \A c \in Checks : Blame!With("R", c, "fail") # {} => Blame!With("R", c, "fail")' # {}
    BY <1>1 DEF Blame!With, Blame!Commits
  <1>5. CycleTells'
    <2>1. \A c \in cycle'.todo : Blame!With("R", c, "fail")' # {}
      BY <1>2, <1>4 DEF AttrInv, CycleTells
    <2>2. CASE k = "R" /\ cycle.pc = "rerun" /\ pc = "record"
      <3>1. cycle.seen < Len(runs'["R"]) /\ memory["R"].count < MaxReruns
        BY <1>1, <1>2, <1>3, <2>2 DEF AttrInv, CycleTells
      <3> QED BY <1>2, <2>1, <2>2, <3>1 DEF AttrInv, CycleTells
    <2>3. CASE k = "X" /\ cycle.pc = "refresh" /\ pc = "record_target"
      <3>1. cycle.seen < Len(runs'["X"]) /\ memory["X"].count < MaxReruns
        BY <1>1, <1>2, <1>3, <2>3 DEF AttrInv, CycleTells
      <3> QED BY <1>2, <2>1, <2>3, <3>1 DEF AttrInv, CycleTells
    <2> QED BY <2>2, <2>3
  <1>6. AttributionTypes'
    BY <1>1, <1>2 DEF AttrInv, AttributionTypes, Blame!Commits
  <1>7. RerunsCounted'
    <2>1. ASSUME NEW l \in Blame!Commits
          PROVE  /\ Len(runs'[l]) <= 1 + memory[l].count + crashes + Unrecorded(l)'
                 /\ memory[l].count > 0 => memory[l].attempt < Len(runs'[l])
      <3>1. /\ Len(runs[l]) <= 1 + memory[l].count + crashes + Unrecorded(l)
            /\ memory[l].count > 0 => memory[l].attempt < Len(runs[l])
            /\ memory[l].count \in Nat /\ memory[l].attempt \in Nat /\ crashes \in Nat
        BY DEF AttrInv, RerunsCounted, AttributionTypes
      <3>2. CASE l = k
        <4>1. Unrecorded(l) = 0 /\ Unrecorded(l)' = 1
          BY <1>2, <3>2 DEF Unrecorded
        <4>2. Len(runs'[l]) = Len(runs[l]) + 1 /\ Len(runs[l]) \in Nat
          BY <1>1, <1>3, <3>2
        <4> HIDE DEF Unrecorded
        <4> QED BY SMTT(30), <3>1, <4>1, <4>2
      <3>3. CASE l # k
        <4>1. Unrecorded(l) = 0 /\ Unrecorded(l)' = 0
          BY <1>2, <3>3 DEF Unrecorded
        <4> QED BY <1>1, <3>1, <3>3, <4>1
      <3> QED BY <3>2, <3>3
    <2> QED BY <2>1 DEF AttrInv, RerunsCounted, Blame!Commits
  <1>8. Decided'
    BY DEF AttrInv, Decided, Blame!BrokenNeverProceeds, Blame!InnocentNotBlamed
  <1> QED BY <1>1, <1>5, <1>6, <1>7, <1>8 DEF AttrInv

LEMMA RecordKeeps ==
  ASSUME AttrInv, NEW k \in Blame!Commits, Blame!Record(k, cycle.seen),
         <<k, cycle.pc>> \in {<<"R", "record">>, <<"X", "record_target">>},
         cycle' \in CycleRow, cycle'.pc \in {"idle", "attribute"},
         cycle'.todo \subseteq cycle.todo, cycle'.author \subseteq cycle.author,
         UNCHANGED <<cause, outside, runs, decision, blamed, crashes>>
  PROVE  AttrInv'
  <1>0. /\ memory \in [Blame!Commits -> [count : Nat, attempt : Nat]]
        /\ \A l \in Blame!Commits : Len(runs[l]) \in Nat
        /\ crashes \in Nat /\ cycle.seen \in Nat
    BY DEF AttrInv, AttributionTypes, CycleRow
  <1>1. /\ memory' \in [Blame!Commits -> [count : Nat, attempt : Nat]]
        /\ memory'[k].count = memory[k].count + 1 /\ memory'[k].attempt = cycle.seen
        /\ \A l \in Blame!Commits \ {k} : memory'[l] = memory[l]
    BY <1>0 DEF Blame!Record
  <1>2. cycle.seen < Len(runs[k]) /\ memory[k].count < MaxReruns
    BY DEF AttrInv, CycleTells
  <1>3. RunsTell'
    BY DEF AttrInv, RunsTell, ClearedByX, Blame!Commits
  <1>4. CycleTells'
    BY DEF AttrInv, CycleTells, Blame!With
  <1>5. AttributionTypes'
    BY <1>1 DEF AttrInv, AttributionTypes, Blame!Commits
  <1>6. ASSUME NEW l \in Blame!Commits
        PROVE  /\ Len(runs[l]) <= 1 + memory'[l].count + crashes + Unrecorded(l)'
               /\ memory'[l].count <= MaxReruns
               /\ memory'[l].count > 0 => memory'[l].attempt < Len(runs[l])
    <2>1. /\ Len(runs[l]) <= 1 + memory[l].count + crashes + Unrecorded(l)
          /\ memory[l].count <= MaxReruns
          /\ memory[l].count > 0 => memory[l].attempt < Len(runs[l])
          /\ memory[l].count \in Nat /\ memory[l].attempt \in Nat /\ Len(runs[l]) \in Nat
      BY <1>0 DEF AttrInv, RerunsCounted
    <2>2. Unrecorded(l)' = 0
      BY DEF Unrecorded
    <2>3. CASE l = k
      <3>1. Unrecorded(l) = 1
        BY <2>3 DEF Unrecorded
      <3>2. /\ memory'[l].count = memory[l].count + 1 /\ memory'[l].attempt = cycle.seen
            /\ cycle.seen < Len(runs[l]) /\ memory[l].count < MaxReruns
        BY <1>1, <1>2, <2>3
      <3> QED BY <1>0, <2>1, <2>2, <3>1, <3>2
    <2>4. CASE l # k
      <3>1. Unrecorded(l) = 0 /\ memory'[l] = memory[l]
        BY <1>1, <2>4 DEF Unrecorded
      <3> QED BY <2>1, <2>2, <3>1
    <2> QED BY <2>3, <2>4
  <1>7. RerunsCounted'
    BY <1>6 DEF RerunsCounted, Blame!Commits
  <1>8. Decided'
    BY DEF AttrInv, Decided, Blame!BrokenNeverProceeds, Blame!InnocentNotBlamed
  <1> QED BY <1>3, <1>4, <1>5, <1>7, <1>8 DEF AttrInv

\* A pass on X that started after R had first failed clears the target and whatever is
\* outside both commits.
LEMMA BlameIsEarned ==
  ASSUME AttrInv, NEW c \in cycle.todo, Blame!Blame(c) = "author"
  PROVE  cause[c] \in {"candidate", "flaky"}
  <1> DEFINE passed == Blame!With("X", c, "pass")
             failed == Blame!With("R", c, "fail")
             decided == passed \cup Blame!With("X", c, "fail")
             latest == CHOOSE i \in decided : \A j \in decided : j <= i
             first == Blame!FirstFailure(c)
  <1>0. /\ c \in Checks /\ cause[c] \in Blame!AllCauses
        /\ \A k \in {"R", "X"} : /\ runs[k] \in Seq([Checks -> JobRow])
                                 /\ Len(runs[k]) \in Nat /\ DOMAIN runs[k] = 1 .. Len(runs[k])
                                 /\ \A i \in DOMAIN runs[k] : runs[k][i][c] \in JobRow
        /\ \A k \in {"R", "X"} : \A i \in DOMAIN runs[k] :
             Bound(k, cause[c], runs[k][i][c], Len(runs["R"]), outside)
        /\ ClearedByX(c)
    <2>1. c \in Checks
      BY DEF AttrInv, AttributionTypes, CycleRow
    <2>2. \A k \in {"R", "X"} : runs[k] \in Seq([Checks -> JobRow])
      BY DEF AttrInv, AttributionTypes, Blame!Commits
    <2>3. \A k \in {"R", "X"} : \A i \in DOMAIN runs[k] : runs[k][i] \in [Checks -> JobRow]
      BY <2>2
    <2>4. cause[c] \in Blame!AllCauses
      BY <2>1 DEF AttrInv, AttributionTypes
    <2>5. ClearedByX(c) /\ \A k \in {"R", "X"} : \A i \in DOMAIN runs[k] :
             Bound(k, cause[c], runs[k][i][c], Len(runs["R"]), outside)
      BY <2>1 DEF AttrInv, RunsTell, Blame!Commits
    <2> QED BY <2>1, <2>2, <2>3, <2>4, <2>5
  <1>1. decided # {} /\ latest \notin Blame!With("X", c, "fail") /\ Blame!Fresh(c, latest)
    BY DEF Blame!Blame
  <1>2. latest \in decided
    <2>1. decided \in SUBSET (1 .. Len(runs["X"]))
      BY <1>0 DEF Blame!With
    <2>2. \E i \in decided : \A j \in decided : j <= i
      BY <1>0, <1>1, <2>1, GreatestNatural
    <2> HIDE DEF decided
    <2> QED BY <2>2
  <1>3. latest \in passed
    BY <1>1, <1>2
  <1>4. failed # {}
    BY DEF AttrInv, CycleTells
  <1>5. first \in failed
    <2>1. failed \in SUBSET Nat
      BY <1>0 DEF Blame!With
    <2>2. \E i \in failed : \A j \in failed : i <= j
      BY <1>4, <2>1, LeastNatural
    <2> QED BY <2>2 DEF Blame!FirstFailure
  <1> HIDE DEF latest, first
  <1>6. latest \in DOMAIN runs["X"] /\ runs["X"][latest][c].out = "pass"
    BY <1>3 DEF Blame!With
  <1>7. first \in DOMAIN runs["R"] /\ runs["R"][first][c].out = "fail"
    BY <1>5 DEF Blame!With
  <1>8. runs["X"][latest][c].will = "pass" /\ cause[c] # "target"
    BY <1>0, <1>6 DEF Bound
  <1>9. runs["R"][first][c].will = "fail" /\ cause[c] # "nothing"
    BY <1>0, <1>7 DEF Bound
  <1>10. first <= runs["X"][latest][c].after
    <2>1. runs["X"][latest][c].after >= first
      BY <1>1 DEF Blame!Fresh, latest, first
    <2>2. runs["X"][latest][c].after \in Nat /\ first \in Nat
      BY SMTT(30), <1>0, <1>6, <1>7 DEF JobRow
    <2> QED BY <2>1, <2>2
  <1>11. cause[c] # "outside"
    BY <1>0, <1>6, <1>7, <1>8, <1>9, <1>10 DEF ClearedByX
  <1> QED BY <1>0, <1>8, <1>9, <1>11 DEF Blame!AllCauses

LEMMA AttributeKeeps ==
  ASSUME AttrInv, NEW c \in Checks, Blame!Attribute(c)
  PROVE  AttrInv'
  <1> DEFINE blame == Blame!Blame(c)
             refreshing == blame = "refresh" /\ ~Blame!InFlight("X") /\ ~Blame!Spent("X")
             wait == cycle.wait \/ blame = "wait" \/ (blame = "refresh" /\ Blame!InFlight("X"))
             pc == IF refreshing THEN "refresh" ELSE "attribute"
             of == IF refreshing THEN c ELSE "none"
             seen == IF refreshing THEN Len(runs["X"]) ELSE cycle.seen
             author == IF blame = "author" THEN cycle.author \cup {c} ELSE cycle.author
  <1>1. /\ cycle.pc = "attribute" /\ c \in cycle.todo
        /\ cycle' = [cycle EXCEPT !.todo = cycle.todo \ {c}, !.pc = pc, !.of = of, !.seen = seen,
                                  !.author = author, !.wait = wait]
        /\ UNCHANGED <<cause, outside, runs, memory, decision, blamed, crashes>>
    BY DEF Blame!Attribute
  <1>2. /\ runs["X"] \in Seq([Checks -> JobRow]) /\ Len(runs["X"]) \in Nat
        /\ memory["X"].count \in Nat
    BY DEF AttrInv, AttributionTypes, Blame!Commits
  <1>3. cycle \in CycleRow
    BY DEF AttrInv, AttributionTypes
  <1>4. /\ wait \in BOOLEAN /\ pc \in {"refresh", "attribute"} /\ of \in Checks \cup {"none"}
        /\ seen \in Nat /\ author \in SUBSET Checks
    BY <1>2, <1>3 DEF CycleRow
  <1>5. \A d \in author : cause[d] \in {"candidate", "flaky"}
    BY <1>1, BlameIsEarned DEF AttrInv, CycleTells
  <1>6. refreshing => runs["X"] # <<>> /\ memory["X"].count < MaxReruns
    <2> SUFFICES ASSUME refreshing PROVE runs["X"] # <<>> /\ memory["X"].count < MaxReruns
      OBVIOUS
    <2>1. memory["X"].count < MaxReruns
      BY <1>2 DEF Blame!Spent
    <2>2. Blame!With("X", c, "pass") \cup Blame!With("X", c, "fail") # {}
      BY DEF Blame!Blame
    <2> QED BY <1>2, <2>1, <2>2 DEF Blame!With
  <1>7. pc = "refresh" =>
          /\ of \in Checks /\ runs["X"] # <<>> /\ seen <= Len(runs["X"])
          /\ memory["X"].count < MaxReruns
    BY <1>2, <1>6
  <1> HIDE DEF wait, pc, of, seen, author
  <1>8. /\ cycle' \in CycleRow /\ cycle'.todo = cycle.todo \ {c} /\ cycle'.pc = pc
        /\ cycle'.of = of /\ cycle'.seen = seen /\ cycle'.author = author
    BY <1>1, <1>3, <1>4 DEF CycleRow
  <1>9. RunsTell'
    BY <1>1 DEF AttrInv, RunsTell, ClearedByX, Blame!Commits
  <1>10. CycleTells'
    BY <1>1, <1>4, <1>5, <1>7, <1>8 DEF AttrInv, CycleTells, Blame!With
  <1>11. AttributionTypes'
    BY <1>1, <1>8 DEF AttrInv, AttributionTypes, Blame!Commits
  <1>12. RerunsCounted'
    <2>1. \A k \in Blame!Commits : Unrecorded(k) = 0 /\ Unrecorded(k)' = 0
      BY <1>1, <1>4, <1>8 DEF Unrecorded
    <2> QED BY <1>1, <2>1 DEF AttrInv, RerunsCounted, Blame!Commits
  <1>13. Decided'
    BY <1>1 DEF AttrInv, Decided, Blame!BrokenNeverProceeds, Blame!InnocentNotBlamed
  <1> QED BY <1>9, <1>10, <1>11, <1>12, <1>13 DEF AttrInv

\* A refresh that the forge refuses.
LEMMA RefusedKeeps ==
  ASSUME AttrInv, cycle.pc = "refresh", NEW wait \in BOOLEAN,
         cycle' = [cycle EXCEPT !.pc = "attribute", !.of = "none", !.wait = wait],
         UNCHANGED <<cause, outside, runs, memory, decision, blamed, crashes>>
  PROVE  AttrInv'
  <1>1. /\ cycle' \in CycleRow /\ cycle'.todo = cycle.todo /\ cycle'.pc = "attribute"
        /\ cycle'.author = cycle.author
    BY DEF AttrInv, AttributionTypes, CycleRow
  <1>2. RunsTell'
    BY DEF AttrInv, RunsTell, ClearedByX, Blame!Commits
  <1>3. CycleTells'
    BY <1>1 DEF AttrInv, CycleTells, Blame!With
  <1>4. AttributionTypes'
    BY <1>1 DEF AttrInv, AttributionTypes, Blame!Commits
  <1>5. RerunsCounted'
    <2>1. \A k \in Blame!Commits : Unrecorded(k) = 0 /\ Unrecorded(k)' = 0
      BY <1>1 DEF Unrecorded
    <2> QED BY <2>1 DEF AttrInv, RerunsCounted, Blame!Commits
  <1>6. Decided'
    BY DEF AttrInv, Decided, Blame!BrokenNeverProceeds, Blame!InnocentNotBlamed
  <1> QED BY <1>2, <1>3, <1>4, <1>5, <1>6 DEF AttrInv

LEMMA AttrInvInit == Blame!AttributionInit => AttrInv
  <1> SUFFICES ASSUME Blame!AttributionInit PROVE AttrInv
    OBVIOUS
  <1>1. \A k \in Blame!Commits : /\ runs[k] = <<>> /\ Len(runs[k]) = 0 /\ DOMAIN runs[k] = {}
                                 /\ memory[k] = [count |-> 0, attempt |-> 0]
    BY DEF Blame!AttributionInit
  <1>2. AttributionTypes
    BY <1>1, IdleCycleRow DEF Blame!AttributionInit, AttributionTypes
  <1>3. RunsTell /\ CycleTells
    BY <1>1, IdleCycleRow DEF Blame!AttributionInit, RunsTell, ClearedByX, CycleTells, Blame!Commits
  <1>4. RerunsCounted
    BY <1>1, IdleCycleRow DEF Blame!AttributionInit, RerunsCounted, Unrecorded
  <1>5. Decided
    BY DEF Blame!AttributionInit, Decided, Blame!BrokenNeverProceeds, Blame!InnocentNotBlamed
  <1> QED BY <1>2, <1>3, <1>4, <1>5 DEF AttrInv

LEMMA AttrInvStep == AttrInv /\ Blame!AttributionNext => AttrInv'
  <1> SUFFICES ASSUME AttrInv, Blame!AttributionNext PROVE AttrInv'
    OBVIOUS
  <1>0. /\ "R" \in Blame!Commits /\ "X" \in Blame!Commits /\ Blame!Commits = {"R", "X"}
        /\ crashes \in Nat /\ cycle \in CycleRow
    BY DEF AttrInv, AttributionTypes, Blame!Commits
  <1>1. CASE Blame!ChangeOutside
    <2>1. /\ outside' = outside + 1 /\ outside \in Nat
          /\ UNCHANGED <<cause, runs, memory, cycle, decision, blamed, crashes>>
      BY <1>1 DEF Blame!ChangeOutside, AttrInv, AttributionTypes
    <2>2. RunsTell'
      BY <2>1 DEF AttrInv, RunsTell, ClearedByX, Bound, Blame!Commits
    <2>3. AttributionTypes' /\ RerunsCounted'
      BY SMTT(30), <2>1 DEF AttrInv, AttributionTypes, RerunsCounted, Unrecorded, Blame!Commits
    <2>4. CycleTells' /\ Decided'
      BY <2>1 DEF AttrInv, CycleTells, Decided, Blame!With, Blame!BrokenNeverProceeds,
                  Blame!InnocentNotBlamed
    <2> QED BY <2>2, <2>3, <2>4 DEF AttrInv
  <1>2. CASE Blame!RequestRerun
    <2>1. cycle.pc = "rerun" /\ runs["R"] # <<>>
      BY <1>2 DEF Blame!RequestRerun, AttrInv, CycleTells
    <2>2. CASE /\ Blame!Attempt("R", {c \in Checks : Blame!Latest("R")[c].out # "pass"})
               /\ cycle' = [cycle EXCEPT !.pc = "record"]
               /\ UNCHANGED decision
      BY <1>0, <1>2, <2>1, <2>2, AcceptedKeeps DEF Blame!RequestRerun
    <2>3. CASE cycle' = Blame!IdleCycle /\ decision' = "blocked" /\ UNCHANGED runs
      <3>1. \A k \in Blame!Commits : Unrecorded(k) = 0
        BY <2>1 DEF Unrecorded
      <3>2. Decided' /\ UNCHANGED <<cause, outside, runs, memory>> /\ crashes' = crashes
        BY <1>2, <2>3 DEF Blame!RequestRerun, AttrInv, Decided, Blame!BrokenNeverProceeds,
                          Blame!InnocentNotBlamed
      <3> QED BY <1>0, <2>3, <3>1, <3>2, CycleEnds
    <2> QED BY <1>2, <2>2, <2>3 DEF Blame!RequestRerun
  <1>3. CASE Blame!RecordRerun
    <2>1. /\ cycle.pc = "record" /\ Blame!Record("R", cycle.seen) /\ cycle' = Blame!IdleCycle
          /\ UNCHANGED <<cause, outside, runs, decision, blamed, crashes>>
      BY <1>3 DEF Blame!RecordRerun
    <2> QED BY <1>0, <2>1, RecordKeeps, IdleCycleRow
  <1>4. CASE Blame!RequestRefresh
    <2>1. /\ cycle.pc = "refresh" /\ runs["X"] # <<>> /\ {cycle.of} \in SUBSET Checks
          /\ UNCHANGED <<cause, outside, memory, decision, blamed, crashes>>
      BY <1>4 DEF Blame!RequestRefresh, AttrInv, CycleTells
    <2>2. CASE /\ Blame!Attempt("X", {cycle.of})
               /\ cycle' = [cycle EXCEPT !.pc = "record_target"]
      BY <1>0, <2>1, <2>2, AcceptedKeeps
    <2>3. CASE /\ cycle' = [cycle EXCEPT !.pc = "attribute", !.of = "none", !.wait = TRUE]
               /\ UNCHANGED runs
      BY <2>1, <2>3, RefusedKeeps
    <2>4. CASE cycle' = [cycle EXCEPT !.pc = "attribute", !.of = "none"] /\ UNCHANGED runs
      <3>1. /\ cycle' = [cycle EXCEPT !.pc = "attribute", !.of = "none", !.wait = cycle.wait]
            /\ cycle.wait \in BOOLEAN
        BY <1>0, <2>4 DEF CycleRow
      <3> QED BY <2>1, <2>4, <3>1, RefusedKeeps
    <2> QED BY <1>4, <2>2, <2>3, <2>4 DEF Blame!RequestRefresh
  <1>5. CASE Blame!RecordRefresh
    <2>1. /\ cycle.pc = "record_target" /\ Blame!Record("X", cycle.seen)
          /\ cycle' = [cycle EXCEPT !.pc = "attribute", !.of = "none", !.wait = TRUE]
          /\ UNCHANGED <<cause, outside, runs, decision, blamed, crashes>>
      BY <1>5 DEF Blame!RecordRefresh
    <2>2. /\ cycle' \in CycleRow /\ cycle'.pc = "attribute"
          /\ cycle'.todo = cycle.todo /\ cycle'.author = cycle.author
      BY <1>0, <2>1 DEF CycleRow
    <2> QED BY <1>0, <2>1, <2>2, RecordKeeps
  <1>6. CASE Blame!Conclude
    <2>1. /\ cycle.pc = "attribute" /\ blamed' = cycle.author /\ cycle' = Blame!IdleCycle
          /\ decision' \in {"author", "pending", "blocked"}
          /\ UNCHANGED <<cause, outside, runs, memory, crashes>>
      BY <1>6 DEF Blame!Conclude
    <2>2. \A k \in Blame!Commits : Unrecorded(k) = 0
      BY <2>1 DEF Unrecorded
    <2>3. Decided'
      BY <2>1 DEF AttrInv, CycleTells, Decided, Blame!BrokenNeverProceeds,
                  Blame!InnocentNotBlamed
    <2> QED BY <1>0, <2>1, <2>2, <2>3, CycleEnds
  <1>7. CASE Blame!IntegratorDies
    <2>1. /\ crashes' = crashes + 1 /\ cycle' = Blame!IdleCycle
          /\ UNCHANGED <<cause, outside, runs, memory, decision, blamed>>
      BY <1>7 DEF Blame!IntegratorDies
    <2>2. \A k \in Blame!Commits : Unrecorded(k) \in {0, 1}
      BY DEF Unrecorded
    <2>3. Decided'
      BY <2>1 DEF AttrInv, Decided, Blame!BrokenNeverProceeds, Blame!InnocentNotBlamed
    <2>4. crashes' \in Nat /\ \A k \in Blame!Commits : crashes + Unrecorded(k) <= crashes'
      BY <1>0, <2>1, <2>2
    <2> QED BY <2>1, <2>3, <2>4, CycleEnds
  <1>8. CASE \E k \in Blame!Commits : \E c \in Checks : Blame!EndJob(k, c)
    BY <1>8, EndJobKeeps
  <1> QED BY <1>1, <1>2, <1>3, <1>4, <1>5, <1>6, <1>7, <1>8, StartRunKeeps, PollKeeps,
             AttributeKeeps
          DEF Blame!AttributionNext

\* An author is sent back only for a check the candidate breaks or that fails by chance,
\* nothing broken proceeds, reruns stay within the cap and no gate waits for a rerun the
\* forge never started, for any set of checks and causes (attribution.rs, flake.rs,
\* publish.rs checks_gate).
THEOREM BlameIsSound == Spec => []AttributionSound
  <1>1. Init => AttrInv
    BY AttrInvInit DEF Init
  <1>2. AttrInv /\ [Next]_all => AttrInv'
    <2> SUFFICES ASSUME AttrInv, [Next]_all PROVE AttrInv'
      OBVIOUS
    <2>1. CASE Blame!AttributionNext
      BY <2>1, AttrInvStep
    <2>2. CASE UNCHANGED attributionVars
      BY SMTT(30), <2>2 DEF attributionVars, AttrInv, AttributionTypes, RunsTell, ClearedByX, CycleTells,
                  RerunsCounted, Unrecorded, Decided, Blame!BrokenNeverProceeds,
                  Blame!InnocentNotBlamed, Blame!With, Blame!Commits
    <2> QED BY <2>1, <2>2 DEF Next, AttributionPart, all
  <1>3. AttrInv => AttributionSound
    <2> SUFFICES ASSUME AttrInv PROVE AttributionSound
      OBVIOUS
    <2>0. \A k \in Blame!Commits : /\ Len(runs[k]) \in Nat /\ memory[k].count \in Nat
                                   /\ memory[k].attempt \in Nat /\ crashes \in Nat
      BY DEF AttrInv, AttributionTypes
    <2>1. Blame!RerunsCapped
      <3> SUFFICES ASSUME NEW k \in Blame!Commits
                   PROVE  Len(runs[k]) <= 1 + MaxReruns + crashes
        BY DEF Blame!RerunsCapped
      <3>1. /\ Len(runs[k]) <= 1 + memory[k].count + crashes + Unrecorded(k)
            /\ memory[k].count <= MaxReruns /\ Unrecorded(k) \in {0, 1}
            /\ Unrecorded(k) = 1 => memory[k].count < MaxReruns
        BY DEF AttrInv, RerunsCounted, CycleTells, Unrecorded
      <3> HIDE DEF Unrecorded
      <3> QED BY SMTT(30), <2>0, <3>1
    <2>2. Blame!WaitsForSomething
      <3>1. \A k \in Blame!Commits : ~Blame!InFlight(k)
        BY <2>0 DEF AttrInv, RerunsCounted, Blame!InFlight
      <3> QED BY <3>1 DEF Blame!WaitsForSomething, Blame!Commits
    <2> QED BY <2>1, <2>2 DEF AttrInv, Decided, AttributionSound, Blame!AttributionSound
  <1> QED BY <1>1, <1>2, <1>3, PTL DEF Spec

---------------------------------------------------------------------------
(* Artifacts and backups.                                                   *)

ArtRow == [state : {"absent", "reserved", "finalized", "deleted"}, expires : Nat, until : Nat]

\* What a lock is sought for.
Goals == {"recheck", "locked", "retention", "delete"}
Seeking == {"lock", "takeover", "again"}

HandlerRow == [pc : {"idle", "pass", "sweeping", "swept", "abandoned"} \cup Seeking \cup Store!Holding,
               of : Uploads \cup {Nobody}, goal : {"none", "lock", "part"} \cup Goals,
               at : Nat, rest : SUBSET Uploads]

StoreTypes ==
  /\ row \in [Uploads -> ArtRow]
  /\ lock \in [Uploads -> Handlers \cup {"left", Nobody}]
  /\ handler \in [Handlers -> HandlerRow]
  /\ serviceTime \in Nat /\ saved \in Nat /\ saved <= serviceTime
  /\ transfer \in [Uploads -> {"none", "saved", "done"}]

\* Who holds a lock made its file, unless the file was removed under a holder.
LockOf(h, x, files, over) ==
  /\ x.pc \in Store!Holding => x.of \in Uploads /\ (x.of \notin over => files[x.of] = h)
  /\ x.pc \in Seeking => x.of \in Uploads /\ x.goal \in Goals
  /\ x.pc = "sweeping" => x.of \in Uploads
  /\ x.pc = "abandoned" => x.of \in Uploads \cap over

LocksHeld ==
  \A h \in Handlers : LockOf(h, handler[h], lock, overtaken) /\ handler[h].at <= serviceTime

\* Cleanup removes only what is unavailable for good, and a published body is there.
Knows(x, over) ==
  /\ x.pc = "remove" /\ x.of \notin over => Store!Unavailable(x.of, serviceTime)
  /\ x.pc = "tombstoned" => row[x.of].state = "deleted"
  /\ x.pc = "published" /\ x.of \notin over => x.of \in blobs

HoldersKnow == \A h \in Handlers : Knows(handler[h], overtaken)

\* The rows stay under the quota at the time their last change was made, and so at any
\* later one.
Within(rs, at, but) == Cardinality(Store!Used(rs, at) \ but) <= Quota

ImageSound(image) ==
  /\ image.rows \in [Uploads -> ArtRow] /\ image.saved \in Nat
  /\ Within(image.rows, image.saved, image.renewed)

\* From its start a backup finds the contents that its image lists.
BackupKnows ==
  /\ backup.pc \in {"idle", "guarded", "imaged"}
  /\ backup.pc # "idle" => backup.at \in Nat
  /\ backup.pc = "guarded" => backup = [pc |-> "guarded", at |-> backup.at, image |-> Nobody]
  /\ backup.pc = "guarded" =>
       \A a \in Uploads \ (hollow \cup overtaken) :
         Store!LiveUpload(row, a, backup.at) => a \in blobs
  /\ backup.pc = "imaged" =>
       /\ ImageSound(backup.image)
       /\ \A a \in Uploads \ (backup.image.hollow \cup overtaken) :
            Store!LiveUpload(backup.image.rows, a, backup.at) => a \in blobs
  /\ snapshot # Nobody => ImageSound(snapshot.image) /\ snapshot.at \in Nat

StoreInv ==
  /\ StoreTypes /\ LocksHeld /\ HoldersKnow
  /\ Store!LiveHasContent
  /\ Within(row, saved, renewed)
  /\ BackupKnows
  /\ ~broken
  /\ Store!TransferResumable

LEMMA SameCardinality == ASSUME NEW S PROVE Store!Cardinality(S) = Cardinality(S)
  BY DEF Store!Cardinality, Cardinality, Store!IsFiniteSet, IsFiniteSet

\* Fewer uploads that count, or more that are excepted, stay under the quota.
LEMMA FewerWithin ==
  ASSUME NEW rs, NEW at, NEW but, Within(rs, at, but),
         NEW new, NEW time, NEW less,
         Store!Used(new, time) \ less \subseteq Store!Used(rs, at) \ but
  PROVE  Within(new, time, less)
  <1>1. IsFiniteSet(Store!Used(rs, at) \ but)
    BY StoreAssumption, FS_Subset DEF Store!Used
  <1>2. /\ Cardinality(Store!Used(new, time) \ less) <= Cardinality(Store!Used(rs, at) \ but)
        /\ IsFiniteSet(Store!Used(new, time) \ less)
    BY <1>1, FS_Subset
  <1>3. Cardinality(Store!Used(new, time) \ less) \in Nat /\ Cardinality(Store!Used(rs, at) \ but) \in Nat
    BY <1>1, <1>2, FS_CardinalityType
  <1> QED BY <1>2, <1>3, StoreAssumption DEF Within

\* What counts at a time counted at every earlier one.
LEMMA UsedShrinks ==
  ASSUME NEW rs \in [Uploads -> ArtRow], NEW s \in Nat, NEW t \in Nat, s <= t
  PROVE  Store!Used(rs, t) \subseteq Store!Used(rs, s)
  BY DEF Store!Used, Store!LiveReservation, Store!LiveUpload, ArtRow

\* Rows that change now count no more than before, except for one that was let in.
LEMMA RowsChange ==
  ASSUME StoreInv, NEW new, NEW more,
         Store!Used(new, serviceTime) \ more \subseteq Store!Used(row, serviceTime) \ renewed
  PROVE  Within(new, serviceTime, more)
  <1>1. Store!Used(row, serviceTime) \subseteq Store!Used(row, saved)
    BY UsedShrinks DEF StoreInv, StoreTypes
  <1> QED BY <1>1, FewerWithin DEF StoreInv

LEMMA StoreInvInit == Store!ArtifactsInit => StoreInv
  <1> SUFFICES ASSUME Store!ArtifactsInit PROVE StoreInv
    OBVIOUS
  <1>0. /\ Store!Absent \in ArtRow /\ Store!Absent.state = "absent"
        /\ Store!Idle \in HandlerRow /\ Store!Idle.pc = "idle" /\ Store!Idle.at = 0
    BY DEF Store!Absent, Store!Idle, ArtRow, HandlerRow
  <1>1. StoreTypes /\ LocksHeld /\ HoldersKnow
    BY <1>0 DEF Store!ArtifactsInit, StoreTypes, LocksHeld, LockOf, HoldersKnow, Knows, Seeking,
       Store!Holding
  <1>2. Store!Used(row, saved) \ renewed = {}
    BY <1>0 DEF Store!ArtifactsInit, Store!Used, Store!LiveReservation, Store!LiveUpload
  <1>3. Within(row, saved, renewed)
    <2>1. Cardinality(Store!Used(row, saved) \ renewed) = 0
      BY <1>2, FS_EmptySet
    <2> QED BY <2>1, StoreAssumption DEF Within
  <1>4. BackupKnows
    BY DEF Store!ArtifactsInit, BackupKnows, Store!NoBackup
  <1> QED BY <1>0, <1>1, <1>3, <1>4 DEF StoreInv, Store!ArtifactsInit, Store!LiveHasContent,
             Store!LiveUpload, Store!TransferResumable

\* Where only handlers move, what the rows, files and backups say stays.
LEMMA HandlersMove ==
  ASSUME StoreInv, StoreTypes', LocksHeld', HoldersKnow', overtaken \subseteq overtaken',
         UNCHANGED <<row, blobs, serviceTime, saved, backup, snapshot, broken, hollow, renewed,
                     transfer, payload>>
  PROVE  StoreInv'
  <1>1. Within(row, saved, renewed)'
    BY DEF StoreInv, Within, Store!Used, Store!LiveReservation, Store!LiveUpload
  <1>2. BackupKnows'
    BY DEF StoreInv, BackupKnows, ImageSound, Within, Store!LiveUpload, Store!Used,
           Store!LiveReservation
  <1> QED BY <1>1, <1>2 DEF StoreInv, Store!LiveHasContent, Store!LiveUpload, Store!TransferResumable

\* No step of one handler takes the lock file from another, unless it is recorded.
OthersKeep(h) ==
  \A g \in Handlers \ {h} :
    handler[g].pc \in Store!Holding /\ handler[g].of \notin overtaken' => lock'[handler[g].of] = g

Files == [Uploads -> Handlers \cup {"left", Nobody}]

\* The end of a holder removes its own file, or one that was already taken from it.
LEMMA DropKeeps ==
  ASSUME StoreInv, NEW h \in Handlers, lock' = Store!Dropped(h), overtaken \subseteq overtaken'
  PROVE  lock' \in Files /\ OthersKeep(h)
  <1>0. lock \in Files /\ LocksHeld
    BY DEF StoreInv, StoreTypes, Files
  <1>1. lock' \in Files
    BY <1>0 DEF Store!Dropped, Files
  <1>2. ASSUME NEW g \in Handlers \ {h}, handler[g].pc \in Store!Holding, handler[g].of \notin overtaken'
        PROVE  lock'[handler[g].of] = g
    <2>1. handler[g].of \in Uploads /\ lock[handler[g].of] = g /\ handler[g].of \notin overtaken
      BY <1>0, <1>2 DEF LocksHeld, LockOf
    <2>2. handler[h].pc \in Store!Holding => handler[h].of # handler[g].of
      BY <1>0, <1>2, <2>1 DEF LocksHeld, LockOf
    <2> QED BY <1>0, <2>1, <2>2 DEF Store!Dropped, Files
  <1> QED BY <1>1, <1>2 DEF OthersKeep

\* A removal by path is recorded when it hits a handler's file.
LEMMA RemovalKeeps ==
  ASSUME StoreInv, NEW h \in Handlers, NEW a \in Uploads, Store!RemoveLockFile(a)
  PROVE  lock' \in Files /\ OthersKeep(h) /\ overtaken \subseteq overtaken'
  <1>0. lock \in Files /\ LocksHeld
    BY DEF StoreInv, StoreTypes, Files
  <1>1. lock' \in Files /\ overtaken \subseteq overtaken'
    BY <1>0 DEF Store!RemoveLockFile, Files
  <1>2. ASSUME NEW g \in Handlers \ {h}, handler[g].pc \in Store!Holding, handler[g].of \notin overtaken'
        PROVE  lock'[handler[g].of] = g
    <2>1. handler[g].of \in Uploads /\ lock[handler[g].of] = g
      BY <1>0, <1>1, <1>2 DEF LocksHeld, LockOf
    <2>2. handler[g].of # a
      BY <1>2, <2>1 DEF Store!RemoveLockFile
    <2> QED BY <1>0, <2>1, <2>2 DEF Store!RemoveLockFile, Files
  <1> QED BY <1>1, <1>2 DEF OthersKeep

\* A file is created only where there is none.
LEMMA CreationKeeps ==
  ASSUME StoreInv, NEW h \in Handlers, NEW a \in Uploads, lock[a] = Nobody,
         NEW who \in Handlers \cup {"left"}, lock' = [lock EXCEPT ![a] = who], overtaken' = overtaken
  PROVE  lock' \in Files /\ OthersKeep(h) /\ lock'[a] = who
  <1>0. lock \in Files /\ LocksHeld
    BY DEF StoreInv, StoreTypes, Files
  <1>1. lock' \in Files /\ lock'[a] = who
    BY <1>0 DEF Files
  <1>2. ASSUME NEW g \in Handlers \ {h}, handler[g].pc \in Store!Holding, handler[g].of \notin overtaken'
        PROVE  lock'[handler[g].of] = g
    <2>1. handler[g].of \in Uploads /\ lock[handler[g].of] = g
      BY <1>0, <1>2 DEF LocksHeld, LockOf
    <2> QED BY <1>0, <2>1, StoreAssumption DEF Files
  <1> QED BY <1>1, <1>2 DEF OthersKeep

\* One handler moves, and the others keep their locks.
LEMMA OneMoves ==
  ASSUME StoreInv, NEW h \in Handlers, NEW next \in HandlerRow,
         handler' = [handler EXCEPT ![h] = next],
         lock' \in Files, OthersKeep(h), overtaken \subseteq overtaken',
         LockOf(h, next, lock', overtaken'), next.at <= serviceTime,
         serviceTime' = serviceTime
  PROVE  /\ handler' \in [Handlers -> HandlerRow] /\ LocksHeld'
         /\ handler'[h] = next /\ \A g \in Handlers \ {h} : handler'[g] = handler[g]
  <1>0. handler \in [Handlers -> HandlerRow] /\ LocksHeld
    BY DEF StoreInv, StoreTypes
  <1>1. handler' \in [Handlers -> HandlerRow]
    BY <1>0
  <1>2. handler'[h] = next /\ \A g \in Handlers \ {h} : handler'[g] = handler[g]
    BY <1>0
  <1>3. ASSUME NEW g \in Handlers \ {h}
        PROVE  LockOf(g, handler[g], lock', overtaken') /\ handler[g].at <= serviceTime
    BY <1>0 DEF LocksHeld, LockOf, OthersKeep
  <1> QED BY <1>1, <1>2, <1>3 DEF LocksHeld

\* One handler moves, and leaves rows and contents alone.
LEMMA OneMovesOnly ==
  ASSUME StoreInv, NEW h \in Handlers, NEW next \in HandlerRow,
         handler' = [handler EXCEPT ![h] = next],
         lock' \in Files, OthersKeep(h), overtaken \subseteq overtaken',
         LockOf(h, next, lock', overtaken'), next.at <= serviceTime, Knows(next, overtaken'),
         UNCHANGED <<row, blobs, serviceTime, saved, backup, snapshot, broken, hollow, renewed,
                     transfer, payload>>
  PROVE  StoreInv'
  <1>1. /\ handler' \in [Handlers -> HandlerRow] /\ LocksHeld'
        /\ handler'[h] = next /\ \A g \in Handlers \ {h} : handler'[g] = handler[g]
    BY OneMoves
  <1>2. StoreTypes'
    BY <1>1 DEF StoreInv, StoreTypes, Files
  <1>3. HoldersKnow'
    <2>1. ASSUME NEW g \in Handlers \ {h} PROVE Knows(handler[g], overtaken')
      BY DEF StoreInv, HoldersKnow, Knows
    <2>2. \A x : Knows(x, overtaken') => Knows(x, overtaken)'
      BY DEF Knows, Store!Unavailable
    <2> QED BY <1>1, <2>1, <2>2 DEF HoldersKnow, Knows, Store!Unavailable
  <1> QED BY <1>1, <1>2, <1>3, HandlersMove

\* Cleanup takes only content that is not available, and none while a backup runs, unless
\* the lock was taken from it.
LEMMA ContentGoes ==
  ASSUME StoreInv, NEW h \in Handlers, NEW next \in HandlerRow,
         \/ handler[h].pc = "remove" /\ (backup.pc # "idle" => blobs' = blobs)
         \/ handler[h].pc = "tombstoned" /\ (backup.pc # "idle" => blobs' = blobs)
         \/ handler[h].pc = "abandoned",
         blobs' \in {blobs, blobs \ {handler[h].of}},
         handler' = [handler EXCEPT ![h] = next],
         lock' \in Files, OthersKeep(h), overtaken' = overtaken,
         next.pc \in {"pass", "idle"}, next.at <= serviceTime,
         UNCHANGED <<row, serviceTime, saved, backup, snapshot, broken, hollow, renewed, transfer,
                     payload>>
  PROVE  StoreInv'
  <1> DEFINE a == handler[h].of
  <1>0. /\ a \in Uploads /\ LocksHeld /\ HoldersKnow
        /\ a \notin overtaken => lock[a] = h /\ (backup.pc # "idle" => blobs' = blobs)
    BY DEF StoreInv, LocksHeld, LockOf, Store!Holding
  <1>1. a \notin overtaken => ~Store!LiveUpload(row, a, serviceTime)
    BY <1>0 DEF StoreInv, HoldersKnow, Knows, LocksHeld, LockOf, Store!Unavailable, Store!LiveUpload,
       StoreTypes, ArtRow
  <1>2. blobs' \in {blobs, blobs \ {a}}
    OBVIOUS
  <1>3. \A g \in Handlers \ {h} :
          handler[g].pc = "published" /\ handler[g].of \notin overtaken => handler[g].of # a
    BY <1>0 DEF LocksHeld, LockOf, Store!Holding
  <1> HIDE DEF a
  <1>4. LockOf(h, next, lock', overtaken') /\ overtaken \subseteq overtaken'
    BY DEF LockOf, Seeking, Store!Holding
  <1>5. /\ handler' \in [Handlers -> HandlerRow] /\ LocksHeld'
        /\ handler'[h] = next /\ \A g \in Handlers \ {h} : handler'[g] = handler[g]
    BY <1>4, OneMoves
  <1>6. StoreTypes'
    BY <1>5 DEF StoreInv, StoreTypes, Files
  <1>7. HoldersKnow'
    BY <1>0, <1>2, <1>3, <1>5 DEF HoldersKnow, Knows, Store!Unavailable
  <1>8. Store!LiveHasContent'
    BY <1>1, <1>2 DEF StoreInv, Store!LiveHasContent, Store!LiveUpload
  <1>9. Within(row, saved, renewed)'
    BY DEF StoreInv, Within, Store!Used, Store!LiveReservation, Store!LiveUpload
  <1>10. BackupKnows'
    BY <1>0, <1>2 DEF StoreInv, BackupKnows, ImageSound, Within, Store!LiveUpload, Store!Used,
           Store!LiveReservation
  <1> QED BY <1>5, <1>6, <1>7, <1>8, <1>9, <1>10 DEF StoreInv, Store!TransferResumable

\* A row changes under its lock, and what becomes available is there or was lost before.
LEMMA RowChanges ==
  ASSUME StoreInv, StoreTypes', LocksHeld', NEW a \in Uploads,
         \A b \in Uploads \ {a} : row'[b] = row[b],
         row'[a].state = "finalized" => a \in blobs \/ a \in hollow' \/ a \in overtaken,
         hollow \subseteq hollow', renewed \subseteq renewed',
         Store!Used(row', serviceTime) \ renewed' \subseteq Store!Used(row, serviceTime) \ renewed,
         saved' = serviceTime,
         UNCHANGED <<blobs, serviceTime, backup, snapshot, broken, overtaken, transfer, payload>>,
         HoldersKnow'
  PROVE  StoreInv'
  <1>1. Within(row', saved', renewed')
    BY RowsChange
  <1>2. Store!LiveHasContent'
    BY DEF StoreInv, Store!LiveHasContent, Store!LiveUpload
  <1>3. BackupKnows'
    BY DEF StoreInv, BackupKnows, ImageSound, Within, Store!LiveUpload, Store!Used,
           Store!LiveReservation
  <1>4. Within(row, saved, renewed)'
    BY <1>1 DEF Within, Store!Used, Store!LiveReservation, Store!LiveUpload
  <1> QED BY <1>2, <1>3, <1>4 DEF StoreInv, Store!TransferResumable

\* The lock of an artifact is sought, made, taken over or refused.
LEMMA LockSteps ==
  ASSUME StoreInv, NEW h \in Handlers,
         \/ Store!CreateLock(h) \/ Store!CreateLockFails(h) \/ Store!RefuseLock(h)
         \/ Store!SeeStaleLock(h) \/ Store!TakeOver(h) \/ Store!CreateAgainFails(h)
  PROVE  StoreInv'
  <1> USE StoreAssumption
  <1> DEFINE a == handler[h].of
  <1>0. /\ Store!Idle \in HandlerRow /\ Store!Idle.pc = "idle" /\ Store!Idle.at = 0
        /\ handler[h] \in HandlerRow /\ handler[h].at \in Nat /\ handler[h].at <= serviceTime
        /\ Store!Idle.at <= serviceTime
        /\ serviceTime \in Nat /\ lock \in Files
        /\ handler[h].pc \in Seeking => a \in Uploads /\ handler[h].goal \in Goals
    BY DEF Store!Idle, HandlerRow, StoreInv, StoreTypes, Files, LocksHeld, LockOf
  <1>i. LockOf(h, Store!Idle, lock', overtaken') /\ Knows(Store!Idle, overtaken')
    BY <1>0 DEF LockOf, Knows, Seeking, Store!Holding
  <1>u. handler[h].pc \in Seeking
    BY DEF Store!CreateLock, Store!CreateLockFails, Store!RefuseLock, Store!SeeStaleLock,
       Store!TakeOver, Store!CreateAgainFails, Store!At, Seeking
  <1>v. /\ UNCHANGED <<row, blobs, serviceTime, saved, backup, snapshot, broken, hollow, renewed,
                       transfer, payload>>
        /\ Store!TakeOver(h) \/ overtaken' = overtaken
    BY DEF Store!CreateLock, Store!CreateLockFails, Store!RefuseLock, Store!SeeStaleLock,
       Store!TakeOver, Store!CreateAgainFails, Store!disk, Store!archive, Store!history,
       Store!client, Store!clock
  <1>1. CASE Store!CreateLock(h)
    <2> DEFINE next == [handler[h] EXCEPT !.pc = handler[h].goal, !.goal = "none"]
    <2>1. /\ next \in HandlerRow /\ next.pc = handler[h].goal /\ next.of = a /\ next.at = handler[h].at
          /\ next.pc \in Goals
      BY <1>0, <1>u DEF HandlerRow, Goals, Store!Holding
    <2>2. /\ handler' = [handler EXCEPT ![h] = next] /\ lock[a] = Nobody
          /\ lock' = [lock EXCEPT ![a] = h]
      BY <1>1 DEF Store!CreateLock
    <2>3. overtaken' = overtaken
      BY <1>1 DEF Store!CreateLock, Store!history
    <2>4. lock' \in Files /\ OthersKeep(h) /\ lock'[a] = h
      BY <1>0, <1>u, <2>2, <2>3, CreationKeeps
    <2> HIDE DEF next
    <2>5. LockOf(h, next, lock', overtaken') /\ Knows(next, overtaken')
      BY <1>0, <1>u, <2>1, <2>4 DEF LockOf, Knows, Goals, Seeking
    <2> QED BY <1>0, <1>v, <2>1, <2>2, <2>3, <2>4, <2>5, OneMovesOnly
  <1>2. CASE Store!CreateLockFails(h)
    <2>1. /\ handler' = [handler EXCEPT ![h] = Store!Idle] /\ lock[a] = Nobody
          /\ lock' = [lock EXCEPT ![a] = "left"] /\ overtaken' = overtaken
      BY <1>2 DEF Store!CreateLockFails, Store!history
    <2>2. lock' \in Files /\ OthersKeep(h)
      BY <1>0, <1>u, <2>1, CreationKeeps
    <2> QED BY <1>0, <1>i, <1>v, <2>1, <2>2, OneMovesOnly
  <1>3. CASE Store!RefuseLock(h) /\ handler[h].goal = "recheck"
    <2> DEFINE next == [handler[h] EXCEPT !.pc = "pass", !.of = Nobody, !.goal = "none"]
    <2>1. next \in HandlerRow /\ next.pc = "pass" /\ next.at = handler[h].at
      BY <1>0 DEF HandlerRow
    <2>2. /\ handler' = [handler EXCEPT ![h] = next] /\ lock' = Store!Dropped(h)
          /\ overtaken' = overtaken
      BY <1>3 DEF Store!RefuseLock, Store!Resume, Store!history
    <2>3. lock' \in Files /\ OthersKeep(h)
      BY <2>2, DropKeeps
    <2> HIDE DEF next
    <2>4. LockOf(h, next, lock', overtaken') /\ Knows(next, overtaken')
      BY <2>1 DEF LockOf, Knows, Seeking, Store!Holding
    <2> QED BY <1>0, <1>v, <2>1, <2>2, <2>3, <2>4, OneMovesOnly
  <1>4. CASE (Store!RefuseLock(h) /\ handler[h].goal # "recheck") \/ Store!CreateAgainFails(h)
    <2>1. /\ handler' = [handler EXCEPT ![h] = Store!Idle] /\ lock' = Store!Dropped(h)
          /\ overtaken' = overtaken
      BY <1>4 DEF Store!RefuseLock, Store!CreateAgainFails, Store!Return, Store!history
    <2>2. lock' \in Files /\ OthersKeep(h)
      BY <2>1, DropKeeps
    <2> QED BY <1>0, <1>i, <1>v, <2>1, <2>2, OneMovesOnly
  <1>5. CASE Store!SeeStaleLock(h)
    <2> DEFINE next == [handler[h] EXCEPT !.pc = "takeover"]
    <2>1. /\ next \in HandlerRow /\ next.pc = "takeover" /\ next.of = a /\ next.at = handler[h].at
          /\ next.goal = handler[h].goal
      BY <1>0 DEF HandlerRow, Seeking
    <2>2. /\ handler' = [handler EXCEPT ![h] = next] /\ lock' = lock /\ overtaken' = overtaken
      BY <1>5 DEF Store!SeeStaleLock, Store!Goes, Store!history
    <2>3. lock' \in Files /\ OthersKeep(h)
      BY <1>0, <2>2 DEF OthersKeep, StoreInv, LocksHeld, LockOf
    <2> HIDE DEF next
    <2>4. LockOf(h, next, lock', overtaken') /\ Knows(next, overtaken')
      BY <1>0, <1>u, <2>1 DEF LockOf, Knows, Seeking, Store!Holding
    <2> QED BY <1>0, <1>v, <2>1, <2>2, <2>3, <2>4, OneMovesOnly
  <1>6. CASE Store!TakeOver(h)
    <2> DEFINE next == [handler[h] EXCEPT !.pc = "again"]
    <2>1. /\ next \in HandlerRow /\ next.pc = "again" /\ next.of = a /\ next.at = handler[h].at
          /\ next.goal = handler[h].goal
      BY <1>0 DEF HandlerRow, Seeking
    <2>2. /\ handler' = [handler EXCEPT ![h] = next] /\ Store!RemoveLockFile(a)
      BY <1>6 DEF Store!TakeOver, Store!Goes
    <2>3. lock' \in Files /\ OthersKeep(h) /\ overtaken \subseteq overtaken'
      BY <1>0, <1>u, <2>2, RemovalKeeps
    <2> HIDE DEF next
    <2>4. LockOf(h, next, lock', overtaken') /\ Knows(next, overtaken')
      BY <1>0, <1>u, <2>1 DEF LockOf, Knows, Seeking, Store!Holding
    <2> QED BY <1>0, <1>v, <2>1, <2>2, <2>3, <2>4, OneMovesOnly
  <1> QED BY <1>1, <1>2, <1>3, <1>4, <1>5, <1>6

\* A handler's other steps that leave rows and contents alone.
LEMMA HandlerSteps ==
  ASSUME StoreInv, NEW h \in Handlers,
         \/ Store!StartPass(h) \/ Store!LockListed(h) \/ Store!Recheck(h)
         \/ \E a \in Uploads : Store!SeeOldFile(h, a)
         \/ Store!SweepFile(h) \/ Store!EndSweep(h) \/ Store!EndPass(h)
         \/ \E a \in Uploads : Store!StartUpload(h, a)
         \/ Store!Stage(h)
         \/ \E a \in Uploads, op \in {"retention", "delete"} : Store!StartChange(h, a, op)
         \/ Store!Disconnect(h) \/ Store!Abandon(h)
  PROVE  StoreInv'
  <1> USE StoreAssumption
  <1>0. /\ Store!Idle \in HandlerRow /\ Store!Idle.pc = "idle" /\ Store!Idle.at = 0
        /\ handler[h] \in HandlerRow /\ handler[h].at \in Nat /\ handler[h].at <= serviceTime
        /\ Store!Idle.at <= serviceTime
        /\ serviceTime \in Nat /\ lock \in Files
    BY DEF Store!Idle, HandlerRow, StoreInv, StoreTypes, Files, LocksHeld
  <1>i. LockOf(h, Store!Idle, lock', overtaken') /\ Knows(Store!Idle, overtaken')
    BY <1>0 DEF LockOf, Knows, Seeking, Store!Holding
  <1>k. lock' = lock /\ overtaken' = overtaken => lock' \in Files /\ OthersKeep(h)
    BY <1>0 DEF OthersKeep, StoreInv, LocksHeld, LockOf
  <1>v. UNCHANGED <<row, blobs, serviceTime, saved, backup, snapshot, broken, hollow, renewed,
                    transfer, payload>>
    BY DEF Store!StartPass, Store!LockListed, Store!Recheck, Store!SeeOldFile, Store!SweepFile,
       Store!EndSweep, Store!EndPass, Store!StartUpload, Store!Stage, Store!StartChange,
       Store!Disconnect, Store!Abandon, Store!disk, Store!archive, Store!history, Store!client,
       Store!clock
  <1>1. CASE Store!StartPass(h)
    <2> DEFINE next == [Store!Idle EXCEPT !.pc = "pass", !.at = serviceTime,
                          !.rest = {a \in Uploads : Store!Unavailable(a, serviceTime)}]
    <2>1. next \in HandlerRow /\ next.pc = "pass" /\ next.at <= serviceTime
      <3>1. next \in HandlerRow /\ next.pc = "pass" /\ next.at = serviceTime
        BY <1>0 DEF HandlerRow, Store!Idle
      <3> HIDE DEF next
      <3> QED BY <1>0, <3>1
    <2>2. handler' = [handler EXCEPT ![h] = next] /\ lock' = lock /\ overtaken' = overtaken
      BY <1>1 DEF Store!StartPass, Store!history
    <2> HIDE DEF next
    <2>4. LockOf(h, next, lock', overtaken') /\ Knows(next, overtaken')
      BY <2>1 DEF LockOf, Knows, Seeking, Store!Holding
    <2> QED BY <1>0, <1>k, <1>v, <2>1, <2>2, <2>4, OneMovesOnly
  <1>2. ASSUME NEW a \in Uploads, NEW goal \in Goals, NEW rest \in SUBSET Uploads,
               handler' = [handler EXCEPT ![h] = [Store!Seeks(h, a, goal) EXCEPT !.rest = rest]],
               lock' = lock, overtaken' = overtaken
        PROVE  StoreInv'
    <2> DEFINE next == [Store!Seeks(h, a, goal) EXCEPT !.rest = rest]
    <2>1. /\ next \in HandlerRow /\ next.pc = "lock" /\ next.of = a /\ next.goal = goal
          /\ next.at = handler[h].at
      BY <1>0 DEF HandlerRow, Store!Seeks, Seeking
    <2>2. handler' = [handler EXCEPT ![h] = next]
      BY <1>2
    <2> HIDE DEF next
    <2>4. LockOf(h, next, lock', overtaken') /\ Knows(next, overtaken')
      BY <2>1 DEF LockOf, Knows, Seeking, Store!Holding
    <2> QED BY <1>0, <1>2, <1>k, <1>v, <2>1, <2>2, <2>4, OneMovesOnly
  <1>3. CASE Store!LockListed(h)
    <2>1. PICK a \in handler[h].rest :
            handler' = [handler EXCEPT ![h] =
              [Store!Seeks(h, a, "recheck") EXCEPT !.rest = @ \ {a}]]
      BY <1>3 DEF Store!LockListed
    <2>4. [Store!Seeks(h, a, "recheck") EXCEPT !.rest = @ \ {a}]
            = [Store!Seeks(h, a, "recheck") EXCEPT !.rest = handler[h].rest \ {a}]
      BY DEF Store!Seeks
    <2>2. a \in Uploads /\ handler[h].rest \ {a} \in SUBSET Uploads /\ "recheck" \in Goals
      BY <1>0, <2>1 DEF HandlerRow, Goals
    <2>3. lock' = lock /\ overtaken' = overtaken
      BY <1>3 DEF Store!LockListed, Store!history
    <2> QED BY <1>2, <2>1, <2>2, <2>3, <2>4
  <1>4. ASSUME NEW a \in Uploads, NEW goal \in Goals,
               handler' = [handler EXCEPT ![h] = Store!Seeks(h, a, goal)],
               lock' = lock, overtaken' = overtaken
        PROVE  StoreInv'
    <2>1. /\ Store!Seeks(h, a, goal) = [Store!Seeks(h, a, goal) EXCEPT !.rest = handler[h].rest]
          /\ handler[h].rest \in SUBSET Uploads
      BY <1>0 DEF HandlerRow, Store!Seeks
    <2> QED BY <1>2, <1>4, <2>1
  <1>5. ASSUME NEW a \in Uploads, Store!StartUpload(h, a) PROVE StoreInv'
    <2>1. "locked" \in Goals
      BY DEF Goals
    <2> QED BY <1>4, <1>5, <2>1 DEF Store!StartUpload, Store!history
  <1>6. ASSUME NEW a \in Uploads, NEW op \in {"retention", "delete"}, Store!StartChange(h, a, op)
        PROVE  StoreInv'
    <2>1. op \in Goals
      BY DEF Goals
    <2> QED BY <1>4, <1>6, <2>1 DEF Store!StartChange, Store!history
  <1>7. CASE Store!Recheck(h)
    <2>1. Store!Unavailable(handler[h].of, handler[h].at) =>
            Store!Unavailable(handler[h].of, serviceTime)
      BY <1>7 DEF StoreInv, StoreTypes, LocksHeld, LockOf, Store!Holding, ArtRow, HandlerRow,
         Store!Recheck, Store!At, Store!Unavailable
    <2>2. handler[h].pc = "recheck" /\ overtaken' = overtaken
      BY <1>7 DEF Store!Recheck, Store!At, Store!history
    <2>3. CASE Store!Unavailable(handler[h].of, handler[h].at)
      <3> DEFINE next == [handler[h] EXCEPT !.pc = "remove"]
      <3>1. next \in HandlerRow /\ next.pc = "remove" /\ next.of = handler[h].of /\ next.at = handler[h].at
        BY <1>0 DEF HandlerRow, Store!Holding
      <3>2. handler' = [handler EXCEPT ![h] = next] /\ lock' = lock
        BY <1>7, <2>3 DEF Store!Recheck, Store!Goes
      <3> HIDE DEF next
      <3>3. LockOf(h, handler[h], lock, overtaken)
        BY DEF StoreInv, LocksHeld
      <3>4. LockOf(h, next, lock', overtaken') /\ Knows(next, overtaken')
        BY <2>1, <2>2, <2>3, <3>1, <3>2, <3>3 DEF LockOf, Knows, Seeking, Store!Holding
      <3> QED BY <1>0, <1>k, <1>v, <2>2, <3>1, <3>2, <3>4, OneMovesOnly
    <2>4. CASE ~Store!Unavailable(handler[h].of, handler[h].at)
      <3> DEFINE next == [handler[h] EXCEPT !.pc = "pass", !.of = Nobody, !.goal = "none"]
      <3>1. next \in HandlerRow /\ next.pc = "pass" /\ next.at = handler[h].at
        BY <1>0 DEF HandlerRow
      <3>2. handler' = [handler EXCEPT ![h] = next] /\ lock' = Store!Dropped(h)
        BY <1>7, <2>4 DEF Store!Recheck, Store!Resume
      <3>3. lock' \in Files /\ OthersKeep(h)
        BY <2>2, <3>2, DropKeeps
      <3> HIDE DEF next
      <3>4. LockOf(h, next, lock', overtaken') /\ Knows(next, overtaken')
        BY <3>1 DEF LockOf, Knows, Seeking, Store!Holding
      <3> QED BY <1>0, <1>v, <2>2, <3>1, <3>2, <3>3, <3>4, OneMovesOnly
    <2> QED BY <2>3, <2>4
  <1>8. ASSUME NEW a \in Uploads, Store!SeeOldFile(h, a) PROVE StoreInv'
    <2>1. PICK file \in {"lock", "part"} :
            handler' = [handler EXCEPT ![h].pc = "sweeping", ![h].of = a, ![h].goal = file]
      BY <1>8 DEF Store!SeeOldFile
    <2> DEFINE next == [handler[h] EXCEPT !.pc = "sweeping", !.of = a, !.goal = file]
    <2>2. next \in HandlerRow /\ next.pc = "sweeping" /\ next.of = a /\ next.at = handler[h].at
      BY <1>0 DEF HandlerRow
    <2>3. handler' = [handler EXCEPT ![h] = next] /\ lock' = lock /\ overtaken' = overtaken
      BY <1>8, <2>1 DEF Store!SeeOldFile, Store!history
    <2> HIDE DEF next
    <2>4. LockOf(h, next, lock', overtaken') /\ Knows(next, overtaken')
      BY <2>2 DEF LockOf, Knows, Seeking, Store!Holding
    <2> QED BY <1>0, <1>k, <1>v, <2>2, <2>3, <2>4, OneMovesOnly
  <1>9. CASE Store!SweepFile(h)
    <2> DEFINE next == [handler[h] EXCEPT !.pc = "pass", !.of = Nobody, !.goal = "none"]
    <2>1. next \in HandlerRow /\ next.pc = "pass" /\ next.at = handler[h].at
      BY <1>0 DEF HandlerRow
    <2>2. handler' = [handler EXCEPT ![h] = next]
      BY <1>9 DEF Store!SweepFile
    <2>3. handler[h].of \in Uploads
      BY <1>9 DEF Store!SweepFile, Store!At, StoreInv, LocksHeld, LockOf
    <2>4. lock' \in Files /\ OthersKeep(h) /\ overtaken \subseteq overtaken'
      BY <1>9, <1>k, <2>3, RemovalKeeps DEF Store!SweepFile
    <2> HIDE DEF next
    <2>5. LockOf(h, next, lock', overtaken') /\ Knows(next, overtaken')
      BY <2>1 DEF LockOf, Knows, Seeking, Store!Holding
    <2> QED BY <1>0, <1>v, <2>1, <2>2, <2>4, <2>5, OneMovesOnly
  <1>10. CASE Store!EndSweep(h)
    <2> DEFINE next == [handler[h] EXCEPT !.pc = "swept"]
    <2>1. next \in HandlerRow /\ next.pc = "swept" /\ next.at = handler[h].at
      BY <1>0 DEF HandlerRow
    <2>2. handler' = [handler EXCEPT ![h] = next] /\ lock' = lock /\ overtaken' = overtaken
      BY <1>10 DEF Store!EndSweep, Store!Goes, Store!history
    <2> HIDE DEF next
    <2>4. LockOf(h, next, lock', overtaken') /\ Knows(next, overtaken')
      BY <2>1 DEF LockOf, Knows, Seeking, Store!Holding
    <2> QED BY <1>0, <1>k, <1>v, <2>1, <2>2, <2>4, OneMovesOnly
  <1>11. CASE Store!EndPass(h)
    <2>1. handler' = [handler EXCEPT ![h] = Store!Idle] /\ lock' = lock /\ overtaken' = overtaken
      BY <1>11 DEF Store!EndPass, Store!history
    <2> QED BY <1>0, <1>i, <1>k, <1>v, <2>1, OneMovesOnly
  <1>12. CASE Store!Stage(h)
    <2>1. handler[h].pc = "locked" /\ overtaken' = overtaken
      BY <1>12 DEF Store!Stage, Store!At, Store!history
    <2>2. CASE Store!Goes(h, "staged") /\ lock' = lock
      <3> DEFINE next == [handler[h] EXCEPT !.pc = "staged"]
      <3>1. next \in HandlerRow /\ next.pc = "staged" /\ next.of = handler[h].of /\ next.at = handler[h].at
        BY <1>0 DEF HandlerRow, Store!Holding
      <3>2. handler' = [handler EXCEPT ![h] = next]
        BY <2>2 DEF Store!Goes
      <3> HIDE DEF next
      <3>3. LockOf(h, handler[h], lock, overtaken)
        BY DEF StoreInv, LocksHeld
      <3>4. LockOf(h, next, lock', overtaken') /\ Knows(next, overtaken')
        BY <2>1, <2>2, <3>1, <3>3 DEF LockOf, Knows, Seeking, Store!Holding
      <3> QED BY <1>0, <1>k, <1>v, <2>1, <2>2, <3>1, <3>2, <3>4, OneMovesOnly
    <2>3. CASE Store!Return(h)
      <3>1. handler' = [handler EXCEPT ![h] = Store!Idle] /\ lock' = Store!Dropped(h)
        BY <2>3 DEF Store!Return
      <3>2. lock' \in Files /\ OthersKeep(h)
        BY <2>1, <3>1, DropKeeps
      <3> QED BY <1>0, <1>i, <1>v, <2>1, <3>1, <3>2, OneMovesOnly
    <2> QED BY <1>12, <2>2, <2>3 DEF Store!Stage
  <1>13. CASE Store!Disconnect(h)
    <2>1. /\ handler' = [handler EXCEPT ![h] = Store!Idle] /\ lock' = Store!Dropped(h)
          /\ overtaken' = overtaken
      BY <1>13 DEF Store!Disconnect, Store!Return, Store!history
    <2>2. lock' \in Files /\ OthersKeep(h)
      BY <2>1, DropKeeps
    <2> QED BY <1>0, <1>i, <1>v, <2>1, <2>2, OneMovesOnly
  <1>14. CASE Store!Abandon(h)
    <2> DEFINE next == [handler[h] EXCEPT !.pc = "abandoned"]
    <2>1. /\ next \in HandlerRow /\ next.pc = "abandoned" /\ next.of = handler[h].of
          /\ next.at = handler[h].at
      BY <1>0 DEF HandlerRow
    <2>2. /\ handler' = [handler EXCEPT ![h] = next] /\ lock' = Store!Dropped(h)
          /\ overtaken' = overtaken \cup {handler[h].of}
          /\ handler[h].pc \in Store!Holding
      BY <1>14 DEF Store!Abandon, Store!Goes, Store!Holding
    <2>3. lock' \in Files /\ OthersKeep(h)
      BY <2>2, DropKeeps
    <2>4. handler[h].of \in Uploads
      BY <2>2 DEF StoreInv, LocksHeld, LockOf
    <2> HIDE DEF next
    <2>5. LockOf(h, next, lock', overtaken') /\ Knows(next, overtaken')
      BY <2>1, <2>2, <2>4 DEF LockOf, Knows, Seeking, Store!Holding
    <2> QED BY <1>0, <1>v, <2>1, <2>2, <2>3, <2>5, OneMovesOnly
  <1> QED BY <1>1, <1>3, <1>5, <1>6, <1>7, <1>8, <1>9, <1>10, <1>11, <1>12, <1>13, <1>14

\* A dead service leaves its lock files, and nothing that works.
LEMMA CrashKeeps ==
  ASSUME StoreInv, Store!Crash
  PROVE  StoreInv'
  <1>0. Store!Idle \in HandlerRow /\ Store!Idle.pc = "idle" /\ Store!Idle.at = 0
    BY DEF Store!Idle, HandlerRow
  <1>1. /\ UNCHANGED <<row, blobs, serviceTime, saved, backup, snapshot, broken, hollow, renewed,
                       overtaken, transfer, payload>>
        /\ handler' = [h \in Handlers |-> Store!Idle]
        /\ lock' = [a \in Uploads |-> IF lock[a] = Nobody THEN Nobody ELSE "left"]
    BY DEF Store!Crash, Store!disk, Store!archive, Store!history, Store!client, Store!clock
  <1>2. StoreTypes'
    BY <1>0, <1>1 DEF StoreInv, StoreTypes
  <1>3. LocksHeld' /\ HoldersKnow'
    BY <1>0, <1>1 DEF StoreInv, StoreTypes, LocksHeld, LockOf, HoldersKnow, Knows, Seeking, Store!Holding
  <1> QED BY <1>1, <1>2, <1>3, HandlersMove

LEMMA CleanupSteps ==
  ASSUME StoreInv, NEW h \in Handlers,
         Store!RemoveListed(h) \/ Store!CleanDeleted(h) \/ Store!RemoveAbandoned(h)
  PROVE  StoreInv'
  <1> USE StoreAssumption
  <1>0. /\ Store!Idle \in HandlerRow /\ Store!Idle.pc = "idle" /\ Store!Idle.at = 0
        /\ handler[h] \in HandlerRow /\ handler[h].at \in Nat /\ handler[h].at <= serviceTime
        /\ Store!Idle.at <= serviceTime
        /\ serviceTime \in Nat /\ lock \in Files
    BY DEF Store!Idle, HandlerRow, StoreInv, StoreTypes, Files, LocksHeld
  <1>v. UNCHANGED <<row, serviceTime, saved, backup, snapshot, broken, hollow, renewed, overtaken,
                    transfer, payload>>
    BY DEF Store!RemoveListed, Store!CleanDeleted, Store!RemoveAbandoned, Store!archive,
       Store!history, Store!client, Store!clock
  <1>1. CASE Store!RemoveListed(h)
    <2> DEFINE next == [handler[h] EXCEPT !.pc = "pass", !.of = Nobody, !.goal = "none"]
    <2>1. next \in HandlerRow /\ next.pc = "pass" /\ next.at = handler[h].at
      BY <1>0 DEF HandlerRow
    <2>2. /\ handler' = [handler EXCEPT ![h] = next] /\ lock' = Store!Dropped(h)
          /\ handler[h].pc = "remove" /\ Store!RemoveFiles(handler[h].of)
      BY <1>1 DEF Store!RemoveListed, Store!Resume, Store!At
    <2>3. lock' \in Files /\ OthersKeep(h)
      BY <1>v, <2>2, DropKeeps
    <2>4. blobs' \in {blobs, blobs \ {handler[h].of}} /\ (backup.pc # "idle" => blobs' = blobs)
      BY <2>2 DEF Store!RemoveFiles, Store!disk
    <2> HIDE DEF next
    <2> QED BY <1>0, <1>v, <2>1, <2>2, <2>3, <2>4, ContentGoes
  <1>2. CASE Store!CleanDeleted(h)
    <2>1. /\ handler' = [handler EXCEPT ![h] = Store!Idle] /\ lock' = Store!Dropped(h)
          /\ handler[h].pc = "tombstoned" /\ Store!RemoveFiles(handler[h].of)
      BY <1>2 DEF Store!CleanDeleted, Store!Return, Store!At
    <2>2. lock' \in Files /\ OthersKeep(h)
      BY <1>v, <2>1, DropKeeps
    <2>3. blobs' \in {blobs, blobs \ {handler[h].of}} /\ (backup.pc # "idle" => blobs' = blobs)
      BY <2>1 DEF Store!RemoveFiles, Store!disk
    <2> QED BY <1>0, <1>v, <2>1, <2>2, <2>3, ContentGoes
  <1>3. CASE Store!RemoveAbandoned(h)
    <2>1. /\ handler' = [handler EXCEPT ![h] = Store!Idle] /\ lock' = lock
          /\ handler[h].pc = "abandoned" /\ blobs' = blobs \ {handler[h].of}
      BY <1>3 DEF Store!RemoveAbandoned, Store!At
    <2>2. lock' \in Files /\ OthersKeep(h)
      BY <1>0, <1>v, <2>1 DEF OthersKeep, StoreInv, LocksHeld, LockOf
    <2> QED BY <1>0, <1>v, <2>1, <2>2, ContentGoes
  <1> QED BY <1>1, <1>2, <1>3

\* The steps that change a row.
LEMMA RowSteps ==
  ASSUME StoreInv, NEW h \in Handlers, NEW until \in Store!Times,
         \/ \E a \in Uploads : Store!ReserveUpload(h, a, until)
         \/ Store!Finalize(h)
         \/ Store!UpdateRetention(h, until) \/ Store!DeleteArtifact(h)
  PROVE  StoreInv'
  <1> USE StoreAssumption
  <1>0. /\ Store!Idle \in HandlerRow /\ Store!Idle.pc = "idle" /\ Store!Idle.at = 0
        /\ handler[h] \in HandlerRow
        /\ until \in Nat /\ serviceTime \in Nat /\ saved \in Nat /\ Store!Idle.at <= serviceTime
    <2>1. serviceTime \in Nat /\ saved \in Nat /\ handler[h] \in HandlerRow
      BY DEF StoreInv, StoreTypes
    <2>2. Store!Forever \in Nat /\ \A life \in RetentionLife : serviceTime + life \in Nat
      BY <2>1 DEF Store!Forever
    <2>3. until \in Nat
      BY <2>2 DEF Store!Times
    <2> QED BY <2>1, <2>3 DEF Store!Idle, HandlerRow
  <1>1. ASSUME NEW a \in Uploads, Store!ReserveUpload(h, a, until) PROVE StoreInv'
    <2> DEFINE new == [state |-> "reserved", expires |-> serviceTime + ReservationLife, until |-> until]
    <2>1. /\ new \in ArtRow /\ row' = [row EXCEPT ![a] = new] /\ row'[a] = new
          /\ \A b \in Uploads \ {a} : row'[b] = row[b]
          /\ new.state = "reserved"
      BY <1>0, <1>1 DEF ArtRow, StoreInv, StoreTypes, Store!ReserveUpload
    <2>2. row[a].state = "absent"
      BY <1>1 DEF Store!ReserveUpload
    <2> HIDE DEF new
    <2>3. /\ lock' = lock /\ blobs' = blobs /\ serviceTime' = serviceTime /\ saved' = serviceTime
          /\ hollow' = hollow /\ renewed' = renewed /\ overtaken' = overtaken
          /\ transfer' = transfer /\ payload' = payload
          /\ backup' = backup /\ snapshot' = snapshot /\ broken' = broken
          /\ handler' = [handler EXCEPT ![h] = Store!Idle]
      BY <1>1 DEF Store!ReserveUpload, Store!disk, Store!archive, Store!history, Store!client
    <2>4. StoreTypes'
      BY <1>0, <2>1, <2>3 DEF StoreInv, StoreTypes
    <2>5. LocksHeld'
      BY <1>0, <2>3 DEF StoreInv, StoreTypes, LocksHeld, LockOf, Seeking, Store!Holding
    <2>6. HoldersKnow'
      BY <1>0, <2>1, <2>2, <2>3 DEF StoreInv, StoreTypes, LocksHeld, LockOf, Store!Holding, HoldersKnow,
         Knows, Store!Unavailable
    <2>7. Store!LiveHasContent'
      BY <2>1, <2>3 DEF StoreInv, Store!LiveHasContent, Store!LiveUpload
    <2>8. BackupKnows'
      BY <2>1, <2>3 DEF StoreInv, BackupKnows, ImageSound, Within, Store!LiveUpload, Store!Used,
           Store!LiveReservation
    <2>9. Within(row, saved, renewed)'
      <3>1. Store!Used(row', serviceTime) \subseteq Store!Used(row, serviceTime) \cup {a}
        BY <2>1 DEF Store!Used, Store!LiveReservation, Store!LiveUpload
      <3>2. /\ IsFiniteSet(Store!Used(row, serviceTime))
            /\ Cardinality(Store!Used(row, serviceTime)) \in Nat
            /\ Cardinality(Store!Used(row, serviceTime)) < Quota
        <4>1. IsFiniteSet(Store!Used(row, serviceTime))
          BY FS_Subset DEF Store!Used
        <4>2. Store!Cardinality(Store!Used(row, serviceTime)) < Quota
          BY <1>1 DEF Store!ReserveUpload, Store!FitsQuota
        <4> QED BY <4>1, <4>2, SameCardinality, FS_CardinalityType
      <3>3. /\ IsFiniteSet(Store!Used(row, serviceTime) \cup {a})
            /\ Cardinality(Store!Used(row, serviceTime) \cup {a}) \in Nat
            /\ Cardinality(Store!Used(row, serviceTime) \cup {a}) <= Quota
        <4>1. /\ IsFiniteSet(Store!Used(row, serviceTime) \cup {a})
              /\ \/ Cardinality(Store!Used(row, serviceTime) \cup {a}) = Cardinality(Store!Used(row, serviceTime))
                 \/ Cardinality(Store!Used(row, serviceTime) \cup {a}) = Cardinality(Store!Used(row, serviceTime)) + 1
          BY <3>2, FS_AddElement
        <4> QED BY <3>2, <4>1
      <3>4. Store!Used(row', serviceTime) \ renewed \subseteq Store!Used(row, serviceTime) \cup {a}
        BY <3>1
      <3>5. /\ Cardinality(Store!Used(row', serviceTime) \ renewed) <= Cardinality(Store!Used(row, serviceTime) \cup {a})
            /\ IsFiniteSet(Store!Used(row', serviceTime) \ renewed)
        BY <3>3, <3>4, FS_Subset
      <3>6. Cardinality(Store!Used(row', serviceTime) \ renewed) \in Nat
        BY <3>5, FS_CardinalityType
      <3>7. Within(row', serviceTime, renewed)
        BY <3>3, <3>5, <3>6 DEF Within
      <3> QED BY <2>3, <3>7 DEF Within, Store!Used, Store!LiveReservation, Store!LiveUpload
    <2> QED BY <2>3, <2>4, <2>5, <2>6, <2>7, <2>8, <2>9 DEF StoreInv, Store!TransferResumable
  <1>2. CASE Store!Finalize(h)
    <2> DEFINE b == handler[h].of
    <2>1. b \in Uploads /\ (b \notin overtaken => b \in blobs /\ lock[b] = h)
      BY <1>2 DEF StoreInv, LocksHeld, LockOf, HoldersKnow, Knows, Store!Holding, Store!Finalize, Store!At
    <2> HIDE DEF b
    <2>2. /\ lock' = Store!Dropped(h) /\ handler' = [handler EXCEPT ![h] = Store!Idle]
          /\ blobs' = blobs /\ serviceTime' = serviceTime
          /\ hollow' = hollow /\ renewed' = renewed /\ overtaken' = overtaken
          /\ transfer' = transfer /\ payload' = payload
          /\ backup' = backup /\ snapshot' = snapshot /\ broken' = broken
      BY <1>2 DEF Store!Finalize, Store!Return, Store!disk, Store!archive, Store!history, Store!client
    <2>3. /\ lock' \in Files /\ handler' \in [Handlers -> HandlerRow] /\ LocksHeld'
      <3>1. lock' \in Files /\ OthersKeep(h)
        BY <2>2, DropKeeps
      <3>2. LockOf(h, Store!Idle, lock', overtaken')
        BY <1>0 DEF LockOf, Seeking, Store!Holding
      <3> QED BY <1>0, <2>2, <3>1, <3>2, OneMoves DEF StoreInv, StoreTypes
    <2>4. LocksHeld'
      BY <2>3
    <2>5. CASE ~Store!LiveReservation(row, b, serviceTime)
      <3>1. row' = row /\ saved' = saved
        BY <1>2, <2>5 DEF Store!Finalize, b
      <3>2. StoreTypes' /\ HoldersKnow'
        BY <1>0, <2>2, <2>3, <3>1 DEF StoreInv, StoreTypes, Files, HoldersKnow, Knows, Store!Unavailable
      <3> QED BY <2>2, <2>4, <3>1, <3>2, HandlersMove
    <2>6. CASE Store!LiveReservation(row, b, serviceTime)
      <3>1. row' = [row EXCEPT ![b].state = "finalized", ![b].expires = 0] /\ saved' = serviceTime
        BY <1>2, <2>6 DEF Store!Finalize, b
      <3>2. /\ row' \in [Uploads -> ArtRow] /\ row'[b].state = "finalized"
            /\ row'[b].until = row[b].until
            /\ \A c \in Uploads \ {b} : row'[c] = row[c]
        BY <2>1, <3>1 DEF StoreInv, StoreTypes, ArtRow
      <3>3. StoreTypes'
        BY <1>0, <2>2, <2>3, <3>1, <3>2 DEF StoreInv, StoreTypes, Files
      <3>4. \A g \in Handlers : handler'[g] = Store!Idle \/ (handler'[g] = handler[g] /\ g # h)
        BY <2>2 DEF StoreInv, StoreTypes
      <3>5. \A g \in Handlers :
              /\ handler[g].pc \in {"remove", "tombstoned"} => handler[g].of \in Uploads
              /\ g # h /\ handler[g].pc = "remove" /\ handler[g].of \notin overtaken => handler[g].of # b
              /\ handler[g].pc = "tombstoned" => handler[g].of # b
        BY <2>1, <2>6 DEF StoreInv, LocksHeld, LockOf, HoldersKnow, Knows, Store!Holding,
           Store!LiveReservation
      <3>6. HoldersKnow'
        BY <1>0, <2>2, <3>2, <3>4, <3>5 DEF StoreInv, HoldersKnow, Knows, Store!Unavailable
      <3>7. Store!Used(row', serviceTime) \ renewed' \subseteq Store!Used(row, serviceTime) \ renewed
        BY <2>1, <2>2, <2>6, <3>2 DEF Store!Used, Store!LiveReservation, Store!LiveUpload
      <3> QED BY <2>1, <2>2, <2>4, <3>1, <3>2, <3>3, <3>6, <3>7, RowChanges
    <2> QED BY <2>5, <2>6
  <1>3. CASE Store!UpdateRetention(h, until)
    <2> DEFINE b == handler[h].of
    <2>1. b \in Uploads /\ (b \notin overtaken => lock[b] = h)
      BY <1>3 DEF StoreInv, LocksHeld, LockOf, Store!Holding, Store!UpdateRetention, Store!At
    <2> HIDE DEF b
    <2>2. /\ lock' = Store!Dropped(h) /\ handler' = [handler EXCEPT ![h] = Store!Idle]
          /\ blobs' = blobs /\ serviceTime' = serviceTime
          /\ overtaken' = overtaken /\ transfer' = transfer /\ payload' = payload
          /\ backup' = backup /\ snapshot' = snapshot /\ broken' = broken
      BY <1>3 DEF Store!UpdateRetention, Store!Return, Store!disk, Store!archive, Store!history,
         Store!client
    <2>3. /\ lock' \in Files /\ handler' \in [Handlers -> HandlerRow] /\ LocksHeld'
      <3>1. lock' \in Files /\ OthersKeep(h)
        BY <2>2, DropKeeps
      <3>2. LockOf(h, Store!Idle, lock', overtaken')
        BY <1>0 DEF LockOf, Seeking, Store!Holding
      <3> QED BY <1>0, <2>2, <3>1, <3>2, OneMoves DEF StoreInv, StoreTypes
    <2>4. LocksHeld'
      BY <2>3
    <2>5. CASE row[b].state = "deleted"
      <3>1. row' = row /\ saved' = saved /\ hollow' = hollow /\ renewed' = renewed
        BY <1>3, <2>5 DEF Store!UpdateRetention, Store!history, b
      <3>2. StoreTypes' /\ HoldersKnow'
        BY <1>0, <2>2, <2>3, <3>1 DEF StoreInv, StoreTypes, Files, HoldersKnow, Knows, Store!Unavailable
      <3> QED BY <2>2, <2>4, <3>1, <3>2, HandlersMove
    <2>6. CASE row[b].state # "deleted"
      <3>1. /\ row' = [row EXCEPT ![b].until = until] /\ saved' = serviceTime
            /\ renewed' = IF row[b].state = "finalized" /\ row[b].until <= serviceTime
                            THEN renewed \cup {b} ELSE renewed
            /\ hollow' = IF row[b].state = "finalized" /\ b \notin blobs
                           THEN hollow \cup {b} ELSE hollow
        BY <1>3, <2>6 DEF Store!UpdateRetention, b
      <3>2. /\ row' \in [Uploads -> ArtRow] /\ row'[b].state = row[b].state
            /\ row'[b].expires = row[b].expires
            /\ \A c \in Uploads \ {b} : row'[c] = row[c]
        BY <1>0, <2>1, <3>1 DEF StoreInv, StoreTypes, ArtRow
      <3>3. StoreTypes'
        BY <1>0, <2>2, <2>3, <3>1, <3>2 DEF StoreInv, StoreTypes, Files
      <3>4. \A g \in Handlers : handler'[g] = Store!Idle \/ (handler'[g] = handler[g] /\ g # h)
        BY <2>2 DEF StoreInv, StoreTypes
      <3>5. \A g \in Handlers :
              /\ handler[g].pc \in {"remove", "tombstoned"} => handler[g].of \in Uploads
              /\ g # h /\ handler[g].pc = "remove" /\ handler[g].of \notin overtaken => handler[g].of # b
              /\ handler[g].pc = "tombstoned" => handler[g].of # b
        BY <2>1, <2>6 DEF StoreInv, LocksHeld, LockOf, HoldersKnow, Knows, Store!Holding,
           Store!LiveReservation
      <3>6. HoldersKnow'
        BY <1>0, <2>2, <3>2, <3>4, <3>5 DEF StoreInv, HoldersKnow, Knows, Store!Unavailable
      <3>7. Store!Used(row', serviceTime) \ renewed' \subseteq Store!Used(row, serviceTime) \ renewed
        <4>1. ASSUME NEW c \in Store!Used(row', serviceTime), c \notin renewed'
              PROVE  c \in Store!Used(row, serviceTime) /\ c \notin renewed
          <5>1. c \notin renewed /\ c \in Uploads
            BY <3>1, <4>1 DEF Store!Used
          <5>2. CASE c # b
            BY <3>2, <4>1, <5>1, <5>2 DEF Store!Used, Store!LiveReservation, Store!LiveUpload
          <5>3. CASE c = b
            BY <1>0, <3>1, <3>2, <4>1, <5>1, <5>3 DEF Store!Used, Store!LiveReservation,
               Store!LiveUpload, StoreInv, StoreTypes, ArtRow
          <5> QED BY <5>1, <5>2, <5>3
        <4> QED BY <4>1
      <3>8. /\ row'[b].state = "finalized" => b \in blobs \/ b \in hollow'
            /\ hollow \subseteq hollow' /\ renewed \subseteq renewed'
        BY <3>1, <3>2
      <3> QED BY <2>1, <2>2, <2>4, <3>1, <3>2, <3>3, <3>6, <3>7, <3>8, RowChanges
    <2> QED BY <2>5, <2>6
  <1>4. CASE Store!DeleteArtifact(h)
    <2> DEFINE b == handler[h].of
    <2>1. b \in Uploads /\ handler[h].pc = "delete"
      BY <1>4 DEF StoreInv, LocksHeld, LockOf, Store!Holding, Store!DeleteArtifact, Store!At
    <2>2. /\ lock' = lock /\ handler' = [handler EXCEPT ![h].pc = "tombstoned"]
          /\ blobs' = blobs /\ serviceTime' = serviceTime /\ saved' = serviceTime
          /\ hollow' = hollow /\ renewed' = renewed /\ overtaken' = overtaken
          /\ transfer' = transfer /\ payload' = payload
          /\ backup' = backup /\ snapshot' = snapshot /\ broken' = broken
          /\ row' = [row EXCEPT ![b].state = "deleted"]
      BY <1>4 DEF Store!DeleteArtifact, Store!Goes, Store!disk, Store!archive, Store!history,
         Store!client
    <2>3. /\ handler' \in [Handlers -> HandlerRow] /\ handler'[h].pc = "tombstoned"
          /\ handler'[h].of = b /\ handler'[h].at = handler[h].at
          /\ \A g \in Handlers \ {h} : handler'[g] = handler[g]
      BY <1>0, <2>2 DEF HandlerRow, Store!Holding, StoreInv, StoreTypes
    <2> HIDE DEF b
    <2>4. /\ row' \in [Uploads -> ArtRow] /\ row'[b].state = "deleted"
          /\ \A c \in Uploads \ {b} : row'[c] = row[c]
      BY <2>1, <2>2 DEF StoreInv, StoreTypes, ArtRow
    <2>5. StoreTypes'
      BY <1>0, <2>2, <2>3, <2>4 DEF StoreInv, StoreTypes
    <2>6. LocksHeld'
      BY <2>1, <2>2, <2>3 DEF StoreInv, LocksHeld, LockOf, Seeking, Store!Holding, b
    <2>8. HoldersKnow'
      <3>1. \A g \in Handlers : handler[g].pc \in {"remove", "tombstoned"} => handler[g].of \in Uploads
        BY DEF StoreInv, LocksHeld, LockOf, Store!Holding
      <3> QED BY <2>2, <2>3, <2>4, <3>1 DEF StoreInv, HoldersKnow, Knows, Store!Unavailable
    <2>9. Store!Used(row', serviceTime) \ renewed' \subseteq Store!Used(row, serviceTime) \ renewed
      BY <2>2, <2>4 DEF Store!Used, Store!LiveReservation, Store!LiveUpload
    <2> QED BY <2>1, <2>2, <2>4, <2>5, <2>6, <2>8, <2>9, RowChanges
  <1> QED BY <1>1, <1>2, <1>3, <1>4

\* A published body is there before its row says so.
LEMMA PublishKeeps ==
  ASSUME StoreInv, NEW h \in Handlers, Store!Publish(h)
  PROVE  StoreInv'
  <1> DEFINE b == handler[h].of
  <1>0. /\ Store!Idle \in HandlerRow /\ Store!Idle.pc = "idle" /\ Store!Idle.at = 0
        /\ handler[h] \in HandlerRow /\ handler[h].at <= serviceTime /\ serviceTime \in Nat
        /\ Store!Idle.at <= serviceTime
    BY DEF Store!Idle, HandlerRow, StoreInv, StoreTypes, LocksHeld
  <1>1. /\ b \in Uploads /\ (b \notin overtaken => lock[b] = h) /\ handler[h].pc = "staged"
        /\ lock \in Files
    BY DEF StoreInv, StoreTypes, LocksHeld, LockOf, Store!Holding, Store!Publish, Store!At, Files
  <1>2. UNCHANGED <<row, serviceTime, saved, hollow, renewed, overtaken, transfer, payload, backup,
                    snapshot, broken>>
    BY DEF Store!Publish, Store!archive, Store!history, Store!client, Store!clock
  <1>3. CASE b \in parts
    <2> DEFINE next == [handler[h] EXCEPT !.pc = "published"]
    <2>1. next \in HandlerRow /\ next.pc = "published" /\ next.of = b /\ next.at = handler[h].at
      BY <1>0 DEF HandlerRow, Store!Holding
    <2>2. handler' = [handler EXCEPT ![h] = next] /\ blobs' = blobs \cup {b} /\ lock' = lock
      BY <1>3 DEF Store!Publish, Store!Goes
    <2> HIDE DEF next, b
    <2>3. lock' \in Files /\ OthersKeep(h)
      BY <1>1, <1>2, <2>2 DEF OthersKeep, StoreInv, LocksHeld, LockOf
    <2>4. LockOf(h, next, lock', overtaken')
      BY <1>1, <1>2, <2>1, <2>2 DEF LockOf, Seeking
    <2>5. /\ handler' \in [Handlers -> HandlerRow] /\ LocksHeld'
          /\ handler'[h] = next /\ \A g \in Handlers \ {h} : handler'[g] = handler[g]
      BY <1>0, <1>2, <2>1, <2>2, <2>3, <2>4, OneMoves
    <2>6. StoreTypes'
      BY <1>2, <2>3, <2>5 DEF StoreInv, StoreTypes, Files
    <2>7. HoldersKnow'
      BY <1>2, <2>1, <2>2, <2>5 DEF StoreInv, HoldersKnow, Knows, Store!Unavailable
    <2>8. Store!LiveHasContent'
      BY <1>2, <2>2 DEF StoreInv, Store!LiveHasContent, Store!LiveUpload
    <2>9. Within(row, saved, renewed)'
      BY <1>2 DEF StoreInv, Within, Store!Used, Store!LiveReservation, Store!LiveUpload
    <2>10. BackupKnows'
      BY <1>2, <2>2 DEF StoreInv, BackupKnows, ImageSound, Within, Store!LiveUpload, Store!Used,
             Store!LiveReservation
    <2> QED BY <1>2, <2>5, <2>6, <2>7, <2>8, <2>9, <2>10 DEF StoreInv, Store!TransferResumable
  <1>4. CASE b \notin parts
    <2>1. /\ handler' = [handler EXCEPT ![h] = Store!Idle] /\ lock' = Store!Dropped(h)
          /\ blobs' = blobs
      BY <1>4 DEF Store!Publish, Store!Return, Store!disk
    <2>2. lock' \in Files /\ OthersKeep(h)
      BY <1>2, <2>1, DropKeeps
    <2>3. LockOf(h, Store!Idle, lock', overtaken') /\ Knows(Store!Idle, overtaken')
      BY <1>0 DEF LockOf, Knows, Seeking, Store!Holding
    <2> QED BY <1>0, <1>2, <2>1, <2>2, <2>3, OneMovesOnly
  <1> QED BY <1>3, <1>4

\* Time, the client and the backup.
LEMMA OtherSteps ==
  ASSUME StoreInv,
         \/ Store!Tick \/ Store!ClientNext
         \/ Store!StartBackup \/ Store!CopyDatabase \/ Store!CopyBlobs \/ Store!AbandonBackup
  PROVE  StoreInv'
  <1>1. CASE Store!Tick
    <2>1. /\ UNCHANGED <<row, lock, handler, blobs, saved, backup, snapshot, broken, hollow, renewed,
                         overtaken, transfer, payload>>
          /\ serviceTime' = serviceTime + 1 /\ serviceTime \in Nat /\ saved \in Nat
      BY <1>1 DEF Store!Tick, Store!disk, Store!archive, Store!history, Store!client, StoreInv, StoreTypes
    <2>2. StoreTypes'
      BY <2>1 DEF StoreInv, StoreTypes
    <2>3. LocksHeld'
      BY <2>1 DEF StoreInv, StoreTypes, HandlerRow, LocksHeld, LockOf
    <2>4. \A b \in Uploads : /\ row[b].expires \in Nat /\ row[b].until \in Nat
                             /\ Store!Unavailable(b, serviceTime) => Store!Unavailable(b, serviceTime')
                             /\ Store!LiveUpload(row, b, serviceTime') => Store!LiveUpload(row, b, serviceTime)
      BY <2>1 DEF StoreInv, StoreTypes, ArtRow, Store!Unavailable, Store!LiveUpload
    <2>5. HoldersKnow'
      <3>1. \A g \in Handlers : handler[g].pc = "remove" => handler[g].of \in Uploads
        BY DEF StoreInv, LocksHeld, LockOf, Store!Holding
      <3>2. HoldersKnow /\ UNCHANGED <<row, blobs, handler, overtaken>>
        BY <2>1 DEF StoreInv
      <3>3. \A b \in Uploads : Store!Unavailable(b, serviceTime) => Store!Unavailable(b, serviceTime)'
        BY <2>4, <3>2 DEF Store!Unavailable
      <3> QED BY <3>1, <3>2, <3>3 DEF HoldersKnow, Knows
    <2>6. Store!LiveHasContent'
      BY <2>1, <2>4 DEF StoreInv, Store!LiveHasContent, Store!LiveUpload
    <2>7. Within(row, saved, renewed)' /\ BackupKnows'
      BY <2>1 DEF StoreInv, BackupKnows, ImageSound, Within, Store!LiveUpload, Store!Used,
           Store!LiveReservation
    <2> QED BY <2>1, <2>2, <2>3, <2>5, <2>6, <2>7 DEF StoreInv, Store!TransferResumable
  <1>2. ASSUME NEW a \in Uploads,
               \/ Store!TakePayload(a) \/ Store!SaveIntent(a)
               \/ Store!SaveCompleted(a) \/ Store!CleanPayload(a)
        PROVE  StoreInv'
    <2>1. UNCHANGED <<row, lock, handler, blobs, serviceTime, saved, backup, snapshot, broken, hollow,
                      renewed, overtaken>>
      BY <1>2 DEF Store!TakePayload, Store!SaveIntent, Store!SaveCompleted, Store!CleanPayload,
         Store!disk, Store!archive, Store!history, Store!clock
    <2>2. transfer' \in [Uploads -> {"none", "saved", "done"}] /\ Store!TransferResumable'
      BY <1>2 DEF Store!TakePayload, Store!SaveIntent, Store!SaveCompleted, Store!CleanPayload,
         StoreInv, StoreTypes, Store!TransferResumable
    <2>3. StoreTypes' /\ LocksHeld' /\ HoldersKnow'
      BY <2>1, <2>2 DEF StoreInv, StoreTypes, LocksHeld, LockOf, HoldersKnow, Knows, Store!Unavailable
    <2>4. Store!LiveHasContent' /\ Within(row, saved, renewed)' /\ BackupKnows'
      BY <2>1 DEF StoreInv, BackupKnows, ImageSound, Within, Store!LiveUpload, Store!Used,
           Store!LiveReservation, Store!LiveHasContent
    <2> QED BY <2>1, <2>2, <2>3, <2>4 DEF StoreInv
  <1>3. ASSUME UNCHANGED <<row, lock, handler, blobs, serviceTime, saved, hollow, renewed, overtaken,
                           transfer, payload>>,
               BackupKnows', ~broken'
        PROVE  StoreInv'
    <2>1. StoreTypes' /\ LocksHeld' /\ HoldersKnow' /\ Store!TransferResumable'
      BY <1>3 DEF StoreInv, StoreTypes, LocksHeld, LockOf, HoldersKnow, Knows, Store!Unavailable,
         Store!TransferResumable
    <2>2. Store!LiveHasContent' /\ Within(row, saved, renewed)'
      BY <1>3 DEF StoreInv, Within, Store!LiveUpload, Store!Used, Store!LiveReservation,
         Store!LiveHasContent
    <2> QED BY <1>3, <2>1, <2>2 DEF StoreInv
  <1>4. CASE Store!StartBackup
    <2>1. BackupKnows'
      BY <1>4 DEF Store!StartBackup, StoreInv, StoreTypes, BackupKnows, ImageSound, Within,
         Store!LiveHasContent, Store!LiveUpload, Store!Used, Store!LiveReservation, Store!disk,
         Store!history, Store!clock
    <2> QED BY <1>3, <1>4, <2>1 DEF Store!StartBackup, StoreInv, Store!disk, Store!history,
               Store!client, Store!clock
  <1>5. CASE Store!CopyDatabase
    <2> DEFINE image == [rows |-> row, saved |-> saved, hollow |-> hollow, renewed |-> renewed]
    <2>1. /\ backup' = [backup EXCEPT !.pc = "imaged", !.image = image]
          /\ backup.pc = "guarded" /\ snapshot' = snapshot /\ blobs' = blobs /\ overtaken' = overtaken
      BY <1>5 DEF Store!CopyDatabase, Store!disk, Store!history
    <2>2. ImageSound(image)
      BY DEF StoreInv, StoreTypes, ImageSound
    <2>3. /\ image.hollow = hollow /\ image.rows = row
      OBVIOUS
    <2> HIDE DEF image
    <2>4. backup'.pc = "imaged" /\ backup'.at = backup.at /\ backup'.image = image
      BY <1>5, <2>1 DEF Store!CopyDatabase, StoreInv, BackupKnows
    <2>5. BackupKnows'
      BY <2>1, <2>2, <2>3, <2>4 DEF StoreInv, BackupKnows
    <2> QED BY <1>3, <1>5, <2>5 DEF Store!CopyDatabase, StoreInv, Store!disk, Store!history,
               Store!client, Store!clock
  <1>6. CASE Store!CopyBlobs
    <2>1. backup.pc = "imaged" /\ backup' = Store!NoBackup /\ blobs' = blobs
      BY <1>6 DEF Store!CopyBlobs, Store!disk
    <2>2. ImageSound(backup.image) /\ backup.at \in Nat
      BY <2>1 DEF StoreInv, BackupKnows
    <2>3. CASE Store!Listed(backup.image, backup.at) \subseteq blobs
      <3>1. /\ broken' = broken
            /\ snapshot' = [image |-> backup.image, at |-> backup.at,
                            files |-> Store!Listed(backup.image, backup.at)]
        BY <1>6, <2>3 DEF Store!CopyBlobs
      <3>2. snapshot'.image = backup.image /\ snapshot'.at = backup.at
        BY <3>1
      <3>3. BackupKnows'
        BY <2>1, <2>2, <3>2 DEF BackupKnows, Store!NoBackup
      <3> QED BY <1>3, <1>6, <3>1, <3>3 DEF Store!CopyBlobs, StoreInv, Store!disk, Store!history,
                 Store!client, Store!clock
    <2>4. CASE ~(Store!Listed(backup.image, backup.at) \subseteq blobs)
      <3>1. /\ broken' = (broken \/ ~(Store!Listed(backup.image, backup.at)
                                       \ (backup.image.hollow \cup overtaken) \subseteq blobs))
            /\ snapshot' = snapshot
        BY <1>6, <2>4 DEF Store!CopyBlobs
      <3>3. Store!Listed(backup.image, backup.at) \ (backup.image.hollow \cup overtaken) \subseteq blobs
        BY <2>1 DEF StoreInv, BackupKnows, Store!Listed
      <3>4. ~broken'
        BY <3>1, <3>3 DEF StoreInv
      <3>5. BackupKnows'
        BY <2>1, <3>1 DEF StoreInv, BackupKnows, Store!NoBackup, ImageSound, Within, Store!Used,
           Store!LiveReservation, Store!LiveUpload
      <3> QED BY <1>3, <1>6, <3>4, <3>5 DEF Store!CopyBlobs, StoreInv, Store!disk, Store!history,
                 Store!client, Store!clock
    <2> QED BY <2>3, <2>4
  <1>7. CASE Store!AbandonBackup
    <2>1. BackupKnows'
      BY <1>7 DEF Store!AbandonBackup, StoreInv, BackupKnows, Store!NoBackup, ImageSound, Within,
         Store!Used, Store!LiveReservation, Store!LiveUpload
    <2> QED BY <1>3, <1>7, <2>1 DEF Store!AbandonBackup, StoreInv, Store!disk, Store!history,
               Store!client, Store!clock
  <1> QED BY <1>1, <1>2, <1>4, <1>5, <1>6, <1>7 DEF Store!ClientNext

\* A restore starts at a time at which what the snapshot left out is not available.
LEMMA RestoreKeeps ==
  ASSUME StoreInv, NEW wall \in 0 .. MaxTime, Store!RestoreBackup(wall)
  PROVE  StoreInv'
  <1> USE StoreAssumption
  <1> DEFINE image == snapshot.image
  <1>1. /\ ImageSound(image) /\ snapshot.at \in Nat /\ backup.pc = "idle"
        /\ snapshot.files = Store!Listed(image, snapshot.at)
        /\ serviceTime' = Store!RestoredTime(wall) /\ saved' = serviceTime'
        /\ row' = [a \in Uploads |->
             IF image.rows[a].state = "reserved"
               THEN [image.rows[a] EXCEPT !.expires = Store!Sooner(@, serviceTime')]
               ELSE image.rows[a]]
        /\ blobs' = snapshot.files
        /\ lock' = [a \in Uploads |-> Nobody]
        /\ handler' = [h \in Handlers |-> Store!Idle]
        /\ hollow' = image.hollow /\ renewed' = image.renewed /\ overtaken' = {}
        /\ UNCHANGED <<backup, snapshot, broken, transfer, payload>>
    BY DEF Store!RestoreBackup, Store!Verified, Store!client, StoreInv, BackupKnows
  <1>2. /\ image.rows \in [Uploads -> ArtRow] /\ image.saved \in Nat
        /\ Within(image.rows, image.saved, image.renewed)
    BY <1>1 DEF ImageSound
  <1> HIDE DEF image
  <1>3. /\ serviceTime' \in Nat /\ serviceTime' >= snapshot.at /\ serviceTime' >= image.saved
    BY <1>1, <1>2 DEF Store!RestoredTime, Store!Later, image
  <1>4. ASSUME NEW a \in Uploads
        PROVE  /\ row'[a] \in ArtRow /\ row'[a].state = image.rows[a].state
               /\ row'[a].until = image.rows[a].until
               /\ row'[a].state = "reserved" => row'[a].expires <= serviceTime'
    <2>1. image.rows[a] \in ArtRow
      BY <1>2
    <2>2. CASE image.rows[a].state = "reserved"
      <3>1. row'[a] = [image.rows[a] EXCEPT !.expires = Store!Sooner(image.rows[a].expires, serviceTime')]
        BY <1>1, <2>2
      <3>2. /\ Store!Sooner(image.rows[a].expires, serviceTime') \in Nat
            /\ Store!Sooner(image.rows[a].expires, serviceTime') <= serviceTime'
        BY <1>3, <2>1 DEF Store!Sooner, ArtRow
      <3> QED BY <2>1, <3>1, <3>2 DEF ArtRow
    <2>3. CASE image.rows[a].state # "reserved"
      BY <1>1, <2>1, <2>3
    <2> QED BY <2>2, <2>3
  <1>0. Store!Idle \in HandlerRow /\ Store!Idle.pc = "idle" /\ Store!Idle.at = 0
    BY DEF Store!Idle, HandlerRow
  <1>5. row' \in [Uploads -> ArtRow]
    <2>1. DOMAIN row' = Uploads /\ row' = [a \in Uploads |-> row'[a]]
      BY <1>1
    <2> QED BY <1>4, <2>1
  <1>6. StoreTypes' /\ LocksHeld' /\ HoldersKnow'
    BY <1>0, <1>1, <1>3, <1>5 DEF StoreInv, StoreTypes, LocksHeld, LockOf, HoldersKnow, Knows, Seeking,
       Store!Holding
  <1>7. \A a \in Uploads : Store!LiveUpload(row', a, serviceTime') =>
          /\ Store!LiveUpload(image.rows, a, snapshot.at)
          /\ Store!LiveUpload(image.rows, a, image.saved)
    BY <1>1, <1>2, <1>3, <1>4 DEF Store!LiveUpload, ArtRow
  <1>8. Store!LiveHasContent'
    BY <1>1, <1>7 DEF Store!LiveHasContent, Store!LiveUpload, Store!Listed, image
  <1>9. Within(row', serviceTime', renewed')
    <2>1. \A a \in Uploads : ~Store!LiveReservation(row', a, serviceTime')
      BY <1>3, <1>4 DEF Store!LiveReservation, ArtRow
    <2>2. Store!Used(row', serviceTime') \ renewed' \subseteq Store!Used(image.rows, image.saved) \ image.renewed
      BY <1>1, <1>7, <2>1 DEF Store!Used
    <2> QED BY <1>2, <2>2, FewerWithin
  <1>10. Within(row, saved, renewed)'
    BY <1>1, <1>9 DEF Within, Store!Used, Store!LiveReservation, Store!LiveUpload
  <1>11. BackupKnows'
    BY <1>1 DEF StoreInv, BackupKnows, ImageSound, Within, Store!Used, Store!LiveReservation,
       Store!LiveUpload
  <1> QED BY <1>1, <1>6, <1>8, <1>10, <1>11 DEF StoreInv, Store!TransferResumable

LEMMA StoreInvStep == StoreInv /\ Store!ArtifactsNext => StoreInv'
  <1> SUFFICES ASSUME StoreInv, Store!ArtifactsNext PROVE StoreInv'
    OBVIOUS
  <1>1. CASE Store!CleanupNext
    <2>1. PICK h \in Handlers :
            \/ Store!StartPass(h) \/ Store!LockListed(h) \/ Store!Recheck(h) \/ Store!RemoveListed(h)
            \/ \E a \in Uploads : Store!SeeOldFile(h, a)
            \/ Store!SweepFile(h) \/ Store!EndSweep(h) \/ Store!EndPass(h)
      BY <1>1 DEF Store!CleanupNext
    <2> QED BY <2>1, HandlerSteps, CleanupSteps
  <1>2. CASE Store!UploadNext
    <2>1. ASSUME NEW h \in Handlers, NEW a \in Uploads, NEW until \in Store!Times,
                 Store!ReserveUpload(h, a, until)
          PROVE  StoreInv'
      BY <2>1, RowSteps
    <2>2. ASSUME NEW h \in Handlers, NEW a \in Uploads, Store!StartUpload(h, a) PROVE StoreInv'
      BY <2>2, HandlerSteps
    <2>3. ASSUME NEW h \in Handlers, Store!Stage(h) PROVE StoreInv'
      BY <2>3, HandlerSteps
    <2>4. ASSUME NEW h \in Handlers, Store!Publish(h) PROVE StoreInv'
      BY <2>4, PublishKeeps
    <2>5. ASSUME NEW h \in Handlers, Store!Finalize(h) PROVE StoreInv'
      BY <2>5, RowSteps DEF Store!Times
    <2> QED BY <1>2, <2>1, <2>2, <2>3, <2>4, <2>5 DEF Store!UploadNext
  <1>3. CASE Store!ChangeNext
    <2>1. ASSUME NEW h \in Handlers, NEW a \in Uploads, NEW op \in {"retention", "delete"},
                 Store!StartChange(h, a, op)
          PROVE  StoreInv'
      BY <2>1, HandlerSteps
    <2>2. ASSUME NEW h \in Handlers, NEW until \in Store!Times, Store!UpdateRetention(h, until)
          PROVE  StoreInv'
      BY <2>2, RowSteps
    <2>3. ASSUME NEW h \in Handlers, Store!DeleteArtifact(h) PROVE StoreInv'
      BY <2>3, RowSteps DEF Store!Times
    <2>4. ASSUME NEW h \in Handlers, Store!CleanDeleted(h) PROVE StoreInv'
      BY <2>4, CleanupSteps
    <2> QED BY <1>3, <2>1, <2>2, <2>3, <2>4 DEF Store!ChangeNext
  <1>4. CASE Store!BackupNext
    BY <1>4, OtherSteps, RestoreKeeps DEF Store!BackupNext
  <1>5. CASE Store!ClientNext \/ Store!Tick
    BY <1>5, OtherSteps
  <1>6. CASE Store!StopNext
    BY <1>6, HandlerSteps, CleanupSteps, CrashKeeps DEF Store!StopNext
  <1>7. CASE Store!LockNext
    BY <1>7, LockSteps DEF Store!LockNext
  <1> QED BY <1>1, <1>2, <1>3, <1>4, <1>5, <1>6, <1>7 DEF Store!ArtifactsNext

\* A listed artifact keeps its content, the quota is held, no backup fails because of
\* cleanup, and an upload can be resumed, through any number of uploads, cleanup passes,
\* crashes, backups and restores (artifacts.rs, backup.rs, artifact_transfer.rs).
THEOREM ArtifactsAreSound == Spec => []ArtifactsSound
  <1>1. Init => StoreInv
    BY StoreInvInit DEF Init
  <1>2. StoreInv /\ [Next]_all => StoreInv'
    <2> SUFFICES ASSUME StoreInv, [Next]_all PROVE StoreInv'
      OBVIOUS
    <2>1. CASE Store!ArtifactsNext
      BY <2>1, StoreInvStep
    <2>2. CASE UNCHANGED artifactVars
      <3>1. StoreTypes' /\ LocksHeld' /\ HoldersKnow'
        BY <2>2 DEF artifactVars, StoreInv, StoreTypes, LocksHeld, LockOf, HoldersKnow, Knows,
           Store!Unavailable
      <3> QED BY <2>2, <3>1, HandlersMove DEF artifactVars
    <2> QED BY <2>1, <2>2 DEF Next, ArtifactsPart, all
  <1>3. StoreInv => ArtifactsSound
    <2> SUFFICES ASSUME StoreInv PROVE ArtifactsSound
      OBVIOUS
    <2>1. Within(row, serviceTime, renewed)
      BY RowsChange
    <2>2. Store!QuotaHeld
      BY <2>1, SameCardinality DEF Within, Store!QuotaHeld
    <2>3. Store!LiveHasContent /\ Store!BackupFindsContent /\ Store!TransferResumable
      BY DEF StoreInv, Store!BackupFindsContent
    <2> QED BY <2>2, <2>3 DEF ArtifactsSound, Store!ArtifactsSound
  <1> QED BY <1>1, <1>2, <1>3, PTL DEF Spec
=============================================================================
