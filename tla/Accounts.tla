------------------------------ MODULE Accounts ------------------------------
(***************************************************************************)
(* Human accounts (crates/server/src/auth.rs, operator_access.rs,           *)
(* account_email.rs, password_reset.rs, passkey.rs).  Passwords are hashed  *)
(* and verified outside the writer lock, so every operation that takes a    *)
(* password is two steps here: what it read before (work), and the          *)
(* transaction that applies it.  Every other operation is one transaction,  *)
(* made under a browser session that is checked again inside it, or under   *)
(* a mailed link or a signed challenge.                                     *)
(*                                                                         *)
(* A hash is a number: two hashes of one password differ by their salt, so  *)
(* SecretOf gives the password each was made of.  Cooldowns and rate        *)
(* limits only refuse, and any request below may be refused.                *)
(***************************************************************************)
EXTENDS Naturals, FiniteSets, Sequences, SequencesExt

CONSTANTS
    Root,          \* the administrator init_admin made
    Others,        \* accounts an administrator may create
    Addresses,     \* email addresses
    Secrets,       \* passwords people type
    MaxHashes,     \* bound: password hashes made
    MaxLinks,      \* bound: mailed links of either kind
    MaxRevision,   \* bound: revisions of an account
    MaxOpened,     \* bound: browser sessions opened
    MaxLive,       \* active sign-ins an account keeps: 10 in auth.rs
    MaxCeremonies, \* bound: passkey challenges made
    Counts,        \* sign counts an authenticator may report, 0 included
    Workers,       \* permits of password_workers
    NoOne          \* no account, no link

VARIABLES
    account,       \* account -> [made, role, enabled, hash, rev, email, verified]
    secretOf,      \* hash -> the password it was made of
    browser,       \* the sessions opened, oldest first: [who, hash, by, live]
    links,         \* the links mailed, oldest first: [kind, who, email, state]
    challenges,    \* passkey ceremonies begun: [purpose, who, open]
    passkey,       \* account -> [held, count]: its passkey
    work,          \* requests whose password is being hashed or verified
    receipt,       \* what the creation key made: [who, hash], or NoOne
    answered       \* history: the passwords of creation requests that succeeded

accountVars == <<account, secretOf, browser, links, challenges, passkey, work,
                 receipt, answered>>

People == Others \cup {Root}

Roles == {"admin", "operator"}

Hashes == DOMAIN secretOf

Blank == [made |-> FALSE, role |-> "operator", enabled |-> FALSE, hash |-> 0,
          rev |-> 0, email |-> NoOne, verified |-> FALSE]

\* init_admin: an empty installation gets one administrator.
AccountsInit ==
    /\ account = [a \in People |->
         IF a = Root THEN [Blank EXCEPT !.made = TRUE, !.role = "admin",
                             !.enabled = TRUE, !.hash = 1, !.rev = 1]
         ELSE Blank]
    /\ \E s \in Secrets : secretOf = <<s>>
    /\ browser = <<>> /\ links = <<>> /\ challenges = <<>>
    /\ passkey = [a \in People |-> [held |-> FALSE, count |-> 0]]
    /\ work = {} /\ receipt = NoOne /\ answered = {}

\* Auth::verify for a browser: a live session of an enabled human.
Authentic(i) == browser[i].live /\ account[browser[i].who].enabled

Actor(i) == browser[i].who

IsAdmin(i) == Authentic(i) /\ account[Actor(i)].role = "admin"

Sessions == DOMAIN browser

\* Hashing a password off-thread: a fresh salt, a fresh hash.
Hash(s) ==
    /\ Len(secretOf) < MaxHashes
    /\ secretOf' = Append(secretOf, s)

FreshHash == Len(secretOf) + 1

SignedOut(a) ==
    [i \in Sessions |->
        IF browser[i].who = a THEN [browser[i] EXCEPT !.live = FALSE] ELSE browser[i]]

(***************************************************************************)
(* Signing in and out                                                      *)
(***************************************************************************)

LiveOf(a) == {i \in Sessions : browser[i].who = a /\ browser[i].live}

\* The sign-ins an account keeps beside a new one: the newest of them.
Kept(a) == {i \in LiveOf(a) : Cardinality({j \in LiveOf(a) : j > i}) < MaxLive - 1}

\* issue_browser_session, under the hash or the challenge that was verified.
IssueSession(a, h, by) ==
    /\ Len(browser) < MaxOpened
    /\ browser' = Append(
         [i \in Sessions |-> IF i \in LiveOf(a) \ Kept(a)
             THEN [browser[i] EXCEPT !.live = FALSE] ELSE browser[i]],
         [who |-> a, hash |-> h, by |-> by, live |-> TRUE])

\* A request goes on outside the lock while a worker is free.
Off(w) == Cardinality(work) < Workers /\ work' = work \cup {w}

\* login reads the account and verifies the password outside the lock.
BeginLogin(a) ==
    /\ account[a].made /\ account[a].enabled
    /\ Off([op |-> "login", who |-> a, hash |-> account[a].hash])
    /\ UNCHANGED <<account, secretOf, browser, links, challenges, passkey, receipt,
                   answered>>

\* Mutated form of StillTheAccount: only the account's state is read again.
StillTheAccountAny(a, h) == account[a].enabled

\* login reads the account again under the writer lock.
StillTheAccount(a, h) == account[a].enabled /\ account[a].hash = h

FinishLogin(w) ==
    /\ w.op = "login"
    /\ work' = work \ {w}
    /\ IF StillTheAccount(w.who, w.hash)
         THEN IssueSession(w.who, w.hash, 0) ELSE UNCHANGED browser
    /\ UNCHANGED <<account, secretOf, links, challenges, passkey, receipt, answered>>

\* logout and revoke_browser_session: one's own session, or as an administrator
\* anyone's.
RevokeSession(i, j) ==
    /\ Authentic(i) /\ (Actor(j) = Actor(i) \/ IsAdmin(i))
    /\ browser' = [browser EXCEPT ![j].live = FALSE]
    /\ UNCHANGED <<account, secretOf, links, challenges, passkey, work, receipt, answered>>

\* Twelve hours pass.
SessionExpires(i) ==
    /\ browser[i].live
    /\ browser' = [browser EXCEPT ![i].live = FALSE]
    /\ UNCHANGED <<account, secretOf, links, challenges, passkey, work, receipt, answered>>

(***************************************************************************)
(* Accounts and their passwords                                            *)
(***************************************************************************)

\* An account's revision goes up with every change of it.
Revised(a) == account[a].rev + 1

Revisable(a) == account[a].rev < MaxRevision

\* issue_verification, and what request_reset records: the accounts' unused
\* links of the kind stop working, and each gets a new one.
Mail(kind, as, e) ==
    /\ Len(links) + Cardinality(as) <= MaxLinks
    /\ links' = [l \in DOMAIN links |->
             IF links[l].who \in as /\ links[l].kind = kind /\ links[l].state = "usable"
               THEN [links[l] EXCEPT !.state = "void"] ELSE links[l]]
         \o SetToSeq({[kind |-> kind, who |-> a, email |-> e, state |-> "usable"] : a \in as})

\* created_operator_retry: the request is compared with the account its key made.
Retried(s) == [hash |-> account[receipt.who].hash,
               matches |-> secretOf[account[receipt.who].hash] = s]

\* create_operator hashes the password, or verifies it when its key has made an
\* account already.
BeginCreate(i, a, s) ==
    /\ IsAdmin(i) /\ a \in Others
    /\ IF receipt = NoOne
         THEN /\ Hash(s)
              /\ Off([op |-> "create", who |-> a, via |-> i, secret |-> s, seen |-> FALSE,
                      hash |-> FreshHash, matches |-> TRUE])
         ELSE /\ UNCHANGED secretOf
              /\ Off([op |-> "create", who |-> a, via |-> i, secret |-> s, seen |-> TRUE,
                      hash |-> Retried(s).hash, matches |-> Retried(s).matches])
    /\ UNCHANGED <<account, browser, links, challenges, passkey, receipt, answered>>

\* The first of the requests to commit makes the account and mails its link.
CreateOperator(w, role, e) ==
    /\ w.op = "create" /\ IsAdmin(w.via) /\ receipt = NoOne
    /\ ~account[w.who].made
    /\ work' = work \ {w}
    /\ account' = [account EXCEPT ![w.who] = [made |-> TRUE, role |-> role,
         enabled |-> TRUE, hash |-> w.hash, rev |-> 1, email |-> e, verified |-> FALSE]]
    /\ receipt' = [who |-> w.who, hash |-> w.hash]
    /\ answered' = answered \cup {w.secret}
    /\ Mail("verify", {w.who}, e)
    /\ UNCHANGED <<secretOf, browser, challenges, passkey>>

\* An identical request committed while this one was hashing with its own salt:
\* it is compared with the account now.
CreateRaced(w) ==
    /\ w.op = "create" /\ IsAdmin(w.via) /\ receipt # NoOne /\ ~w.seen
    /\ work' = (work \ {w}) \cup
         (IF Retried(w.secret).matches
            THEN {[w EXCEPT !.seen = TRUE, !.hash = Retried(w.secret).hash]} ELSE {})
    /\ UNCHANGED <<account, secretOf, browser, links, challenges, passkey, receipt,
                   answered>>

\* Mutated form of Replayable: the re-entered password is not compared.
ReplayableAny(w) == w.hash = receipt.hash /\ w.hash = account[receipt.who].hash

\* A retry is answered when its password is the account's, now as at creation.
Replayable(w) ==
    /\ w.hash = receipt.hash /\ w.matches
    /\ w.hash = account[receipt.who].hash

CreateReplayed(w) ==
    /\ w.op = "create" /\ receipt # NoOne /\ w.seen
    /\ work' = work \ {w}
    /\ answered' = answered \cup
         IF IsAdmin(w.via) /\ Replayable(w) THEN {w.secret} ELSE {}
    /\ UNCHANGED <<account, secretOf, browser, links, challenges, passkey, receipt>>

\* A request whose administrator was signed out, or whose name is taken.
CreateRefused(w) ==
    /\ w.op = "create"
    /\ ~IsAdmin(w.via) \/ (receipt = NoOne /\ account[w.who].made)
    /\ work' = work \ {w}
    /\ UNCHANGED <<account, secretOf, browser, links, challenges, passkey, receipt,
                   answered>>

Admins == {a \in People : account[a].enabled /\ account[a].role = "admin"}

\* Mutated form of LastAdmin: administrators that are disabled count too.
LastAdminOfAll(a) ==
    a \in Admins /\ Cardinality({b \in People : account[b].role = "admin"}) <= 1

LastAdmin(a) == a \in Admins /\ Cardinality(Admins) <= 1

\* update_operator_access, at the revision the administrator saw: the last
\* active administrator keeps its access, and a change signs the account out.
UpdateAccess(i, a, role, enabled) ==
    /\ IsAdmin(i) /\ account[a].made
    /\ ~(LastAdmin(a) /\ (role # "admin" \/ ~enabled))
    /\ account[a].role # role \/ account[a].enabled # enabled
    /\ Revisable(a)
    /\ account' = [account EXCEPT ![a].role = role, ![a].enabled = enabled,
                                  ![a].rev = Revised(a)]
    /\ browser' = SignedOut(a)
    /\ UNCHANGED <<secretOf, links, challenges, passkey, work, receipt, answered>>

\* change_password verifies the old password and hashes the new one.
BeginChange(i, s) ==
    /\ Authentic(i) /\ secretOf[account[Actor(i)].hash] # s
    /\ Hash(s)
    /\ Off([op |-> "change", who |-> Actor(i), via |-> i, old |-> account[Actor(i)].hash,
            hash |-> FreshHash, rev |-> account[Actor(i)].rev])
    /\ UNCHANGED <<account, browser, links, challenges, passkey, receipt, answered>>

\* A new password signs the account out everywhere.
SetPassword(a, h) ==
    /\ Revisable(a)
    /\ account' = [account EXCEPT ![a].hash = h, ![a].rev = Revised(a)]
    /\ browser' = SignedOut(a)

FinishChange(w) ==
    /\ w.op = "change"
    /\ work' = work \ {w}
    /\ IF /\ Authentic(w.via) /\ account[w.who].rev = w.rev
          /\ account[w.who].hash = w.old
         THEN SetPassword(w.who, w.hash) ELSE UNCHANGED <<account, browser>>
    /\ UNCHANGED <<secretOf, links, challenges, passkey, receipt, answered>>

\* recover_operator_password, on the host: the account is enabled again.
RecoverPassword(a, s) ==
    /\ account[a].made /\ Revisable(a)
    /\ Hash(s)
    /\ account' = [account EXCEPT ![a].hash = FreshHash, ![a].enabled = TRUE,
                                  ![a].rev = Revised(a)]
    /\ browser' = SignedOut(a)
    /\ UNCHANGED <<links, challenges, passkey, work, receipt, answered>>

(***************************************************************************)
(* Mailed links                                                            *)
(***************************************************************************)

\* set_email: another address, which is unverified.
SetEmail(i, e) ==
    /\ Authentic(i) /\ account[Actor(i)].email # e /\ Revisable(Actor(i))
    /\ account' = [account EXCEPT ![Actor(i)].email = e, ![Actor(i)].verified = FALSE,
                                  ![Actor(i)].rev = Revised(Actor(i))]
    /\ Mail("verify", {Actor(i)}, e)
    /\ UNCHANGED <<secretOf, browser, challenges, passkey, work, receipt, answered>>

ResendVerification(i) ==
    LET a == account[Actor(i)]
    IN /\ Authentic(i) /\ a.email # NoOne /\ ~a.verified
       /\ Mail("verify", {Actor(i)}, a.email)
       /\ UNCHANGED <<account, secretOf, browser, challenges, passkey, work, receipt,
                      answered>>

\* A link that is unused, current and unexpired, of an enabled account.
Usable(l, kind) ==
    /\ links[l].kind = kind /\ links[l].state = "usable"
    /\ account[links[l].who].enabled

\* Mutated form of UsableVerification: the account's address is not compared,
\* nor whether a newer link replaced this one.
UsableVerificationAny(l) ==
    /\ links[l].kind = "verify" /\ links[l].state # "used"
    /\ account[links[l].who].enabled /\ ~account[links[l].who].verified

\* usable_verification: it still names the account's unverified address.
UsableVerification(l) ==
    /\ Usable(l, "verify")
    /\ account[links[l].who].email = links[l].email /\ ~account[links[l].who].verified

\* The link is used, and the account's others of its kind stop working.
Spent(l) ==
    [k \in DOMAIN links |->
        IF k = l THEN [links[k] EXCEPT !.state = "used"]
        ELSE IF /\ links[k].who = links[l].who /\ links[k].kind = links[l].kind
                /\ links[k].state = "usable"
               THEN [links[k] EXCEPT !.state = "void"] ELSE links[k]]

ConsumeVerification(l) ==
    /\ UsableVerification(l) /\ Revisable(links[l].who)
    /\ links' = Spent(l)
    /\ account' = [account EXCEPT ![links[l].who].verified = TRUE,
                                  ![links[l].who].rev = Revised(links[l].who)]
    /\ UNCHANGED <<secretOf, browser, challenges, passkey, work, receipt, answered>>

\* request_reset: a link for each enabled account whose verified address this
\* is, but for those that got one within the last minute.
RequestReset(e, as) ==
    /\ as # {}
    /\ \A a \in as : account[a].enabled /\ account[a].verified /\ account[a].email = e
    /\ Mail("reset", as, e)
    /\ UNCHANGED <<account, secretOf, browser, challenges, passkey, work, receipt,
                   answered>>

UsableReset(l) ==
    /\ Usable(l, "reset")
    /\ account[links[l].who].email = links[l].email /\ account[links[l].who].verified

\* reset_password looks the link up, hashes, and looks it up again under the lock.
BeginReset(l, s) ==
    /\ UsableReset(l)
    /\ Hash(s)
    /\ Off([op |-> "reset", link |-> l, hash |-> FreshHash])
    /\ UNCHANGED <<account, browser, links, challenges, passkey, receipt, answered>>

FinishReset(w) ==
    /\ w.op = "reset"
    /\ work' = work \ {w}
    /\ IF UsableReset(w.link)
         THEN links' = Spent(w.link) /\ SetPassword(links[w.link].who, w.hash)
         ELSE UNCHANGED <<account, browser, links>>
    /\ UNCHANGED <<secretOf, challenges, passkey, receipt, answered>>

LinkExpires(l) ==
    /\ links[l].state = "usable"
    /\ links' = [links EXCEPT ![l].state = "void"]
    /\ UNCHANGED <<account, secretOf, browser, challenges, passkey, work, receipt,
                   answered>>

(***************************************************************************)
(* Passkeys                                                                *)
(***************************************************************************)

\* registration_options and sign_in_options.
BeginCeremony(purpose, a) ==
    /\ Len(challenges) < MaxCeremonies
    /\ challenges' = Append(challenges, [purpose |-> purpose, who |-> a, open |-> TRUE])
    /\ UNCHANGED <<account, secretOf, browser, links, passkey, work, receipt, answered>>

RegistrationOptions(i) ==
    /\ Authentic(i) /\ ~passkey[Actor(i)].held
    /\ BeginCeremony("register", Actor(i))

SignInOptions == BeginCeremony("sign_in", NoOne)

\* take_challenge: removed by the first request that names it.
TakeChallenge(c, purpose) ==
    /\ challenges[c].purpose = purpose /\ challenges[c].open
    /\ challenges' = [challenges EXCEPT ![c].open = FALSE]

\* register_passkey, by the account that asked for the challenge.
RegisterPasskey(i, c, n) ==
    /\ Authentic(i) /\ ~passkey[Actor(i)].held
    /\ challenges[c].who = Actor(i)
    /\ TakeChallenge(c, "register")
    /\ passkey' = [passkey EXCEPT ![Actor(i)] = [held |-> TRUE, count |-> n]]
    /\ UNCHANGED <<account, secretOf, browser, links, work, receipt, answered>>

\* verify_assertion: an enabled account's passkey, whose counter moves forward
\* unless it never counts.
Asserted(a, n) ==
    /\ passkey[a].held /\ account[a].enabled
    /\ (passkey[a].count = 0 /\ n = 0) \/ n > passkey[a].count

\* sign_in: a challenge allows one attempt, successful or not.
PasskeySignIn(c, a, n) ==
    /\ TakeChallenge(c, "sign_in")
    /\ IF Asserted(a, n)
         THEN /\ passkey' = [passkey EXCEPT ![a].count = n]
              /\ IssueSession(a, account[a].hash, c)
         ELSE UNCHANGED <<passkey, browser>>
    /\ UNCHANGED <<account, secretOf, links, work, receipt, answered>>

DeletePasskey(i) ==
    /\ Authentic(i) /\ passkey[Actor(i)].held
    /\ passkey' = [passkey EXCEPT ![Actor(i)] = [held |-> FALSE, count |-> 0]]
    /\ UNCHANGED <<account, secretOf, browser, links, challenges, work, receipt, answered>>

SignInNext ==
    \/ \E a \in People : BeginLogin(a)
    \/ \E w \in work : FinishLogin(w) \/ FinishChange(w)
    \/ \E i, j \in Sessions : RevokeSession(i, j)
    \/ \E i \in Sessions : SessionExpires(i) \/ \E s \in Secrets : BeginChange(i, s)
    \/ \E a \in People, s \in Secrets : RecoverPassword(a, s)

AdministrationNext ==
    \/ \E i \in Sessions :
         \/ \E a \in Others, s \in Secrets : BeginCreate(i, a, s)
         \/ \E a \in People, role \in Roles, enabled \in BOOLEAN :
              UpdateAccess(i, a, role, enabled)
    \/ \E w \in work :
         \/ CreateRaced(w) \/ CreateReplayed(w) \/ CreateRefused(w)
         \/ \E role \in Roles, e \in Addresses : CreateOperator(w, role, e)

MailNext ==
    \/ \E i \in Sessions : ResendVerification(i) \/ \E e \in Addresses : SetEmail(i, e)
    \/ \E l \in DOMAIN links :
         \/ ConsumeVerification(l) \/ LinkExpires(l)
         \/ \E s \in Secrets : BeginReset(l, s)
    \/ \E e \in Addresses, as \in SUBSET People : RequestReset(e, as)
    \/ \E w \in work : FinishReset(w)

PasskeyNext ==
    \/ \E i \in Sessions :
         \/ RegistrationOptions(i) \/ DeletePasskey(i)
         \/ \E c \in DOMAIN challenges, n \in Counts : RegisterPasskey(i, c, n)
    \/ SignInOptions
    \/ \E c \in DOMAIN challenges, a \in People, n \in Counts : PasskeySignIn(c, a, n)

AccountsNext == SignInNext \/ AdministrationNext \/ MailNext \/ PasskeyNext

(***************************************************************************)
(* Properties                                                              *)
(***************************************************************************)

\* A session that works rests on the account's present password and on an
\* account that is enabled, though passwords are verified outside the lock and
\* accounts change meanwhile; a challenge opens one session; and an account
\* keeps a bounded number of sign-ins (auth.rs login, passkey.rs sign_in).
SessionsAreCurrent ==
    /\ \A i \in Sessions : browser[i].live =>
          /\ account[browser[i].who].enabled
          /\ browser[i].hash = account[browser[i].who].hash
    /\ \A i, j \in Sessions : browser[i].by = browser[j].by /\ i # j => browser[i].by = 0
    /\ \A a \in People : Cardinality(LiveOf(a)) <= MaxLive

\* An installation always has an administrator that can sign in, and a creation
\* request is answered with success only if it named the password the account
\* was created with, however its retries race (operator_access.rs).
AdministrationSafe ==
    /\ Admins # {}
    /\ Cardinality(answered) <= 1

\* At most one link of a kind works for an account, and a verified address is
\* the one the account's newest verification link was sent to and used from
\* (account_email.rs, password_reset.rs).
LinksAreCurrent ==
    \A a \in People :
        /\ \A kind \in {"verify", "reset"} :
              Cardinality({l \in DOMAIN links : /\ links[l].who = a
                    /\ links[l].kind = kind /\ links[l].state = "usable"}) <= 1
        /\ account[a].verified =>
              LET sent == {l \in DOMAIN links : links[l].who = a /\ links[l].kind = "verify"}
              IN \E l \in sent : /\ \A k \in sent : k <= l
                                 /\ links[l].state = "used"
                                 /\ links[l].email = account[a].email
=============================================================================
