------------------------------ MODULE MCService ------------------------------
(***************************************************************************)
(* The parts of the service beside the task protocol: accounts, agent        *)
(* credentials, artifacts with their backups, the plan of a project, and the  *)
(* integrator's attribution of failed checks.  They share no state that the   *)
(* properties read; a behaviour exercises one of them (part), some in the     *)
(* scenarios that keep their inputs small, so that the state spaces add up     *)
(* instead of multiplying.                                                     *)
(***************************************************************************)
EXTENDS Naturals, FiniteSets, Sequences

CONSTANTS
    Root, Others, Addresses, Secrets, FirstSecret, MaxHashes, MaxLinks, MaxRevision,
    MaxOpened, MaxLive, MaxCeremonies, Counts, Workers, NoOne,
    Principals, MaxCredentials, SessionIds, Names, FirstName, NoName,
    Uploads, FirstUpload, Handlers, FirstHandler, Quota, MaxTime,
    ReservationLife, RetentionLife, MaxRestores, Nobody,
    Checks, FirstCheck, Causes, MaxReruns, MaxCrashes, MaxBreaks,
    Tasks, Identities, Previews, Budget, RuleEditing, MaxWeek, MaxTaskRevision, MaxNamed, Nil

VARIABLES
    part,
    account, secretOf, browser, links, challenges, passkey, work, receipt, answered,
    credential, issued, session, identity,
    row, blobs, parts, lock, handler, serviceTime, saved, backup, snapshot, broken, hollow,
    renewed, overtaken, transfer, payload, restores,
    cause, outside, runs, memory, cycle, decision, blamed, crashes,
    week, rows, needs, members, records, previews, hold, writer

People == INSTANCE Accounts
Agents == INSTANCE Credentials
Store == INSTANCE Artifacts
Blame == INSTANCE Attribution
Plan == INSTANCE Planning WITH MaxRevision <- MaxTaskRevision, MaxLinks <- MaxNamed

\* No credential, parent or identity is none of those there are.
ASSUME NoNameAssumption ==
    /\ MaxCredentials \in Nat
    /\ NoName \notin Principals /\ NoName \notin SessionIds
    /\ "none" \notin Names \cup {NoName}
    /\ NoName \notin [cred : Nat, parent : SessionIds \cup {NoName},
                      identity : Names \cup {NoName}, open : BOOLEAN]

ASSUME AttributionAssumption ==
    Causes \subseteq Blame!AllCauses /\ MaxReruns \in Nat /\ "none" \notin Checks

\* There are finitely many artifacts, and no holder of a lock is none.
ASSUME StoreAssumption ==
    /\ IsFiniteSet(Uploads) /\ Quota \in Nat /\ MaxTime \in Nat
    /\ ReservationLife \in Nat /\ RetentionLife \subseteq Nat
    /\ Nobody \notin Handlers /\ "left" \notin Handlers /\ Nobody # "left"

\* There are finitely many accounts, each keeps at least one sign-in, and no receipt
\* of the creation key is none.
ASSUME AccountsAssumption ==
    /\ IsFiniteSet(Others) /\ MaxLive \in Nat \ {0}
    /\ NoOne \notin [who : Others \cup {Root}, hash : Nat]

\* There are finitely many tasks, the weekly budget is a number, and no row of a task
\* is none.
ASSUME PlanningAssumption ==
    /\ IsFiniteSet(Tasks) /\ Budget \in Nat
    /\ MaxWeek \in Nat \ {0} /\ MaxTaskRevision \in Nat \ {0} /\ MaxNamed \in Nat
    /\ Nil \notin Plan!Row

accountVars == <<account, secretOf, browser, links, challenges, passkey, work,
                 receipt, answered>>
credentialVars == <<credential, issued, session, identity>>
artifactVars == <<row, blobs, parts, lock, handler, serviceTime, saved, backup, snapshot,
                  broken, hollow, renewed, overtaken, transfer, payload, restores>>
attributionVars == <<cause, outside, runs, memory, cycle, decision, blamed, crashes>>
planningVars == <<week, rows, needs, members, records, previews, hold, writer>>
all == <<part, accountVars, credentialVars, artifactVars, attributionVars, planningVars>>

Parts == {"administration", "mail", "passkeys", "credentials", "races", "quota",
          "backup", "transfers", "attribution", "budget", "objectives", "imports"}

\* The failures a part that does not run starts with.
Quiet == [c \in Checks |-> "nothing"]

Init ==
    /\ part \in Parts
    /\ People!AccountsInit /\ Agents!CredentialsInit /\ Store!ArtifactsInit
    /\ Blame!AttributionInit /\ Plan!PlanningInit
    /\ secretOf[1] = FirstSecret
    /\ part # "attribution" => cause = Quiet
    /\ \A c \in Checks \ {FirstCheck} : cause[c] \in {"nothing", "candidate", "outside"}

\* Fresh identities are taken in order.
InOrder(made) == \A n \in made : n > 1 => n - 1 \in made

AccountsPart ==
    \/ part \in {"administration", "mail", "passkeys"} /\ People!SignInNext
    \/ part = "administration" /\ People!AdministrationNext
    \/ part = "mail" /\ People!MailNext
    \/ part = "passkeys" /\ People!PasskeyNext

Named(n) == \E p \in Principals : identity'[p][n] # "none"

CredentialsPart ==
    /\ part = "credentials"
    /\ Agents!CredentialsNext
    /\ InOrder({s \in SessionIds : session'[s] # NoName})
    /\ InOrder({p \in Principals : \E c \in 1..MaxCredentials : credential'[c].who = p})
    /\ \A n \in Names : Named(n) => Named(FirstName)

\* Races of two handlers over one artifact, after dead holders too; the quota over two
\* artifacts; backups and restores around one, whose client has reserved it by then and
\* whose uploads leave no part behind; and a client that ends its transfer.
ArtifactsPart ==
    /\ part \in {"races", "quota", "backup", "transfers"}
    /\ Store!ArtifactsNext
    /\ part # "quota" => \A a \in Uploads \ {FirstUpload} : row'[a] = Store!Absent
    /\ \A a \in Uploads \ {FirstUpload} : a \notin payload'
    /\ part # "races" => /\ \A h \in Handlers \ {FirstHandler} : handler'[h] = Store!Idle
                         /\ \A a \in Uploads : lock'[a] # "left"
                         /\ handler'[FirstHandler].pc # "sweeping"
    /\ part \in {"quota", "transfers"} => overtaken' = {}
    /\ part # "transfers" => \A a \in Uploads : transfer'[a] # "done"
    /\ part = "backup" /\ transfer[FirstUpload] = "none" => UNCHANGED <<serviceTime, saved, backup>>
    /\ part # "backup" => backup' = Store!NoBackup
    /\ part = "races" => row'[FirstUpload].until # Store!Forever /\ serviceTime' < MaxTime
    /\ part = "backup" /\ handler'[FirstHandler] = Store!Idle => parts' = {}

\* Every job of the other checks ends with a conclusion.
AttributionPart ==
    /\ part = "attribution"
    /\ Blame!AttributionNext
    /\ \A k \in {"R", "X"} : \A i \in DOMAIN runs'[k], c \in Checks \ {FirstCheck} :
         runs'[k][i][c].out # "none"

RevisionsTo(n) == \A t \in Tasks : rows'[t] # Nil => rows'[t].revision <= n

Humans == {"human"}
Everyone == {"human", "agent"}

\* Agents and humans create, edit and end single tasks over two weeks; objectives
\* and prerequisites among open tasks; imports around one objective.
PlanningPart ==
    /\ \/ /\ part = "budget"
          /\ \/ Plan!NextWeek
             \/ Plan!CreateNext(Everyone, Plan!Classes, 0)
             \/ Plan!EditNext(Everyone, 0)
          /\ RevisionsTo(2)
          /\ \A t \in Tasks : rows'[t] # Nil => ~rows'[t].objective
       \/ /\ part = "objectives"
          /\ \/ Plan!CreateNext(Humans, {"none"}, MaxNamed)
             \/ Plan!EditNext(Humans, MaxNamed)
             \/ Plan!WorkNext
          /\ RevisionsTo(2)
          /\ \A t \in Tasks : rows'[t] # Nil =>
               rows'[t].life \in {"open", "done"} /\ rows'[t].work # "released"
       \/ /\ part = "imports"
          /\ \/ \E t \in Tasks : Plan!CreateObjective(t, "human", FALSE, {})
             \/ Plan!EditNext(Humans, 0)
             \/ Plan!WorkNext \/ Plan!ImportNext
          /\ \A t \in Tasks : t > 2 => rows'[t] = Nil
          /\ \A r \in members' : r.required
          /\ Cardinality({t \in Tasks : rows'[t] # Nil /\ rows'[t].objective}) <= 1
    /\ InOrder({t \in Tasks : rows'[t] # Nil})
    /\ InOrder({p \in Previews : previews'[p] # Nil})

Next ==
    \/ /\ AccountsPart
       /\ UNCHANGED <<part, credentialVars, artifactVars, attributionVars, planningVars>>
    \/ /\ CredentialsPart
       /\ UNCHANGED <<part, accountVars, artifactVars, attributionVars, planningVars>>
    \/ /\ ArtifactsPart
       /\ UNCHANGED <<part, accountVars, credentialVars, attributionVars, planningVars>>
    \/ /\ AttributionPart
       /\ UNCHANGED <<part, accountVars, credentialVars, artifactVars, planningVars>>
    \/ /\ PlanningPart
       /\ UNCHANGED <<part, accountVars, credentialVars, artifactVars, attributionVars>>

Spec == Init /\ [][Next]_all

\* A working browser session rests on the account's present password; there is always
\* an administrator, and a creation key answers for one password; one working link of a
\* kind, and a verified address that was proved (auth.rs, passkey.rs,
\* operator_access.rs, account_email.rs, password_reset.rs).
AccountsSound ==
    People!SessionsAreCurrent /\ People!AdministrationSafe /\ People!LinksAreCurrent

\* An open agent session has a live credential, and access was chosen
\* (auth.rs, operator_access.rs).
CredentialsSound == Agents!CredentialsSound

\* A listed artifact has its content, within the quota, through cleanups,
\* backups and restores (artifacts.rs, backup.rs).
ArtifactsSound == Store!ArtifactsSound

\* An author is sent back only for a failure of the candidate (attribution.rs).
AttributionSound == Blame!AttributionSound

\* The budget, the plan's graph, frozen objectives and imports (admission.rs,
\* objectives.rs, imports.rs).
PlanningSound == Plan!PlanningSound
=============================================================================
