---------------------------- MODULE Credentials ----------------------------
(***************************************************************************)
(* Agent credentials, agent sessions and subagent identities                *)
(* (crates/server/src/auth.rs, operator_access.rs, credential_attributes.rs)*)
(* A principal holds several credentials over time: they are issued,        *)
(* rotated, revoked and deleted by an administrator.  A session is          *)
(* registered under one credential, by name and proof, and a subagent       *)
(* session names a parent session.  Requests are retried; the administrator *)
(* learns a token only from the first reply.                                *)
(***************************************************************************)
EXTENDS Naturals, FiniteSets

CONSTANTS
    Principals,    \* agent principals
    MaxCredentials,\* bound: credentials issued
    SessionIds,    \* the session identities agents use
    Names,         \* the subagent names agents use
    NoName         \* no credential, no parent, no identity

VARIABLES
    credential,    \* credential -> [who, state, access, asked], in issue order
    issued,        \* credentials issued so far
    session,       \* session identity -> [cred, parent, identity, open], or NoName
    identity       \* principal and name -> the parent's name, or "none"

credentialVars == <<credential, issued, session, identity>>

Credentials == 1..MaxCredentials

Access == {"read", "write"}

Unissued == [who |-> NoName, state |-> "none", access |-> "read", asked |-> FALSE]

CredentialsInit ==
    /\ credential = [c \in Credentials |-> Unissued]
    /\ issued = 0
    /\ session = [s \in SessionIds |-> NoName]
    /\ identity = [p \in Principals |-> [n \in Names |-> "none"]]

Live(c) == credential[c].state = "live"

Of(p) == {c \in Credentials : credential[c].who = p}

\* A credential of a principal; asked says that its access was chosen explicitly.
Issue(p, access, asked, others) ==
    /\ issued < MaxCredentials
    /\ issued' = issued + 1
    /\ credential' = [others EXCEPT ![issued + 1] =
         [who |-> p, state |-> "live", access |-> access, asked |-> asked]]

\* create_agent: a principal with its initial credential.
CreateAgent(p, access) ==
    /\ Of(p) = {}
    /\ Issue(p, access, TRUE, credential)
    /\ UNCHANGED <<session, identity>>

\* The credential a new one inherits from: the most recent, revoked or not.
Newest(p) == CHOOSE c \in Of(p) : \A d \in Of(p) : c >= d

\* issue_existing_agent_credential: explicit access, or inherited_attributes.
IssueExisting(p, access) ==
    /\ Of(p) # {}
    /\ IF access = NoName
         THEN Issue(p, credential[Newest(p)].access, FALSE, credential)
         ELSE Issue(p, access, TRUE, credential)
    /\ UNCHANGED <<session, identity>>

Closed(c) ==
    [s \in SessionIds |-> IF session[s] # NoName /\ session[s].cred = c
        THEN [session[s] EXCEPT !.open = FALSE] ELSE session[s]]

\* rotate_agent_credential: the replacement keeps the class and access; the old
\* one is revoked, and its sessions closed, unless the administrator keeps it.
Rotate(c, revokeOld) ==
    /\ Live(c)
    /\ Issue(credential[c].who, credential[c].access, FALSE,
             IF revokeOld THEN [credential EXCEPT ![c].state = "revoked"] ELSE credential)
    /\ session' = IF revokeOld THEN Closed(c) ELSE session
    /\ UNCHANGED identity

\* Mutated form of RevokeCredential: the sessions of the credential stay open.
RevokeCredentialOnly(c) ==
    /\ Live(c)
    /\ credential' = [credential EXCEPT ![c].state = "revoked"]
    /\ UNCHANGED <<issued, session, identity>>

\* revoke_credential.
RevokeCredential(c) ==
    /\ Live(c)
    /\ credential' = [credential EXCEPT ![c].state = "revoked"]
    /\ session' = Closed(c)
    /\ UNCHANGED <<issued, identity>>

\* delete_credential: a revoked one is listed no more.
DeleteCredential(c) ==
    /\ credential[c].state = "revoked"
    /\ credential' = [credential EXCEPT ![c].state = "deleted"]
    /\ UNCHANGED <<issued, session, identity>>

\* The subagent name a session speaks for, or NoName.
Speaks(s) == session[s].identity

\* resolve_subagent: a name keeps its parent identity; a new one needs a session
\* that is new, and a parent session and credential that are active.
Resolvable(s, c, name, parent) ==
    LET p == credential[c].who
    IN /\ parent # s
       /\ session[parent] # NoName /\ credential[session[parent].cred].who = p
       /\ IF identity[p][name] # "none" THEN identity[p][name] = Speaks(parent)
          ELSE /\ session[s] = NoName
               /\ session[parent].open /\ Live(session[parent].cred)

\* create_session for a new identity, with or without a subagent.
CreateSession(s, c) ==
    /\ Live(c) /\ session[s] = NoName
    /\ session' = [session EXCEPT ![s] =
         [cred |-> c, parent |-> NoName, identity |-> NoName, open |-> TRUE]]
    /\ UNCHANGED <<credential, issued, identity>>

CreateSubagent(s, c, name, parent) ==
    /\ Live(c) /\ session[s] = NoName
    /\ credential[c].access = "write"
    /\ Resolvable(s, c, name, parent)
    /\ session' = [session EXCEPT ![s] =
         [cred |-> c, parent |-> parent, identity |-> name, open |-> TRUE]]
    /\ identity' = [identity EXCEPT ![credential[c].who][name] = Speaks(parent)]
    /\ UNCHANGED <<credential, issued>>

\* close_session, by the session itself; it stays closed.
CloseSession(s) ==
    /\ session[s] # NoName /\ session[s].open /\ Live(session[s].cred)
    /\ session' = [session EXCEPT ![s].open = FALSE]
    /\ UNCHANGED <<credential, issued, identity>>

CredentialsNext ==
    \/ \E p \in Principals :
         \/ \E a \in Access : CreateAgent(p, a)
         \/ \E a \in Access \cup {NoName} : IssueExisting(p, a)
    \/ \E c \in Credentials :
         \/ RevokeCredential(c) \/ DeleteCredential(c)
         \/ \E revokeOld \in BOOLEAN : Rotate(c, revokeOld)
         \/ \E s \in SessionIds : CreateSession(s, c)
         \/ \E s, parent \in SessionIds, n \in Names : CreateSubagent(s, c, n, parent)
    \/ \E s \in SessionIds : CloseSession(s)

(***************************************************************************)
(* Properties                                                              *)
(***************************************************************************)

\* Nobody works through a session whose credential was revoked, by itself or by
\* a rotation; and a subagent's ancestry ends at a session that is none, through
\* sessions of the same principal, whichever parents were closed since.
SessionsHaveCredentials ==
    \A s \in SessionIds : session[s] # NoName =>
        /\ session[s].open => Live(session[s].cred)
        /\ session[s].parent # NoName =>
             /\ credential[session[session[s].parent].cred].who
                   = credential[session[s].cred].who
             /\ identity[credential[session[s].cred].who][session[s].identity]
                   = Speaks(session[s].parent)

\* A credential issued or rotated without a choice of access has an access that
\* was chosen for an earlier credential of the same principal.
AccessWasChosen ==
    \A c \in 1..issued : ~credential[c].asked =>
        \E d \in Of(credential[c].who) :
            d < c /\ credential[d].asked /\ credential[d].access = credential[c].access

CredentialsSound == SessionsHaveCredentials /\ AccessWasChosen
=============================================================================
