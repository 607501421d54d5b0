---------------------------- MODULE ClientSession ----------------------------
(***************************************************************************)
(* The saved sessions of the command line client (cli/state.rs, the connect, *)
(* claim, job and retry commands of cli/main.rs, cli/session_adoption.rs)    *)
(* and what the service knows of them.  A copy is the state file of a session *)
(* in one state directory; a command holds the lock of its copy from start to *)
(* end, so the commands of one copy follow each other.  Migration leaves the   *)
(* same session in two copies; a second copy that was connected on its own     *)
(* would share nothing with the first.                                        *)
(*                                                                         *)
(* A mutation is saved as pending before it is sent and cleared by a          *)
(* definitive answer; a command may end anywhere in between, and a request    *)
(* may have been applied when its answer is lost.  Each session asks for one  *)
(* claim and, holding it, runs one job.                                       *)
(***************************************************************************)
EXTENDS Naturals, Sequences

CONSTANTS
    Copies,        \* state files
    Home,          \* the one of the default state directory
    Identities,    \* numbers of the session identities the client generates
    Transport,     \* the session of the MCP transport
    Rules,         \* texts of the project's rules
    FirstRules,    \* the first of them
    MaxTroubles,   \* bound: policy changes, closed sessions, ended commands, refusals
    Nothing

VARIABLES
    file,          \* each copy: [session, orientation, acknowledged, pending], or Nothing
    step,          \* what each copy's command does next
    applied,       \* the service has applied the copy's pending mutation
    answer,        \* the answer to the copy's command
    policy,        \* service: the rules of each policy revision so far
    session,       \* service: what each session is
    agreed,        \* service: the revision each session acknowledged
    jobs,          \* service: the sessions whose job is registered
    journal,       \* local: each session's job journal
    guarded,       \* local: the sessions whose job has a guardian
    shown,         \* history: revisions shown by each copy
    grants,        \* history: claims granted
    unanswered,    \* history: the copies whose granted claim was not answered
    troubles

clientVars == <<file, step, applied, answer, policy, session, agreed, jobs, journal, guarded,
                shown, grants, unanswered, troubles>>

remote == <<policy, session, agreed, jobs, grants>>
local == <<journal, guarded>>
request == <<applied, answer, unanswered>>

Sessions == Identities \cup {Transport}
Current == Len(policy)

ClientInit ==
    /\ file = [c \in Copies |-> Nothing]
    /\ step = [c \in Copies |-> "idle"]
    /\ applied = [c \in Copies |-> FALSE]
    /\ answer = [c \in Copies |-> Nothing]
    /\ policy = <<FirstRules>>
    /\ session = [s \in Sessions |-> IF s = Transport THEN "open" ELSE "none"]
    /\ agreed = [s \in Sessions |-> 0]
    /\ jobs = {} /\ journal = [s \in Sessions |-> "none"] /\ guarded = {}
    /\ shown = [c \in Copies |-> {}]
    /\ grants = {} /\ unanswered = {} /\ troubles = 0

----------------------------------------------------------------------------

Trouble == troubles < MaxTroubles /\ troubles' = troubles + 1

Saved(c) == file[c] # Nothing
Mine(c) == file[c].session
Open(c) == session[Mine(c)] = "open"

\* The copy's lock is free.  Bound: the commands of two copies of a session do not
\* overlap (session_writes_quiescent), though either may leave something pending.
Unlocked(c) == \A d \in Copies : step[d] = "idle"

\* load_required_state: the lock, and the file exists.
Loaded(c) == Unlocked(c) /\ Saved(c)

Go(c, s) == step' = [step EXCEPT ![c] = s]

\* save, of the given state.
Save(c, state) == file' = [file EXCEPT ![c] = state]

\* set_pending: a different mutation may not be pending.  An equal one keeps its
\* key, and with it what the service made of it.
Persist(c, state, kind, revision, next) ==
    LET wanted == [kind |-> kind, revision |-> revision] IN
    /\ state.pending \in {Nothing, wanted}
    /\ Save(c, [state EXCEPT !.pending = wanted])
    /\ applied' = [applied EXCEPT ![c] = state.pending = wanted /\ @]
    /\ answer' = [answer EXCEPT ![c] = Nothing]
    /\ Go(c, next)

Unused(s) == session[s] = "none" /\ \A c \in Copies : Saved(c) => Mine(c) # s

\* An identity nobody has used.
Fresh(s) == Unused(s) /\ \A t \in Identities : Unused(t) => s <= t

NewState(s) == [session |-> s, orientation |-> 0, acknowledged |-> 0, pending |-> Nothing]

----------------------------------------------------------------------------
(* Requests *)

\* Mutated form: only the acknowledged rules are compared.
GrantableByRules(c) == agreed[Mine(c)] # 0 /\ policy[agreed[Mine(c)]] = policy[Current]

\* claim: the request names the policy revision in force, and the session has
\* acknowledged its rules (instructions_acknowledged).
Grantable(c) ==
    /\ file[c].pending.revision = Current
    /\ agreed[Mine(c)] # 0 /\ policy[agreed[Mine(c)]] = policy[Current]

\* The service applies the pending mutation for the first time.
Apply(c) ==
    LET s == Mine(c) kind == file[c].pending.kind IN
    \/ /\ kind = "register" /\ session[s] # "closed"
       /\ session' = [session EXCEPT ![s] = "open"]
       /\ UNCHANGED <<policy, agreed, jobs, grants, unanswered>>
    \/ /\ kind = "acknowledge" /\ Open(c) /\ file[c].pending.revision = Current
       /\ agreed' = [agreed EXCEPT ![s] = Current]
       /\ UNCHANGED <<policy, session, jobs, grants, unanswered>>
    \/ /\ kind = "claim" /\ Open(c) /\ Grantable(c)
       /\ grants' = grants \cup
            {[copy |-> c, session |-> s, revision |-> Current, agreed |-> agreed[s]]}
       /\ unanswered' = unanswered \cup {c}
       /\ UNCHANGED <<policy, session, agreed, jobs>>
    \/ /\ kind = "job" /\ Open(c)
       /\ jobs' = jobs \cup {s}
       /\ UNCHANGED <<policy, session, agreed, grants, unanswered>>

Sending(c) == step[c] \in {"register", "acknowledge", "claim", "job", "retry"}

Replies(c, reply) == answer' = [answer EXCEPT ![c] = reply]

\* The request reaches the service.  An applied one is replayed from its receipt
\* while its session is open; a new one is applied or refused.
Deliver(c) ==
    /\ Sending(c) /\ answer[c] = Nothing
    /\ \/ /\ applied[c] /\ (file[c].pending.kind = "register" \/ Open(c))
          /\ Replies(c, "ok") /\ UNCHANGED <<applied, remote, unanswered, troubles>>
       \/ /\ ~applied[c] /\ Apply(c)
          /\ applied' = [applied EXCEPT ![c] = TRUE] /\ Replies(c, "ok") /\ UNCHANGED troubles
       \/ /\ ~applied[c] \/ ~Open(c)
          /\ Replies(c, "refused") /\ Trouble /\ UNCHANGED <<applied, remote, unanswered>>
    /\ UNCHANGED <<file, step, local, shown>>

\* Mutated form: whatever ends a command ends its mutation.
EndedForgets(c) ==
    /\ file' = IF Saved(c) THEN [file EXCEPT ![c].pending = Nothing] ELSE file
    /\ applied' = [applied EXCEPT ![c] = FALSE]

\* A command that ends without an answer leaves its mutation pending.
Ended(c) == UNCHANGED <<file, applied>>

\* The connection is lost, the answer is not definitive, the process dies.
Stop(c) ==
    /\ step[c] # "idle" /\ Trouble
    /\ Ended(c)
    /\ Replies(c, Nothing)
    /\ Go(c, "idle")
    /\ UNCHANGED <<remote, local, shown, unanswered>>

\* mutation_response_is_definitive: the answer clears what was pending and is the
\* command's result.
Cleared(c) ==
    /\ applied' = [applied EXCEPT ![c] = FALSE]
    /\ Replies(c, Nothing)
    /\ unanswered' = unanswered \ {c}

Refused(c) ==
    /\ Sending(c) /\ answer[c] = "refused"
    /\ Save(c, [file[c] EXCEPT !.pending = Nothing])
    /\ Cleared(c)
    /\ Go(c, "idle")
    /\ UNCHANGED <<remote, local, shown, troubles>>

\* What follows a mutation that succeeded, in the command that sent it.
Accepted(c) ==
    /\ Sending(c) /\ answer[c] = "ok" /\ file[c].pending.kind # "job"
    /\ Save(c, [file[c] EXCEPT !.pending = Nothing])
    /\ Cleared(c)
    /\ Go(c, CASE step[c] = "register" -> "fetch"
               [] step[c] = "acknowledge" -> "acknowledged"
               [] step[c] = "retry" /\ file[c].pending.kind = "acknowledge" -> "resumed"
               [] OTHER -> "idle")
    /\ UNCHANGED <<remote, local, shown, troubles>>

\* retry sends what is pending.
Retry(c) ==
    /\ Loaded(c) /\ file[c].pending # Nothing
    /\ Go(c, "retry") /\ Replies(c, Nothing)
    /\ UNCHANGED <<file, applied, remote, local, shown, unanswered, troubles>>

\* retry of an acknowledgement: the saved orientation is the acknowledged one.
RetriedAcknowledgement(c) ==
    /\ step[c] = "resumed"
    /\ Save(c, [file[c] EXCEPT !.acknowledged = file[c].orientation])
    /\ Go(c, "idle")
    /\ UNCHANGED <<request, remote, local, shown, troubles>>

----------------------------------------------------------------------------
(* connect *)

\* The first connect under a name: the identity and its registration are saved
\* together.
ConnectNew(c, s) ==
    /\ c = Home /\ Unlocked(c) /\ ~Saved(c) /\ Fresh(s)
    /\ Persist(c, NewState(s), "register", 0, "register")
    /\ UNCHANGED <<remote, local, shown, unanswered, troubles>>

\* A later one sends an unanswered registration again, or reads its session.
ConnectAgain(c) ==
    /\ Loaded(c)
    /\ \/ /\ file[c].pending # Nothing /\ file[c].pending.kind = "register"
          /\ Go(c, "register")
       \/ file[c].pending = Nothing /\ Go(c, "fetch")
    /\ Replies(c, Nothing)
    /\ UNCHANGED <<file, applied, remote, local, shown, unanswered, troubles>>

\* Mutated form: a session that cannot be read is replaced.
ReplaceableUnread(c) == TRUE

\* session_closed, of what the service answers.
Replaceable(c) == session[Mine(c)] = "closed"

\* replace_closed_session: a fresh identity in place of the closed one.
ReplaceClosed(c, s) ==
    /\ step[c] = "fetch" /\ Replaceable(c) /\ Fresh(s)
    /\ Persist(c, NewState(s), "register", 0, "register")
    /\ UNCHANGED <<remote, local, shown, unanswered, troubles>>

FetchSession(c) ==
    /\ step[c] = "fetch" /\ Open(c)
    /\ Go(c, "orient")
    /\ UNCHANGED <<file, request, remote, local, shown, troubles>>

\* The orientation is read, saved and shown.
Orient(c) ==
    /\ step[c] = "orient" /\ Open(c)
    /\ Save(c, [file[c] EXCEPT !.orientation = Current])
    /\ shown' = [shown EXCEPT ![c] = @ \cup {Current}]
    /\ Go(c, "idle")
    /\ UNCHANGED <<request, remote, local, troubles>>

----------------------------------------------------------------------------
(* claim *)

Oriented(c) == Loaded(c) /\ file[c].orientation # 0

\* acknowledge_current_orientation, when what was acknowledged is another one.
Acknowledge(c) ==
    /\ Oriented(c) /\ file[c].acknowledged # file[c].orientation
    /\ Persist(c, file[c], "acknowledge", file[c].orientation, "acknowledge")
    /\ UNCHANGED <<remote, local, shown, unanswered, troubles>>

SaveAcknowledged(c) ==
    /\ step[c] = "acknowledged"
    /\ Save(c, [file[c] EXCEPT !.acknowledged = file[c].orientation])
    /\ Go(c, "claiming")
    /\ UNCHANGED <<request, remote, local, shown, troubles>>

\* The claim names the orientation's revision.
Claim(c) ==
    /\ \/ Oriented(c) /\ file[c].acknowledged = file[c].orientation
       \/ step[c] = "claiming"
    /\ Persist(c, file[c], "claim", file[c].orientation, "claim")
    /\ UNCHANGED <<remote, local, shown, unanswered, troubles>>

----------------------------------------------------------------------------
(* jobs run *)

\* The intent of the request, kept or created, and the journal of its job.
Prepared(s) == journal' = [journal EXCEPT ![s] = "prepared"]

\* register_job.
RegisterJob(c) == Persist(c, file[c], "job", 0, "job")

\* run_job: under a current attempt and with nothing pending, the job of the
\* request is prepared unless it was; it is registered or verified.
RunJob(c) ==
    LET s == Mine(c) IN
    /\ Loaded(c) /\ file[c].pending = Nothing /\ Open(c)
    /\ \E g \in grants : g.session = s
    /\ \/ /\ journal[s] # "registered"
          /\ Prepared(s)
          /\ RegisterJob(c)
       \/ /\ journal[s] = "registered"
          /\ Go(c, "verify")
          /\ UNCHANGED <<file, applied, answer, journal>>
    /\ UNCHANGED <<remote, guarded, shown, unanswered, troubles>>

\* Mutated form: the registration is settled before it is recorded.
RecordRegistrationLate(c) ==
    /\ Sending(c) /\ answer[c] = "ok" /\ file[c].pending.kind = "job"
    /\ Save(c, [file[c] EXCEPT !.pending = Nothing])
    /\ Go(c, IF step[c] = "job" THEN "verify" ELSE "reverify")
    /\ UNCHANGED <<request, remote, local, shown, troubles>>

\* record_job_registration: an answered registration stays pending until the
\* journal is bound to its reporter.
RecordRegistration(c) ==
    /\ Sending(c) /\ answer[c] = "ok" /\ file[c].pending.kind = "job"
    /\ journal' = [journal EXCEPT ![Mine(c)] = "registered"]
    /\ Go(c, IF step[c] = "job" THEN "verify" ELSE "reverify")
    /\ UNCHANGED <<file, request, remote, guarded, shown, troubles>>

\* reconcile_remote_job: the service has this very job; then nothing is pending.
ReconcileJob(c) ==
    /\ step[c] \in {"verify", "reverify"} /\ Open(c) /\ Mine(c) \in jobs
    /\ Save(c, [file[c] EXCEPT !.pending = Nothing])
    /\ Cleared(c)
    /\ Go(c, IF step[c] = "verify" THEN "guard" ELSE "idle")
    /\ UNCHANGED <<remote, local, shown, troubles>>

\* The journal names the registration; the guardian is started.
StartGuardian(c) ==
    /\ step[c] = "guard" /\ journal[Mine(c)] = "registered"
    /\ guarded' = guarded \cup {Mine(c)}
    /\ Go(c, "idle")
    /\ UNCHANGED <<file, request, remote, journal, shown, troubles>>

----------------------------------------------------------------------------
(* session migrate, session adopt-mcp *)

\* migrate: a session with nothing pending is copied where there is none.
Migrate(c, d) ==
    /\ Loaded(c) /\ file[c].pending = Nothing
    /\ ~Saved(d)
    /\ Save(d, file[c])
    /\ shown' = [shown EXCEPT ![d] = shown[c]]
    /\ UNCHANGED <<step, request, remote, local, troubles>>

\* Mutated form: the imported session replaces the saved one.
AdoptableAlways(c) == Saved(c) => file[c].pending = Nothing

\* A name that is taken is never given to another session (verify_existing).
Adoptable(c) == ~Saved(c)

\* adopt_mcp: the open session of the transport, with its orientation, becomes
\* the copy's.
Adopt(c) ==
    /\ c = Home /\ Unlocked(c) /\ Adoptable(c) /\ session[Transport] = "open"
    /\ Save(c, [NewState(Transport) EXCEPT !.orientation = Current])
    /\ shown' = [shown EXCEPT ![c] = @ \cup {Current}]
    /\ UNCHANGED <<step, request, remote, local, troubles>>

----------------------------------------------------------------------------
(* The service *)

EditPolicy(r) ==
    /\ Trouble
    /\ policy' = Append(policy, r)
    /\ UNCHANGED <<file, step, request, session, agreed, jobs, local, shown, grants>>

\* close_session, a rotated credential, the sweep of idle sessions.
CloseSession(s) ==
    /\ session[s] = "open" /\ Trouble
    /\ session' = [session EXCEPT ![s] = "closed"]
    /\ UNCHANGED <<file, step, request, policy, agreed, jobs, local, shown, grants>>

ClientNext ==
    \/ \E c \in Copies :
         \/ Deliver(c) \/ Stop(c) \/ Refused(c) \/ Accepted(c) \/ Retry(c)
         \/ RetriedAcknowledgement(c)
         \/ ConnectAgain(c) \/ FetchSession(c) \/ Orient(c)
         \/ Acknowledge(c) \/ SaveAcknowledged(c) \/ Claim(c)
         \/ RunJob(c) \/ RecordRegistration(c) \/ ReconcileJob(c) \/ StartGuardian(c)
         \/ Adopt(c)
         \/ \E s \in Identities : ConnectNew(c, s) \/ ReplaceClosed(c, s)
         \/ \E d \in Copies : Migrate(c, d)
    \/ \E r \in Rules : EditPolicy(r)
    \/ \E s \in Sessions : CloseSession(s)

----------------------------------------------------------------------------

\* A claim is granted only to a session that was shown the very policy revision
\* it is granted under and acknowledged its rules, whichever copy of the session
\* asks and however late the request arrives (claim, acknowledge_current_orientation).
ClaimsAreInformed ==
    \A g \in grants : g.revision \in shown[g.copy] /\ policy[g.agreed] = policy[g.revision]

\* A session that was granted work and is not closed is still in some copy: no
\* command forgets the identity the work belongs to (connect, migrate, adopt_mcp).
OwnersAreKept ==
    \A g \in grants :
        session[g.session] = "open" /\ g.session # Transport =>
            \E c \in Copies : Saved(c) /\ Mine(c) = g.session

\* A granted claim whose answer nobody has seen is still pending in its copy
\* (send_saved_policy).
GrantsAreAnswered ==
    \A c \in unanswered : Open(c) => file[c].pending # Nothing /\ file[c].pending.kind = "claim"

\* A registered job of an open session is bound to its reporter, or its
\* registration is still pending, and a guardian is started only for a bound one
\* the service knows (register_job, retry).
JobsAreBound ==
    /\ \A s \in jobs : session[s] = "open" =>
         \/ journal[s] = "registered"
         \/ \E c \in Copies : Saved(c) /\ Mine(c) = s /\ file[c].pending # Nothing
                              /\ file[c].pending.kind = "job"
    /\ \A s \in guarded : s \in jobs /\ journal[s] = "registered"

SavedSessionsSound ==
    ClaimsAreInformed /\ OwnersAreKept /\ GrantsAreAnswered /\ JobsAreBound
==============================================================================
