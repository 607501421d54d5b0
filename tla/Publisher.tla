------------------------------ MODULE Publisher ------------------------------
(***************************************************************************)
(* The local integration intent (local/git_workflow.rs): a result that      *)
(* contains the expected target and the candidate is prepared, recorded and  *)
(* checked out; it is pushed to the target under fresh authority, and an     *)
(* interrupted push is reconciled by observing the target only.  The         *)
(* integration commands (cli/main.rs) tell the service what they prepared,    *)
(* published and reconciled.  The sessions of a host share the state file and *)
(* its lock; each runs one command at a time, under its session lock, and     *)
(* keeps an unanswered mutation as pending until it is retried.               *)
(*                                                                         *)
(* Every process may fail or die at each step; what it saved stays.  Git on  *)
(* the remote is external: a push may land without its success being         *)
(* reported, or after the process that started it is gone.                   *)
(***************************************************************************)
EXTENDS Naturals

CONSTANTS
    Procs,         \* sessions that run integration commands
    Owner,         \* the one that owns the integration attempt
    Expected,      \* the expected target
    Merged,        \* the result when the target does not contain the candidate
    Elsewhere,     \* any other commit
    NoOne,
    MaxMoves       \* bound: moves of the target or the checkout by others

VARIABLES
    contains,      \* the expected target already contains the candidate
    target,        \* remote: the target branch
    flying,        \* remote: pushes of our result that may still land
    intent,        \* the state file: [phase, result]
    checkout,      \* the commit of the integration worktree
    holder,        \* the process that holds the lock
    step,          \* what each session's command does next
    pending,       \* each session's saved mutation
    service,       \* the service's record of the publication
    live,          \* the attempt's authority is valid
    retired,       \* the owner's commands have stopped for good
    started,       \* history: pushes started
    denied,        \* history: reconciled as not published, nothing granted since
    reached,       \* history: the target was the result
    moves

publisherVars == <<contains, target, flying, intent, checkout, holder, step, pending, service,
                   live, retired, started, denied, reached, moves>>

remote == <<target, flying, started, reached>>
told == <<pending, service, live, retired>>

Phases == {"none", "preparing", "prepared", "push_intent", "published"}
Ready == {"prepared", "push_intent", "published"}

\* create_integration_result, of commits that do not conflict.
Result == IF contains THEN Expected ELSE Merged

PublisherInit ==
    /\ contains \in BOOLEAN
    /\ target = Expected /\ flying = 0
    /\ intent = [phase |-> "none", result |-> NoOne]
    /\ checkout = Expected
    /\ holder = NoOne /\ step = [p \in Procs |-> "idle"]
    /\ pending = [p \in Procs |-> "none"] /\ service = "none"
    /\ live = TRUE /\ retired = FALSE
    /\ started = 0 /\ denied = FALSE /\ reached = contains
    /\ moves = 0

----------------------------------------------------------------------------

\* load_required_state: a session runs one command at a time.
Free(p) == step[p] = "idle" /\ (p = Owner => ~retired)

\* Mutated form: the lock keeps nobody out.
LockIntentShared(p) == Free(p)

\* lock_intent: a process at a time; the lock goes with its process.
LockIntent(p) == Free(p) /\ holder = NoOne

Continue(p, s) == step' = [step EXCEPT ![p] = s]

Begin(p, s) == LockIntent(p) /\ holder' = p /\ Continue(p, s)

End(p) ==
    /\ Continue(p, "idle")
    /\ holder' = IF holder = p THEN NoOne ELSE holder

\* save_intent replaces the file; the phase it saves.
Save(phase) == intent' = [intent EXCEPT !.phase = phase]

\* validate_intent_checkout, in the phases after preparation.
AtResult == checkout = intent.result

----------------------------------------------------------------------------
(* Preparation *)

\* The command of the current owner; no other mutation may be unresolved.
MayPrepare(p) == p = Owner /\ live /\ pending[p] \in {"none", "register"}

\* prepare_integration: a new intent is recorded where the checkout and the
\* target are both at the expected commit; a recorded one is continued.
Prepare(p) ==
    /\ MayPrepare(p)
    /\ \/ /\ intent.phase = "none" /\ checkout = Expected /\ target = Expected
          /\ Save("preparing")
       \/ /\ intent.phase = "preparing" /\ checkout \in {Expected, intent.result}
          /\ UNCHANGED intent
    /\ Begin(p, "create")
    /\ UNCHANGED <<contains, remote, checkout, denied, told, moves>>

CreateResult(p) ==
    /\ step[p] = "create"
    /\ intent' = [intent EXCEPT !.result = Result]
    /\ Continue(p, "materialize")
    /\ UNCHANGED <<contains, remote, checkout, holder, denied, told, moves>>

\* materialize_result_checkout: fast-forwards the checkout from the expected
\* target, or finds it at the result.
Materialize ==
    /\ checkout \in {Expected, intent.result}
    /\ checkout' = intent.result

MaterializeResult(p) ==
    /\ step[p] = "materialize"
    /\ Materialize
    /\ Continue(p, "save")
    /\ UNCHANGED <<contains, remote, intent, holder, denied, told, moves>>

\* The prepared phase is saved; the lock goes, the command goes on.
FinishPreparation(p) ==
    /\ step[p] = "save"
    /\ Save("prepared")
    /\ holder' = NoOne /\ Continue(p, "register")
    /\ UNCHANGED <<contains, remote, checkout, denied, told, moves>>

\* A repeated prepare finds the result prepared: materialize_prepared_result,
\* then the service is told.
MaterializePrepared(p) ==
    /\ MayPrepare(p)
    /\ LockIntent(p) /\ intent.phase \in Ready
    /\ Materialize
    /\ Continue(p, "register")
    /\ UNCHANGED <<contains, remote, intent, holder, denied, told, moves>>

----------------------------------------------------------------------------
(* Publication *)

\* What an observation of the target settles: it is the result, or it moved.
Observed ==
    \/ target = intent.result /\ Save("published")
    \/ target \notin {intent.result, Expected} /\ UNCHANGED intent

Settles(p) == Observed /\ End(p)

\* Mutated form: an unresolved mutation does not hold publication up.
NothingPendingNever(p) == TRUE

\* publish_integration refuses while an earlier mutation is unresolved.
NothingPending(p) == pending[p] = "none"

\* publish_prepared: the first observation.  Only a prepared result whose push
\* was never begun goes on.
Publish(p) ==
    /\ NothingPending(p) /\ LockIntent(p) /\ intent.phase \in Ready /\ AtResult
    /\ target = Expected /\ intent.result # Expected /\ intent.phase = "prepared"
    /\ Begin(p, "authorize")
    /\ UNCHANGED <<contains, remote, intent, checkout, denied, told, moves>>

PublishSettled(p) ==
    /\ NothingPending(p) /\ LockIntent(p) /\ intent.phase \in Ready /\ AtResult
    /\ Settles(p)
    /\ UNCHANGED <<contains, remote, checkout, denied, told, moves>>

\* validate_publication_authority: the attempt is this session's and current,
\* and the intent is the one the service has registered.
Authorize(p) ==
    /\ step[p] = "authorize"
    /\ p = Owner /\ live /\ service = "registered"
    /\ Continue(p, "reobserve")
    /\ denied' = FALSE
    /\ UNCHANGED <<contains, remote, intent, checkout, holder, told, moves>>

\* The second observation, then the durable push intent.
Reobserve(p) ==
    /\ step[p] = "reobserve" /\ AtResult
    /\ \/ target = Expected /\ Continue(p, "intend") /\ UNCHANGED <<intent, holder>>
       \/ Settles(p)
    /\ UNCHANGED <<contains, remote, checkout, denied, told, moves>>

SavePushIntent(p) ==
    /\ step[p] = "intend"
    /\ Save("push_intent")
    /\ Continue(p, "push")
    /\ UNCHANGED <<contains, remote, checkout, holder, denied, told, moves>>

\* The authority expires before Git could start.
PushNotStarted(p) ==
    /\ step[p] = "push"
    /\ Save("prepared")
    /\ End(p)
    /\ UNCHANGED <<contains, remote, checkout, denied, told, moves>>

Lands ==
    /\ target' = IF target = Expected THEN intent.result ELSE target
    /\ reached' = (reached \/ target = Expected)

\* The push with its lease on the expected target returns: it landed, whatever
\* it reported; it was rejected; or it failed here and is still on its way.
StartPush(p) ==
    /\ step[p] = "push"
    /\ started' = started + 1
    /\ \/ Lands /\ UNCHANGED flying
       \/ UNCHANGED <<target, reached, flying>>
       \/ flying' = flying + 1 /\ UNCHANGED <<target, reached>>
    /\ Continue(p, "after")
    /\ UNCHANGED <<contains, intent, checkout, holder, denied, told, moves>>

\* Mutated form: a push that seems not to have landed may be tried again.
AfterPushRetries(p) ==
    /\ step[p] = "after"
    /\ \/ Settles(p)
       \/ target = Expected /\ Save("prepared") /\ End(p)
    /\ UNCHANGED <<contains, remote, checkout, denied, told, moves>>

\* The target after the push: published, moved, or not established.
AfterPush(p) ==
    /\ step[p] = "after"
    /\ \/ Settles(p)
       \/ target = Expected /\ End(p) /\ UNCHANGED intent
    /\ UNCHANGED <<contains, remote, checkout, denied, told, moves>>

\* Mutated form: an unanswered push intent counts as not published.
NotPublishedUnlessSeen == target = Expected /\ intent.result # Expected

\* What reconcile_publication answers with not_published.
NotPublished == target = Expected /\ intent.result # Expected /\ intent.phase = "prepared"

\* reconcile_integration: under the intent's lock, not the session's.
Reconcile ==
    /\ holder = NoOne /\ intent.phase \in Ready /\ AtResult
    /\ \/ Observed /\ UNCHANGED denied
       \/ NotPublished /\ denied' = TRUE /\ UNCHANGED intent
    /\ UNCHANGED <<contains, remote, checkout, holder, step, told, moves>>

----------------------------------------------------------------------------
(* Telling the service *)

\* persist_and_send: the mutation is saved before it is sent.
Persist(p, kind) ==
    /\ pending[p] \in {"none", kind}
    /\ pending' = [pending EXCEPT ![p] = kind]
    /\ Continue(p, "send")
    /\ UNCHANGED <<contains, remote, intent, checkout, holder, service, live, retired, denied,
                   moves>>

Register(p) == step[p] = "register" /\ service = "none" /\ Persist(p, "register")

\* The service already has the intent: nothing is sent.
AlreadyRegistered(p) ==
    /\ step[p] = "register" /\ service # "none"
    /\ pending' = [pending EXCEPT ![p] = "none"]
    /\ Continue(p, "idle")
    /\ UNCHANGED <<contains, remote, intent, checkout, holder, service, live, retired, denied,
                   moves>>

\* What the service makes of a mutation, sent once or again: the owner's while
\* its authority is valid, a reconciliation once it is not.
Applied(kind) ==
    CASE kind = "register" /\ live /\ service = "none" -> "registered"
      [] kind = "report" /\ live /\ service = "registered" -> "reported"
      [] kind = "finalize" /\ live /\ service = "reported" -> "finalized"
      [] kind = "published" /\ ~live /\ service = "registered" -> "reconciled"
      [] kind = "not_published" /\ ~live /\ service = "registered" -> "abandoned"
      [] OTHER -> service

\* The mutation is applied, or refused.
Deliver(p) ==
    /\ step[p] = "send"
    /\ service' \in {service, Applied(pending[p])}
    /\ Continue(p, "sent")
    /\ UNCHANGED <<contains, remote, intent, checkout, holder, pending, live, retired, denied,
                   moves>>

\* The reply arrives; a reported result is finalized next.
Receive(p) ==
    /\ step[p] = "sent"
    /\ pending' = [pending EXCEPT ![p] = "none"]
    /\ Continue(p, IF pending[p] = "report" /\ service = "reported" THEN "confirm" ELSE "idle")
    /\ UNCHANGED <<contains, remote, intent, checkout, holder, service, live, retired, denied,
                   moves>>

\* The retry command.
Retry(p) ==
    /\ Free(p) /\ pending[p] # "none"
    /\ Continue(p, "send")
    /\ UNCHANGED <<contains, remote, intent, checkout, holder, told, denied, moves>>

\* reconcile_agent_integration, whose caller attests that the publisher has
\* stopped: what the observation of the registered intent establishes is reported.
ReconcileAgent(p) ==
    /\ NothingPending(p) /\ LockIntent(p) /\ intent.phase \in Ready /\ AtResult
    /\ service # "none" /\ (p # Owner => retired)
    /\ \/ target = intent.result /\ Save("published") /\ Continue(p, "attest_published")
          /\ UNCHANGED denied
       \/ NotPublished /\ Continue(p, "attest_not") /\ denied' = TRUE /\ UNCHANGED intent
    /\ UNCHANGED <<contains, remote, checkout, holder, told, moves>>

Attest(p) ==
    \/ step[p] = "attest_published" /\ Persist(p, "published")
    \/ step[p] = "attest_not" /\ Persist(p, "not_published")

\* finish_integration: the result is reported when the target confirms it.
Finish(p) ==
    /\ p = Owner /\ live /\ LockIntent(p) /\ intent.phase \in Ready /\ AtResult
    /\ target = intent.result /\ Save("published")
    /\ \/ service = "registered" /\ Continue(p, "report") /\ UNCHANGED pending
       \/ /\ service = "reported" /\ Continue(p, "confirm")
          /\ pending' = IF pending[p] = "report" THEN [pending EXCEPT ![p] = "none"] ELSE pending
    /\ UNCHANGED <<contains, remote, checkout, holder, service, live, retired, denied, moves>>

Report(p) == step[p] = "report" /\ Persist(p, "report")

\* The target is observed once more before it is finalized.
Confirm(p) == step[p] = "confirm" /\ target = intent.result /\ Persist(p, "finalize")

\* The lease lapses, or the attempt is released.
Lapse ==
    /\ live
    /\ live' = FALSE
    /\ UNCHANGED <<contains, remote, intent, checkout, holder, step, pending, service, retired,
                   denied, moves>>

\* The owner's agent is gone: its commands have ended and none follows.
Retire ==
    /\ ~retired /\ step[Owner] = "idle"
    /\ retired' = TRUE
    /\ UNCHANGED <<contains, remote, intent, checkout, holder, step, pending, service, live,
                   denied, moves>>

\* A command fails, or its process dies; a push it started may be on its way.
Stop(p) ==
    /\ step[p] # "idle"
    /\ End(p)
    /\ \/ step[p] = "push" /\ started' = started + 1 /\ flying' = flying + 1
       \/ UNCHANGED <<started, flying>>
    /\ UNCHANGED <<contains, target, intent, checkout, denied, told, reached, moves>>

----------------------------------------------------------------------------
(* Others *)

LatePush ==
    /\ flying > 0
    /\ flying' = flying - 1
    /\ \/ Lands
       \/ UNCHANGED <<target, reached>>
    /\ UNCHANGED <<contains, intent, checkout, holder, step, started, denied, told, moves>>

\* Somebody else moves the target, possibly there and back.
MoveTarget(c) ==
    /\ moves < MaxMoves /\ target # c
    /\ moves' = moves + 1
    /\ target' = c
    /\ reached' = (reached \/ c = Result)
    /\ UNCHANGED <<contains, flying, intent, checkout, holder, step, started, denied, told>>

MoveCheckout(c) ==
    /\ moves < MaxMoves /\ checkout # c
    /\ moves' = moves + 1
    /\ checkout' = c
    /\ UNCHANGED <<contains, remote, intent, holder, step, denied, told>>

PublisherNext ==
    \/ \E p \in Procs :
         \/ Prepare(p) \/ CreateResult(p) \/ MaterializeResult(p) \/ FinishPreparation(p)
         \/ MaterializePrepared(p)
         \/ Publish(p) \/ PublishSettled(p) \/ Authorize(p) \/ Reobserve(p) \/ SavePushIntent(p)
         \/ PushNotStarted(p) \/ StartPush(p) \/ AfterPush(p)
         \/ Stop(p)
         \/ Register(p) \/ AlreadyRegistered(p) \/ Deliver(p) \/ Receive(p) \/ Retry(p)
         \/ ReconcileAgent(p) \/ Attest(p) \/ Finish(p) \/ Report(p) \/ Confirm(p)
    \/ Reconcile \/ Lapse \/ Retire \/ LatePush
    \/ \E c \in {Expected, Merged, Elsewhere} : MoveTarget(c) \/ MoveCheckout(c)

----------------------------------------------------------------------------

\* At most one push is ever started for an intent, however often the commands
\* are repeated, raced or killed (publish_prepared).
OnePush == started <= 1

\* Once a reconciliation has answered not_published, nothing of ours can still
\* change the target until authority is granted anew (reconcile_publication).
DeniedIsFinal ==
    denied => /\ flying = 0
              /\ \A p \in Procs : step[p] \notin {"reobserve", "intend", "push"}

\* A published intent names a result the target has had (mark_published).
PublishedWasSeen == intent.phase = "published" => reached

\* What the service is told is true, whoever tells it, however late and however
\* often: a publication reported, finalized or reconciled as published was on
\* the target, and one reconciled as not published was never pushed, nor is it
\* ever after (reconcile_agent_integration, finish_integration).
ServiceToldTrue ==
    /\ service \in {"reported", "finalized", "reconciled"} => reached
    /\ service = "abandoned" => started = 0

IntentSound ==
    intent.phase \in Phases /\ OnePush /\ DeniedIsFinal /\ PublishedWasSeen /\ ServiceToldTrue
==============================================================================
