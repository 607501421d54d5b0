-------------------------------- MODULE Delivery --------------------------------
(***************************************************************************)
(* How a mutation reaches the service once: the command line's saved         *)
(* mutation (crates/cli), the journal of the MCP transport                   *)
(* (crates/mcp-transport), the service's receipts (mutation.rs), the clock   *)
(* they are judged by, storage maintenance, and restoring a backup.          *)
(*                                                                         *)
(* A client is one provisioned credential with its own saved state.  Its     *)
(* mutations are numbered in the order it saved them; a number stands for    *)
(* the idempotency key.  The network may lose an answer, and may deliver a   *)
(* request after its sender gave up on it.                                   *)
(***************************************************************************)
EXTENDS ServiceClock, Sequences, FiniteSets, FiniteSetsExt, SequencesExt

CONSTANTS
  Clis, Mcps,   \* clients using the command line, and the MCP transport
  Operations,   \* operations explored, of claim, renew, release
  Lease,        \* lifetime of an attempt
  Retention,    \* replay window of a receipt, 30 days in the code
  Idle,         \* idle period of a session; 0 never closes one
  Batch,        \* receipts compacted in one transaction
  MaxClients, MaxKeys, MaxSessions, MaxRestores,
  MaxEvents, MaxChanges   \* bounds; events are restarts, clock steps, backups and
                          \* maintenance runs, changes are a client's keys and events

Clients == Clis \cup Mcps

ASSUME DeliveryAssumption ==
  /\ {Lease, Retention, Idle, Batch, MaxClients, MaxKeys, MaxSessions, MaxRestores, MaxEvents, MaxChanges} \subseteq Nat
  /\ Operations \subseteq {"claim", "renew", "release"}
  /\ Clis \cap Mcps = {}

VARIABLES
  db,         \* the database: everything a backup holds
  snapshot,   \* the backup, once one was taken
  journal,    \* durable state of every client
  process,    \* what the client's process is doing
  flight,     \* requests on the way to the service
  effects,    \* history: how often every mutation took effect
  concluded,  \* history: what the client was told
  issued,     \* history: credentials ever issued; a token is never issued twice
  born,       \* history: the restores the service had seen when it was saved
  events,     \* events so far
  deadline    \* history: true time at which a lease granted by this process ends

deliveryVars == <<db, snapshot, journal, process, flight, effects, concluded, issued,
                  born, deadline>>
vars == <<clockVars, deliveryVars, events>>
history == <<effects, concluded, issued, born>>

Room(c) == Len(journal[c].saved) < MaxKeys /\ Len(journal[c].saved) + events < MaxChanges
Keys == Clients \X (1..MaxKeys)
NoRun == [open |-> FALSE, cutoff |-> 0]

Init ==
  /\ ClockInit
  /\ db = [restores |-> 0, reconciling |-> FALSE, required |-> {},
           credentials |-> {}, revoked |-> {}, open |-> {}, closed |-> {},
           activity |-> [c \in Clients |-> 0], leases |-> [c \in Clients |-> 0],
           receipts |-> [k \in {} |-> 0], run |-> NoRun]
  /\ snapshot = <<>>
  /\ journal = [c \in Clients |-> [pending |-> 0, last |-> 0, saved |-> <<>>, session |-> 1]]
  /\ process = [c \in Clients |-> [at |-> "idle", key |-> 0, answer |-> "none"]]
  /\ flight = {}
  /\ effects = [k \in Keys |-> 0]
  /\ concluded = [k \in Keys |-> "none"]
  /\ born = [k \in Keys |-> 0]
  /\ issued = {}
  /\ events = 0
  /\ deadline = [c \in Clients |-> MaxElapsed + Lease]

---------------------------------------------------------------------------
(* Clients.  A mutation is saved, then sent; an answer clears it.            *)

\* A client that saves a mutation over an unresolved one.
SaveOver(c, op) ==
  /\ process[c].at = "idle"
  /\ Room(c)
  /\ LET n == Len(journal[c].saved) + 1 IN
     /\ journal' = [journal EXCEPT ![c].saved = Append(@, op), ![c].pending = n]
     /\ process' = [process EXCEPT ![c] = [at |-> "saved", key |-> n, answer |-> "none"]]
     /\ born' = [born EXCEPT ![<<c, n>>] = db.restores]
  /\ UNCHANGED <<clockVars, db, snapshot, flight, effects, concluded, issued, deadline>>

\* persist_and_send, set_pending and Journal::prepare: a new mutation is saved
\* under a new key, and only while none is unresolved.
Save(c, op) ==
  /\ c \in issued
  /\ process[c].at = "idle" /\ journal[c].pending = 0
  /\ Room(c)
  /\ LET n == Len(journal[c].saved) + 1 IN
     /\ journal' = [journal EXCEPT ![c].saved = Append(@, op), ![c].pending = n]
     /\ process' = [process EXCEPT ![c] = [at |-> "saved", key |-> n, answer |-> "none"]]
     /\ born' = [born EXCEPT ![<<c, n>>] = db.restores]
  /\ UNCHANGED <<clockVars, db, snapshot, flight, effects, concluded, issued, deadline>>

\* The command line's retry and Journal::retry_request: the unresolved mutation,
\* and for the transport otherwise the one completed last.
RetryKey(c) ==
  IF journal[c].pending # 0 THEN journal[c].pending
  ELSE IF c \in Mcps THEN journal[c].last ELSE 0

Retry(c) ==
  /\ process[c].at = "idle" /\ RetryKey(c) # 0
  /\ journal' = [journal EXCEPT ![c].pending = RetryKey(c)]
  /\ process' = [process EXCEPT ![c] = [at |-> "saved", key |-> RetryKey(c), answer |-> "none"]]
  /\ UNCHANGED <<clockVars, db, snapshot, flight, history, deadline>>

Request(c, live) == [client |-> c, key |-> process[c].key, session |-> journal[c].session,
                     live |-> live]

\* send_saved_policy and Adapter::remote.
Send(c) ==
  /\ process[c].at = "saved"
  /\ flight' = flight \cup {Request(c, TRUE)}
  /\ process' = [process EXCEPT ![c].at = "waiting"]
  /\ UNCHANGED <<clockVars, db, snapshot, journal, history, deadline>>

\* The request of a client that stopped waiting is lost, or still on its way.
Abandoned(c) ==
  LET rest == {r \in flight : ~(r.client = c /\ r.live)} IN
  IF rest = flight THEN {flight}
  ELSE {rest, rest \cup {Request(c, FALSE)}}

\* The client's timeout, or the end of its process; both keep what was saved.
GiveUp(c) ==
  /\ process[c].at # "idle"
  /\ flight' \in Abandoned(c)
  /\ process' = [process EXCEPT ![c] = [at |-> "idle", key |-> 0, answer |-> "none"]]
  /\ UNCHANGED <<clockVars, db, snapshot, journal, history, deadline>>

\* A transport that resolves on any answer of the service.
DefinitiveAlways(c, op, answer) == TRUE

\* mutation_response_is_definitive: everything but a redirect, 429 and 5xx; and
\* Adapter::dispatch: a result, or a claim refused before it had an effect.
Definitive(c, op, answer) ==
  IF c \in Clis THEN answer # "busy"
  ELSE answer = "ok" \/ (op = "claim" /\ answer = "conflict")

Receive(c) ==
  /\ process[c].at = "answered"
  /\ LET n == process[c].key
         settled == Definitive(c, journal[c].saved[n], process[c].answer) IN
     /\ journal' = IF settled THEN [journal EXCEPT ![c].pending = 0,
                                                    ![c].last = IF c \in Mcps THEN n ELSE 0]
                 ELSE journal
     /\ concluded' = IF settled
                     THEN [concluded EXCEPT ![<<c, n>>] =
                             IF process[c].answer = "ok" THEN "done" ELSE "refused"]
                     ELSE concluded
  /\ process' = [process EXCEPT ![c] = [at |-> "idle", key |-> 0, answer |-> "none"]]
  /\ UNCHANGED <<clockVars, db, snapshot, flight, effects, issued, born, deadline>>

\* connect: replace_closed_session takes a fresh session identity, never with an
\* unresolved mutation of the closed one.
ReplaceSession(c) ==
  /\ c \in Clis /\ process[c].at = "idle" /\ journal[c].pending = 0
  /\ <<c, journal[c].session>> \in db.closed
  /\ journal[c].session < MaxSessions
  /\ journal' = [journal EXCEPT ![c].session = @ + 1]
  /\ UNCHANGED <<clockVars, db, snapshot, process, flight, history, deadline>>

---------------------------------------------------------------------------
(* The service answers a request.                                            *)

\* Operations the pauses let through.
AllowedDuringRestore(op) == FALSE
AllowedDuringClockReconciliation(op) == op = "release"

\* A service that only looks at the restore.
AuthorityRestoreOnly(op) == db.reconciling => AllowedDuringRestore(op)

\* authority: no pause forbids the operation.
Authority(op) ==
  /\ db.reconciling => AllowedDuringRestore(op)
  /\ paused => AllowedDuringClockReconciliation(op)

\* Auth::verify: a live credential and an open session of it.
Verified(r) ==
  /\ r.client \in db.credentials \ db.revoked
  /\ <<r.client, r.session>> \in db.open

\* load_receipt: the recorded result, or why there is none to replay.
Replay(k) ==
  LET receipt == db.receipts[k] IN
  IF receipt.epoch # db.restores \/ receipt.compacted \/ SafeNow - receipt.created > Retention
  THEN "refused" ELSE "ok"

\* The effect of an operation on its client's attempt, when it has one.
Applicable(c, op) ==
  \/ op = "claim" /\ db.leases[c] <= SafeNow
  \/ op = "renew" /\ db.leases[c] > SafeNow
  \/ op = "release" /\ db.leases[c] # 0

Applied(c, op) ==
  [db EXCEPT !.leases[c] = IF op = "release" THEN 0 ELSE SafeNow + Lease,
             !.activity[c] = SafeNow]

Recorded(k) ==
  [l \in DOMAIN db.receipts \cup {k} |->
     IF l = k THEN [epoch |-> db.restores, created |-> SafeNow, compacted |-> FALSE]
     ELSE db.receipts[l]]

\* finish: the effect and its receipt are one transaction.
Finish(k, op) ==
  /\ db' = [Applied(k[1], op) EXCEPT !.receipts = Recorded(k)]
  /\ effects' = [effects EXCEPT ![k] = @ + 1]
  /\ deadline' = [deadline EXCEPT ![k[1]] = IF op = "release" THEN @ ELSE elapsed + Lease]
  /\ CommitSample

\* Every active attempt ends when a rollback is detected.
Expire(d) == [d EXCEPT !.leases = [c \in Clients |-> 0]]

Unchanged == /\ AbandonSample /\ UNCHANGED <<db, effects, deadline>>

\* Mutation::begin and the handler it opens; the answer it gives.
Handled(r, answer) ==
  LET k == <<r.client, r.key>>
      op == journal[r.client].saved[r.key] IN
  IF Rollback THEN /\ CommitSample /\ db' = Expire(db)
                   /\ UNCHANGED <<effects, deadline>> /\ answer = "refused"
  ELSE \/ /\ ~Verified(r) \/ ~Authority(op)
          /\ answer = "refused" /\ Unchanged
       \/ /\ Verified(r) /\ Authority(op) /\ k \in DOMAIN db.receipts
          /\ answer = Replay(k) /\ Unchanged
       \/ /\ Verified(r) /\ Authority(op) /\ k \notin DOMAIN db.receipts
          /\ \/ Applicable(r.client, op) /\ answer = "ok" /\ Finish(k, op)
             \/ op # "claim" /\ ~Applicable(r.client, op) /\ answer = "refused" /\ Unchanged
             \/ op = "claim" /\ answer = "conflict" /\ Unchanged
       \/ answer = "busy" /\ Unchanged

\* The answer reaches a client that still waits; one that is lost is the answer to a
\* request its client has given up on.
Handle(r) ==
  /\ r \in flight
  /\ flight' = flight \ {r}
  /\ \E answer \in {"ok", "refused", "conflict", "busy"} :
       /\ Handled(r, answer)
       /\ process' = IF r.live THEN [process EXCEPT ![r.client].at = "answered",
                                                    ![r.client].answer = answer]
                     ELSE process
  /\ UNCHANGED <<snapshot, journal, concluded, issued, born>>

\* An administrator issues a credential; a client is one credential.
IssueCredential(c) ==
  /\ c \notin issued /\ Cardinality(issued) < MaxClients /\ ~Rollback /\ ~paused
  /\ issued' = issued \cup {c}
  /\ db' = [db EXCEPT !.credentials = @ \cup {c}]
  /\ CommitSample
  /\ UNCHANGED <<snapshot, journal, process, flight, effects, concluded, born, deadline>>

\* POST /api/v1/sessions: a session of a live credential, once.
RegisterSession(c) ==
  /\ c \in db.credentials \ db.revoked /\ ~Rollback /\ ~paused
  /\ <<c, journal[c].session>> \notin db.open \cup db.closed
  /\ db' = [db EXCEPT !.open = @ \cup {<<c, journal[c].session>>}, !.activity[c] = SafeNow]
  /\ CommitSample
  /\ UNCHANGED <<snapshot, journal, process, flight, history, deadline>>

\* Any authenticated read samples the clock, and commits only the sample.
Read ==
  /\ CommitSample
  /\ db' = IF Rollback THEN Expire(db) ELSE db
  /\ UNCHANGED <<snapshot, journal, process, flight, history, deadline>>

---------------------------------------------------------------------------
(* Operators: the clock, storage maintenance, holds, backup and restore.     *)

Reconcile(read) == ReconcileClock(read) /\ UNCHANGED deliveryVars
Recover == RecoverClock /\ UNCHANGED deliveryVars

\* A step of maintenance: stopped by a rollback, refused while paused.
Maintain(d) ==
  /\ ~paused
  /\ CommitSample
  /\ db' = IF Rollback THEN Expire(db) ELSE d
  /\ UNCHANGED <<snapshot, journal, process, flight, history, deadline>>

\* A run that compacts whatever it finds.
BeginRunNow ==
  /\ ~db.run.open
  /\ Maintain([db EXCEPT !.run = [open |-> TRUE, cutoff |-> SafeNow]])

\* begin_run fixes the cutoff of the whole run.
BeginRun ==
  /\ ~db.run.open
  /\ Maintain([db EXCEPT !.run = [open |-> TRUE, cutoff |-> SafeNow - Retention]])

\* compact_receipts: the oldest ones first; the row stays.
Compactable(k) == ~db.receipts[k].compacted /\ db.receipts[k].created < db.run.cutoff
Oldest(n, S) == {T \in SUBSET S : /\ Cardinality(T) = IF Cardinality(S) < n THEN Cardinality(S) ELSE n
                                  /\ \A k \in T, l \in S \ T :
                                       db.receipts[k].created <= db.receipts[l].created}

\* Compaction that drops the rows.
CompactedAway(T) == [k \in DOMAIN db.receipts \ T |-> db.receipts[k]]

Compacted(T) == [k \in DOMAIN db.receipts |->
                   [db.receipts[k] EXCEPT !.compacted = @ \/ k \in T]]

RunBatch ==
  /\ db.run.open
  /\ \E T \in Oldest(Batch, {k \in DOMAIN db.receipts : Compactable(k)}) :
       Maintain([db EXCEPT !.receipts = Compacted(T)])

\* A selection that takes a lapsed attempt for an ended one.
IdleSessionLapsed(s) ==
  /\ db.activity[s[1]] < SafeNow - Idle
  /\ db.leases[s[1]] <= SafeNow

\* IDLE_SQL: silent for the whole period and holding no active attempt.
IdleSession(s) ==
  /\ db.activity[s[1]] < SafeNow - Idle
  /\ db.leases[s[1]] = 0

CloseIdle ==
  /\ db.run.open /\ Idle > 0
  /\ LET gone == {s \in db.open : IdleSession(s)} IN
     /\ gone # {}
     /\ Maintain([db EXCEPT !.open = @ \ gone, !.closed = @ \cup gone])

CompleteRun == db.run.open /\ Maintain([db EXCEPT !.run = NoRun])

TakeBackup ==
  /\ snapshot = <<>>
  /\ snapshot' = <<[db |-> db, stored |-> stored, paused |-> paused]>>
  /\ UNCHANGED <<clockVars, db, journal, process, flight, history, deadline>>

\* What must be inspected or attested: every hold of the backup (here, that of
\* each unfinished attempt), the old installation, and the gap since the backup.
Required(d) == {"old_installation", "gap"} \cup {c \in Clients : d.leases[c] # 0}

\* An invalidation that closes the sessions and leaves the credentials.
InvalidatedKeepingCredentials(d) ==
  [Expire(d) EXCEPT !.restores = db.restores + 1, !.reconciling = TRUE,
                    !.required = Required(d)]

\* invalidate_restored_state: what the backup authorized is void.
Invalidated(d) ==
  [Expire(d) EXCEPT !.restores = db.restores + 1, !.reconciling = TRUE,
                    !.required = Required(d),
                    !.revoked = @ \cup d.credentials, !.open = {}, !.closed = @ \cup d.open]

\* The service is stopped, the backup put in place, invalidated and served.
RestoreBackup ==
  /\ snapshot # <<>> /\ db.restores < MaxRestores
  /\ db' = Invalidated(snapshot[1].db)
  /\ stored' = Later(snapshot[1].stored, Raw)
  /\ paused' = (snapshot[1].paused \/ Raw + Tolerance < snapshot[1].stored)
  /\ incident' = IF paused' /\ ~snapshot[1].paused THEN incident + 1 ELSE incident
  /\ runtime' = Started(stored')
  /\ deadline' = [c \in Clients |-> MaxElapsed + Lease]
  /\ UNCHANGED <<elapsed, skew, snapshot, journal, process, flight, history>>

\* A step of the reconciliation, by an administrator of the restored service.
ReconcileRestore(d) ==
  /\ db.reconciling /\ ~Rollback
  /\ db' = d
  /\ CommitSample
  /\ UNCHANGED <<snapshot, journal, process, flight, history, deadline>>

\* inspect_hold and attest: each requirement is answered once.
Attest(item) == item \in db.required /\ ReconcileRestore([db EXCEPT !.required = @ \ {item}])

FinishRestore ==
  /\ db.required = {}
  /\ ReconcileRestore([db EXCEPT !.reconciling = FALSE])

\* The service starts again on its own database.
Restart ==
  /\ OpenService
  /\ deadline' = [c \in Clients |-> MaxElapsed + Lease]
  /\ UNCHANGED <<db, snapshot, journal, process, flight, history>>

Step ==
  \/ \E c \in Clients, op \in Operations : Save(c, op)
  \/ \E c \in Clients : Retry(c) \/ Send(c) \/ GiveUp(c) \/ Receive(c) \/ ReplaceSession(c)
                        \/ IssueCredential(c) \/ RegisterSession(c)
  \/ \E r \in flight : Handle(r)
  \/ Read \/ Recover \/ (\E i \in 1..incident : Reconcile(i))
  \/ RunBatch \/ CloseIdle \/ CompleteRun
  \/ RestoreBackup \/ (\E i \in db.required : Attest(i)) \/ FinishRestore
  \/ Elapse /\ UNCHANGED deliveryVars

Event ==
  \/ Restart \/ BeginRun \/ TakeBackup
  \/ \E s \in Skews : StepWallClock(s) /\ UNCHANGED deliveryVars

Next ==
  \/ Step /\ UNCHANGED events
  \/ /\ Event
     /\ events < MaxEvents /\ \A c \in Clients : Len(journal[c].saved) + events < MaxChanges
     /\ events' = events + 1

Spec == Init /\ [][Next]_vars

---------------------------------------------------------------------------
(* Properties.                                                               *)

TypeOK ==
  /\ ClockTypeOK
  /\ \A c \in Clients : journal[c].pending \in 0..Len(journal[c].saved)
  /\ \A k \in DOMAIN db.receipts : db.receipts[k].created <= stored
  /\ \A r \in flight : r.key \in 1..Len(journal[r.client].saved)
  /\ effects \in [Keys -> Nat]

\* load_receipt, finish: whatever is retried, delivered late, compacted or restored,
\* one saved mutation takes effect at most once, lost history included.
AtMostOnce == \A k \in Keys : effects[k] <= 1

\* prepare, persist_and_send: a mutation that took effect without its client having
\* been told is the one its client will retry; no crash or refusal loses it.
UncertainIsPending ==
  \A c \in Clients, n \in 1..MaxKeys :
    effects[<<c, n>>] > 0 /\ concluded[<<c, n>>] = "none" => journal[c].pending = n

\* An answer on which client c stops retrying is given: its operation did not happen.
GivesUp(c) ==
  /\ process[c].at = "waiting" /\ process'[c].at = "answered" /\ process'[c].answer # "ok"
  /\ Definitive(c, journal[c].saved[process[c].key], process'[c].answer)

\* dispatch ("tool errors may follow a committed effect"): the transport is never
\* made to give up on a mutation that has taken effect.
TransportGivesUpSafely ==
  [][\A c \in Mcps : GivesUp(c) => effects[<<c, process[c].key>>] = 0]_vars

\* invalidate_restored_state: nothing saved before a restore takes effect after it.
OldAuthorityIsVoid ==
  [][\A k \in Keys : effects'[k] > effects[k] => born[k] = db.restores]_vars

\* sample_clock: while one process serves, no step of the wall clock, however far,
\* lets a lease outlive the true time it was granted for.
LeaseNotExtended ==
  \A c \in Clients : db.leases[c] > SafeNow /\ ~Rollback => elapsed < deadline[c]

\* sample_clock, authority, invalidate_restored_state: nobody owns work while the
\* service is paused by its clock or by a restore.
PausedIsQuiet == paused \/ db.reconciling => \A c \in Clients : db.leases[c] = 0

\* begin_run, compact_receipts: a result is only dropped once a retry would be told
\* that its window had ended anyway.
CompactedIsExpired ==
  \A k \in DOMAIN db.receipts : db.receipts[k].compacted =>
    SafeNow - db.receipts[k].created > Retention

\* IDLE_SQL: an idle close never takes the session from under an active attempt.
OwnerHasSession ==
  \A c \in Clients : db.leases[c] # 0 => \E s \in db.open : s[1] = c

\* A mutation happens once and its client learns of it (mutation.rs, journal.rs).
MutationsSound == TypeOK /\ AtMostOnce /\ UncertainIsPending /\ CompactedIsExpired

\* Work is owned no longer than granted, by an open session, and never while the service
\* is paused (state.rs, session_idle.rs, restore.rs).
AuthoritySound == LeaseNotExtended /\ PausedIsQuiet /\ OwnerHasSession

\* No request is given up after it took effect, and none takes effect after the restore
\* that voided it (server.rs of the transport, restore.rs).
NothingComesLate == TransportGivesUpSafely /\ OldAuthorityIsVoid
=============================================================================
