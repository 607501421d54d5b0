----------------------------- MODULE Artifacts -----------------------------
(***************************************************************************)
(* Uploaded artifacts, their cleanup, and the backups that copy them        *)
(* (crates/server/src/artifacts.rs, backup.rs; the client's side of an      *)
(* upload is crates/cli/src/artifact_transfer.rs).                          *)
(* A row in the database and a blob on disk are written by separate steps:  *)
(* no transaction is held while a body is received or a file is removed.    *)
(* A lock file per artifact orders uploads, retention changes, deletions    *)
(* and cleanup; a shared advisory lock holds cleanup off during a backup.   *)
(* A process that dies leaves its lock files.  Others take over one that is *)
(* old, in steps: they look at it, remove it by its path and create their   *)
(* own; so do the sweep of old files and the end of a holder.  A live       *)
(* holder is assumed to end before its own lock file is old.                *)
(* Every artifact has size one, and its storage key is the artifact itself. *)
(***************************************************************************)
EXTENDS Naturals, FiniteSets

CONSTANTS
    Uploads,           \* the artifacts that may be reserved
    Handlers,          \* concurrent request handlers and cleanup passes
    Quota,             \* config.artifact_quota_bytes, in artifacts
    MaxTime,           \* bound: service time
    ReservationLife,   \* RESERVATION_LIFETIME_MS
    RetentionLife,     \* the retention a request may ask for
    MaxRestores,       \* bound: restores
    Nobody             \* no holder, no artifact, no snapshot

VARIABLES
    row,        \* artifact -> [state, expires, until]
    blobs,      \* artifacts whose content is in the blob store
    parts,      \* artifacts with a staged, unpublished body
    lock,       \* artifact -> who made its lock file, "left" when dead, or Nobody
    handler,    \* handler -> [pc, of, goal, at, rest]
    serviceTime,\* the service clock
    saved,      \* clock_state.last_safe_time_ms, the time of the last mutation
    backup,     \* the running backup: [pc, at, image]
    snapshot,   \* the last published snapshot, or Nobody
    broken,     \* history: some backup found a listed blob missing
    hollow,     \* history: artifacts renewed after their content was removed
    renewed,    \* history: artifacts renewed after they had lapsed
    overtaken,  \* history: artifacts whose lock file went while its holder still worked
    transfer,   \* artifact -> the client's saved intent: none, saved, done
    payload,    \* artifacts whose body the client still keeps
    restores

artifactVars == <<row, blobs, parts, lock, handler, serviceTime, saved, backup, snapshot,
                  broken, hollow, renewed, overtaken, transfer, payload, restores>>

clock == <<serviceTime, saved>>
disk == <<blobs, parts>>
client == <<transfer, payload>>
history == <<hollow, renewed, overtaken>>
archive == <<backup, snapshot, broken, restores>>

Forever == MaxTime + 10 \* a pinned artifact has no deadline

Later(a, b) == IF a > b THEN a ELSE b
Sooner(a, b) == IF a < b THEN a ELSE b

Absent == [state |-> "absent", expires |-> 0, until |-> 0]
Idle == [pc |-> "idle", of |-> Nobody, goal |-> "none", at |-> 0, rest |-> {}]
NoBackup == [pc |-> "idle", at |-> 0, image |-> Nobody]

ArtifactsInit ==
    /\ row = [a \in Uploads |-> Absent]
    /\ blobs = {} /\ parts = {}
    /\ lock = [a \in Uploads |-> Nobody]
    /\ handler = [h \in Handlers |-> Idle]
    /\ serviceTime = 0 /\ saved = 0
    /\ backup = NoBackup /\ snapshot = Nobody /\ broken = FALSE
    /\ hollow = {} /\ renewed = {} /\ overtaken = {}
    /\ transfer = [a \in Uploads |-> "none"] /\ payload = {}
    /\ restores = 0

----------------------------------------------------------------------------
(* What a row says at a time *)

LiveReservation(rows, a, now) == rows[a].state = "reserved" /\ rows[a].expires > now

LiveUpload(rows, a, now) == rows[a].state = "finalized" /\ rows[a].until > now

\* The rows whose content cleanup may remove.
Unavailable(a, now) ==
    \/ row[a].state = "deleted"
    \/ row[a].state = "reserved" /\ row[a].expires <= now
    \/ row[a].state = "finalized" /\ row[a].until <= now

\* What counts against the quota.
Used(rows, now) ==
    {a \in Uploads : LiveReservation(rows, a, now) \/ LiveUpload(rows, a, now)}

----------------------------------------------------------------------------
(* The artifact's lock file *)

At(h, pc) == handler[h].pc = pc

Goes(h, pc) == handler' = [handler EXCEPT ![h].pc = pc]

\* Where a handler keeps an UploadLock.
Holding == {"recheck", "remove", "locked", "staged", "published", "retention", "delete",
            "tombstoned"}

\* UploadLock::drop removes the file by its path, whoever made the one that is there.
Dropped(h) ==
    IF handler[h].pc \in Holding THEN [lock EXCEPT ![handler[h].of] = Nobody] ELSE lock

\* A request or a pass returns.
Return(h) ==
    /\ handler' = [handler EXCEPT ![h] = Idle]
    /\ lock' = Dropped(h)

\* A pass turns to the next artifact.
Resume(h) ==
    /\ handler' = [handler EXCEPT ![h].pc = "pass", ![h].of = Nobody, ![h].goal = "none"]
    /\ lock' = Dropped(h)

\* acquire_upload_lock, for what the handler is to do with the lock.
Seeks(h, a, goal) == [handler[h] EXCEPT !.pc = "lock", !.of = a, !.goal = goal]

\* The file is created, at the first attempt or after a stale one was removed.
CreateLock(h) ==
    LET a == handler[h].of IN
    /\ handler[h].pc \in {"lock", "again"} /\ lock[a] = Nobody
    /\ lock' = [lock EXCEPT ![a] = h]
    /\ handler' = [handler EXCEPT ![h].pc = handler[h].goal, ![h].goal = "none"]
    /\ UNCHANGED <<row, clock, disk, archive, history, client>>

\* It is created but not completed: the error leaves it behind, held by nobody.
CreateLockFails(h) ==
    LET a == handler[h].of IN
    /\ handler[h].pc \in {"lock", "again"} /\ lock[a] = Nobody
    /\ lock' = [lock EXCEPT ![a] = "left"]
    /\ handler' = [handler EXCEPT ![h] = Idle]
    /\ UNCHANGED <<row, clock, disk, archive, history, client>>

\* There is a file that is not old: a pass skips the artifact, a request is refused.
RefuseLock(h) ==
    /\ At(h, "lock") /\ lock[handler[h].of] # Nobody
    /\ IF handler[h].goal = "recheck" THEN Resume(h) ELSE Return(h)
    /\ UNCHANGED <<row, clock, disk, archive, history, client>>

\* The file is old, so its maker is dead.
SeeStaleLock(h) ==
    /\ At(h, "lock") /\ lock[handler[h].of] = "left"
    /\ Goes(h, "takeover")
    /\ UNCHANGED <<row, lock, clock, disk, archive, history, client>>

\* A file is removed by its path: it may by now be another, live holder's.
RemoveLockFile(a) ==
    /\ lock' = [lock EXCEPT ![a] = Nobody]
    /\ overtaken' = IF lock[a] \in Handlers THEN overtaken \cup {a} ELSE overtaken

TakeOver(h) ==
    /\ At(h, "takeover")
    /\ RemoveLockFile(handler[h].of)
    /\ Goes(h, "again")
    /\ UNCHANGED <<row, clock, disk, archive, hollow, renewed, client>>

\* Somebody else has created one meanwhile: an error, which ends a pass too.
CreateAgainFails(h) ==
    /\ At(h, "again") /\ lock[handler[h].of] # Nobody
    /\ Return(h)
    /\ UNCHANGED <<row, clock, disk, archive, history, client>>

----------------------------------------------------------------------------
(* One bounded cleanup pass; the service runs one at startup and before it  *)
(* reserves an upload, and maintenance runs one per batch.                  *)

StartPass(h) ==
    /\ At(h, "idle")
    /\ handler' = [handler EXCEPT ![h] = [Idle EXCEPT !.pc = "pass", !.at = serviceTime,
                     !.rest = {a \in Uploads : Unavailable(a, serviceTime)}]]
    /\ UNCHANGED <<row, lock, clock, disk, archive, history, client>>

\* Mutated form: cleanup goes on without the artifact's lock.
LockListedNot(h) ==
    /\ At(h, "pass")
    /\ \E a \in handler[h].rest :
         handler' = [handler EXCEPT ![h].rest = @ \ {a}, ![h].pc = "recheck", ![h].of = a]
    /\ UNCHANGED <<row, lock, clock, disk, archive, history, client>>

\* cleanup_if_still_unavailable, for the next listed artifact.
LockListed(h) ==
    /\ At(h, "pass")
    /\ \E a \in handler[h].rest :
         handler' = [handler EXCEPT ![h] = [Seeks(h, a, "recheck") EXCEPT !.rest = @ \ {a}]]
    /\ UNCHANGED <<row, lock, clock, disk, archive, history, client>>

\* The row is read again, against the time the pass started with.
Recheck(h) ==
    /\ At(h, "recheck")
    /\ IF Unavailable(handler[h].of, handler[h].at)
         THEN Goes(h, "remove") /\ UNCHANGED lock
         ELSE Resume(h)
    /\ UNCHANGED <<row, clock, disk, archive, history, client>>

\* Mutated form: cleanup does not ask for the exclusive guard.
RemoveFilesAnyway(a) == blobs' = blobs \ {a} /\ parts' = parts \ {a}

\* cleanup_artifact_files: both files go, unless a backup holds the shared guard.
RemoveFiles(a) ==
    IF backup.pc = "idle"
      THEN blobs' = blobs \ {a} /\ parts' = parts \ {a}
      ELSE UNCHANGED disk

RemoveListed(h) ==
    /\ At(h, "remove")
    /\ RemoveFiles(handler[h].of)
    /\ Resume(h)
    /\ UNCHANGED <<row, clock, archive, history, client>>

\* The sweep of the staging directory looks at the age of a file, then removes it by
\* its path: a lock that a dead holder left, or a part that nobody holding the lock
\* works on.
SeeOldFile(h, a) ==
    /\ At(h, "pass") /\ handler[h].rest = {}
    /\ \E file \in {"lock", "part"} :
         /\ IF file = "lock" THEN lock[a] = "left" ELSE a \in parts /\ lock[a] \notin Handlers
         /\ handler' = [handler EXCEPT ![h].pc = "sweeping", ![h].of = a, ![h].goal = file]
    /\ UNCHANGED <<row, lock, clock, disk, archive, history, client>>

SweepFile(h) ==
    LET a == handler[h].of IN
    /\ At(h, "sweeping")
    /\ IF handler[h].goal = "lock"
         THEN RemoveLockFile(a) /\ UNCHANGED parts
         ELSE parts' = parts \ {a} /\ UNCHANGED <<lock, overtaken>>
    /\ handler' = [handler EXCEPT ![h].pc = "pass", ![h].of = Nobody, ![h].goal = "none"]
    /\ UNCHANGED <<row, blobs, clock, archive, hollow, renewed, client>>

EndSweep(h) ==
    /\ At(h, "pass") /\ handler[h].rest = {}
    /\ Goes(h, "swept")
    /\ UNCHANGED <<row, lock, clock, disk, archive, history, client>>

EndPass(h) ==
    /\ At(h, "swept")
    /\ handler' = [handler EXCEPT ![h] = Idle]
    /\ UNCHANGED <<row, lock, clock, disk, archive, history, client>>

----------------------------------------------------------------------------
(* Reserving and uploading *)

\* Mutated form: only finalized uploads are counted.
FitsQuotaFinalized ==
    Cardinality({a \in Uploads : LiveUpload(row, a, serviceTime)}) < Quota

\* Room under the quota for one more live upload.
FitsQuota == Cardinality(Used(row, serviceTime)) < Quota

\* reserve_upload, whose cleanup pass has just ended.
ReserveUpload(h, a, until) ==
    /\ At(h, "swept")
    /\ row[a].state = "absent"
    /\ FitsQuota
    /\ saved' = serviceTime
    /\ row' = [row EXCEPT ![a] = [state |-> "reserved",
                 expires |-> serviceTime + ReservationLife, until |-> until]]
    /\ handler' = [handler EXCEPT ![h] = Idle]
    /\ UNCHANGED <<lock, serviceTime, disk, archive, history, client>>

\* upload's first reads, before it asks for the lock: the client still keeps its body.
StartUpload(h, a) ==
    /\ At(h, "idle")
    /\ transfer[a] = "saved" /\ a \in payload
    /\ \/ LiveReservation(row, a, serviceTime)
       \/ LiveUpload(row, a, serviceTime) /\ a \in blobs
    /\ handler' = [handler EXCEPT ![h] = Seeks(h, a, "locked")]
    /\ UNCHANGED <<row, lock, clock, disk, archive, history, client>>

\* The body arrives: staged whole and verified, or the part is removed.
Stage(h) ==
    /\ At(h, "locked")
    /\ \/ parts' = parts \cup {handler[h].of} /\ Goes(h, "staged") /\ UNCHANGED lock
       \/ parts' = parts \ {handler[h].of} /\ Return(h)
    /\ UNCHANGED <<row, blobs, clock, archive, history, client>>

\* Mutated form: the database is committed before the blob is published.
PublishLate(h) ==
    LET a == handler[h].of IN
    /\ At(h, "staged")
    /\ IF LiveReservation(row, a, serviceTime)
         THEN /\ row' = [row EXCEPT ![a].state = "finalized", ![a].expires = 0]
              /\ saved' = serviceTime
         ELSE UNCHANGED <<row, saved>>
    /\ Goes(h, "published")
    /\ UNCHANGED <<lock, serviceTime, disk, archive, history, client>>

\* The part is renamed to the blob, or dropped when the blob is there already; an error
\* when somebody has removed the part.
Publish(h) ==
    LET a == handler[h].of IN
    /\ At(h, "staged")
    /\ IF a \in parts
         THEN blobs' = blobs \cup {a} /\ parts' = parts \ {a} /\ Goes(h, "published") /\ UNCHANGED lock
         ELSE UNCHANGED disk /\ Return(h)
    /\ UNCHANGED <<row, clock, archive, history, client>>

\* The mutation at the end of an upload; it may find the reservation gone.
Finalize(h) ==
    LET a == handler[h].of IN
    /\ At(h, "published")
    /\ IF LiveReservation(row, a, serviceTime)
         THEN /\ row' = [row EXCEPT ![a].state = "finalized", ![a].expires = 0]
              /\ saved' = serviceTime
         ELSE UNCHANGED <<row, saved>>
    /\ Return(h)
    /\ UNCHANGED <<serviceTime, disk, archive, history, client>>

----------------------------------------------------------------------------
(* Retention and deletion *)

StartChange(h, a, op) ==
    /\ At(h, "idle")
    /\ row[a].state # "absent"
    /\ handler' = [handler EXCEPT ![h] = Seeks(h, a, op)]
    /\ UNCHANGED <<row, lock, clock, disk, archive, history, client>>

\* update_retention: whatever is not deleted may be renewed, lapsed or not.
UpdateRetention(h, until) ==
    LET a == handler[h].of IN
    /\ At(h, "retention")
    /\ IF row[a].state = "deleted"
         THEN UNCHANGED <<row, saved, history>>
         ELSE /\ row' = [row EXCEPT ![a].until = until] /\ saved' = serviceTime
              /\ renewed' = IF row[a].state = "finalized" /\ row[a].until <= serviceTime
                              THEN renewed \cup {a} ELSE renewed
              /\ hollow' = IF row[a].state = "finalized" /\ a \notin blobs
                             THEN hollow \cup {a} ELSE hollow
    /\ Return(h)
    /\ UNCHANGED <<serviceTime, disk, archive, overtaken, client>>

\* delete_artifact: the tombstone first; a retried request only cleans up again.
DeleteArtifact(h) ==
    /\ At(h, "delete")
    /\ saved' = serviceTime
    /\ row' = [row EXCEPT ![handler[h].of].state = "deleted"]
    /\ Goes(h, "tombstoned")
    /\ UNCHANGED <<lock, serviceTime, disk, archive, history, client>>

CleanDeleted(h) ==
    /\ At(h, "tombstoned")
    /\ RemoveFiles(handler[h].of)
    /\ Return(h)
    /\ UNCHANGED <<row, clock, archive, history, client>>

----------------------------------------------------------------------------
(* Time, disconnected requests and a dead service *)

Tick ==
    /\ serviceTime < MaxTime
    /\ serviceTime' = serviceTime + 1
    /\ UNCHANGED <<saved, row, lock, handler, disk, archive, history, client>>

\* A disconnected request is dropped where it waits, with its lock.
Disconnect(h) ==
    /\ ~At(h, "idle") /\ ~At(h, "abandoned")
    /\ Return(h)
    /\ UNCHANGED <<row, clock, disk, archive, history, client>>

\* The removal of the content was handed to a thread, which goes on without the lock and
\* the guard.  (A body's late rename only puts back a blob that no live row lacks; a
\* commit is taken to end before the lock file is gone.)
Abandon(h) ==
    /\ handler[h].pc \in {"remove", "tombstoned"} /\ backup.pc = "idle"
    /\ Goes(h, "abandoned")
    /\ lock' = Dropped(h)
    /\ overtaken' = overtaken \cup {handler[h].of}
    /\ UNCHANGED <<row, clock, disk, archive, hollow, renewed, client>>

RemoveAbandoned(h) ==
    /\ At(h, "abandoned")
    /\ blobs' = blobs \ {handler[h].of}
    /\ handler' = [handler EXCEPT ![h] = Idle]
    /\ UNCHANGED <<row, lock, parts, clock, archive, history, client>>

Crash ==
    /\ \E h \in Handlers : ~At(h, "idle")
    /\ handler' = [h \in Handlers |-> Idle]
    /\ lock' = [a \in Uploads |-> IF lock[a] = Nobody THEN Nobody ELSE "left"]
    /\ UNCHANGED <<row, clock, disk, archive, history, client>>

----------------------------------------------------------------------------
(* The client's saved upload *)

\* upload_at without a saved intent: the body is copied, then the row is read.
TakePayload(a) ==
    /\ transfer[a] = "none"
    /\ payload' = payload \cup {a}
    /\ UNCHANGED <<row, lock, handler, clock, disk, archive, history, transfer>>

SaveIntent(a) ==
    /\ transfer[a] = "none" /\ a \in payload
    /\ IF LiveReservation(row, a, serviceTime) \/ row[a].state = "finalized"
         THEN transfer' = [transfer EXCEPT ![a] = "saved"] /\ UNCHANGED payload
         ELSE payload' = payload \ {a} /\ UNCHANGED transfer
    /\ UNCHANGED <<row, lock, handler, clock, disk, archive, history>>

\* The reply to the upload, or a later read of the row, says it is finalized.
SaveCompleted(a) ==
    /\ transfer[a] = "saved"
    /\ row[a].state = "finalized"
    /\ transfer' = [transfer EXCEPT ![a] = "done"]
    /\ UNCHANGED <<row, lock, handler, clock, disk, archive, history, payload>>

\* Mutated form: the saved body goes before the completion is saved.
CleanPayloadEarly(a) ==
    /\ transfer[a] \in {"saved", "done"} /\ row[a].state = "finalized"
    /\ payload' = payload \ {a}
    /\ UNCHANGED <<row, lock, handler, clock, disk, archive, history, transfer>>

\* cleanup_payload follows the saved completion, at once or in a later call.
CleanPayload(a) ==
    /\ transfer[a] = "done"
    /\ payload' = payload \ {a}
    /\ UNCHANGED <<row, lock, handler, clock, disk, archive, history, transfer>>

----------------------------------------------------------------------------
(* Backup and restore *)

\* create_backup: the guard is held before the snapshot's time is read.
StartBackup ==
    /\ backup.pc = "idle"
    /\ backup' = [pc |-> "guarded", at |-> serviceTime, image |-> Nobody]
    /\ UNCHANGED <<row, lock, handler, clock, disk, snapshot, broken, restores, history, client>>

\* VACUUM INTO: one consistent image of the database.
CopyDatabase ==
    /\ backup.pc = "guarded"
    /\ backup' = [backup EXCEPT !.pc = "imaged",
         !.image = [rows |-> row, saved |-> saved, hollow |-> hollow, renewed |-> renewed]]
    /\ UNCHANGED <<row, lock, handler, clock, disk, snapshot, broken, restores, history, client>>

\* The uploads the manifest lists.
Listed(image, at) == {a \in Uploads : LiveUpload(image.rows, a, at)}

\* Their contents are copied and the snapshot is published, or it all fails.
CopyBlobs ==
    LET named == Listed(backup.image, backup.at) IN
    /\ backup.pc = "imaged"
    /\ IF named \subseteq blobs
         THEN /\ snapshot' = [image |-> backup.image, at |-> backup.at, files |-> named]
              /\ UNCHANGED broken
         ELSE /\ broken' = (broken \/ ~(named \ (backup.image.hollow \cup overtaken) \subseteq blobs))
              /\ UNCHANGED snapshot
    /\ backup' = NoBackup
    /\ UNCHANGED <<row, lock, handler, clock, disk, restores, history, client>>

\* The backup process ends early; the system releases its guard.
AbandonBackup ==
    /\ backup.pc # "idle"
    /\ backup' = NoBackup
    /\ UNCHANGED <<row, lock, handler, clock, disk, snapshot, broken, restores, history, client>>

\* Mutated form: the host's wall clock is taken as it is.
RestoredTimeWall(wall) == wall

\* The clock of restored data starts no earlier than the snapshot's time and the time
\* its database had stored.
RestoredTime(wall) == Later(wall, Later(snapshot.at, snapshot.image.saved))

\* verify_snapshot_files: the manifest lists exactly what the snapshot holds.
Verified == snapshot.files = Listed(snapshot.image, snapshot.at)

\* restore_backup into a fresh directory; live reservations lapse.
RestoreBackup(wall) ==
    /\ snapshot # Nobody /\ restores < MaxRestores /\ backup.pc = "idle"
    /\ Verified
    /\ restores' = restores + 1
    /\ serviceTime' = RestoredTime(wall) /\ saved' = serviceTime'
    /\ row' = [a \in Uploads |->
         IF snapshot.image.rows[a].state = "reserved"
           THEN [snapshot.image.rows[a] EXCEPT !.expires = Sooner(@, serviceTime')]
           ELSE snapshot.image.rows[a]]
    /\ blobs' = snapshot.files /\ parts' = {}
    /\ lock' = [a \in Uploads |-> Nobody]
    /\ handler' = [h \in Handlers |-> Idle]
    /\ hollow' = snapshot.image.hollow /\ renewed' = snapshot.image.renewed /\ overtaken' = {}
    /\ UNCHANGED <<backup, snapshot, broken, client>>

----------------------------------------------------------------------------

Times == {Forever} \cup {serviceTime + life : life \in RetentionLife}

LockNext ==
    \E h \in Handlers :
        \/ CreateLock(h) \/ CreateLockFails(h) \/ RefuseLock(h)
        \/ SeeStaleLock(h) \/ TakeOver(h) \/ CreateAgainFails(h)

CleanupNext ==
    \E h \in Handlers :
        \/ StartPass(h) \/ LockListed(h) \/ Recheck(h) \/ RemoveListed(h)
        \/ \E a \in Uploads : SeeOldFile(h, a)
        \/ SweepFile(h) \/ EndSweep(h) \/ EndPass(h)

UploadNext ==
    \/ \E h \in Handlers, a \in Uploads : \E until \in Times : ReserveUpload(h, a, until)
    \/ \E h \in Handlers, a \in Uploads : StartUpload(h, a)
    \/ \E h \in Handlers : Stage(h) \/ Publish(h) \/ Finalize(h)

StopNext ==
    \/ \E h \in Handlers : Disconnect(h) \/ Abandon(h) \/ RemoveAbandoned(h)
    \/ Crash

ChangeNext ==
    \/ \E h \in Handlers, a \in Uploads : \E op \in {"retention", "delete"} : StartChange(h, a, op)
    \/ \E h \in Handlers : (\E until \in Times : UpdateRetention(h, until)) \/ DeleteArtifact(h) \/ CleanDeleted(h)

ClientNext ==
    \E a \in Uploads : TakePayload(a) \/ SaveIntent(a) \/ SaveCompleted(a) \/ CleanPayload(a)

BackupNext ==
    \/ StartBackup \/ CopyDatabase \/ CopyBlobs \/ AbandonBackup
    \/ \E wall \in 0..MaxTime : RestoreBackup(wall)

ArtifactsNext ==
    LockNext \/ CleanupNext \/ UploadNext \/ ChangeNext \/ StopNext \/ ClientNext \/ BackupNext \/ Tick

----------------------------------------------------------------------------

\* A live finalized upload has its content on disk, unless it was renewed after
\* cleanup had removed the content, or its lock file was removed while the holder still
\* worked: no other race of cleanup with an upload or a retention change, no crash,
\* disconnection, backup or restore loses it.
LiveHasContent ==
    \A a \in Uploads \ (hollow \cup overtaken) : LiveUpload(row, a, serviceTime) => a \in blobs

\* What the documentation says of the lock: it prevents cleanup racing a retention change,
\* so that only an upload renewed after its content had gone lacks it.
LockKeepsContent ==
    \A a \in Uploads \ hollow : LiveUpload(row, a, serviceTime) => a \in blobs

\* Uploads and live reservations stay under the quota, except for those whose
\* retention was renewed after it had lapsed: a renewal is not counted.
QuotaHeld == Cardinality(Used(row, serviceTime) \ renewed) <= Quota

\* A backup never fails because of cleanup: every upload its database image
\* lists as live is still on disk when its content is copied.
BackupFindsContent == ~broken

\* As long as the client has not saved that an upload completed, it keeps the
\* body, so that the same bytes can be sent again.
TransferResumable == \A a \in Uploads : transfer[a] = "saved" => a \in payload

ArtifactsSound == LiveHasContent /\ QuotaHeld /\ BackupFindsContent /\ TransferResumable
=============================================================================
