--------------------------------- MODULE Guardian --------------------------------
(***************************************************************************)
(* The guardian of one producer job on an agent's workstation              *)
(* (crates/local/src/lib.rs, persist.rs): a detached process that launches *)
(* the producer at most once, watches it, and delivers its observations to *)
(* the service through an outbox that survives crashes.                     *)
(*                                                                         *)
(* The guardian keeps its job in a state file that is replaced atomically   *)
(* (save) and in an append-only journal.  commit_event appends to the        *)
(* journal and then saves, in two steps a crash may separate; persist_state  *)
(* only saves.  Both advance a revision, and recovery replays the events     *)
(* whose revision exceeds the saved one.  As every save absorbs the events   *)
(* before it, the model keeps the events beyond the saved revision in place  *)
(* of the numbers; an event torn by a crash is unreadable and never was one.  *)
(*                                                                         *)
(* The control of the process is a stack of continuations: the head of todo  *)
(* is the step it takes next, and the process is down when it is empty.      *)
(***************************************************************************)
EXTENDS Integers, Sequences, SequencesExt

CONSTANTS MaxSequence  \* observations beyond which no heartbeat is enqueued

ASSUME MaxSequenceAssumption == MaxSequence \in Nat

VARIABLES
  disk,      \* the saved StoredJob
  journal,   \* journal events newer than the saved state
  mem,       \* the StoredJob of the process that holds the job's lock
  todo,      \* what that process does next
  mode,      \* GuardianMode of the last guardian
  producer,  \* what the operating system knows of the producer
  launches,  \* how often a producer was spawned
  wire,      \* observations ever sent: any may arrive, late and repeatedly
  server,    \* the service's job row and accepted observations
  leased,    \* the service would still grant launch authority
  revoked    \* the reporter expired or its credential was revoked

vars == <<disk, journal, mem, todo, mode, producer, launches, wire, server, leased, revoked>>
environment == <<producer, launches, wire, server, leased, revoked>>

Terminal == {"succeeded", "failed", "not_started"}
Phases == {"absent", "prepared", "registered", "launch_intent", "running", "unknown"} \cup Terminal
Modes == {"run", "observe"}
Steps == {"save", "flush", "await", "renew", "dispatch", "authority", "prepare", "spawn",
          "capture", "watch", "observe"}

\* process: the observation carries a pid and a start identity.
Observation == [seq : Nat, state : Phases, process : BOOLEAN]

\* identified: the producer's process identity was captured; disabled: reporting
\* was refused for good; renewal: the reporter still extends the lease.
StoredJob == [phase : Phases, identified : BOOLEAN, next : Nat, outbox : Seq(Observation),
              disabled : BOOLEAN, renewal : BOOLEAN]

\* A journal event sets the phase; all but the launch intent carry the observation
\* they enqueued, and a registration the reporter it installed.
Event == [phase : Phases, obs : Seq(Observation), renewal : BOOLEAN]

NoJob == [phase |-> "absent", identified |-> FALSE, next |-> 1, outbox |-> <<>>,
          disabled |-> FALSE, renewal |-> FALSE]

Init ==
  /\ disk = NoJob
  /\ journal = <<>>
  /\ mem = NoJob
  /\ todo = <<>>
  /\ mode = "run"
  /\ producer = "none"
  /\ launches = 0
  /\ wire = {}
  /\ server = [state |-> "registered", last |-> 0, launched |-> FALSE, seen |-> {}]
  /\ leased = TRUE
  /\ revoked = FALSE

---------------------------------------------------------------------------
(* Durable state.                                                           *)

\* The place of an observation in an outbox in sequence order, behind its equals.
Placed(outbox, o) ==
  LET before == CHOOSE k \in 0..Len(outbox) :
                  \A i \in 1..Len(outbox) : outbox[i].seq <= o.seq <=> i <= k
  IN SubSeq(outbox, 1, before) \o <<o>> \o SubSeq(outbox, before + 1, Len(outbox))

\* restore_observation: add what is missing, in sequence order.
RestoreObservation(job, o) ==
  [job EXCEPT !.next = IF o.seq >= @ THEN o.seq + 1 ELSE @,
              !.outbox = IF o \in Range(@) THEN @ ELSE Placed(@, o)]

Replay(job, e) ==
  LET replayed == [job EXCEPT !.phase = e.phase,
                              !.identified = @ \/ e.phase = "running",
                              !.renewal = IF e.phase = "registered" THEN e.renewal ELSE @]
  IN IF e.obs = <<>> THEN replayed ELSE RestoreObservation(replayed, Head(e.obs))

\* What recover reads back after a crash.  commit_event saves right after it
\* appends, and recovery saves what it replays: at most one event is ever newer
\* than the saved state (CrashLosesNothing checks it).
Durable == IF journal = <<>> THEN disk ELSE Replay(disk, Head(journal))

\* enqueue_observation.
Enqueue(job, state) ==
  [job EXCEPT !.next = @ + 1,
              !.outbox = Append(@, [seq |-> job.next, state |-> state,
                                    process |-> job.identified])]

\* commit_event: append to the journal, then save, then go on with rest.
Commit(job, obs, rest) ==
  /\ mem' = job
  /\ journal' = Append(journal, [phase |-> job.phase, obs |-> obs, renewal |-> job.renewal])
  /\ todo' = <<"save">> \o rest
  /\ UNCHANGED disk

\* The phase and its observation, committed together (apply_terminal, set_unknown).
CommitPhase(phase, rest) ==
  LET job == Enqueue([mem EXCEPT !.phase = phase], phase)
  IN Commit(job, <<Last(job.outbox)>>, rest)

\* persist_state.
Persist(job) ==
  /\ mem' = job
  /\ disk' = job
  /\ journal' = <<>>

At(step) == todo # <<>> /\ Head(todo) = step
Continue == todo' = Tail(todo)

\* The second half of commit_event.
Save ==
  /\ At("save")
  /\ Persist(mem)
  /\ Continue
  /\ UNCHANGED <<mode, environment>>

---------------------------------------------------------------------------
(* The CLI prepares the job and starts guardians (jobs run, jobs reconnect). *)

Initialize ==
  /\ todo = <<>>
  /\ disk.phase = "absent"
  /\ Persist([NoJob EXCEPT !.phase = "prepared"])
  /\ UNCHANGED <<todo, mode, environment>>

\* The service has registered the job; renewal is whether a harness is watched.
RecordRegistration(renewal) ==
  /\ todo = <<>>
  /\ Durable.phase = "prepared"
  /\ LET job == Enqueue([Durable EXCEPT !.phase = "registered", !.renewal = renewal],
                        "registered")
     IN Commit(job, <<Last(job.outbox)>>, <<>>)
  /\ UNCHANGED <<mode, environment>>

\* The lock admits one guardian; recovery saves what it replayed.
StartGuardian(m) ==
  /\ todo = <<>>
  /\ Durable.phase \notin {"absent", "prepared"}
  /\ Persist(Durable)
  /\ mode' = m
  /\ todo' = <<"flush", "dispatch">>
  /\ UNCHANGED environment

---------------------------------------------------------------------------
(* flush_reports and maybe_renew.                                            *)

\* Reporting is disabled, or no client could be built.
SkipFlush ==
  /\ At("flush")
  /\ Continue
  /\ UNCHANGED <<disk, journal, mem, mode, environment>>

Send ==
  /\ At("flush")
  /\ ~mem.disabled
  /\ mem.outbox # <<>>
  /\ wire' = wire \cup {Head(mem.outbox)}
  /\ todo' = <<"await">> \o Tail(todo)
  /\ UNCHANGED <<disk, journal, mem, mode, producer, launches, server, leased, revoked>>

\* The service's answer, to this delivery or to an earlier one of it.
Delivered ==
  /\ At("await")
  /\ Head(mem.outbox) \in server.seen
  /\ Persist([mem EXCEPT !.outbox = Tail(@)])
  /\ todo' = <<"flush">> \o Tail(todo)
  /\ UNCHANGED <<mode, environment>>

\* An answer of any kind takes the observation off the outbox.
UndeliveredDrops ==
  /\ At("await")
  /\ Persist([mem EXCEPT !.outbox = Tail(@)])
  /\ todo' = <<"renew">> \o Tail(todo)
  /\ UNCHANGED <<mode, environment>>

\* An undelivered observation is retried at once, before the producer is looked at.
UndeliveredRetries ==
  /\ At("await")
  /\ Persist(mem)
  /\ todo' = <<"flush">> \o Tail(todo)
  /\ UNCHANGED <<mode, environment>>

\* A later loop tries again.
Undelivered ==
  /\ At("await")
  /\ Persist(mem)
  /\ todo' = <<"renew">> \o Tail(todo)
  /\ UNCHANGED <<mode, environment>>

Forbidden ==
  /\ At("await")
  /\ revoked
  /\ Persist([mem EXCEPT !.disabled = TRUE])
  /\ Continue
  /\ UNCHANGED <<mode, environment>>

FlushDone ==
  /\ At("flush")
  /\ ~mem.disabled
  /\ mem.outbox = <<>>
  /\ todo' = <<"renew">> \o Tail(todo)
  /\ UNCHANGED <<disk, journal, mem, mode, environment>>

\* No renewal is due, or it was attempted and remains enabled.
KeepRenewal ==
  /\ At("renew")
  /\ Continue
  /\ UNCHANGED <<disk, journal, mem, mode, environment>>

\* An end of renewal that is only remembered.
EndRenewalInMemory ==
  /\ At("renew")
  /\ mem.renewal
  /\ mem' = [mem EXCEPT !.renewal = FALSE]
  /\ Continue
  /\ UNCHANGED <<disk, journal, mode, environment>>

\* The window closed, the harness exited, or the service refused.
EndRenewal ==
  /\ At("renew")
  /\ mem.renewal
  /\ Persist([mem EXCEPT !.renewal = FALSE])
  /\ Continue
  /\ UNCHANGED <<mode, environment>>

---------------------------------------------------------------------------
(* run_guardian: what to do with the recovered phase.                        *)

\* A guardian that takes an intent without a process for a launch to repeat.
MayLaunchAgain == mode = "run" /\ mem.phase \in {"registered", "launch_intent"}

\* A guardian that tries again what did not start.
MayLaunchUnstarted == mode = "run" /\ mem.phase \in {"registered", "not_started"}

MayLaunch == mode = "run" /\ mem.phase = "registered"

Dispatch ==
  /\ At("dispatch")
  /\ \/ /\ MayLaunch
        /\ todo' = <<"authority">>
        /\ UNCHANGED <<disk, journal, mem>>
     \/ /\ ~MayLaunch
        /\ mem.phase = "launch_intent"
        /\ CommitPhase("unknown", <<"flush">>)
     \/ /\ mem.phase = "running"
        /\ todo' = <<"flush", "observe">>
        /\ UNCHANGED <<disk, journal, mem>>
     \/ /\ ~MayLaunch
        /\ mem.phase \in Terminal \cup {"unknown"}
        /\ todo' = <<"flush">>
        /\ UNCHANGED <<disk, journal, mem>>
     \/ /\ ~MayLaunch
        /\ mem.phase = "registered"
        /\ todo' = <<>>
        /\ UNCHANGED <<disk, journal, mem>>
  /\ UNCHANGED <<mode, environment>>

---------------------------------------------------------------------------
(* launch_and_watch.                                                         *)

\* check_launch_authority: the service's view now (reporter_can_launch).
Allowed ==
  /\ At("authority")
  /\ server.state = "registered" /\ leased /\ ~revoked
  /\ todo' = <<"prepare">>
  /\ UNCHANGED <<disk, journal, mem, mode, environment>>

\* Refused, bound to other identities, or too little of the lease remains.
Denied ==
  /\ At("authority")
  /\ CommitPhase("not_started", <<"flush">>)
  /\ UNCHANGED <<mode, environment>>

\* No usable answer: persist the error and leave the job registered.
Uncertain ==
  /\ At("authority")
  /\ Persist(mem)
  /\ todo' = <<>>
  /\ UNCHANGED <<mode, environment>>

\* The snapshot changed, or the logs cannot be prepared.
Unprepared ==
  /\ At("prepare")
  /\ CommitPhase("not_started", <<"flush">>)
  /\ UNCHANGED <<mode, environment>>

Intend ==
  /\ At("prepare")
  /\ Commit([mem EXCEPT !.phase = "launch_intent"], <<>>, <<"spawn">>)
  /\ UNCHANGED <<mode, environment>>

\* The authority's deadline passed, or the operating system refused.
NotSpawned ==
  /\ At("spawn")
  /\ CommitPhase("not_started", <<"flush">>)
  /\ UNCHANGED <<mode, environment>>

Spawn ==
  /\ At("spawn")
  /\ producer' = "running"
  /\ launches' = launches + 1
  /\ todo' = <<"capture">> \o Tail(todo)
  /\ UNCHANGED <<disk, journal, mem, mode, wire, server, leased, revoked>>

Captured ==
  /\ At("capture")
  /\ producer = "running"
  /\ LET job == Enqueue([mem EXCEPT !.phase = "running", !.identified = TRUE], "running")
     IN Commit(job, <<Last(job.outbox)>>, <<"flush", "watch">>)
  /\ UNCHANGED <<mode, environment>>

\* The process is already gone or unreadable: it is watched as a child only.
NotCaptured ==
  /\ At("capture")
  /\ todo' = <<"flush", "watch">>
  /\ UNCHANGED <<disk, journal, mem, mode, environment>>

ReportExit ==
  /\ At("watch")
  /\ producer \in {"succeeded", "failed"}
  /\ CommitPhase(producer, <<"flush">>)
  /\ UNCHANGED <<mode, environment>>

\* maybe_enqueue_running, when no observation is due yet.
NotDue ==
  /\ At("watch") \/ At("observe")
  /\ producer = "running"
  /\ todo' = <<"flush">> \o todo
  /\ UNCHANGED <<disk, journal, mem, mode, environment>>

\* A heartbeat that is sent before it is saved.
EnqueueRunningUnsaved ==
  /\ At("watch") \/ At("observe")
  /\ producer = "running"
  /\ mem.next <= MaxSequence
  /\ mem' = Enqueue(mem, "running")
  /\ todo' = <<"flush">> \o todo
  /\ UNCHANGED <<disk, journal, mode, environment>>

EnqueueRunning ==
  /\ At("watch") \/ At("observe")
  /\ producer = "running"
  /\ mem.next <= MaxSequence
  /\ Persist(Enqueue(mem, "running"))
  /\ todo' = <<"flush">> \o todo
  /\ UNCHANGED <<mode, environment>>

\* A vanished producer of a reconnected job counts as failed.
LoseSightAsFailed ==
  /\ At("observe")
  /\ CommitPhase("failed", <<"flush">>)
  /\ UNCHANGED <<mode, environment>>

\* A phase the service does not know.
LoseSightAsLost ==
  /\ At("observe")
  /\ CommitPhase("lost", <<"flush">>)
  /\ UNCHANGED <<mode, environment>>

\* observe_running: the exact process is gone, or may not be inspected.
LoseSight ==
  /\ At("observe")
  /\ CommitPhase("unknown", <<"flush">>)
  /\ UNCHANGED <<mode, environment>>

\* The guardian dies, or gives up on an error; the producer goes on.
Crash ==
  /\ todo # <<>>
  /\ todo' = <<>>
  /\ UNCHANGED <<disk, journal, mem, mode, environment>>

---------------------------------------------------------------------------
(* The world around it.                                                      *)

ProducerExits(result) ==
  /\ producer = "running"
  /\ producer' = result
  /\ UNCHANGED <<disk, journal, mem, todo, mode, launches, wire, server, leased, revoked>>

\* The attempt expires, is released, or loses its reservation.
LoseLease ==
  /\ leased
  /\ leased' = FALSE
  /\ UNCHANGED <<disk, journal, mem, todo, mode, producer, launches, wire, server, revoked>>

Revoke ==
  /\ ~revoked
  /\ revoked' = TRUE
  /\ UNCHANGED <<disk, journal, mem, todo, mode, producer, launches, wire, server, leased>>

\* The service's guards on a new observation.
Acceptable(o) ==
  /\ o.seq > server.last
  /\ server.state \notin Terminal
  /\ o.state = "not_started" => ~o.process /\ ~server.launched
  /\ o.state = "registered" => server.last = 0

\* A redelivery of what was accepted is answered alike and changes nothing.
ServerObserves(o) ==
  /\ ~revoked
  /\ Acceptable(o)
  /\ server' = [state |-> o.state, last |-> o.seq,
                launched |-> server.launched \/ o.process \/ o.state = "running",
                seen |-> server.seen \cup {o}]
  /\ UNCHANGED <<disk, journal, mem, todo, mode, producer, launches, wire, leased, revoked>>

GuardianStep ==
  \/ Save \/ SkipFlush \/ Send \/ Delivered \/ Undelivered \/ Forbidden \/ FlushDone
  \/ KeepRenewal \/ EndRenewal \/ Dispatch \/ Allowed \/ Denied \/ Uncertain \/ Unprepared
  \/ Intend \/ NotSpawned \/ Spawn \/ Captured \/ NotCaptured \/ ReportExit \/ NotDue
  \/ EnqueueRunning \/ LoseSight

Next ==
  \/ Initialize
  \/ \E renewal \in BOOLEAN : RecordRegistration(renewal)
  \/ \E m \in Modes : StartGuardian(m)
  \/ GuardianStep
  \/ Crash
  \/ \E result \in {"succeeded", "failed"} : ProducerExits(result)
  \/ LoseLease
  \/ Revoke
  \/ \E o \in wire : ServerObserves(o)

\* A running guardian keeps being scheduled; nothing else is promised.
Spec == Init /\ [][Next]_vars /\ WF_vars(GuardianStep)

---------------------------------------------------------------------------
TypeOK ==
  /\ disk \in StoredJob
  /\ journal \in Seq(Event)
  /\ mem \in StoredJob
  /\ todo \in Seq(Steps)
  /\ mode \in Modes
  /\ producer \in {"none", "running", "succeeded", "failed"}
  /\ launches \in Nat
  /\ wire \subseteq Observation
  /\ server \in [state : Phases, last : Nat, launched : BOOLEAN, seen : SUBSET Observation]
  /\ leased \in BOOLEAN
  /\ revoked \in BOOLEAN

\* "If interrupted after intent, never spawn again" (job-evidence-contract.md):
\* whatever crashes and restarts in either mode, at most one producer is launched.
LaunchedOnce == launches <= 1

\* A crash at any point loses nothing the process knows: recovery reads back
\* exactly its memory, between the two halves of commit_event too.
CrashLosesNothing ==
  /\ Len(journal) <= 1
  /\ todo # <<>> => Durable = mem

\* Nothing untrue is ever sent: a not_started job never has a producer, not even
\* later, and a result is that of the producer itself.
ReportsAreTrue ==
  \A o \in wire :
    /\ o.state = "not_started" => producer = "none"
    /\ o.state \in {"succeeded", "failed"} => producer = o.state
    /\ o.state = "running" => producer # "none"

\* Every observation the job ever numbered is either accepted by the service or
\* still waiting in the outbox, in order and without gaps between the two.
NoObservationLost ==
  LET waiting == Durable.outbox
  IN /\ \A n \in 1..(Durable.next - 1) :
          (\E o \in server.seen : o.seq = n) \/ (\E o \in Range(waiting) : o.seq = n)
     /\ \A i, k \in DOMAIN waiting : i < k => waiting[i].seq < waiting[k].seq

\* The service never refuses what the guardian sends next or has sent: no conflict
\* blocks the observations behind it.
NeverRefused ==
  \A o \in wire \cup (IF Durable.outbox = <<>> THEN {} ELSE {Head(Durable.outbox)}) :
    o \in server.seen \/ Acceptable(o)

\* What a guardian keeps and tells is complete and true, and nothing of it is
\* refused, whatever crashes (local/lib.rs, persist.rs, jobs.rs).
GuardianSound ==
  TypeOK /\ CrashLosesNothing /\ ReportsAreTrue /\ NoObservationLost /\ NeverRefused

\* A recorded result or an unknown outcome is final on disk, and so is the end of
\* reporting and of renewal, across restarts.
LocalRecordStands ==
  [][/\ Durable.phase \in Terminal \cup {"unknown"} => Durable'.phase = Durable.phase
     /\ Durable.disabled => Durable'.disabled
     /\ Durable.phase \notin {"absent", "prepared"} /\ ~Durable.renewal => ~Durable'.renewal]_vars

\* "Capture terminal result ... even offline" (job-evidence-contract.md): the exit
\* of a watched producer is recorded whatever the service answers, unless the
\* guardian itself goes down.
ExitIsRecorded ==
  (Range(todo) \cap {"watch", "observe"} # {} /\ producer \in {"succeeded", "failed"})
    ~> (Durable.phase \in {"succeeded", "failed", "unknown"} \/ todo = <<>>)
=============================================================================
