---------------------------- MODULE ClientProofs -----------------------------
(***************************************************************************)
(* An agent's workstation, for any number of launches, processes, commits,  *)
(* crashes, restarts, heartbeats, session files and troubles.              *)
(*                                                                         *)
(* The guardian launches a producer at most once: the phase that recovery   *)
(* would read back is the phase in memory whenever a process is up, a spawn *)
(* only happens under a durable launch intent taken by a process that found *)
(* the job registered, and no step makes a launched job registered.  Its    *)
(* reports are complete, true and accepted: the durable outbox holds the    *)
(* newest observations without a gap, the service has accepted everything   *)
(* before it and at most its head, only a head is ever sent, and every      *)
(* observation, sent or waiting, agrees with the phase and the producer.    *)
(*                                                                         *)
(* Beside it: the sweeps of the launch directories (DirInv), the publication*)
(* of an integration and its reconciliation (PubInv), the candidate a launch*)
(* pushes (CandInv) and the sessions a client saves (SesInv).  Each of these*)
(* invariants says what every process knows at the step it is about to take.*)
(***************************************************************************)
EXTENDS MCClients, SequenceTheorems, TLAPS

---------------------------------------------------------------------------
(* The guardian's records and reports. *)

\* The phase recovery would read back.
SavedPhase == IF journal = <<>> THEN disk.phase ELSE Head(journal).phase

\* The phases of a job whose producer may have been launched.
Launched == {"launch_intent", "running", "unknown", "succeeded", "failed"}

\* The stacks of continuations the code's calls can build.
Launching == {<<"authority">>, <<"prepare">>, <<"save", "spawn">>, <<"spawn">>}
Saving == {<<"save">>, <<"save", "flush">>, <<"save", "flush", "watch">>}
Working == {<<"capture">>, <<"dispatch">>, <<"watch">>, <<"observe">>,
            <<"flush">>, <<"flush", "dispatch">>, <<"flush", "watch">>, <<"flush", "observe">>,
            <<"await">>, <<"await", "dispatch">>, <<"await", "watch">>, <<"await", "observe">>,
            <<"renew">>, <<"renew", "dispatch">>, <<"renew", "watch">>, <<"renew", "observe">>}

Stacks == todo \in {<<>>} \cup Launching \cup Saving \cup Working

\* At most one event is newer than the saved state, and only while the process
\* that appended it is about to save, or has died before it could.
OneEvent ==
  \/ journal = <<>>
  \/ /\ \E e : journal = <<e>>
     /\ Head(journal).phase # "prepared"
     /\ disk.phase # "absent"
     /\ todo = <<>> \/ Head(todo) = "save"

Fields == "phase" \in DOMAIN mem /\ "phase" \in DOMAIN disk

PhaseDurable ==
  todo # <<>> => /\ SavedPhase = mem.phase
                 /\ mem.phase # "absent"
                 /\ Head(todo) = "save" => journal # <<>>

LaunchRecorded ==
  /\ launches \in {0, 1}
  /\ launches = 1 => SavedPhase \in Launched

LaunchPending ==
  /\ todo \in Launching => launches = 0
  /\ todo \in {<<"spawn">>, <<"save", "spawn">>} => mem.phase = "launch_intent"

LaunchInv ==
  Stacks /\ OneEvent /\ Fields /\ PhaseDurable /\ LaunchRecorded /\ LaunchPending

---------------------------------------------------------------------------
\* Continuations pushed on and popped off short stacks.
LEMMA PushTwo == ASSUME NEW a, NEW b PROVE <<a>> \o <<b>> = <<a, b>>
<1> DEFINE S == {a, b}
           s == <<a>> \o <<b>>
           t == <<a, b>>
<1>1. <<a>> \in Seq(S) /\ <<b>> \in Seq(S) /\ t \in Seq(S) /\ s \in Seq(S)
  OBVIOUS
<1>2. Len(s) = 2 /\ Len(t) = 2 /\ s[1] = t[1] /\ s[2] = t[2]
  BY <1>1
<1> HIDE DEF s, t, S
<1>3. \A i \in 1 .. Len(s) : s[i] = t[i]
  BY <1>2
<1>4. s = t
  BY <1>1, <1>2, <1>3, SeqEqual
<1> QED BY <1>4 DEF s, t

LEMMA PushThree == ASSUME NEW a, NEW b, NEW c PROVE <<a>> \o <<b, c>> = <<a, b, c>>
<1> DEFINE S == {a, b, c}
           s == <<a>> \o <<b, c>>
           t == <<a, b, c>>
<1>1. <<a>> \in Seq(S) /\ <<b, c>> \in Seq(S) /\ t \in Seq(S) /\ s \in Seq(S)
  OBVIOUS
<1>2. Len(s) = 3 /\ Len(t) = 3 /\ s[1] = t[1] /\ s[2] = t[2] /\ s[3] = t[3]
  BY <1>1
<1> HIDE DEF s, t, S
<1>3. \A i \in 1 .. Len(s) : s[i] = t[i]
  BY <1>2
<1>4. s = t
  BY <1>1, <1>2, <1>3, SeqEqual
<1> QED BY <1>4 DEF s, t

LEMMA PushOne == ASSUME NEW a PROVE <<a>> \o <<>> = <<a>>
OBVIOUS

LEMMA PopOne == ASSUME NEW a PROVE Tail(<<a>>) = <<>>
OBVIOUS

LEMMA PopTwo == ASSUME NEW a, NEW b PROVE Tail(<<a, b>>) = <<b>>
OBVIOUS

LEMMA PopThree == ASSUME NEW a, NEW b, NEW c PROVE Tail(<<a, b, c>>) = <<b, c>>
OBVIOUS

\* What the process goes on with after the step at the head of its stack.
Resumed == {<<>>, <<"dispatch">>, <<"watch">>, <<"observe">>}

\* What is left of a stack after its head.
LEMMA Unwound ==
  ASSUME Stacks, todo # <<>>
  PROVE  /\ Head(todo) = "save" =>
              /\ Tail(todo) \in {<<>>, <<"spawn">>, <<"flush">>, <<"flush", "watch">>}
              /\ Tail(todo) = <<"spawn">> => todo = <<"save", "spawn">>
         /\ Head(todo) \in {"flush", "await", "renew"} => Tail(todo) \in Resumed
         /\ Head(todo) \in {"authority", "prepare", "spawn", "capture", "watch", "observe"} =>
              todo = <<Head(todo)>>
<1>1. ASSUME Head(todo) = "save"
      PROVE  todo \in Saving \cup {<<"save", "spawn">>}
  BY <1>1 DEF Stacks, Launching, Saving, Working
<1>2. ASSUME Head(todo) \in {"flush", "await", "renew"}
      PROVE  \/ todo = <<Head(todo)>>
             \/ \E after \in {"dispatch", "watch", "observe"} : todo = <<Head(todo), after>>
  BY <1>2 DEF Stacks, Launching, Saving, Working
<1>3. ASSUME Head(todo) \in {"authority", "prepare", "spawn", "capture", "watch", "observe"}
      PROVE  todo = <<Head(todo)>>
  BY <1>3 DEF Stacks, Launching, Saving, Working
<1>4. ASSUME todo \in Saving \cup {<<"save", "spawn">>}
      PROVE  /\ Tail(todo) \in {<<>>, <<"spawn">>, <<"flush">>, <<"flush", "watch">>}
             /\ Tail(todo) = <<"spawn">> => todo = <<"save", "spawn">>
  <2>1. CASE todo = <<"save">>
    BY <2>1, PopOne
  <2>2. CASE todo = <<"save", "flush">>
    BY <2>2, PopTwo
  <2>3. CASE todo = <<"save", "spawn">>
    BY <2>3, PopTwo
  <2>4. CASE todo = <<"save", "flush", "watch">>
    BY <2>4, PopThree
  <2> QED BY <1>4, <2>1, <2>2, <2>3, <2>4 DEF Saving
<1>5. ASSUME Head(todo) \in {"flush", "await", "renew"}
      PROVE  Tail(todo) \in Resumed
  BY <1>2, <1>5, PopOne, PopTwo DEF Resumed
<1> QED BY <1>1, <1>3, <1>4, <1>5

\* What a flush, a wait or a renewal is pushed on.
LEMMA Pushed ==
  ASSUME NEW rest \in Resumed
  PROVE  /\ <<"flush">> \o rest \in Working /\ <<"flush">> \o rest \notin Launching
         /\ <<"await">> \o rest \in Working /\ <<"await">> \o rest \notin Launching
         /\ <<"renew">> \o rest \in Working /\ <<"renew">> \o rest \notin Launching
         /\ rest \in {<<>>} \cup Working /\ rest \notin Launching
<1>1. rest = <<>> \/ \E after \in {"dispatch", "watch", "observe"} : rest = <<after>>
  BY DEF Resumed
<1>2. CASE rest = <<>>
  BY <1>2, PushOne DEF Working, Launching
<1>3. ASSUME NEW after \in {"dispatch", "watch", "observe"}, rest = <<after>>
      PROVE  /\ <<"flush">> \o rest = <<"flush", after>>
             /\ <<"await">> \o rest = <<"await", after>>
             /\ <<"renew">> \o rest = <<"renew", after>>
  BY <1>3, PushTwo
<1>4. ASSUME NEW after \in {"dispatch", "watch", "observe"}, rest = <<after>>
      PROVE  /\ <<"flush", after>> \in Working /\ <<"flush", after>> \notin Launching
             /\ <<"await", after>> \in Working /\ <<"await", after>> \notin Launching
             /\ <<"renew", after>> \in Working /\ <<"renew", after>> \notin Launching
             /\ rest \in Working /\ rest \notin Launching
  BY <1>4 DEF Working, Launching
<1> QED BY <1>1, <1>2, <1>3, <1>4 DEF Resumed

---------------------------------------------------------------------------
\* enqueue_observation leaves the phase alone.
LEMMA EnqueueKeepsPhase ==
  ASSUME NEW job, "phase" \in DOMAIN job, NEW state
  PROVE  /\ Enqueue(job, state).phase = job.phase
         /\ "phase" \in DOMAIN Enqueue(job, state)
BY DEF Enqueue

\* Recovery reads back the phase of the newest durable record.
LEMMA RecoveredPhase ==
  ASSUME "phase" \in DOMAIN disk
  PROVE  Durable.phase = SavedPhase /\ "phase" \in DOMAIN Durable
BY DEF Durable, SavedPhase, Replay, RestoreObservation

\* What a commit establishes, whatever the process goes on with.
LEMMA CommitEffect ==
  ASSUME NEW job, NEW obs, NEW rest, journal = <<>>, Commit(job, obs, rest)
  PROVE  /\ mem' = job /\ disk' = disk
         /\ \E e : journal' = <<e>>
         /\ journal' # <<>>
         /\ Head(journal').phase = job.phase
         /\ todo' = <<"save">> \o rest
<1>1. journal' = <<[phase |-> job.phase, obs |-> obs, renewal |-> job.renewal]>>
  BY DEF Commit
<1> QED BY <1>1 DEF Commit

\* What committing a phase and its observation establishes.
LEMMA CommitPhaseEffect ==
  ASSUME NEW phase, NEW rest, journal = <<>>, "phase" \in DOMAIN mem,
         CommitPhase(phase, rest)
  PROVE  /\ mem'.phase = phase /\ "phase" \in DOMAIN mem' /\ disk' = disk
         /\ \E e : journal' = <<e>>
         /\ journal' # <<>>
         /\ Head(journal').phase = phase
         /\ todo' = <<"save">> \o rest
<1> DEFINE job == Enqueue([mem EXCEPT !.phase = phase], phase)
<1>1. job.phase = phase /\ "phase" \in DOMAIN job
  BY EnqueueKeepsPhase
<1>2. Commit(job, <<Last(job.outbox)>>, rest)
  BY DEF CommitPhase
<1> HIDE DEF job
<1> QED BY <1>1, <1>2, CommitEffect

---------------------------------------------------------------------------
\* Nothing is prepared or launched.
LEMMA LaunchInvInit == Init => LaunchInv
BY DEF Init, NoJob, LaunchInv, Stacks, OneEvent, Fields, PhaseDurable, SavedPhase,
       LaunchRecorded, LaunchPending, Launching, Saving, Working, Launched

\* A step that leaves durable state and memory alone and moves on to other work.
LEMMA MovesOn ==
  ASSUME LaunchInv, todo # <<>>, Head(todo) # "save", journal' = journal, disk' = disk,
         mem' = mem, launches' = launches,
         todo' \in {<<>>, <<"authority">>, <<"prepare">>} \cup Working,
         todo' \in Launching => launches = 0
  PROVE  LaunchInv'
BY DEF LaunchInv, Stacks, OneEvent, Fields, PhaseDurable, SavedPhase, LaunchRecorded,
       LaunchPending, Launching, Saving, Working, Launched

\* A step that persists a job in the same phase.
LEMMA PersistsOn ==
  ASSUME LaunchInv, NEW job, "phase" \in DOMAIN job, job.phase = SavedPhase, Persist(job),
         SavedPhase # "absent",
         launches' = launches, todo' \in {<<>>, <<"spawn">>} \cup Working,
         todo' = <<"spawn">> => launches = 0 /\ job.phase = "launch_intent"
  PROVE  LaunchInv'
BY DEF LaunchInv, Persist, Stacks, OneEvent, Fields, PhaseDurable, SavedPhase, LaunchRecorded,
       LaunchPending, Launching, Saving, Working, Launched

\* A step that commits a phase a launch does not contradict.
LEMMA CommitsOn ==
  ASSUME LaunchInv, "phase" \in DOMAIN mem', disk' = disk, launches' = launches,
         \E e : journal' = <<e>>, journal' # <<>>, Head(journal').phase = mem'.phase,
         mem'.phase \notin {"absent", "prepared"}, disk.phase # "absent", launches = 1 =>
             mem'.phase \in Launched,
         todo' \in Saving \cup {<<"save", "spawn">>},
         todo' = <<"save", "spawn">> => launches = 0 /\ mem'.phase = "launch_intent"
  PROVE  LaunchInv'
<1>1. todo' # <<>> /\ Head(todo') = "save"
  BY DEF Saving
<1> QED
  BY <1>1 DEF LaunchInv, Stacks, OneEvent, Fields, PhaseDurable, SavedPhase, LaunchRecorded,
              LaunchPending, Launching, Saving, Working, Launched

\* While a process is up and not about to save, nothing is newer than the saved state.
LEMMA JournalEmpty ==
  ASSUME LaunchInv, todo # <<>>, Head(todo) # "save"
  PROVE  journal = <<>> /\ SavedPhase = mem.phase /\ SavedPhase # "absent"
    /\ disk.phase # "absent"
BY DEF LaunchInv, OneEvent, PhaseDurable, SavedPhase

\* Every step of a guardian keeps the launch invariant.
LEMMA GuardianKeepsLaunchInv ==
  ASSUME LaunchInv, GuardianStep
  PROVE  LaunchInv'
<1> USE DEF At, Continue, environment
<1>0. "phase" \in DOMAIN mem /\ Stacks
  BY DEF LaunchInv, Fields
<1>1. CASE Save
  <2>1. Persist(mem) /\ launches' = launches /\ mem.phase = SavedPhase /\ SavedPhase # "absent"
    BY <1>1 DEF Save, LaunchInv, PhaseDurable
  <2>2. todo' \in {<<>>, <<"spawn">>, <<"flush">>, <<"flush", "watch">>}
    BY <1>0, <1>1, Unwound, Pushed DEF Save, Launching
  <2>3. todo' = <<"spawn">> => todo = <<"save", "spawn">>
    BY <1>0, <1>1, Unwound, Pushed DEF Save, Launching
  <2>4. todo' = <<"spawn">> => launches = 0 /\ mem.phase = "launch_intent"
    BY <2>3 DEF LaunchInv, LaunchPending, Launching
  <2> QED BY <1>0, <2>1, <2>2, <2>4, PersistsOn DEF Working
<1>2. CASE SkipFlush
  <2>1. todo' \in {<<>>} \cup Working /\ todo' \notin Launching
    BY <1>0, <1>2, Unwound, Pushed DEF SkipFlush, Launching
  <2> QED BY <1>2, <2>1, MovesOn DEF SkipFlush
<1>3. CASE Send
  <2>1. todo' \in Working /\ todo' \notin Launching
    BY <1>0, <1>3, Unwound, Pushed DEF Send, Launching
  <2> QED BY <1>3, <2>1, MovesOn DEF Send
<1>4. CASE Delivered
  <2>1. todo' \in Working /\ todo' # <<"spawn">>
    BY <1>0, <1>4, Unwound, Pushed DEF Delivered, Launching
  <2> DEFINE job == [mem EXCEPT !.outbox = Tail(@)]
  <2>2. /\ "phase" \in DOMAIN job /\ job.phase = SavedPhase /\ Persist(job)
        /\ launches' = launches /\ SavedPhase # "absent"
    BY <1>0, <1>4, JournalEmpty DEF Delivered
  <2> HIDE DEF job
  <2> QED BY <2>1, <2>2, PersistsOn
<1>5. CASE Undelivered
  <2>1. todo' \in Working /\ todo' # <<"spawn">>
    BY <1>0, <1>5, Unwound, Pushed DEF Undelivered, Launching
  <2> QED BY <1>0, <1>5, <2>1, JournalEmpty, PersistsOn DEF Undelivered
<1>6. CASE Forbidden
  <2>1. todo' \in {<<>>} \cup Working /\ todo' # <<"spawn">>
    BY <1>0, <1>6, Unwound, Pushed DEF Forbidden, Launching
  <2> DEFINE job == [mem EXCEPT !.disabled = TRUE]
  <2>2. /\ "phase" \in DOMAIN job /\ job.phase = SavedPhase /\ Persist(job)
        /\ launches' = launches /\ SavedPhase # "absent"
    BY <1>0, <1>6, JournalEmpty DEF Forbidden
  <2> HIDE DEF job
  <2> QED BY <2>1, <2>2, PersistsOn
<1>7. CASE FlushDone
  <2>1. todo' \in Working /\ todo' \notin Launching
    BY <1>0, <1>7, Unwound, Pushed DEF FlushDone, Launching
  <2> QED BY <1>7, <2>1, MovesOn DEF FlushDone
<1>8. CASE KeepRenewal
  <2>1. todo' \in {<<>>} \cup Working /\ todo' \notin Launching
    BY <1>0, <1>8, Unwound, Pushed DEF KeepRenewal, Launching
  <2> QED BY <1>8, <2>1, MovesOn DEF KeepRenewal
<1>9. CASE EndRenewal
  <2>1. todo' \in {<<>>} \cup Working /\ todo' # <<"spawn">>
    BY <1>0, <1>9, Unwound, Pushed DEF EndRenewal, Launching
  <2> DEFINE job == [mem EXCEPT !.renewal = FALSE]
  <2>2. /\ "phase" \in DOMAIN job /\ job.phase = SavedPhase /\ Persist(job)
        /\ launches' = launches /\ SavedPhase # "absent"
    BY <1>0, <1>9, JournalEmpty DEF EndRenewal
  <2> HIDE DEF job
  <2> QED BY <2>1, <2>2, PersistsOn
<1>10. CASE Dispatch
  <2>0. journal = <<>> /\ SavedPhase = mem.phase /\ disk.phase # "absent" /\ launches' = launches
    BY <1>10, JournalEmpty DEF Dispatch
  <2>1. CASE /\ MayLaunch
             /\ todo' = <<"authority">>
             /\ UNCHANGED <<disk, journal, mem>>
    <3>1. launches = 0
      BY <2>0, <2>1 DEF MayLaunch, LaunchInv, LaunchRecorded, Launched
    <3> QED BY <1>10, <2>0, <2>1, <3>1, MovesOn DEF Dispatch
  <2>2. CASE mem.phase = "launch_intent" /\ CommitPhase("unknown", <<"flush">>)
    <3>1. todo' = <<"save", "flush">>
      BY <1>0, <2>0, <2>2, CommitPhaseEffect, PushTwo
    <3> QED BY <1>0, <2>0, <2>2, <3>1, CommitPhaseEffect, CommitsOn DEF Saving, Launched
  <2>3. CASE /\ todo' \in {<<"flush", "observe">>, <<"flush">>, <<>>}
             /\ UNCHANGED <<disk, journal, mem>>
    BY <1>10, <2>0, <2>3, MovesOn DEF Dispatch, Working, Launching
  <2> QED BY <1>10, <2>1, <2>2, <2>3 DEF Dispatch
<1>11. CASE Allowed
  <2>1. launches = 0
    BY <1>0, <1>11 DEF Allowed, LaunchInv, LaunchPending, Stacks, Launching, Saving, Working
  <2> QED BY <1>11, <2>1, MovesOn DEF Allowed
<1>12. CASE Denied \/ Unprepared \/ NotSpawned
  <2>1. launches = 0 /\ launches' = launches
    BY <1>0, <1>12 DEF Denied, Unprepared, NotSpawned, LaunchInv, LaunchPending, Stacks,
                       Launching, Saving, Working
  <2>2. journal = <<>> /\ disk.phase # "absent" /\ CommitPhase("not_started", <<"flush">>)
    BY <1>12, JournalEmpty DEF Denied, Unprepared, NotSpawned
  <2>3. todo' = <<"save", "flush">>
    BY <1>0, <2>2, CommitPhaseEffect, PushTwo
  <2> QED BY <1>0, <2>1, <2>2, <2>3, CommitPhaseEffect, CommitsOn DEF Saving
<1>13. CASE Uncertain
  BY <1>0, <1>13, JournalEmpty, PersistsOn DEF Uncertain
<1>14. CASE Intend
  <2>1. launches = 0 /\ launches' = launches
    BY <1>0, <1>14 DEF Intend, LaunchInv, LaunchPending, Stacks, Launching, Saving, Working
  <2> DEFINE job == [mem EXCEPT !.phase = "launch_intent"]
  <2>2. journal = <<>> /\ disk.phase # "absent" /\ Commit(job, <<>>, <<"spawn">>)
    BY <1>14, JournalEmpty DEF Intend
  <2>3. job.phase = "launch_intent" /\ "phase" \in DOMAIN job
    BY <1>0
  <2> HIDE DEF job
  <2>4. todo' = <<"save", "spawn">>
    BY <2>2, CommitEffect, PushTwo
  <2> QED BY <2>1, <2>2, <2>3, <2>4, CommitEffect, CommitsOn DEF Launched
<1>15. CASE Spawn
  <2>1. todo = <<"spawn">>
    BY <1>0, <1>15, Unwound, Pushed DEF Spawn, Launching
  <2>2. launches = 0 /\ mem.phase = "launch_intent" /\ journal = <<>> /\ SavedPhase = mem.phase
    BY <1>15, <2>1, JournalEmpty DEF Spawn, LaunchInv, LaunchPending, Launching
  <2>3. launches' = 1 /\ todo' = <<"capture">> /\ UNCHANGED <<disk, journal, mem>>
    BY <1>15, <2>1, <2>2 DEF Spawn
  <2> QED BY <2>2, <2>3 DEF LaunchInv, Stacks, OneEvent, Fields, PhaseDurable, SavedPhase,
                LaunchRecorded, LaunchPending, Launching, Saving, Working, Launched
<1>16. CASE Captured
  <2> DEFINE job == Enqueue([mem EXCEPT !.phase = "running", !.identified = TRUE], "running")
  <2>1. job.phase = "running" /\ "phase" \in DOMAIN job
    BY <1>0, EnqueueKeepsPhase
  <2>2. journal = <<>> /\ disk.phase # "absent"
          /\ Commit(job, <<Last(job.outbox)>>, <<"flush", "watch">>)
    BY <1>16, JournalEmpty DEF Captured
  <2>3. launches' = launches
    BY <1>16 DEF Captured
  <2> HIDE DEF job
  <2>4. todo' = <<"save", "flush", "watch">>
    BY <2>2, CommitEffect, PushThree
  <2> QED BY <2>1, <2>2, <2>3, <2>4, CommitEffect, CommitsOn DEF Saving, Launched
<1>17. CASE NotCaptured
  BY <1>17, MovesOn DEF NotCaptured, Working, Launching
<1>18. CASE ReportExit
  <2>1. journal = <<>> /\ disk.phase # "absent" /\ CommitPhase(producer, <<"flush">>)
          /\ launches' = launches
    BY <1>18, JournalEmpty DEF ReportExit
  <2>2. todo' = <<"save", "flush">> /\ mem'.phase \in {"succeeded", "failed"}
    BY <1>0, <1>18, <2>1, CommitPhaseEffect, PushTwo DEF ReportExit
  <2> QED BY <1>0, <2>1, <2>2, CommitPhaseEffect, CommitsOn DEF Saving, Launched
<1>19. CASE NotDue
  <2>1. todo' \in Working /\ todo' \notin Launching
    BY <1>0, <1>19, Unwound, PushTwo DEF NotDue, Working, Launching
  <2> QED BY <1>19, <2>1, MovesOn DEF NotDue
<1>20. CASE EnqueueRunning
  <2>1. todo' \in Working /\ todo' # <<"spawn">>
    BY <1>0, <1>20, Unwound, PushTwo DEF EnqueueRunning, Working
  <2>2. SavedPhase = mem.phase /\ SavedPhase # "absent"
    BY <1>20, JournalEmpty DEF EnqueueRunning
  <2>3. Persist(Enqueue(mem, "running")) /\ launches' = launches
    BY <1>20 DEF EnqueueRunning
  <2> QED BY <1>0, <2>1, <2>2, <2>3, EnqueueKeepsPhase, PersistsOn
<1>21. CASE LoseSight
  <2>1. journal = <<>> /\ disk.phase # "absent" /\ CommitPhase("unknown", <<"flush">>)
          /\ launches' = launches
    BY <1>21, JournalEmpty DEF LoseSight
  <2>2. todo' = <<"save", "flush">>
    BY <1>0, <2>1, CommitPhaseEffect, PushTwo
  <2> QED BY <1>0, <2>1, <2>2, CommitPhaseEffect, CommitsOn DEF Saving, Launched
<1> QED BY <1>1, <1>2, <1>3, <1>4, <1>5, <1>6, <1>7, <1>8, <1>9, <1>10, <1>11, <1>12, <1>13,
           <1>14, <1>15, <1>16, <1>17, <1>18, <1>19, <1>20, <1>21 DEF GuardianStep

\* So does everything around it.
LEMMA LaunchInvNext == LaunchInv /\ [Next]_vars => LaunchInv'
<1> SUFFICES ASSUME LaunchInv, [Next]_vars PROVE LaunchInv'
  OBVIOUS
<1>0. "phase" \in DOMAIN mem /\ "phase" \in DOMAIN disk
  BY DEF LaunchInv, Fields
<1>1. CASE Initialize
  <2> DEFINE job == [NoJob EXCEPT !.phase = "prepared"]
  <2>1. Persist(job) /\ todo' = <<>> /\ launches' = launches
    BY <1>1 DEF Initialize, environment
  <2>2. "phase" \in DOMAIN job
    BY DEF NoJob
  <2>3. launches = 0
    BY <1>1 DEF Initialize, LaunchInv, OneEvent, LaunchRecorded, SavedPhase, Launched
  <2> HIDE DEF job
  <2> QED BY <2>1, <2>2, <2>3 DEF Persist, LaunchInv, Stacks, OneEvent, Fields, PhaseDurable,
                SavedPhase, LaunchRecorded, LaunchPending, Launching, Saving, Working, Launched
<1>2. ASSUME NEW renewal \in BOOLEAN, RecordRegistration(renewal) PROVE LaunchInv'
  <2> DEFINE job == Enqueue([Durable EXCEPT !.phase = "registered", !.renewal = renewal],
                            "registered")
  <2>1. job.phase = "registered" /\ "phase" \in DOMAIN job
    BY <1>0, RecoveredPhase, EnqueueKeepsPhase
  <2>2. SavedPhase = "prepared"
    BY <1>0, <1>2, RecoveredPhase DEF RecordRegistration
  <2>3. journal = <<>> /\ disk.phase # "absent" /\ launches = 0
    BY <2>2 DEF LaunchInv, OneEvent, SavedPhase, LaunchRecorded, Launched
  <2>4. Commit(job, <<Last(job.outbox)>>, <<>>) /\ launches' = launches
    BY <1>2 DEF RecordRegistration, environment
  <2> HIDE DEF job
  <2>5. todo' = <<"save">>
    BY <2>3, <2>4, CommitEffect, PushTwo
  <2> QED BY <2>1, <2>3, <2>4, <2>5, CommitEffect, CommitsOn DEF Saving
<1>3. ASSUME NEW m \in Modes, StartGuardian(m) PROVE LaunchInv'
  <2>1. Durable.phase = SavedPhase /\ "phase" \in DOMAIN Durable
    BY <1>0, RecoveredPhase
  <2>2. /\ Persist(Durable) /\ todo' = <<"flush", "dispatch">> /\ launches' = launches
        /\ SavedPhase # "absent"
    BY <1>3, <2>1 DEF StartGuardian, environment
  <2> QED BY <2>1, <2>2, PersistsOn DEF Working
<1>4. CASE GuardianStep
  BY <1>4, GuardianKeepsLaunchInv
<1>5. CASE Crash
  BY <1>5 DEF Crash, environment, LaunchInv, Stacks, OneEvent, Fields, PhaseDurable, SavedPhase,
              LaunchRecorded, LaunchPending, Launching
<1>6. CASE UNCHANGED <<disk, journal, mem, todo, launches>>
  BY <1>6 DEF LaunchInv, Stacks, OneEvent, Fields, PhaseDurable, SavedPhase, LaunchRecorded,
              LaunchPending
<1>7. ASSUME NEW result \in {"succeeded", "failed"}, ProducerExits(result) PROVE LaunchInv'
  BY <1>6, <1>7 DEF ProducerExits
<1>8. CASE LoseLease \/ Revoke
  BY <1>6, <1>8 DEF LoseLease, Revoke
<1>9. ASSUME NEW o \in wire, ServerObserves(o) PROVE LaunchInv'
  BY <1>6, <1>9 DEF ServerObserves
<1>10. CASE UNCHANGED vars
  BY <1>6, <1>10 DEF vars
<1> QED BY <1>1, <1>2, <1>3, <1>4, <1>5, <1>7, <1>8, <1>9, <1>10 DEF Next

\* Whatever crashes, restarts and reconnections happen, at most one producer is
\* launched: run_guardian refuses to repeat a durable launch intent.
THEOREM NeverRelaunched == Spec => []LaunchedOnce
<1>1. LaunchInv => LaunchedOnce
  BY DEF LaunchInv, LaunchRecorded, LaunchedOnce
<1> QED BY <1>1, LaunchInvInit, LaunchInvNext, PTL DEF Spec

---------------------------------------------------------------------------
(* What the guardian keeps and tells.  Its durable record, the observations   *)
(* it has sent, the service's row and the producer are related by Sound,       *)
(* which every step keeps.                                                      *)

\* The number of the oldest observation the service has not yet confirmed.
First(job) == job.next - Len(job.outbox)

\* The outbox holds the newest observations, in order and without gaps.
Booked(job) ==
  /\ job \in StoredJob
  /\ Len(job.outbox) < job.next
  /\ \A i \in 1 .. Len(job.outbox) : job.outbox[i].seq = First(job) + i - 1
  /\ job.phase \in {"absent", "prepared"} => job.next = 1
  /\ job.phase = "absent" => ~job.disabled

\* The service has accepted everything before the outbox, and its head at most.
Answered(job, sent, row) ==
  /\ row.last \in {First(job) - 1, First(job)}
  /\ row.last = First(job) => job.outbox # <<>> /\ job.outbox[1] \in row.seen
  /\ \A n \in 1 .. First(job) - 1 : \E o \in row.seen : o.seq = n
  /\ \A o \in row.seen : o.seq <= row.last
  /\ \A o \in sent : \/ o.seq < First(job) /\ o \in row.seen
                     \/ job.outbox # <<>> /\ o = job.outbox[1]

\* What one observation says of the job and its producer.
Tells(job, child, o) ==
  /\ o.state = "not_started" => job.phase = "not_started" /\ ~o.process /\ child = "none"
  /\ o.state \in {"succeeded", "failed"} => child = o.state /\ job.phase = o.state
  /\ o.state = "running" \/ o.process => child # "none"
  /\ o.state \in Terminal => o.seq = job.next - 1
  /\ o.state = "registered" => o.seq = 1

\* What the service and the record say of the producer.
Believed(job, row, child) ==
  /\ row.state \in Terminal => row.last = job.next - 1 /\ job.phase \in Terminal
  /\ row.launched => child # "none"
  /\ job.identified => child # "none"

Row == [state : Phases, last : Nat, launched : BOOLEAN, seen : SUBSET Observation]

Sound(job, sent, row, child) ==
  /\ Booked(job) /\ Answered(job, sent, row) /\ Believed(job, row, child)
  /\ sent \subseteq Observation /\ row \in Row
  /\ \A o \in sent : Tells(job, child, o)
  /\ \A i \in 1 .. Len(job.outbox) : Tells(job, child, job.outbox[i])

\* Sound gives what the properties ask of the guardian's reports.
LEMMA SoundReports ==
  ASSUME NEW job, NEW sent, NEW row, NEW child, Sound(job, sent, row, child)
  PROVE  /\ \A n \in 1 .. (job.next - 1) :
              (\E o \in row.seen : o.seq = n) \/ (\E o \in Range(job.outbox) : o.seq = n)
         /\ \A i, k \in DOMAIN job.outbox : i < k => job.outbox[i].seq < job.outbox[k].seq
         /\ \A o \in sent \cup (IF job.outbox = <<>> THEN {} ELSE {Head(job.outbox)}) :
              \/ o \in row.seen
              \/ /\ o.seq > row.last
                 /\ row.state \notin Terminal
                 /\ o.state = "not_started" => ~o.process /\ ~row.launched
                 /\ o.state = "registered" => row.last = 0
         /\ \A o \in sent :
              /\ o.state = "not_started" => child = "none"
              /\ o.state \in {"succeeded", "failed"} => child = o.state
              /\ o.state = "running" => child # "none"
<1>0. /\ job.outbox \in Seq(Observation) /\ job.next \in Nat /\ Len(job.outbox) \in Nat
      /\ DOMAIN job.outbox = 1 .. Len(job.outbox) /\ First(job) \in Int
      /\ row.last \in Nat
  BY DEF Sound, Booked, StoredJob, First, Row
<1>1. ASSUME NEW n \in 1 .. (job.next - 1), n >= First(job)
      PROVE  \E o \in Range(job.outbox) : o.seq = n
  <2>0. First(job) = job.next - Len(job.outbox) /\ n \in Nat /\ n < job.next
    BY <1>0 DEF First
  <2>1. n - First(job) + 1 \in 1 .. Len(job.outbox)
    BY <1>0, <1>1, <2>0
  <2>2. job.outbox[n - First(job) + 1].seq = n
    BY <1>0, <2>1 DEF Sound, Booked
  <2> QED BY <1>0, <2>1, <2>2 DEF Range
<1>2. ASSUME NEW n \in 1 .. (job.next - 1), ~(n >= First(job))
      PROVE  \E o \in row.seen : o.seq = n
  BY <1>0, <1>2 DEF Sound, Answered
<1>3. ASSUME NEW i \in DOMAIN job.outbox, NEW k \in DOMAIN job.outbox, i < k
      PROVE  job.outbox[i].seq < job.outbox[k].seq
  <2>1. i \in 1 .. Len(job.outbox) /\ k \in 1 .. Len(job.outbox)
    BY <1>0, <1>3
  <2>2. job.outbox[i].seq = First(job) + i - 1 /\ job.outbox[k].seq = First(job) + k - 1
    BY <2>1 DEF Sound, Booked
  <2> QED BY <1>0, <1>3, <2>1, <2>2
<1>4. ASSUME job.outbox # <<>>, job.outbox[1] \notin row.seen
      PROVE  /\ job.outbox[1].seq > row.last
             /\ row.state \notin Terminal
             /\ job.outbox[1].state = "not_started" => ~job.outbox[1].process /\ ~row.launched
             /\ job.outbox[1].state = "registered" => row.last = 0
  <2>1. 1 \in 1 .. Len(job.outbox)
    BY <1>0, <1>4
  <2>2. job.outbox[1].seq = First(job) /\ row.last = First(job) - 1
    BY <1>0, <1>4, <2>1 DEF Sound, Booked, Answered
  <2>3. row.state \notin Terminal
    BY <1>0, <2>1, <2>2 DEF Sound, Believed, First
  <2>4. Tells(job, child, job.outbox[1])
    BY <2>1 DEF Sound
  <2> QED BY <1>0, <2>2, <2>3, <2>4 DEF Tells, Sound, Believed
<1>5. ASSUME NEW o \in sent
      PROVE  o \in row.seen \/ (job.outbox # <<>> /\ o = job.outbox[1])
  BY <1>5 DEF Sound, Answered
<1>6. ASSUME NEW o \in sent PROVE Tells(job, child, o)
  BY DEF Sound
<1>7. job.outbox # <<>> => Head(job.outbox) = job.outbox[1]
  BY <1>0
<1>8. \A n \in 1 .. (job.next - 1) :
        (\E o \in row.seen : o.seq = n) \/ (\E o \in Range(job.outbox) : o.seq = n)
  BY <1>1, <1>2
<1>9. \A o \in sent :
              /\ o.state = "not_started" => child = "none"
              /\ o.state \in {"succeeded", "failed"} => child = o.state
              /\ o.state = "running" => child # "none"
  BY <1>6 DEF Tells
<1> QED BY <1>3, <1>4, <1>5, <1>7, <1>8, <1>9

---------------------------------------------------------------------------
\* A job is what its fields are.
LEMMA SameJob ==
  ASSUME NEW one \in StoredJob, NEW two \in StoredJob,
         one.phase = two.phase, one.identified = two.identified, one.next = two.next,
         one.outbox = two.outbox, one.disabled = two.disabled, one.renewal = two.renewal
  PROVE  one = two
<1>1. ASSUME NEW job \in StoredJob
      PROVE  job = [phase |-> job.phase, identified |-> job.identified, next |-> job.next,
                    outbox |-> job.outbox, disabled |-> job.disabled, renewal |-> job.renewal]
  BY DEF StoredJob
<1>2. one = [phase |-> two.phase, identified |-> two.identified, next |-> two.next,
             outbox |-> two.outbox, disabled |-> two.disabled, renewal |-> two.renewal]
  BY <1>1
<1> QED BY <1>1, <1>2

\* enqueue_observation, field by field.
LEMMA EnqueueFields ==
  ASSUME NEW job \in StoredJob, NEW state \in Phases
  PROVE  LET o == [seq |-> job.next, state |-> state, process |-> job.identified]
             new == Enqueue(job, state)
         IN /\ o \in Observation /\ new \in StoredJob
            /\ new.next = job.next + 1 /\ new.outbox = Append(job.outbox, o)
            /\ new.phase = job.phase /\ new.identified = job.identified
            /\ new.disabled = job.disabled /\ new.renewal = job.renewal
            /\ Last(new.outbox) = o
<1> DEFINE o == [seq |-> job.next, state |-> state, process |-> job.identified]
           new == Enqueue(job, state)
<1>1. o \in Observation
  BY DEF Observation, StoredJob
<1>2. /\ new.next = job.next + 1 /\ new.outbox = Append(job.outbox, o)
      /\ new.phase = job.phase /\ new.identified = job.identified
      /\ new.disabled = job.disabled /\ new.renewal = job.renewal
  BY DEF Enqueue, StoredJob
<1>3. Append(job.outbox, o) \in Seq(Observation) /\ job.next + 1 \in Nat
  BY <1>1 DEF StoredJob
<1>4. Last(Append(job.outbox, o)) = o
  BY <1>1, <1>3 DEF StoredJob, Last
<1>5. new \in StoredJob
  BY <1>3 DEF Enqueue, StoredJob
<1> QED BY <1>1, <1>2, <1>4, <1>5

\* A new observation keeps Sound when it is true, and the job had not ended.
LEMMA EnqueueSound ==
  ASSUME NEW job, NEW new, NEW sent, NEW row, NEW child, NEW o \in Observation,
         Sound(job, sent, row, child),
         new \in StoredJob,
         new.next = job.next + 1, new.outbox = Append(job.outbox, o),
         job.phase \notin Terminal, new.phase \notin {"absent", "prepared"},
         new.identified => child # "none",
         o.seq = job.next, Tells(new, child, o)
  PROVE  Sound(new, sent, row, child)
<1>0. /\ job.outbox \in Seq(Observation) /\ job.next \in Nat /\ Len(job.outbox) \in Nat
      /\ First(job) \in Int /\ row.last \in Nat /\ Len(new.outbox) = Len(job.outbox) + 1
      /\ First(new) = First(job)
      /\ \A i \in 1 .. Len(job.outbox) : new.outbox[i] = job.outbox[i]
      /\ new.outbox[Len(new.outbox)] = o
  BY DEF Sound, Booked, StoredJob, First, Row
<1>1. Booked(new)
  <2>1. ASSUME NEW i \in 1 .. Len(new.outbox)
        PROVE  new.outbox[i].seq = First(new) + i - 1
    <3>1. CASE i \in 1 .. Len(job.outbox)
      BY <1>0, <3>1 DEF Sound, Booked
    <3>2. CASE i = Len(new.outbox)
      BY <1>0, <3>2 DEF First
    <3> QED BY <1>0, <3>1, <3>2
  <2>2. Len(new.outbox) < new.next
    BY <1>0 DEF Sound, Booked
  <2>3. new.phase \notin {"absent", "prepared"} /\ new \in StoredJob
    OBVIOUS
  <2> QED BY <2>1, <2>2, <2>3 DEF Booked
<1>2. new.outbox # <<>> /\ (job.outbox # <<>> => new.outbox[1] = job.outbox[1])
  <2>1. job.outbox # <<>> => 1 \in 1 .. Len(job.outbox)
    BY <1>0
  <2>2. new.outbox # <<>>
    BY SMTT(30), <1>0 DEF StoredJob
  <2> QED BY <1>0, <2>1, <2>2
<1>3. Answered(new, sent, row)
  BY <1>0, <1>2 DEF Sound, Answered
<1>4. Believed(new, row, child)
  BY DEF Sound, Believed
<1>5. ASSUME NEW q, Tells(job, child, q) PROVE Tells(new, child, q)
  BY <1>5 DEF Tells, Terminal
<1>6. \A i \in 1 .. Len(new.outbox) : Tells(new, child, new.outbox[i])
  BY <1>0, <1>5 DEF Sound
<1> QED BY <1>1, <1>3, <1>4, <1>5, <1>6 DEF Sound

\* A step that changes nothing but the phase of a job that has not ended, or
\* what it still reports and renews.
LEMMA SettingsSound ==
  ASSUME NEW job, NEW new, NEW sent, NEW row, NEW child,
         Sound(job, sent, row, child), new \in StoredJob,
         new.next = job.next, new.outbox = job.outbox, new.identified = job.identified,
         new.phase = "absent" => ~new.disabled,
         \/ new.phase = job.phase
         \/ /\ job.phase \notin Terminal
            /\ new.phase \in {"absent", "prepared"} => job.next = 1
  PROVE  Sound(new, sent, row, child)
<1>1. Booked(new) /\ Answered(new, sent, row)
  BY DEF Sound, Booked, Answered, First
<1>2. Believed(new, row, child)
  BY DEF Sound, Believed
<1>3. ASSUME NEW q, Tells(job, child, q) PROVE Tells(new, child, q)
  BY <1>3 DEF Tells, Terminal
<1> QED BY <1>1, <1>2, <1>3 DEF Sound

\* The confirmed head of the outbox is dropped.
LEMMA DeliveredSound ==
  ASSUME NEW job, NEW new, NEW sent, NEW row, NEW child,
         Sound(job, sent, row, child), job.outbox # <<>>, job.outbox[1] \in row.seen,
         new \in StoredJob, new.next = job.next, new.phase = job.phase,
         new.identified = job.identified, new.outbox = Tail(job.outbox),
         new.disabled = job.disabled
  PROVE  Sound(new, sent, row, child)
<1>0. /\ job.outbox \in Seq(Observation) /\ job.next \in Nat /\ Len(job.outbox) \in Nat \ {0}
      /\ First(job) \in Int /\ row.last \in Nat /\ Len(new.outbox) = Len(job.outbox) - 1
      /\ First(new) = First(job) + 1
      /\ \A i \in 1 .. Len(new.outbox) : new.outbox[i] = job.outbox[i + 1]
      /\ job.outbox[1].seq = First(job)
  BY SMTT(30) DEF Sound, Booked, StoredJob, First, Row
<1>1. Booked(new)
  <2>1. ASSUME NEW i \in 1 .. Len(new.outbox)
        PROVE  new.outbox[i].seq = First(new) + i - 1
    <3>1. i + 1 \in 1 .. Len(job.outbox)
      BY <1>0, <2>1
    <3>2. job.outbox[i + 1].seq = First(job) + (i + 1) - 1
      BY <3>1 DEF Sound, Booked
    <3> QED BY <1>0, <2>1, <3>2
  <2>2. Len(new.outbox) < new.next
    BY <1>0 DEF Sound, Booked
  <2> QED BY <2>1, <2>2 DEF Sound, Booked
<1>2. row.last = First(job)
  BY <1>0 DEF Sound, Answered
<1>3. Answered(new, sent, row)
  <2>1. ASSUME NEW n \in 1 .. First(new) - 1 PROVE \E o \in row.seen : o.seq = n
    BY <1>0, <2>1 DEF Sound, Answered
  <2>2. ASSUME NEW o \in sent PROVE o.seq < First(new) /\ o \in row.seen
    <3>1. o.seq \in Nat
      BY <2>2 DEF Sound, Observation
    <3> QED BY <1>0, <2>2, <3>1 DEF Sound, Answered
  <2>3. row.last = First(new) - 1 /\ row.last # First(new)
    BY <1>0, <1>2
  <2> QED BY <2>1, <2>2, <2>3 DEF Sound, Answered
<1>4. Believed(new, row, child)
  BY DEF Sound, Believed
<1>5. ASSUME NEW q, Tells(job, child, q) PROVE Tells(new, child, q)
  BY <1>5 DEF Tells
<1>6. \A i \in 1 .. Len(new.outbox) : Tells(new, child, new.outbox[i])
  BY <1>0, <1>5 DEF Sound
<1> QED BY <1>1, <1>3, <1>4, <1>5, <1>6 DEF Sound

\* The head of the outbox is sent, for the first time or again.
LEMMA SendSound ==
  ASSUME NEW job, NEW sent, NEW row, NEW child, Sound(job, sent, row, child),
         job.outbox # <<>>
  PROVE  Sound(job, sent \cup {Head(job.outbox)}, row, child)
<1>1. /\ 1 \in 1 .. Len(job.outbox) /\ Head(job.outbox) = job.outbox[1]
      /\ job.outbox[1] \in Observation
  BY DEF Sound, Booked, StoredJob
<1> QED BY <1>1 DEF Sound, Answered

\* The service accepts an observation that was sent: it is the head of the outbox.
LEMMA AcceptedSound ==
  ASSUME NEW job, NEW sent, NEW row, NEW child, NEW new, Sound(job, sent, row, child),
         NEW o \in sent, o.seq > row.last,
         new = [state |-> o.state, last |-> o.seq,
                launched |-> row.launched \/ o.process \/ o.state = "running",
                seen |-> row.seen \cup {o}]
  PROVE  Sound(job, sent, new, child)
<1>0. /\ job.next \in Nat /\ Len(job.outbox) \in Nat /\ First(job) \in Int
      /\ row.last \in Nat /\ o \in Observation /\ o.seq \in Nat /\ row \in Row
  BY DEF Sound, Booked, StoredJob, First, Row, Observation
<1>1. job.outbox # <<>> /\ o = job.outbox[1]
  BY <1>0 DEF Sound, Answered
<1>2. o.seq = First(job) /\ 1 \in 1 .. Len(job.outbox)
  BY <1>0, <1>1 DEF Sound, Booked, StoredJob
<1>3. /\ new.last = First(job) /\ new.seen = row.seen \cup {o} /\ new.state = o.state
      /\ new.launched => row.launched \/ o.process \/ o.state = "running"
  BY <1>2
<1>4. new \in Row
  BY <1>0 DEF Row, Observation
<1>5. Answered(job, sent, new)
  <2>1. \A n \in 1 .. First(job) - 1 : \E q \in new.seen : q.seq = n
    BY <1>3 DEF Sound, Answered
  <2>2. \A q \in row.seen : q.seq <= row.last /\ q.seq \in Nat
    BY <1>0 DEF Sound, Answered, Row, Observation
  <2>3. \A q \in new.seen : q.seq <= new.last
    BY <1>0, <1>2, <1>3, <2>2
  <2>4. \A q \in sent : \/ q.seq < First(job) /\ q \in new.seen
                        \/ job.outbox # <<>> /\ q = job.outbox[1]
    <3>1. \A q \in row.seen : q \in new.seen
      BY <1>3
    <3>2. \A q \in sent : \/ q.seq < First(job) /\ q \in row.seen
                          \/ job.outbox # <<>> /\ q = job.outbox[1]
      BY DEF Sound, Answered
    <3> QED BY <3>1, <3>2
  <2> QED BY <1>1, <1>3, <2>1, <2>3, <2>4 DEF Answered
<1>6. Tells(job, child, o)
  BY DEF Sound
<1>7. Believed(job, new, child)
  BY <1>0, <1>2, <1>3, <1>6 DEF Sound, Believed, Tells, Terminal
<1> QED BY <1>4, <1>5, <1>7 DEF Sound

\* The producer starts, or exits, while no observation speaks of its end.
LEMMA ProducerSound ==
  ASSUME NEW job, NEW sent, NEW row, NEW child, NEW new, Sound(job, sent, row, child),
         \/ child = "none" /\ job.phase # "not_started"
         \/ child = "running",
         new # "none"
  PROVE  Sound(job, sent, row, new)
<1>1. ASSUME NEW q, Tells(job, child, q) PROVE Tells(job, new, q)
  BY <1>1 DEF Tells
<1> QED BY <1>1 DEF Sound, Believed

---------------------------------------------------------------------------
\* An observation newer than the whole outbox is placed at its end.
LEMMA PlacedLast ==
  ASSUME NEW outbox \in Seq(Observation), NEW o \in Observation,
         \A i \in 1 .. Len(outbox) : outbox[i].seq < o.seq
  PROVE  Placed(outbox, o) = Append(outbox, o) /\ o \notin Range(outbox)
<1> DEFINE Fits(k) == \A i \in 1 .. Len(outbox) : outbox[i].seq <= o.seq <=> i <= k
           before == CHOOSE k \in 0 .. Len(outbox) : Fits(k)
           left == SubSeq(outbox, 1, Len(outbox))
           right == SubSeq(outbox, Len(outbox) + 1, Len(outbox))
<1>0. /\ Len(outbox) \in Nat /\ DOMAIN outbox = 1 .. Len(outbox) /\ o.seq \in Nat
      /\ \A i \in 1 .. Len(outbox) : outbox[i].seq \in Nat
  <2>1. \A i \in 1 .. Len(outbox) : outbox[i] \in Observation
    OBVIOUS
  <2>2. \A q \in Observation : q.seq \in Nat
    BY DEF Observation
  <2> QED BY <2>1, <2>2
<1>1. Len(outbox) \in 0 .. Len(outbox) /\ Fits(Len(outbox))
  BY <1>0
<1>2. ASSUME NEW k \in 0 .. Len(outbox), Fits(k) PROVE k = Len(outbox)
  <2>1. CASE Len(outbox) = 0
    BY <2>1
  <2>2. CASE Len(outbox) # 0
    <3>1. Len(outbox) \in 1 .. Len(outbox)
      BY <1>0, <2>2
    <3>2. Len(outbox) <= k
      BY <1>0, <1>2, <3>1
    <3>3. k \in Int /\ k <= Len(outbox) /\ Len(outbox) \in Int
      BY <1>0
    <3> QED BY <3>2, <3>3
  <2> QED BY <2>1, <2>2
<1>3. before = Len(outbox)
  BY <1>1, <1>2
<1>4. left = outbox
  BY <1>0
<1>5. right = <<>>
  BY <1>0
<1>6. Placed(outbox, o) = left \o <<o>> \o right
  BY <1>3 DEF Placed
<1>7. outbox \o <<o>> = Append(outbox, o) /\ Append(outbox, o) \in Seq(Observation)
  BY AppendIsConcat
<1>8. Append(outbox, o) \o <<>> = Append(outbox, o)
  BY <1>7, ConcatEmptySeq
<1>9. o \notin Range(outbox)
  BY <1>0 DEF Range
<1> QED BY <1>4, <1>5, <1>6, <1>7, <1>8, <1>9

\* Recovery replays an event to exactly the job its commit had in memory.
LEMMA EventReplayed ==
  ASSUME NEW base, NEW new \in StoredJob, NEW o \in Observation, Booked(base),
         new.next = base.next + 1, new.outbox = Append(base.outbox, o), o.seq = base.next,
         new.disabled = base.disabled,
         new.identified <=> base.identified \/ new.phase = "running",
         new.phase # "registered" => new.renewal = base.renewal,
         NEW e, e = [phase |-> new.phase, obs |-> <<o>>, renewal |-> new.renewal]
  PROVE  Replay(base, e) = new /\ e \in Event
<1>0. base \in StoredJob /\ base.outbox \in Seq(Observation) /\ base.next \in Nat
  BY DEF Booked, StoredJob
<1>1. \A i \in 1 .. Len(base.outbox) : base.outbox[i].seq < o.seq
  BY <1>0 DEF Booked, First
<1>2. Placed(base.outbox, o) = new.outbox /\ o \notin Range(base.outbox)
  BY <1>0, <1>1, PlacedLast
<1> DEFINE replayed == [base EXCEPT !.phase = e.phase,
                          !.identified = @ \/ e.phase = "running",
                          !.renewal = IF e.phase = "registered" THEN e.renewal ELSE @]
           restored == RestoreObservation(replayed, o)
<1>3. /\ e.phase = new.phase /\ e.renewal = new.renewal /\ e.obs = <<o>>
      /\ e.obs # <<>> /\ Head(e.obs) = o
  OBVIOUS
<1>4. Replay(base, e) = restored
  BY <1>3 DEF Replay
<1>5. /\ replayed.phase = new.phase /\ replayed.next = base.next
      /\ replayed.outbox = base.outbox /\ replayed.disabled = base.disabled
      /\ replayed.renewal = new.renewal
      /\ replayed \in StoredJob
  BY <1>0, <1>3 DEF StoredJob
<1>6. replayed.identified = (base.identified \/ new.phase = "running")
  BY <1>0, <1>3 DEF StoredJob
<1>7. replayed.identified = new.identified
  BY <1>6, <1>0 DEF StoredJob
<1> HIDE DEF replayed
<1>8. /\ restored.phase = replayed.phase /\ restored.identified = replayed.identified
      /\ restored.disabled = replayed.disabled /\ restored.renewal = replayed.renewal
      /\ restored.next = o.seq + 1 /\ restored.outbox = new.outbox
  BY <1>0, <1>2, <1>5 DEF RestoreObservation, StoredJob
<1>9. restored \in StoredJob
  <2>1. restored = [[replayed EXCEPT !.next = o.seq + 1] EXCEPT !.outbox = new.outbox]
    <3> DEFINE next == IF o.seq >= replayed.next THEN o.seq + 1 ELSE replayed.next
               outbox == IF o \in Range(replayed.outbox) THEN replayed.outbox
                         ELSE Placed(replayed.outbox, o)
    <3>1. next = o.seq + 1 /\ outbox = new.outbox
      BY <1>0, <1>2, <1>5
    <3>2. restored = [[replayed EXCEPT !.next = next] EXCEPT !.outbox = outbox]
      BY DEF RestoreObservation
    <3> HIDE DEF next, outbox, restored
    <3> QED BY <3>1, <3>2
  <2>2. o.seq + 1 \in Nat /\ new.outbox \in Seq(Observation)
    BY DEF Observation, StoredJob
  <2> QED BY <1>5, <2>1, <2>2 DEF StoredJob
<1> HIDE DEF restored
<1>10. restored = new
  BY SMTT(30), <1>5, <1>7, <1>8, <1>9, SameJob
<1>11. e \in Event
  BY DEF Event, StoredJob
<1> QED BY <1>4, <1>10, <1>11

---------------------------------------------------------------------------
(* The invariant of the guardian's records and reports.                       *)

Watching == {<<"watch">>, <<"flush", "watch">>, <<"await", "watch">>, <<"renew", "watch">>,
             <<"save", "flush", "watch">>}
Observing == {<<"observe">>, <<"flush", "observe">>, <<"await", "observe">>,
              <<"renew", "observe">>}

\* The phase a process works in, by what it is about to do: only a job that has not
\* ended is launched, watched or observed, and only a waiting observation is awaited.
StackPhases ==
  /\ todo \in {<<"authority">>, <<"prepare">>} => mem.phase = "registered"
  /\ todo = <<"capture">> => mem.phase = "launch_intent"
  /\ todo \in Watching \cup Observing => mem.phase \in {"launch_intent", "running"}
  /\ At("await") => mem.outbox # <<>>

Types ==
  /\ disk \in StoredJob /\ mem \in StoredJob /\ journal \in Seq(Event)
  /\ mode \in Modes /\ leased \in BOOLEAN /\ revoked \in BOOLEAN
  /\ producer \in {"none", "running", "succeeded", "failed"}

Kept ==
  /\ Types /\ LaunchInv /\ StackPhases
  /\ todo # <<>> => Durable = mem
  /\ launches = 0 <=> producer = "none"
  /\ Sound(Durable, wire, server, producer)

\* What no step undoes in the durable record (LocalRecordStands).
Follows(old, new) ==
  /\ old.phase \in Terminal \cup {"unknown"} => new.phase = old.phase
  /\ old.disabled => new.disabled
  /\ old.phase \notin {"absent", "prepared"} /\ ~old.renewal => ~new.renewal

\* What the process goes on with was under watch or observation before.
LEMMA Rewound ==
  ASSUME Stacks, todo # <<>>, Head(todo) \in {"flush", "await", "renew"},
         NEW rest, rest \in {Tail(todo), <<"flush">> \o Tail(todo), <<"await">> \o Tail(todo),
                             <<"renew">> \o Tail(todo)}
  PROVE  /\ rest \in Watching \cup Observing => todo \in Watching \cup Observing
         /\ rest \notin {<<"authority">>, <<"prepare">>, <<"capture">>}
         /\ rest \in {Tail(todo), <<"flush">> \o Tail(todo), <<"renew">> \o Tail(todo)} =>
              ~(rest # <<>> /\ Head(rest) = "await")
<1>1. PICK after \in {"flush", "await", "renew"} :
        \/ todo = <<after>>
        \/ \E next \in {"dispatch", "watch", "observe"} : todo = <<after, next>>
  BY DEF Stacks, Launching, Saving, Working
<1>2. CASE todo = <<after>>
  <2>1. Tail(todo) = <<>>
    BY <1>2, PopOne
  <2>2. rest \in {<<>>, <<"flush">>, <<"await">>, <<"renew">>}
    BY <2>1, PushOne
  <2>3. rest \in {Tail(todo), <<"flush">> \o Tail(todo), <<"renew">> \o Tail(todo)} =>
          rest \in {<<>>, <<"flush">>, <<"renew">>}
    BY <2>1, PushOne
  <2>4. rest \notin Watching \cup Observing
    <3>1. \A r \in Watching \cup Observing : Len(r) # 0 /\ (Len(r) = 1 => r[1] \in {"watch", "observe"})
      <4>1. \A a : Len(<<a>>) = 1 /\ <<a>>[1] = a
        OBVIOUS
      <4>2. \A a, b : Len(<<a, b>>) = 2
        OBVIOUS
      <4>3. \A a, b, c : Len(<<a, b, c>>) = 3
        OBVIOUS
      <4>4. \A r \in Watching : r = <<"watch">> \/ Len(r) \in {2, 3}
        BY <4>2, <4>3 DEF Watching
      <4>5. \A r \in Observing : r = <<"observe">> \/ Len(r) = 2
        BY <4>2 DEF Observing
      <4> QED BY <4>1, <4>4, <4>5
    <3>2. Len(rest) = 0 \/ (Len(rest) = 1 /\ rest[1] \in {"flush", "await", "renew"})
      BY <2>2
    <3> QED BY <3>1, <3>2
  <2>5. rest \notin {<<"authority">>, <<"prepare">>, <<"capture">>}
    BY <2>2
  <2>6. rest \in {<<>>, <<"flush">>, <<"renew">>} => ~(rest # <<>> /\ Head(rest) = "await")
    OBVIOUS
  <2> QED BY <2>3, <2>4, <2>5, <2>6
<1>3. ASSUME NEW next \in {"dispatch", "watch", "observe"}, todo = <<after, next>>
      PROVE  /\ rest \in Watching \cup Observing => todo \in Watching \cup Observing
             /\ rest \notin {<<"authority">>, <<"prepare">>, <<"capture">>}
             /\ rest \in {Tail(todo), <<"flush">> \o Tail(todo), <<"renew">> \o Tail(todo)} =>
                  ~(rest # <<>> /\ Head(rest) = "await")
  <2>1. Tail(todo) = <<next>>
    BY <1>3, PopTwo
  <2>2. rest \in {<<next>>, <<"flush", next>>, <<"await", next>>, <<"renew", next>>}
    BY <2>1, PushTwo
  <2>3. rest \in {Tail(todo), <<"flush">> \o Tail(todo), <<"renew">> \o Tail(todo)} =>
          rest \in {<<next>>, <<"flush", next>>, <<"renew", next>>}
    BY <2>1, PushTwo
  <2>4. rest \in Watching \cup Observing => next \in {"watch", "observe"}
    BY <2>2 DEF Watching, Observing
  <2>5. next \in {"watch", "observe"} => todo \in Watching \cup Observing
    BY <1>3 DEF Watching, Observing
  <2> QED BY <2>2, <2>3, <2>4, <2>5
<1> QED BY <1>1, <1>2, <1>3

\* A step that leaves every record alone.
LEMMA StaysKept ==
  ASSUME Kept, LaunchInv', StackPhases',
         UNCHANGED <<disk, journal, mem, producer, launches, wire, server>>,
         mode' \in Modes, leased' \in BOOLEAN, revoked' \in BOOLEAN,
         todo' # <<>> => todo # <<>>
  PROVE  Kept' /\ Follows(Durable, Durable')
<1>1. Durable' = Durable
  BY DEF Durable
<1>2. Sound(Durable, wire, server, producer)' <=> Sound(Durable, wire, server, producer)
  BY <1>1
<1> QED BY <1>1, <1>2 DEF Kept, Types, Follows

\* A step that saves a job.
LEMMA PersistKept ==
  ASSUME Kept, LaunchInv', StackPhases', NEW new \in StoredJob, Persist(new),
         Sound(new, wire, server, producer), UNCHANGED environment, mode' \in Modes,
         Follows(Durable, new)
  PROVE  Kept' /\ Follows(Durable, Durable')
<1>1. Durable' = new /\ mem' = new /\ disk' = new /\ journal' = <<>>
  BY DEF Durable, Persist
<1>2. Sound(Durable, wire, server, producer)'
  BY <1>1 DEF environment
<1>3. journal' \in Seq(Event)
  BY <1>1
<1> QED BY <1>1, <1>2, <1>3 DEF Kept, Types, environment

\* A step that commits a job, which recovery reads back if the save is lost.
LEMMA CommitKept ==
  ASSUME Kept, LaunchInv', StackPhases', journal = <<>>, NEW new \in StoredJob,
         NEW obs, NEW rest, Commit(new, obs, rest),
         LET e == [phase |-> new.phase, obs |-> obs, renewal |-> new.renewal]
         IN Replay(disk, e) = new /\ e \in Event,
         Sound(new, wire, server, producer), UNCHANGED environment, mode' = mode,
         Follows(Durable, new)
  PROVE  Kept' /\ Follows(Durable, Durable')
<1> DEFINE e == [phase |-> new.phase, obs |-> obs, renewal |-> new.renewal]
<1>1. journal' = <<e>> /\ mem' = new /\ disk' = disk
  BY DEF Commit
<1>2. e \in Event /\ Replay(disk, e) = new
  OBVIOUS
<1> HIDE DEF e
<1>3. journal' \in Seq(Event) /\ journal' # <<>> /\ Head(journal') = e
  BY <1>1, <1>2
<1>4. Durable' = new
  BY <1>1, <1>2, <1>3 DEF Durable
<1>5. Sound(Durable, wire, server, producer)'
  BY <1>4 DEF environment
<1> QED BY <1>1, <1>3, <1>4, <1>5 DEF Kept, Types, environment

\* While a process is up and not about to save, its memory is what was saved.
LEMMA MemorySaved ==
  ASSUME Kept, todo # <<>>, Head(todo) # "save"
  PROVE  journal = <<>> /\ disk = mem /\ Durable = mem /\ mem \in StoredJob /\ Stacks
         /\ Sound(mem, wire, server, producer)
BY JournalEmpty DEF Kept, Types, Durable, LaunchInv

\* A committed observation: the job in a new phase, and what it tells.
LEMMA ObservedKept ==
  ASSUME Kept, LaunchInv', StackPhases', UNCHANGED environment, mode' = mode,
         journal = <<>>, disk = Durable,
         NEW before \in StoredJob, NEW rest,
         before.next = Durable.next, before.outbox = Durable.outbox,
         before.disabled = Durable.disabled,
         before.identified <=> Durable.identified \/ before.phase = "running",
         before.phase # "registered" => before.renewal = Durable.renewal,
         Durable.phase \notin Terminal \cup {"unknown"},
         before.phase = "registered" => Durable.phase = "prepared",
         before.phase \notin {"absent", "prepared"},
         before.identified => producer # "none",
         before.phase = "not_started" => producer = "none",
         before.phase \in {"succeeded", "failed"} => producer = before.phase,
         before.phase = "running" => producer # "none",
         LET job == Enqueue(before, before.phase) IN Commit(job, <<Last(job.outbox)>>, rest)
  PROVE  Kept' /\ Follows(Durable, Durable')
<1> DEFINE job == Enqueue(before, before.phase)
           o == [seq |-> before.next, state |-> before.phase, process |-> before.identified]
           e == [phase |-> job.phase, obs |-> <<o>>, renewal |-> job.renewal]
<1>0. before.phase \in Phases /\ Sound(Durable, wire, server, producer) /\ Booked(Durable)
  BY DEF StoredJob, Kept, Sound
<1>1. /\ o \in Observation /\ job \in StoredJob
      /\ job.next = before.next + 1 /\ job.outbox = Append(before.outbox, o)
      /\ job.phase = before.phase /\ job.identified = before.identified
      /\ job.disabled = before.disabled /\ job.renewal = before.renewal
      /\ Last(job.outbox) = o
  BY <1>0, EnqueueFields
<1>2. o.seq = before.next /\ o.state = before.phase /\ o.process = before.identified
  OBVIOUS
<1>3. Commit(job, <<o>>, rest)
  BY <1>1
<1> HIDE DEF job, o
<1>4. Replay(disk, e) = job /\ e \in Event
  BY <1>0, <1>1, <1>2, EventReplayed
<1>5. Tells(job, producer, o)
  <2>1. Durable.phase = "prepared" => Durable.next = 1
    BY <1>0 DEF Booked
  <2>2. before.next \in Nat
    BY DEF StoredJob
  <2>3. job.next - 1 = o.seq
    BY <1>1, <1>2, <2>2
  <2> QED BY <1>1, <1>2, <2>1, <2>3 DEF Tells, Terminal
<1>6. Sound(job, wire, server, producer)
  BY <1>0, <1>1, <1>2, <1>5, EnqueueSound
<1>7. Follows(Durable, job)
  BY <1>1 DEF Follows
<1> HIDE DEF e
<1> QED BY <1>1, <1>3, <1>4, <1>6, <1>7, CommitKept DEF e

\* apply_terminal and set_unknown: the end of a job that had not ended.
LEMMA EndedKept ==
  ASSUME Kept, LaunchInv', UNCHANGED environment, mode' = mode,
         todo # <<>>, Head(todo) # "save", mem.phase \notin Terminal \cup {"unknown"},
         NEW phase \in {"unknown", "not_started", "succeeded", "failed"},
         CommitPhase(phase, <<"flush">>),
         phase = "not_started" => producer = "none",
         phase \in {"succeeded", "failed"} => producer = phase
  PROVE  Kept' /\ Follows(Durable, Durable')
<1> DEFINE before == [mem EXCEPT !.phase = phase]
<1>0. journal = <<>> /\ disk = mem /\ Durable = mem /\ mem \in StoredJob
      /\ Sound(mem, wire, server, producer)
  BY MemorySaved
<1>1. /\ before \in StoredJob /\ before.phase = phase /\ before.next = mem.next
      /\ before.outbox = mem.outbox /\ before.identified = mem.identified
      /\ before.disabled = mem.disabled /\ before.renewal = mem.renewal
  BY <1>0 DEF StoredJob, Phases, Terminal
<1>2. LET job == Enqueue(before, before.phase)
      IN Commit(job, <<Last(job.outbox)>>, <<"flush">>)
  BY <1>1 DEF CommitPhase
<1>3. todo' = <<"save", "flush">>
  BY <1>2, PushTwo DEF Commit
<1>4. StackPhases'
  BY <1>3 DEF StackPhases, Watching, Observing, At
<1>5. mem.identified => producer # "none"
  BY <1>0 DEF Sound, Believed
<1> HIDE DEF before
<1> QED BY <1>0, <1>1, <1>2, <1>4, <1>5, ObservedKept

\* A step of flush_reports or maybe_renew, as far as what the process does next.
LEMMA FlushingPhases ==
  ASSUME Kept, todo # <<>>, Head(todo) \in {"flush", "await", "renew"},
         mem'.phase = mem.phase,
         \/ todo' \in {Tail(todo), <<"flush">> \o Tail(todo), <<"renew">> \o Tail(todo)}
         \/ todo' = <<"await">> \o Tail(todo) /\ mem'.outbox # <<>>
  PROVE  StackPhases'
<1>1. Stacks
  BY DEF Kept, LaunchInv
<1>2. /\ todo' \in Watching \cup Observing => todo \in Watching \cup Observing
      /\ todo' \notin {<<"authority">>, <<"prepare">>, <<"capture">>}
      /\ todo' \in {Tail(todo), <<"flush">> \o Tail(todo), <<"renew">> \o Tail(todo)} =>
           ~(todo' # <<>> /\ Head(todo') = "await")
  BY <1>1, Rewound
<1>3. todo \in Watching \cup Observing => mem.phase \in {"launch_intent", "running"}
  BY DEF Kept, StackPhases
<1> QED BY <1>2, <1>3 DEF StackPhases, At

\* Every step of a guardian keeps its records and reports, and undoes none.
LEMMA GuardianKeeps ==
  ASSUME Kept, GuardianStep, LaunchInv'
  PROVE  Kept' /\ Follows(Durable, Durable')
<1> USE DEF At, Continue
<1>0. /\ Types /\ Stacks /\ StackPhases /\ LaunchPending /\ mem \in StoredJob
      /\ LaunchRecorded /\ (launches = 0 <=> producer = "none")
      /\ mode \in Modes /\ leased \in BOOLEAN /\ revoked \in BOOLEAN
      /\ Sound(Durable, wire, server, producer)
  BY DEF Kept, LaunchInv, Types
<1>m. ASSUME todo # <<>>, Head(todo) # "save"
      PROVE  /\ journal = <<>> /\ disk = mem /\ Durable = mem
             /\ Sound(mem, wire, server, producer) /\ (mem.identified => producer # "none")
  BY <1>m, MemorySaved DEF Sound, Believed
<1>1. CASE Save
  <2>1. Durable = mem /\ Persist(mem) /\ UNCHANGED environment /\ mode' = mode
    BY <1>1 DEF Save, Kept
  <2>2. todo \in Saving \cup {<<"save", "spawn">>}
    BY <1>0, <1>1 DEF Save, Stacks, Launching, Saving, Working
  <2>3. /\ todo' \in {<<>>, <<"spawn">>, <<"flush">>, <<"flush", "watch">>}
        /\ todo' = <<"flush", "watch">> => todo = <<"save", "flush", "watch">>
    <3>0. todo' = Tail(todo)
      BY <1>1 DEF Save
    <3>1. CASE todo = <<"save">>
      BY <3>0, <3>1, PopOne
    <3>2. CASE todo = <<"save", "flush">>
      BY <3>0, <3>2, PopTwo
    <3>3. CASE todo = <<"save", "spawn">>
      BY <3>0, <3>3, PopTwo
    <3>4. CASE todo = <<"save", "flush", "watch">>
      BY <3>0, <3>4, PopThree
    <3> QED BY <2>2, <3>1, <3>2, <3>3, <3>4 DEF Saving
  <2>4. todo' = <<"flush", "watch">> => mem.phase \in {"launch_intent", "running"}
    BY <1>0, <2>3 DEF StackPhases, Watching
  <2>5. mem' = mem
    BY <2>1 DEF Persist
  <2>6. StackPhases'
    BY <2>3, <2>4, <2>5 DEF StackPhases, Watching, Observing
  <2> QED BY <1>0, <2>1, <2>6, PersistKept DEF Follows
<1>2. CASE SkipFlush \/ FlushDone \/ KeepRenewal
  <2>1. /\ todo # <<>> /\ Head(todo) \in {"flush", "await", "renew"}
        /\ UNCHANGED <<disk, journal, mem, mode, environment>>
        /\ todo' \in {Tail(todo), <<"flush">> \o Tail(todo), <<"renew">> \o Tail(todo)}
    BY <1>2 DEF SkipFlush, FlushDone, KeepRenewal
  <2>2. StackPhases'
    BY <2>1, FlushingPhases
  <2> QED BY <1>0, <2>1, <2>2, StaysKept DEF environment
<1>3. CASE Send
  <2>1. StackPhases'
    BY <1>3, FlushingPhases DEF Send
  <2>2. Sound(mem, wire', server, producer)
    BY <1>3, <1>m, SendSound DEF Send
  <2>3. Durable' = Durable /\ Durable = mem
    BY <1>3, <1>m DEF Send, Durable
  <2>4. Sound(Durable, wire, server, producer)'
    BY <1>3, <2>2, <2>3 DEF Send
  <2> QED BY <1>0, <1>3, <2>1, <2>3, <2>4 DEF Send, Kept, Types, Follows
<1>4. CASE Delivered
  <2> DEFINE new == [mem EXCEPT !.outbox = Tail(@)]
  <2>0. mem.outbox # <<>> /\ mem.outbox \in Seq(Observation)
    BY <1>0, <1>4 DEF Delivered, StackPhases, StoredJob
  <2>1. Tail(mem.outbox) \in Seq(Observation) /\ Head(mem.outbox) = mem.outbox[1]
    BY <2>0
  <2>2. /\ new \in StoredJob /\ new.next = mem.next /\ new.phase = mem.phase
        /\ new.identified = mem.identified /\ new.outbox = Tail(mem.outbox)
        /\ new.disabled = mem.disabled /\ new.renewal = mem.renewal
    BY <1>0, <2>1 DEF StoredJob
  <2>3. Persist(new) /\ UNCHANGED environment /\ mode' = mode
    BY <1>4 DEF Delivered
  <2> HIDE DEF new
  <2>4. mem'.phase = mem.phase
    BY <2>2, <2>3 DEF Persist
  <2>5. StackPhases'
    BY <1>4, <2>4, FlushingPhases DEF Delivered
  <2>6. Sound(new, wire, server, producer)
    BY <1>4, <1>m, <2>0, <2>1, <2>2, DeliveredSound DEF Delivered
  <2>7. Follows(Durable, new)
    BY <1>4, <1>m, <2>2 DEF Follows, Delivered
  <2> QED BY <1>0, <2>2, <2>3, <2>5, <2>6, <2>7, PersistKept
<1>5. CASE Undelivered
  <2>1. StackPhases'
    BY <1>5, FlushingPhases DEF Undelivered, Persist
  <2> QED BY <1>0, <1>5, <1>m, <2>1, PersistKept DEF Undelivered, Follows
<1>6. CASE Forbidden
  <2> DEFINE new == [mem EXCEPT !.disabled = TRUE]
  <2>2. /\ new \in StoredJob /\ new.next = mem.next /\ new.phase = mem.phase
        /\ new.identified = mem.identified /\ new.outbox = mem.outbox
        /\ new.disabled /\ new.renewal = mem.renewal
    BY <1>0 DEF StoredJob
  <2>3. Persist(new) /\ UNCHANGED environment /\ mode' = mode
    BY <1>6 DEF Forbidden
  <2> HIDE DEF new
  <2>4. mem'.phase = mem.phase
    BY <2>2, <2>3 DEF Persist
  <2>5. StackPhases'
    BY <1>6, <2>4, FlushingPhases DEF Forbidden
  <2>6. mem.phase # "absent"
    BY <1>6 DEF Forbidden, Kept, LaunchInv, PhaseDurable
  <2>8. Sound(new, wire, server, producer)
    BY <1>6, <1>m, <2>2, <2>6, SettingsSound DEF Forbidden
  <2>7. Follows(Durable, new)
    BY <1>6, <1>m, <2>2 DEF Follows, Forbidden
  <2> QED BY <1>0, <2>2, <2>3, <2>5, <2>7, <2>8, PersistKept
<1>7. CASE EndRenewal
  <2> DEFINE new == [mem EXCEPT !.renewal = FALSE]
  <2>2. /\ new \in StoredJob /\ new.next = mem.next /\ new.phase = mem.phase
        /\ new.identified = mem.identified /\ new.outbox = mem.outbox
        /\ new.disabled = mem.disabled /\ ~new.renewal
    BY <1>0 DEF StoredJob
  <2>3. Persist(new) /\ UNCHANGED environment /\ mode' = mode
    BY <1>7 DEF EndRenewal
  <2> HIDE DEF new
  <2>4. mem'.phase = mem.phase
    BY <2>2, <2>3 DEF Persist
  <2>5. StackPhases'
    BY <1>7, <2>4, FlushingPhases DEF EndRenewal
  <2>6. Sound(new, wire, server, producer)
    BY <1>7, <1>m, <2>2, SettingsSound DEF EndRenewal, Sound, Booked
  <2>7. Follows(Durable, new)
    BY <1>7, <1>m, <2>2 DEF Follows, EndRenewal
  <2> QED BY <1>0, <2>2, <2>3, <2>5, <2>6, <2>7, PersistKept
<1>8. CASE Dispatch
  <2>0. todo # <<>> /\ Head(todo) # "save" /\ mode' = mode /\ UNCHANGED environment
    BY <1>8 DEF Dispatch
  <2>1. CASE mem.phase = "launch_intent" /\ CommitPhase("unknown", <<"flush">>)
    BY <2>0, <2>1, EndedKept DEF Terminal
  <2>2. CASE /\ \/ MayLaunch /\ todo' = <<"authority">>
                \/ mem.phase = "running" /\ todo' = <<"flush", "observe">>
                \/ todo' \in {<<"flush">>, <<>>}
             /\ UNCHANGED <<disk, journal, mem>>
    <3>1. StackPhases'
      <4>1. CASE MayLaunch /\ todo' = <<"authority">> /\ mem' = mem
        BY <4>1 DEF StackPhases, Watching, Observing, MayLaunch
      <4>2. CASE mem.phase = "running" /\ todo' = <<"flush", "observe">> /\ mem' = mem
        BY <4>2 DEF StackPhases
      <4>3. CASE todo' \in {<<"flush">>, <<>>}
        BY <4>3 DEF StackPhases, Watching, Observing
      <4> QED BY <2>2, <4>1, <4>2, <4>3
    <3> QED BY <1>0, <2>0, <2>2, <3>1, StaysKept DEF environment
  <2> QED BY <1>8, <2>1, <2>2 DEF Dispatch
<1>9. CASE Allowed
  <2>1. todo = <<"authority">>
    BY <1>0, <1>9, Unwound DEF Allowed
  <2>2. StackPhases'
    BY <1>0, <1>9, <2>1 DEF Allowed, StackPhases, Watching, Observing
  <2> QED BY <1>0, <1>9, <2>2, StaysKept DEF Allowed, environment
<1>10. CASE Denied \/ Unprepared \/ NotSpawned
  <2>1. todo \in {<<"authority">>, <<"prepare">>, <<"spawn">>}
    BY <1>0, <1>10, Unwound DEF Denied, Unprepared, NotSpawned
  <2>2. launches = 0 /\ mem.phase \in {"registered", "launch_intent"}
    BY <1>0, <2>1 DEF StackPhases, LaunchPending, Launching
  <2> QED BY <1>0, <1>10, <2>2, EndedKept DEF Denied, Unprepared, NotSpawned, Terminal
<1>11. CASE Uncertain
  <2>1. StackPhases'
    BY <1>11 DEF Uncertain, StackPhases, Watching, Observing
  <2> QED BY <1>0, <1>11, <1>m, <2>1, PersistKept DEF Uncertain, Follows
<1>12. CASE Intend
  <2> DEFINE new == [mem EXCEPT !.phase = "launch_intent"]
             e == [phase |-> new.phase, obs |-> <<>>, renewal |-> new.renewal]
  <2>0. todo = <<"prepare">> /\ mem.phase = "registered"
    BY <1>0, <1>12, Unwound DEF Intend, StackPhases
  <2>1. Commit(new, <<>>, <<"spawn">>) /\ UNCHANGED environment /\ mode' = mode
    BY <1>12 DEF Intend
  <2>2. /\ new \in StoredJob /\ new.next = mem.next /\ new.phase = "launch_intent"
        /\ new.identified = mem.identified /\ new.outbox = mem.outbox
        /\ new.disabled = mem.disabled /\ new.renewal = mem.renewal
    BY <1>0 DEF StoredJob, Phases
  <2>3. todo' = <<"save", "spawn">>
    BY <2>1, PushTwo DEF Commit
  <2>4. StackPhases'
    BY <2>3 DEF StackPhases, Watching, Observing
  <2>5. e \in Event
    BY <2>2 DEF Event, StoredJob
  <2>6. Replay(mem, e) = new
    <3> DEFINE replayed == [mem EXCEPT !.phase = e.phase,
                              !.identified = @ \/ e.phase = "running",
                              !.renewal = IF e.phase = "registered" THEN e.renewal ELSE @]
    <3>1. Replay(mem, e) = replayed
      BY DEF Replay
    <3>2. /\ replayed \in StoredJob /\ replayed.phase = "launch_intent"
          /\ replayed.next = mem.next /\ replayed.outbox = mem.outbox
          /\ replayed.disabled = mem.disabled /\ replayed.renewal = mem.renewal
      BY <1>0, <2>2 DEF StoredJob, Phases
    <3>3. replayed.identified = mem.identified
      BY <1>0, <2>2 DEF StoredJob
    <3> HIDE DEF new, replayed, e
    <3> QED BY <2>2, <3>1, <3>2, <3>3, SameJob
  <2> HIDE DEF new
  <2>7. Sound(new, wire, server, producer)
    BY <1>12, <1>m, <2>0, <2>2, SettingsSound DEF Intend, Terminal
  <2>8. Follows(Durable, new)
    BY <1>12, <1>m, <2>0, <2>2 DEF Follows, Intend, Terminal
  <2>9. journal = <<>> /\ disk = mem
    BY <1>12, <1>m DEF Intend
  <2> QED BY <2>1, <2>2, <2>4, <2>5, <2>6, <2>7, <2>8, <2>9, CommitKept
<1>13. CASE Spawn
  <2>1. todo = <<"spawn">>
    BY <1>0, <1>13, Unwound DEF Spawn
  <2>2. launches = 0 /\ mem.phase = "launch_intent" /\ producer = "none"
    BY <1>0, <2>1 DEF LaunchPending, Launching
  <2>3. todo' = <<"capture">>
    BY <1>13, <2>1, PopOne, PushOne DEF Spawn
  <2>a. mem' = mem
    BY <1>13 DEF Spawn
  <2>4. StackPhases'
    BY <2>2, <2>3, <2>a DEF StackPhases, Watching, Observing
  <2>5. Durable' = Durable /\ Durable = mem
    BY <1>13, <1>m DEF Spawn, Durable
  <2>6. Sound(mem, wire, server, "running")
    BY <1>13, <1>m, <2>2, ProducerSound DEF Spawn
  <2>7. Sound(Durable, wire, server, producer)'
    BY <1>13, <2>5, <2>6 DEF Spawn
  <2>8. launches' # 0 /\ producer' = "running"
    BY <1>13, <2>2 DEF Spawn
  <2> QED BY <1>0, <1>13, <2>4, <2>5, <2>7, <2>8 DEF Spawn, Kept, Types, Follows
<1>14. CASE Captured
  <2> DEFINE before == [mem EXCEPT !.phase = "running", !.identified = TRUE]
  <2>0. todo = <<"capture">> /\ mem.phase = "launch_intent"
    BY <1>0, <1>14, Unwound DEF Captured, StackPhases
  <2>1. /\ before \in StoredJob /\ before.phase = "running" /\ before.next = mem.next
        /\ before.outbox = mem.outbox /\ before.identified
        /\ before.disabled = mem.disabled /\ before.renewal = mem.renewal
    BY <1>0 DEF StoredJob, Phases
  <2>2. LET job == Enqueue(before, before.phase)
        IN Commit(job, <<Last(job.outbox)>>, <<"flush", "watch">>)
    BY <1>14, <2>1 DEF Captured
  <2>a. mem' = Enqueue(before, before.phase)
    BY <2>2 DEF Commit
  <2>b. mem'.phase = before.phase
    BY <2>1, <2>a, EnqueueFields, before.phase \in Phases DEF Phases
  <2>3. /\ producer = "running" /\ UNCHANGED environment /\ mode' = mode
        /\ mem'.phase = "running"
    BY <1>14, <2>1, <2>b DEF Captured
  <2>4. todo' = <<"save", "flush", "watch">>
    BY <2>2, PushThree DEF Commit
  <2>5. StackPhases'
    BY <2>3, <2>4 DEF StackPhases, Watching, Observing
  <2>6. journal = <<>> /\ disk = mem /\ Durable = mem
    BY <1>14, <1>m DEF Captured
  <2> HIDE DEF before
  <2> QED BY <2>0, <2>1, <2>2, <2>3, <2>5, <2>6, ObservedKept DEF Terminal
<1>15. CASE NotCaptured
  <2>1. todo = <<"capture">>
    BY <1>0, <1>15, Unwound DEF NotCaptured
  <2>2. StackPhases'
    BY <1>0, <1>15, <2>1 DEF NotCaptured, StackPhases, Watching, Observing
  <2> QED BY <1>0, <1>15, <2>2, StaysKept DEF NotCaptured, environment
<1>16. CASE ReportExit \/ LoseSight
  <2>1. todo \in {<<"watch">>, <<"observe">>}
    BY <1>0, <1>16, Unwound DEF ReportExit, LoseSight
  <2>2. mem.phase \in {"launch_intent", "running"}
    BY <1>0, <2>1 DEF StackPhases, Watching, Observing
  <2> QED BY <1>16, <2>2, EndedKept DEF ReportExit, LoseSight, Terminal
<1>17. ASSUME At("watch") \/ At("observe"), todo' = <<"flush">> \o todo
       PROVE  /\ mem.phase \in {"launch_intent", "running"}
              /\ mem'.phase = mem.phase => StackPhases'
  <2>1. todo \in {<<"watch">>, <<"observe">>}
    BY <1>0, <1>17, Unwound
  <2>2. todo' \in {<<"flush", "watch">>, <<"flush", "observe">>}
    BY <1>17, <2>1, PushTwo
  <2>3. mem.phase \in {"launch_intent", "running"}
    BY <1>0, <2>1 DEF StackPhases, Watching, Observing
  <2> QED BY <2>2, <2>3 DEF StackPhases, Watching, Observing
<1>18. CASE NotDue
  BY <1>0, <1>17, <1>18, StaysKept DEF NotDue, environment
<1>19. CASE EnqueueRunning
  <2> DEFINE new == Enqueue(mem, "running")
             o == [seq |-> mem.next, state |-> "running", process |-> mem.identified]
  <2>1. /\ o \in Observation /\ new \in StoredJob
        /\ new.next = mem.next + 1 /\ new.outbox = Append(mem.outbox, o)
        /\ new.phase = mem.phase /\ new.identified = mem.identified
        /\ new.disabled = mem.disabled /\ new.renewal = mem.renewal
    BY <1>0, EnqueueFields DEF Phases
  <2>2. Persist(new) /\ UNCHANGED environment /\ mode' = mode /\ producer = "running"
    BY <1>19 DEF EnqueueRunning
  <2>3. o.seq = mem.next /\ o.state = "running" /\ o.process = mem.identified
    OBVIOUS
  <2> HIDE DEF new, o
  <2>4. mem.phase \in {"launch_intent", "running"} /\ StackPhases'
    BY <1>17, <1>19, <2>1, <2>2 DEF EnqueueRunning, Persist
  <2>5. Tells(new, producer, o)
    BY <2>2, <2>3 DEF Tells, Terminal
  <2>6. Sound(new, wire, server, producer)
    BY <1>19, <1>m, <2>1, <2>2, <2>3, <2>4, <2>5, EnqueueSound DEF EnqueueRunning, Terminal
  <2>7. Follows(Durable, new)
    BY <1>19, <1>m, <2>1 DEF Follows, EnqueueRunning
  <2> QED BY <1>0, <2>1, <2>2, <2>4, <2>6, <2>7, PersistKept
<1> QED BY <1>1, <1>2, <1>3, <1>4, <1>5, <1>6, <1>7, <1>8, <1>9, <1>10, <1>11, <1>12, <1>13,
           <1>14, <1>15, <1>16, <1>18, <1>19 DEF GuardianStep

\* Nothing is recorded or reported.
LEMMA KeptInit == Init => Kept
<1> SUFFICES ASSUME Init PROVE Kept
  OBVIOUS
<1>1. LaunchInv
  BY LaunchInvInit
<1>2. NoJob \in StoredJob /\ NoJob.next = 1 /\ NoJob.outbox = <<>> /\ ~NoJob.identified
      /\ NoJob.phase = "absent" /\ ~NoJob.disabled
  BY DEF NoJob, StoredJob, Phases
<1>3. Types /\ StackPhases /\ Durable = NoJob
  <2>1. journal \in Seq(Event) /\ Durable = NoJob
    BY DEF Init, Durable
  <2>2. StackPhases
    BY DEF Init, StackPhases, Watching, Observing, At
  <2> HIDE DEF NoJob
  <2>3. Types
    BY <1>2, <2>1 DEF Init, Types, Modes
  <2> QED BY <2>1, <2>2, <2>3
<1>4. /\ server \in Row /\ server.last = 0 /\ server.seen = {} /\ ~server.launched
      /\ server.state = "registered"
  BY DEF Init, Row, Phases
<1>5. First(NoJob) = 1 /\ Len(NoJob.outbox) = 0
  BY <1>2 DEF First
<1>6. Booked(NoJob)
  BY <1>2, <1>5 DEF Booked
<1>7. Answered(NoJob, {}, server)
  BY <1>4, <1>5 DEF Answered
<1>8. Believed(NoJob, server, "none")
  BY <1>2, <1>4 DEF Believed, Terminal
<1>9. Sound(NoJob, {}, server, "none")
  BY <1>4, <1>5, <1>6, <1>7, <1>8 DEF Sound
<1> QED BY <1>1, <1>3, <1>9 DEF Init, Kept

\* So does everything around it.
LEMMA KeptNext ==
  ASSUME Kept, [Next]_vars
  PROVE  Kept' /\ Follows(Durable, Durable')
<1>0. /\ LaunchInv /\ Types /\ Stacks /\ StackPhases /\ Sound(Durable, wire, server, producer)
      /\ (launches = 0 <=> producer = "none") /\ disk \in StoredJob
      /\ mode \in Modes /\ leased \in BOOLEAN /\ revoked \in BOOLEAN
  BY DEF Kept, LaunchInv, Types
<1>1. LaunchInv'
  BY <1>0, LaunchInvNext
<1>2. Durable \in StoredJob
  BY <1>0 DEF Sound, Booked
<1>3. ASSUME todo' = <<>> PROVE StackPhases'
  BY <1>3 DEF StackPhases, Watching, Observing, At
<1>4. CASE Initialize
  <2> DEFINE new == [NoJob EXCEPT !.phase = "prepared"]
  <2>1. /\ new \in StoredJob /\ new.phase = "prepared" /\ new.next = 1 /\ new.outbox = <<>>
        /\ ~new.identified /\ ~new.disabled /\ ~new.renewal
    <3>1. /\ NoJob \in StoredJob /\ NoJob.next = 1 /\ NoJob.outbox = <<>>
          /\ ~NoJob.identified /\ ~NoJob.disabled /\ ~NoJob.renewal
      BY DEF NoJob, StoredJob, Phases
    <3> HIDE DEF NoJob
    <3> QED BY <3>1 DEF StoredJob, Phases
  <2>2. /\ Persist(new) /\ UNCHANGED environment /\ mode' = mode /\ todo' = <<>>
        /\ disk.phase = "absent"
    BY <1>4 DEF Initialize
  <2> HIDE DEF new
  <2>3. journal = <<>>
    BY <1>0, <2>2 DEF LaunchInv, OneEvent
  <2>4. Durable = disk
    BY <2>3 DEF Durable
  <2>5. /\ disk.next = 1 /\ disk.outbox = <<>> /\ (disk.identified <=> FALSE)
        /\ ~disk.disabled
    <3>1. Booked(disk) /\ Believed(disk, server, producer) /\ disk.outbox \in Seq(Observation)
      BY <1>0, <2>4 DEF Sound, StoredJob
    <3>2. producer = "none"
      BY <1>0, <2>2, <2>3 DEF LaunchInv, LaunchRecorded, SavedPhase, Launched
    <3>3. disk.next = 1 /\ Len(disk.outbox) < 1
      BY <2>2, <3>1 DEF Booked
    <3> QED BY <2>2, <3>1, <3>2, <3>3 DEF Booked, Believed
  <2>6. Sound(new, wire, server, producer)
    <3>1. new.identified = disk.identified
      BY <1>0, <2>1, <2>5 DEF StoredJob
    <3> QED BY <1>0, <2>1, <2>2, <2>4, <2>5, <3>1, SettingsSound DEF Terminal
  <2>7. Follows(Durable, new)
    BY <2>1, <2>2, <2>4, <2>5 DEF Follows, Terminal
  <2> QED BY <1>0, <1>1, <1>3, <2>1, <2>2, <2>6, <2>7, PersistKept
<1>5. ASSUME NEW renewal \in BOOLEAN, RecordRegistration(renewal)
      PROVE  Kept' /\ Follows(Durable, Durable')
  <2> DEFINE before == [Durable EXCEPT !.phase = "registered", !.renewal = renewal]
  <2>1. /\ before \in StoredJob /\ before.phase = "registered" /\ before.next = Durable.next
        /\ before.outbox = Durable.outbox /\ before.identified = Durable.identified
        /\ before.disabled = Durable.disabled
    BY <1>2 DEF StoredJob, Phases
  <2>2. LET job == Enqueue(before, before.phase)
        IN Commit(job, <<Last(job.outbox)>>, <<>>)
    BY <1>5, <2>1 DEF RecordRegistration
  <2>3. Durable.phase = "prepared" /\ UNCHANGED environment /\ mode' = mode
    BY <1>5 DEF RecordRegistration
  <2>4. SavedPhase = "prepared"
    BY <1>0, <2>3, RecoveredPhase DEF StoredJob
  <2>5. journal = <<>>
    BY <1>0, <2>4 DEF LaunchInv, OneEvent, SavedPhase
  <2>6. disk = Durable
    BY <2>5 DEF Durable
  <2>7. todo' = <<"save">>
    BY <2>2, PushOne DEF Commit
  <2>8. StackPhases'
    BY <2>7 DEF StackPhases, Watching, Observing, At
  <2>9. Durable.identified => producer # "none"
    BY <1>0 DEF Sound, Believed
  <2> HIDE DEF before
  <2> QED BY <1>1, <2>1, <2>2, <2>3, <2>5, <2>6, <2>8, <2>9, ObservedKept DEF Terminal
<1>6. ASSUME NEW m \in Modes, StartGuardian(m)
      PROVE  Kept' /\ Follows(Durable, Durable')
  <2>1. todo' = <<"flush", "dispatch">> /\ Persist(Durable) /\ UNCHANGED environment
        /\ mode' = m
    BY <1>6 DEF StartGuardian
  <2>2. StackPhases'
    BY <2>1 DEF StackPhases, Watching, Observing, At
  <2>3. Follows(Durable, Durable)
    BY DEF Follows
  <2> DEFINE new == Durable
  <2>4. new \in StoredJob /\ Persist(new) /\ Sound(new, wire, server, producer)
        /\ Follows(Durable, new)
    BY <1>0, <1>2, <2>1, <2>3
  <2> HIDE DEF new
  <2> QED BY <1>1, <1>6, <2>1, <2>2, <2>4, PersistKept
<1>7. CASE GuardianStep
  BY <1>1, <1>7, GuardianKeeps
<1>8. CASE Crash
  BY <1>0, <1>1, <1>3, <1>8, StaysKept DEF Crash, environment
<1>9. ASSUME UNCHANGED <<disk, journal, mem, todo>>
      PROVE  StackPhases' /\ Durable' = Durable
  BY <1>0, <1>9 DEF StackPhases, At, Durable
<1>10. ASSUME NEW result \in {"succeeded", "failed"}, ProducerExits(result)
       PROVE  Kept' /\ Follows(Durable, Durable')
  <2>1. StackPhases' /\ Durable' = Durable
    BY <1>9, <1>10 DEF ProducerExits
  <2>2. Sound(Durable, wire, server, result)
    BY <1>0, <1>10, ProducerSound DEF ProducerExits
  <2>3. Sound(Durable, wire, server, producer)'
    BY <1>10, <2>1, <2>2 DEF ProducerExits
  <2> QED BY <1>0, <1>1, <1>10, <2>1, <2>3 DEF ProducerExits, Kept, Types, Follows
<1>11. CASE LoseLease \/ Revoke \/ UNCHANGED vars
  <2>1. UNCHANGED <<disk, journal, mem, todo, producer, launches, wire, server, mode>>
        /\ leased' \in BOOLEAN /\ revoked' \in BOOLEAN
    BY <1>0, <1>11 DEF LoseLease, Revoke, vars
  <2> QED BY <1>0, <1>1, <1>9, <2>1, StaysKept
<1>12. ASSUME NEW o \in wire, ServerObserves(o)
       PROVE  Kept' /\ Follows(Durable, Durable')
  <2>1. StackPhases' /\ Durable' = Durable
    BY <1>9, <1>12 DEF ServerObserves
  <2>2. Sound(Durable, wire, server', producer)
    BY <1>0, <1>12, AcceptedSound DEF ServerObserves, Acceptable
  <2>3. Sound(Durable, wire, server, producer)'
    BY <1>12, <2>1, <2>2 DEF ServerObserves
  <2> QED BY <1>0, <1>1, <1>12, <2>1, <2>3 DEF ServerObserves, Kept, Types, Follows
<1> QED BY <1>4, <1>5, <1>6, <1>7, <1>8, <1>10, <1>11, <1>12 DEF Next

\* The invariant implies the properties of the guardian.
LEMMA KeptSound == Kept => GuardianSound
<1> SUFFICES ASSUME Kept PROVE GuardianSound
  OBVIOUS
<1>0. Types /\ Stacks /\ OneEvent /\ LaunchRecorded /\ Sound(Durable, wire, server, producer)
  BY DEF Kept, LaunchInv
<1>1. todo \in Seq(Steps)
  <2>1. \A a, b, c \in Steps : /\ <<>> \in Seq(Steps) /\ <<a>> \in Seq(Steps)
                               /\ <<a, b>> \in Seq(Steps) /\ <<a, b, c>> \in Seq(Steps)
    OBVIOUS
  <2>2. {"save", "flush", "await", "renew", "dispatch", "authority", "prepare", "spawn",
         "capture", "watch", "observe"} \subseteq Steps
    BY DEF Steps
  <2>0. <<>> \in Seq(Steps)
    OBVIOUS
  <2>3. CASE todo \in Launching
    BY <2>1, <2>2, <2>3 DEF Launching
  <2>4. CASE todo \in Saving
    BY <2>1, <2>2, <2>4 DEF Saving
  <2>5. CASE todo \in Working
    BY ZenonT(60), <2>1, <2>2, <2>5 DEF Working
  <2> QED BY <1>0, <2>0, <2>3, <2>4, <2>5 DEF Stacks
<1>2. TypeOK
  BY <1>0, <1>1 DEF TypeOK, Types, LaunchRecorded, Sound, Row
<1>3. Len(journal) <= 1
  <2>1. CASE journal = <<>>
    BY <2>1
  <2>2. ASSUME NEW e, journal = <<e>> PROVE Len(journal) <= 1
    BY <2>2
  <2> QED BY <1>0, <2>1, <2>2 DEF OneEvent
<1>4. CrashLosesNothing
  BY <1>3 DEF CrashLosesNothing, Kept
<1>5. ReportsAreTrue /\ NoObservationLost /\ NeverRefused
  BY <1>0, SoundReports DEF ReportsAreTrue, NoObservationLost, NeverRefused, Acceptable
<1> QED BY <1>2, <1>4, <1>5 DEF GuardianSound

\* Whatever crashes, restarts, is delayed or repeated, recovery reads back what the
\* process knew, what it sent is true, no observation is lost, and the service
\* refuses none (commit_event, recover, flush_reports).
THEOREM GuardianIsSound == Spec => []GuardianSound
<1>1. Kept /\ [Next]_vars => Kept'
  BY KeptNext
<1> QED BY <1>1, KeptInit, KeptSound, PTL DEF Spec

\* A recorded result, an unknown outcome and the end of reporting or of renewal are
\* never taken back on disk, across crashes between journal and save.
THEOREM RecordStands == Spec => LocalRecordStands
<1>1. Kept /\ [Next]_vars => Kept'
  BY KeptNext
<1>2. Kept /\ [Next]_vars =>
        [/\ Durable.phase \in Terminal \cup {"unknown"} => Durable'.phase = Durable.phase
         /\ Durable.disabled => Durable'.disabled
         /\ Durable.phase \notin {"absent", "prepared"} /\ ~Durable.renewal =>
             ~Durable'.renewal]_vars
  BY KeptNext DEF Follows
<1> QED BY <1>1, <1>2, KeptInit, PTL DEF Spec, LocalRecordStands

---------------------------------------------------------------------------
(* The launch directories *)

RootSteps == {"begin", "sweep", "lock", "place", "helper", "await", "launch", "stop", "remove",
              "ended", "killed"}

DirTypes ==
  /\ doing \in [Roots -> RootSteps]
  /\ sweeper \in Roots \cup {Nobody}
  /\ listed \subseteq Roots /\ stale \in Roots \cup {Nobody} /\ doomed \subseteq Roots
  /\ dir \in [Roots -> {"none", "staging", "placed", "bare"}]
  /\ lock \in [Roots -> {"none", "free", "held"}]
  /\ helper \in [Roots -> {"off", "starting", "serving", "told"}]

\* Who sweeps or builds holds the sweep lock, and only a sweep has entries to judge.
OneSweeper ==
  /\ \A r \in Roots : doing[r] \in {"sweep", "lock", "place"} <=> sweeper = r
  /\ listed # {} \/ stale # Nobody => sweeper # Nobody /\ doing[sweeper] = "sweep"

\* What a directory and its lock say about its launch-root: an unfinished build
\* is the builder's or a dead one's, a free lock is a dead one's, and a live
\* launch-root's directory is in place under a held lock.
DirsTell ==
  \A r \in Roots :
    /\ dir[r] = "staging" => doing[r] \in {"lock", "place", "ended", "killed"}
    /\ dir[r] = "placed" => lock[r] # "none"
    /\ lock[r] = "free" => doing[r] \in {"ended", "killed"}
    /\ doing[r] \in {"ended", "killed"} => lock[r] # "held"
    /\ doing[r] \in {"begin", "sweep"} => lock[r] = "none"
    /\ doing[r] = "place" => lock[r] = "held"
    /\ doing[r] \in {"helper", "await", "launch", "stop"} => dir[r] = "placed" /\ lock[r] = "held"

\* What is judged stale is a dead launch-root's, and stays so.
StaleIsDead == stale # Nobody => doing[stale] \in {"ended", "killed"}

HelpersAreOff ==
  \A r \in Roots :
    /\ helper[r] \in {"starting", "serving"} => doing[r] \in {"await", "launch", "stop"}
    /\ doing[r] \in {"begin", "sweep", "lock", "place", "helper", "remove", "ended"} =>
          helper[r] = "off"

\* A doomed directory the sweep has not removed is still listed or judged.
SweepProgress ==
  sweeper # Nobody =>
    \A d \in doomed :
      /\ doing[d] \in {"ended", "killed"}
      /\ dir[d] # "none" => d = stale \/ (d \in listed /\ dir[d] # "bare")

DirInv ==
  DirTypes /\ OneSweeper /\ DirsTell /\ StaleIsDead /\ HelpersAreOff /\ SweepProgress /\ lost = {}

\* No launch has begun.
LEMMA DirInvInit == LaunchDirs!HelperInit => DirInv
BY NoneAssumption DEF LaunchDirs!HelperInit, DirInv, DirTypes, RootSteps, OneSweeper, DirsTell,
      StaleIsDead, HelpersAreOff, SweepProgress

\* Every step of a launch-root or of a sweep keeps the invariant.
LEMMA DirInvStep == DirInv /\ LaunchDirs!HelperNext => DirInv'
<1> SUFFICES ASSUME DirInv, NEW r \in Roots,
                    \/ LaunchDirs!BeginSweep(r)
                    \/ \E d \in Roots : LaunchDirs!JudgeEntry(r, d)
                    \/ LaunchDirs!RemoveStaleLock(r) \/ LaunchDirs!RemoveStale(r)
                    \/ LaunchDirs!SweepFails(r) \/ LaunchDirs!BuildStaging(r)
                    \/ LaunchDirs!BuildLock(r) \/ LaunchDirs!Place(r) \/ LaunchDirs!BuildFails(r)
                    \/ LaunchDirs!StartHelper(r) \/ LaunchDirs!PublishSocket(r)
                    \/ LaunchDirs!HelperExits(r) \/ LaunchDirs!AwaitSocket(r)
                    \/ LaunchDirs!RunLaunch(r) \/ LaunchDirs!StopHelper(r)
                    \/ LaunchDirs!RemoveLockFile(r) \/ LaunchDirs!Remove(r) \/ LaunchDirs!Kill(r)
             PROVE  DirInv'
  BY DEF LaunchDirs!HelperNext
<1> USE NoneAssumption DEF LaunchDirs!Goes, LaunchDirs!sweep, LaunchDirs!files, LaunchDirs!Dead,
        LaunchDirs!Released
<1>0. DirTypes /\ OneSweeper /\ DirsTell /\ StaleIsDead /\ HelpersAreOff /\ SweepProgress
        /\ lost = {}
  BY DEF DirInv
<1>1. CASE LaunchDirs!BeginSweep(r)
  BY <1>0, <1>1 DEF LaunchDirs!BeginSweep, LaunchDirs!SweepLock, DirInv, DirTypes, RootSteps,
       OneSweeper, DirsTell, StaleIsDead, HelpersAreOff, SweepProgress
<1>2. ASSUME NEW d \in Roots, LaunchDirs!JudgeEntry(r, d) PROVE DirInv'
  BY <1>0, <1>2 DEF LaunchDirs!JudgeEntry, LaunchDirs!IsStale, DirInv, DirTypes, RootSteps,
       OneSweeper, DirsTell, StaleIsDead, HelpersAreOff, SweepProgress
<1>3. CASE LaunchDirs!RemoveStale(r) \/ LaunchDirs!RemoveStaleLock(r)
  BY <1>0, <1>3 DEF LaunchDirs!RemoveStale, LaunchDirs!RemoveStaleLock, LaunchDirs!Lives, DirInv, DirTypes, RootSteps,
       OneSweeper, DirsTell, StaleIsDead, HelpersAreOff, SweepProgress
<1>4. CASE LaunchDirs!BuildStaging(r)
  BY <1>0, <1>4 DEF LaunchDirs!BuildStaging, DirInv, DirTypes, RootSteps,
       OneSweeper, DirsTell, StaleIsDead, HelpersAreOff, SweepProgress
<1>5. CASE LaunchDirs!BuildLock(r)
  BY <1>0, <1>5 DEF LaunchDirs!BuildLock, DirInv, DirTypes, RootSteps,
       OneSweeper, DirsTell, StaleIsDead, HelpersAreOff, SweepProgress
<1>6. CASE LaunchDirs!Place(r)
  BY <1>0, <1>6 DEF LaunchDirs!Place, DirInv, DirTypes, RootSteps,
       OneSweeper, DirsTell, StaleIsDead, HelpersAreOff, SweepProgress
<1>7. CASE LaunchDirs!BuildFails(r)
  BY <1>0, <1>7 DEF LaunchDirs!BuildFails, DirInv, DirTypes, RootSteps,
       OneSweeper, DirsTell, StaleIsDead, HelpersAreOff, SweepProgress
<1>8. CASE LaunchDirs!StartHelper(r) \/ LaunchDirs!AwaitSocket(r) \/ LaunchDirs!RunLaunch(r)
           \/ LaunchDirs!StopHelper(r)
  BY <1>0, <1>8 DEF LaunchDirs!StartHelper, LaunchDirs!AwaitSocket, LaunchDirs!RunLaunch,
       LaunchDirs!StopHelper, DirInv, DirTypes, RootSteps,
       OneSweeper, DirsTell, StaleIsDead, HelpersAreOff, SweepProgress
<1>9. CASE LaunchDirs!PublishSocket(r) \/ LaunchDirs!HelperExits(r)
  BY <1>0, <1>9 DEF LaunchDirs!PublishSocket, LaunchDirs!HelperExits, DirInv, DirTypes, RootSteps,
       OneSweeper, DirsTell, StaleIsDead, HelpersAreOff, SweepProgress
<1>10. CASE LaunchDirs!RemoveLockFile(r) \/ LaunchDirs!Remove(r)
  BY <1>0, <1>10 DEF LaunchDirs!RemoveLockFile, LaunchDirs!Remove, DirInv, DirTypes, RootSteps,
       OneSweeper, DirsTell, StaleIsDead, HelpersAreOff, SweepProgress
<1>11. CASE LaunchDirs!Kill(r)
  BY <1>0, <1>11 DEF LaunchDirs!Kill, DirInv, DirTypes, RootSteps,
       OneSweeper, DirsTell, StaleIsDead, HelpersAreOff, SweepProgress
<1>12. CASE LaunchDirs!SweepFails(r)
  BY <1>0, <1>12 DEF LaunchDirs!SweepFails, DirInv, DirTypes, RootSteps,
       OneSweeper, DirsTell, StaleIsDead, HelpersAreOff, SweepProgress
<1> QED BY <1>1, <1>2, <1>3, <1>4, <1>5, <1>6, <1>7, <1>8, <1>9, <1>10, <1>11, <1>12

\* No sweep removes a live launch's directory or leaves a dead one's, and no
\* helper outlives its watch, for any number of launch-roots, in whatever order
\* they sweep, build, end and are killed (push_helper/layout.rs, push_helper.rs).
THEOREM LaunchDirsAreSound == ClientsSpec => []LaunchDirSound
<1>1. ClientsInit => DirInv
  BY DirInvInit DEF ClientsInit
<1>2. DirInv /\ [ClientsNext]_allVars => DirInv'
  <2> SUFFICES ASSUME DirInv, [ClientsNext]_allVars PROVE DirInv'
    OBVIOUS
  <2>1. CASE LaunchDirs!HelperNext
    BY <2>1, DirInvStep
  <2>2. CASE UNCHANGED dirVars
    BY <2>2 DEF dirVars, DirInv, DirTypes, OneSweeper, DirsTell, StaleIsDead, HelpersAreOff,
         SweepProgress
  <2> QED BY <2>1, <2>2 DEF ClientsNext, allVars
<1>3. DirInv => LaunchDirSound
  BY NoneAssumption
     DEF DirInv, DirTypes, OneSweeper, DirsTell, HelpersAreOff, SweepProgress, LaunchDirSound,
       LaunchDirs!LaunchDirSound, LaunchDirs!LiveDirStays, LaunchDirs!HelperIsWatched,
       LaunchDirs!SweepIsWhole
<1> QED BY <1>1, <1>2, <1>3, PTL DEF ClientsSpec

---------------------------------------------------------------------------
(* The integration intent *)

\* The steps of a command that hold the intent's lock, and those of them that
\* follow the grant of authority and may end in a push.
Locked == {"create", "materialize", "save", "authorize", "reobserve", "intend", "push", "after"}
Granted == {"reobserve", "intend", "push"}

PubTypes ==
  /\ contains \in BOOLEAN /\ reached \in BOOLEAN
  /\ pushIntent \in [phase : {"none", "preparing", "prepared", "push_intent", "published"},
                     result : {NoOne, Expected, Merged}]
  /\ started \in {0, 1} /\ flying \in {0, 1} /\ flying <= started

PubSteps ==
  /\ step \in [Procs -> Locked \cup {"idle", "register", "send", "sent", "confirm", "report",
                                     "attest_published", "attest_not"}]
  /\ pending \in [Procs -> {"none", "register", "report", "finalize", "published",
                            "not_published"}]

\* The lock is held by the command at one of the locked steps, and by no other.
IntentLock ==
  /\ \A p \in Procs : step[p] \in Locked <=> holder = p
  /\ holder \in Procs \cup {NoOne}

\* The phase in the file, while a command holds the lock.
IntentPhases ==
  /\ pushIntent.phase \in {"prepared", "push_intent", "published"} =>
        pushIntent.result = Publication!Result
  /\ pushIntent.phase \in {"none", "preparing"} =>
      pushIntent.result \in {NoOne, Publication!Result}
  /\ \A p \in Procs :
       /\ step[p] \in {"create", "materialize", "save"} => pushIntent.phase = "preparing"
       /\ step[p] \in {"materialize", "save"} => pushIntent.result = Publication!Result
       /\ step[p] \in {"authorize", "reobserve", "intend"} => pushIntent.phase = "prepared"
       /\ step[p] \in {"push", "after"} => pushIntent.phase = "push_intent"

\* A started push leaves a durable push intent, which nothing turns back.
PushCount ==
  /\ started = 1 => pushIntent.phase \in {"push_intent", "published"}
  /\ \A p \in Procs : step[p] = "push" => started = 0

\* Only the owner is granted a push, with nothing pending, and not any more once
\* it has retired; a denial stands until the next grant, and a recorded one for good.
PushRights ==
  /\ \A p \in Procs : /\ step[p] \in Granted \cup {"authorize"} => pending[p] = "none"
                      /\ step[p] \in Granted => p = Owner
  /\ retired => step[Owner] = "idle"
  /\ denied => flying = 0 /\ \A p \in Procs : step[p] \notin Granted
  /\ \A p \in Procs : pending[p] = "not_published" \/ step[p] = "attest_not" =>
        started = 0 /\ (p # Owner => retired)
  /\ service = "abandoned" => started = 0 /\ \A p \in Procs : step[p] \notin Granted

SeenOnTarget ==
  /\ target = Publication!Result => reached
  /\ pushIntent.phase = "published" => reached

\* What is on its way to the service is true, and so is what it has.
ToldTrue ==
  /\ \A p \in Procs : pending[p] \in {"report", "published"} \/
                      step[p] \in {"report", "attest_published"} => reached
  /\ service \in {"reported", "finalized", "reconciled"} => reached

PubInv ==
  /\ PubTypes /\ PubSteps /\ IntentLock /\ IntentPhases
  /\ PushCount /\ PushRights /\ SeenOnTarget /\ ToldTrue

\* Nothing is prepared and no intent is saved.
LEMMA PubInvInit == Publication!PublisherInit => PubInv
BY NoneAssumption DEF Publication!PublisherInit, Publication!Result, PubInv, PubTypes, PubSteps,
      Locked, Granted, IntentLock, IntentPhases, PushCount, PushRights, SeenOnTarget, ToldTrue

\* A push that lands moves the target from the expected commit to the result.
LEMMA LandsEffect ==
  ASSUME reached \in BOOLEAN, Publication!Lands
  PROVE  /\ target' = IF target = Expected THEN pushIntent.result ELSE target
         /\ reached' \in BOOLEAN /\ (reached' <=> reached \/ target = Expected)
BY DEF Publication!Lands

\* Every step of a publisher, of the service and of the branch keeps the invariant.
LEMMA PubInvStep == PubInv /\ Publication!PublisherNext => PubInv'
<1> SUFFICES ASSUME PubInv, Publication!PublisherNext PROVE PubInv'
  OBVIOUS
<1> USE NoneAssumption DEF Publication!remote, Publication!told, Publication!Result, Locked,
                           Granted
<1>0. /\ PubTypes /\ PubSteps /\ IntentLock /\ IntentPhases
      /\ PushCount /\ PushRights /\ SeenOnTarget /\ ToldTrue
  BY DEF PubInv
<1>1. ASSUME NEW p \in Procs, Publication!Prepare(p) PROVE PubInv'
  BY <1>0, <1>1 DEF Publication!Prepare, Publication!MayPrepare, Publication!Save,
        Publication!Begin, Publication!LockIntent, Publication!Free, Publication!Continue, PubInv,
        PubTypes, PubSteps, IntentLock, IntentPhases, PushCount, PushRights, SeenOnTarget,
        ToldTrue
<1>2. ASSUME NEW p \in Procs, Publication!CreateResult(p) PROVE PubInv'
  BY <1>0, <1>2 DEF Publication!CreateResult, Publication!Continue, Publication!Result, PubInv,
        PubTypes, PubSteps, IntentLock, IntentPhases, PushCount, PushRights, SeenOnTarget,
        ToldTrue
<1>3. ASSUME NEW p \in Procs, Publication!MaterializeResult(p) PROVE PubInv'
  BY <1>0, <1>3 DEF Publication!MaterializeResult, Publication!Materialize, Publication!Continue,
        PubInv, PubTypes, PubSteps, IntentLock, IntentPhases, PushCount, PushRights, SeenOnTarget,
        ToldTrue
<1>4. ASSUME NEW p \in Procs, Publication!FinishPreparation(p) PROVE PubInv'
  BY <1>0, <1>4 DEF Publication!FinishPreparation, Publication!Save, Publication!Continue, PubInv,
        PubTypes, PubSteps, IntentLock, IntentPhases, PushCount, PushRights, SeenOnTarget,
        ToldTrue
<1>5. ASSUME NEW p \in Procs, Publication!MaterializePrepared(p) PROVE PubInv'
  BY <1>0, <1>5 DEF Publication!MaterializePrepared, Publication!MayPrepare,
        Publication!LockIntent, Publication!Free, Publication!Materialize, Publication!Continue,
        Publication!Ready, PubInv, PubTypes, PubSteps, IntentLock, IntentPhases, PushCount,
        PushRights, SeenOnTarget, ToldTrue
<1>6. ASSUME NEW p \in Procs, Publication!Publish(p) PROVE PubInv'
  BY <1>0, <1>6 DEF Publication!Publish, Publication!NothingPending, Publication!LockIntent,
        Publication!Free, Publication!Ready, Publication!AtResult, Publication!Begin,
        Publication!Continue, PubInv, PubTypes, PubSteps, IntentLock, IntentPhases, PushCount,
        PushRights, SeenOnTarget, ToldTrue
<1>7. ASSUME NEW p \in Procs, Publication!PublishSettled(p) PROVE PubInv'
  BY <1>0, <1>7 DEF Publication!PublishSettled, Publication!NothingPending,
        Publication!LockIntent, Publication!Free, Publication!Ready, Publication!AtResult,
        Publication!Settles, Publication!Observed, Publication!Save, Publication!End,
        Publication!Continue, PubInv, PubTypes, PubSteps, IntentLock, IntentPhases, PushCount,
        PushRights, SeenOnTarget, ToldTrue
<1>8. ASSUME NEW p \in Procs, Publication!Authorize(p) PROVE PubInv'
  BY <1>0, <1>8 DEF Publication!Authorize, Publication!Continue, PubInv, PubTypes, PubSteps,
        IntentLock, IntentPhases, PushCount, PushRights, SeenOnTarget, ToldTrue
<1>9. ASSUME NEW p \in Procs, Publication!Reobserve(p) PROVE PubInv'
  BY <1>0, <1>9 DEF Publication!Reobserve, Publication!AtResult, Publication!Continue,
        Publication!Settles, Publication!Observed, Publication!Save, Publication!End, PubInv,
        PubTypes, PubSteps, IntentLock, IntentPhases, PushCount, PushRights, SeenOnTarget,
        ToldTrue
<1>10. ASSUME NEW p \in Procs, Publication!SavePushIntent(p) PROVE PubInv'
  BY <1>0, <1>10 DEF Publication!SavePushIntent, Publication!Save, Publication!Continue, PubInv,
        PubTypes, PubSteps, IntentLock, IntentPhases, PushCount, PushRights, SeenOnTarget,
        ToldTrue
<1>11. ASSUME NEW p \in Procs, Publication!PushNotStarted(p) PROVE PubInv'
  BY <1>0, <1>11 DEF Publication!PushNotStarted, Publication!Save, Publication!End,
        Publication!Continue, PubInv, PubTypes, PubSteps, IntentLock, IntentPhases, PushCount,
        PushRights, SeenOnTarget, ToldTrue
<1>12. ASSUME NEW p \in Procs, Publication!StartPush(p) PROVE PubInv'
  BY <1>0, <1>12, LandsEffect DEF Publication!StartPush, Publication!Continue, PubInv, PubTypes,
        PubSteps, IntentLock, IntentPhases, PushCount, PushRights, SeenOnTarget, ToldTrue
<1>13. ASSUME NEW p \in Procs, Publication!AfterPush(p) PROVE PubInv'
  BY <1>0, <1>13 DEF Publication!AfterPush, Publication!Settles, Publication!Observed,
        Publication!Save, Publication!End, Publication!Continue, PubInv, PubTypes, PubSteps,
        IntentLock, IntentPhases, PushCount, PushRights, SeenOnTarget, ToldTrue
<1>14. ASSUME NEW p \in Procs, Publication!Stop(p) PROVE PubInv'
  BY <1>0, <1>14 DEF Publication!Stop, Publication!End, Publication!Continue, PubInv, PubTypes,
        PubSteps, IntentLock, IntentPhases, PushCount, PushRights, SeenOnTarget, ToldTrue
<1>15. ASSUME NEW p \in Procs, Publication!Register(p) PROVE PubInv'
  BY <1>0, <1>15 DEF Publication!Register, Publication!Persist, Publication!Continue, PubInv,
        PubTypes, PubSteps, IntentLock, IntentPhases, PushCount, PushRights, SeenOnTarget,
        ToldTrue
<1>16. ASSUME NEW p \in Procs, Publication!AlreadyRegistered(p) PROVE PubInv'
  BY <1>0, <1>16 DEF Publication!AlreadyRegistered, Publication!Continue, PubInv, PubTypes,
        PubSteps, IntentLock, IntentPhases, PushCount, PushRights, SeenOnTarget, ToldTrue
<1>17. ASSUME NEW p \in Procs, Publication!Deliver(p) PROVE PubInv'
  BY <1>0, <1>17 DEF Publication!Deliver, Publication!Applied, Publication!Continue, PubInv,
        PubTypes, PubSteps, IntentLock, IntentPhases, PushCount, PushRights, SeenOnTarget,
        ToldTrue
<1>18. ASSUME NEW p \in Procs, Publication!Receive(p) PROVE PubInv'
  BY <1>0, <1>18 DEF Publication!Receive, Publication!Continue, PubInv, PubTypes, PubSteps,
        IntentLock, IntentPhases, PushCount, PushRights, SeenOnTarget, ToldTrue
<1>19. ASSUME NEW p \in Procs, Publication!Retry(p) PROVE PubInv'
  BY <1>0, <1>19 DEF Publication!Retry, Publication!Free, Publication!Continue, PubInv, PubTypes,
        PubSteps, IntentLock, IntentPhases, PushCount, PushRights, SeenOnTarget, ToldTrue
<1>20. ASSUME NEW p \in Procs, Publication!ReconcileAgent(p) PROVE PubInv'
  BY <1>0, <1>20 DEF Publication!ReconcileAgent, Publication!NothingPending,
        Publication!LockIntent, Publication!Free, Publication!Ready, Publication!AtResult,
        Publication!Save, Publication!Continue, Publication!NotPublished, PubInv, PubTypes,
        PubSteps, IntentLock, IntentPhases, PushCount, PushRights, SeenOnTarget, ToldTrue
<1>21. ASSUME NEW p \in Procs, Publication!Attest(p) PROVE PubInv'
  BY <1>0, <1>21 DEF Publication!Attest, Publication!Persist, Publication!Continue, PubInv,
        PubTypes, PubSteps, IntentLock, IntentPhases, PushCount, PushRights, SeenOnTarget,
        ToldTrue
<1>22. ASSUME NEW p \in Procs, Publication!Finish(p) PROVE PubInv'
  BY <1>0, <1>22 DEF Publication!Finish, Publication!LockIntent, Publication!Free,
        Publication!Ready, Publication!AtResult, Publication!Save, Publication!Continue, PubInv,
        PubTypes, PubSteps, IntentLock, IntentPhases, PushCount, PushRights, SeenOnTarget,
        ToldTrue
<1>23. ASSUME NEW p \in Procs, Publication!Report(p) PROVE PubInv'
  BY <1>0, <1>23 DEF Publication!Report, Publication!Persist, Publication!Continue, PubInv,
        PubTypes, PubSteps, IntentLock, IntentPhases, PushCount, PushRights, SeenOnTarget,
        ToldTrue
<1>24. ASSUME NEW p \in Procs, Publication!Confirm(p) PROVE PubInv'
  BY <1>0, <1>24 DEF Publication!Confirm, Publication!Persist, Publication!Continue, PubInv,
        PubTypes, PubSteps, IntentLock, IntentPhases, PushCount, PushRights, SeenOnTarget,
        ToldTrue
<1>25. CASE Publication!Reconcile
  BY <1>0, <1>25 DEF Publication!Reconcile, Publication!Ready, Publication!AtResult,
        Publication!Observed, Publication!Save, Publication!NotPublished, PubInv, PubTypes,
        PubSteps, IntentLock, IntentPhases, PushCount, PushRights, SeenOnTarget, ToldTrue
<1>26. CASE Publication!Lapse
  BY <1>0, <1>26 DEF Publication!Lapse, PubInv, PubTypes, PubSteps, IntentLock, IntentPhases,
        PushCount, PushRights, SeenOnTarget, ToldTrue
<1>27. CASE Publication!Retire
  BY <1>0, <1>27 DEF Publication!Retire, PubInv, PubTypes, PubSteps, IntentLock, IntentPhases,
        PushCount, PushRights, SeenOnTarget, ToldTrue
<1>28. CASE Publication!LatePush
  BY <1>0, <1>28, LandsEffect DEF Publication!LatePush, PubInv, PubTypes, PubSteps, IntentLock,
        IntentPhases, PushCount, PushRights, SeenOnTarget, ToldTrue
<1>29. ASSUME NEW c, Publication!MoveTarget(c) PROVE PubInv'
  <2>1. UNCHANGED <<contains, flying, pushIntent, holder, step, started, denied, pending, service,
          live, retired>>
    BY <1>29 DEF Publication!MoveTarget
  <2>2. reached' \in BOOLEAN /\ (reached' <=> reached \/ target' = Publication!Result)
    BY <1>29 DEF Publication!MoveTarget
  <2> QED BY <1>0, <2>1, <2>2 DEF PubInv, PubTypes, PubSteps, IntentLock, IntentPhases, PushCount,
        PushRights, SeenOnTarget, ToldTrue
<1>30. ASSUME NEW c, Publication!MoveCheckout(c) PROVE PubInv'
  BY <1>0, <1>30 DEF Publication!MoveCheckout, Publication!Result, PubInv, PubTypes, PubSteps,
        IntentLock, IntentPhases, PushCount, PushRights, SeenOnTarget, ToldTrue
<1> QED BY <1>1, <1>2, <1>3, <1>4, <1>5, <1>6, <1>7, <1>8, <1>9, <1>10, <1>11, <1>12, <1>13,
           <1>14, <1>15, <1>16, <1>17, <1>18, <1>19, <1>20, <1>21, <1>22, <1>23, <1>24, <1>25,
           <1>26, <1>27, <1>28, <1>29, <1>30
        DEF Publication!PublisherNext

\* An intent is pushed at most once, nothing of ours changes the target after a
\* reconciliation denied it, and what the service is told is true, for any number
\* of processes, however they race, stop and retry (git_workflow.rs,
\* publish_prepared and reconcile_publication; cli/main.rs).
THEOREM IntentsAreSound == ClientsSpec => []IntentSound
<1>1. ClientsInit => PubInv
  BY PubInvInit DEF ClientsInit
<1>2. PubInv /\ [ClientsNext]_allVars => PubInv'
  <2> SUFFICES ASSUME PubInv, [ClientsNext]_allVars PROVE PubInv'
    OBVIOUS
  <2>1. CASE Publication!PublisherNext
    BY <2>1, PubInvStep
  <2>2. CASE UNCHANGED publicationVars
    BY <2>2 DEF publicationVars, PubInv, PubTypes, PubSteps, IntentLock, IntentPhases, PushCount,
         PushRights, SeenOnTarget, ToldTrue, Publication!Result
  <2> QED BY <2>1, <2>2 DEF ClientsNext, allVars
<1>3. PubInv => IntentSound
  BY DEF PubInv, PubTypes, PushRights, SeenOnTarget, ToldTrue, Granted, IntentSound,
       Publication!IntentSound, Publication!Phases, Publication!OnePush,
       Publication!DeniedIsFinal, Publication!PublishedWasSeen, Publication!ServiceToldTrue
<1> QED BY <1>1, <1>2, <1>3, PTL DEF ClientsSpec

---------------------------------------------------------------------------
(* The candidate *)

CandKinds == {"candidate", "wip"}

\* The steps of a connection whose bundle was imported, and scanned.
Scanned == {"scanned", "push", "failed", "confirm", "leased"}
Imported == Scanned \cup {"imported"}

CandTypes ==
  /\ direct \in BOOLEAN /\ late \in BOOLEAN /\ outside \in Nat
  /\ ref \in Commits \cup {Absent} /\ wip \in [Commits -> Commits \cup {Absent}]
  /\ lease \in Commits \cup {Absent} /\ intent \in Commits \cup {Absent}
  /\ conn \in [pc : Imported \cup {"idle", "accepted", "read"}, kind : CandKinds,
               of : Commits \cup {Absent}, seen : Commits \cup {Absent}]
  /\ conn.pc # "idle" => conn.of # Absent
  /\ head \in [of : Commits, clean : BOOLEAN]
  /\ command \in [pc : {"idle", "publish", "captured", "sent", "reading"}, kind : CandKinds,
                  of : Commits \cup {Absent}]
  /\ command.pc # "idle" => command.of # Absent
  /\ receipts \subseteq [kind : CandKinds, of : Commits]
  /\ recorded \subseteq [kind : CandKinds, of : Commits]

\* A command publishes by itself or through the helper, and while it waits the
\* helper serves it or has answered it.
CommandSteps ==
  /\ command.pc \in {"publish", "reading"} => direct
  /\ command.pc \in {"captured", "sent"} => ~direct
  /\ conn.pc # "idle" => ~direct
  /\ conn.pc # "idle" /\ command.pc = "sent" => conn.kind = command.kind /\ conn.of = command.of
  /\ reply # Absent => command.pc = "sent" /\ conn.pc = "idle"

\* The lease, once recorded, is the commit of every candidate that is accepted.
LeaseKept ==
  /\ \A r \in receipts : r.kind = "candidate" => r.of = lease
  /\ conn.pc \in Imported /\ conn.kind = "candidate" => lease \in {Absent, conn.of}
  /\ conn.pc = "leased" /\ conn.kind = "candidate" => lease = conn.of

\* While nobody else writes the ref it names what we pushed, which the helper
\* holds as its intent from before the push until the lease is recorded.
PushKnown ==
  /\ conn.pc = "failed" => conn.kind = "candidate"
  /\ conn.pc \in {"push", "failed"} /\ conn.kind = "candidate" => intent = conn.of
  /\ outside = 0 =>
       /\ ours = (IF ref = Absent THEN {} ELSE {ref})
       /\ ref # Absent /\ ~direct /\ ~late => ref \in {lease, intent}
       /\ conn.pc \in {"confirm", "leased"} /\ conn.kind = "candidate" => ref = conn.of

\* The secrets of a commit others have published at some time.
Published(c) == SecretsIn[c] \subseteq disclosed

\* What is on its way to the remote was scanned, and what the remote advertises
\* beyond our own pushes was published by others.
Untainted ==
  /\ elsewhere \subseteq disclosed
  /\ conn.pc \in Scanned => Published(conn.of)
  /\ pushing \subseteq CandKinds \X {c \in Commits : Published(c)}
  /\ ref # Absent => Published(ref)
  /\ \A c \in Commits : wip[c] # Absent => wip[c] = c /\ Published(c)
  /\ ours \subseteq {c \in Commits : Published(c)}
  /\ \A r \in receipts \cup recorded : Published(r.of)

Acknowledged ==
  /\ reply = "accepted" /\ reply # Absent =>
      [kind |-> command.kind, of |-> command.of] \in receipts
  /\ ~direct => recorded \subseteq receipts

CandInv == CandTypes /\ CommandSteps /\ LeaseKept /\ PushKnown /\ Untainted /\ Acknowledged

\* Nothing is captured or pushed.
LEMMA CandInvInit == Candidate!PushInit => CandInv
<1> SUFFICES ASSUME Candidate!PushInit PROVE CandInv
  OBVIOUS
<1> USE NoneAssumption DEF Candidate!PushInit, Candidate!Quiet, Candidate!NoCommand, CandKinds,
        Scanned, Imported
<1>1. CandTypes
  BY DEF CandTypes
<1>2. CommandSteps /\ LeaseKept /\ Acknowledged
  BY DEF CommandSteps, LeaseKept, Acknowledged
<1>3. PushKnown /\ Untainted
  BY DEF PushKnown, Untainted, Published
<1> QED BY <1>1, <1>2, <1>3 DEF CandInv

\* A commit whose outgoing history is clean holds no secret others have not published.
LEMMA OutgoingWasPublished ==
  ASSUME CandInv, NEW c \in Commits, Candidate!OutgoingIsClean(c)
  PROVE  Published(c)
<1> USE NoneAssumption DEF CandInv, CandTypes, Untainted, Published, Candidate!InHistory
<1>1. Candidate!InHistory(ref) \subseteq disclosed /\ elsewhere \subseteq disclosed
  OBVIOUS
<1>2. \A d \in Commits : Candidate!InHistory(wip[d]) \subseteq disclosed
  OBVIOUS
<1>3. UNION {Candidate!InHistory(wip[d]) : d \in Commits} \subseteq disclosed
  BY <1>2
<1> QED BY <1>1, <1>3 DEF Candidate!OutgoingIsClean, Candidate!Advertised

\* Every step of the command, the helper and the remote keeps the invariant.
LEMMA CandInvStep == CandInv /\ Candidate!PushNext => CandInv'
<1> SUFFICES ASSUME CandInv, Candidate!PushNext PROVE CandInv'
  OBVIOUS
<1> USE NoneAssumption DEF Candidate!remote, Candidate!others, Candidate!private, Candidate!local,
        Candidate!counts,
        Candidate!Quiet, Candidate!NoCommand, CandKinds, Scanned, Imported
<1>0. CandTypes /\ CommandSteps /\ LeaseKept /\ PushKnown /\ Untainted /\ Acknowledged
  BY DEF CandInv
<1>1. ASSUME NEW c \in Commits, NEW clean \in BOOLEAN, Candidate!Work(c, clean) PROVE CandInv'
  BY <1>0, <1>1 DEF Candidate!Work, CandInv, CandTypes, CommandSteps, LeaseKept, PushKnown,
        Untainted, Published, Acknowledged
<1>2. ASSUME NEW kind \in Candidate!Kinds, Candidate!CaptureSnapshot(kind) PROVE CandInv'
  BY <1>0, <1>2 DEF Candidate!CaptureSnapshot, Candidate!Kinds, CandInv, CandTypes, CommandSteps,
        LeaseKept, PushKnown, Untainted, Published, Acknowledged
<1>3. CASE Candidate!SendToHelper
  BY <1>0, <1>3 DEF Candidate!SendToHelper, Candidate!Ends, Candidate!Command, Candidate!Clean,
        CandInv, CandTypes, CommandSteps, LeaseKept, PushKnown, Untainted, Published, Acknowledged
<1>4. CASE Candidate!ReceiveReply
  BY <1>0, <1>4 DEF Candidate!ReceiveReply, Candidate!Ends, Candidate!Record, Candidate!Clean,
        CandInv, CandTypes, CommandSteps, LeaseKept, PushKnown, Untainted, Published, Acknowledged
<1>5. CASE Candidate!CommandDies
  BY <1>0, <1>5 DEF Candidate!CommandDies, Candidate!Ends, CandInv, CandTypes, CommandSteps,
        LeaseKept, PushKnown, Untainted, Published, Acknowledged
<1>6. CASE Candidate!CheckpointDirectly
  BY <1>0, <1>6, OutgoingWasPublished DEF Candidate!CheckpointDirectly, Candidate!Reads, Candidate!Command,
        Candidate!Ends, Candidate!PushCreate, Candidate!Lands, CandInv, CandTypes, CommandSteps,
        LeaseKept, PushKnown, Untainted, Published, Acknowledged
<1>7. CASE Candidate!ReadBack
  BY <1>0, <1>7 DEF Candidate!ReadBack, Candidate!Ends, Candidate!Reads, Candidate!Record,
        Candidate!Clean, CandInv, CandTypes, CommandSteps, LeaseKept, PushKnown, Untainted, Published,
        Acknowledged
<1>8. CASE Candidate!MintToken
  BY <1>0, <1>8 DEF Candidate!MintToken, Candidate!Serving, Candidate!Then, Candidate!Refused,
        Candidate!Answer, CandInv, CandTypes, CommandSteps, LeaseKept, PushKnown, Untainted, Published,
        Acknowledged
<1>9. CASE Candidate!EarnMint
  BY <1>0, <1>9 DEF Candidate!EarnMint, CandInv, CandTypes, CommandSteps, LeaseKept, PushKnown,
        Untainted, Published, Acknowledged
<1>10. CASE Candidate!Import
  BY <1>0, <1>10 DEF Candidate!Import, Candidate!Serving, Candidate!Then, Candidate!Refused,
        Candidate!Answer, Candidate!RefuseOtherThanLeased, CandInv, CandTypes, CommandSteps,
        LeaseKept, PushKnown, Untainted, Published, Acknowledged
<1>11. CASE Candidate!ScanImported
  BY <1>0, <1>11, OutgoingWasPublished DEF Candidate!ScanImported, Candidate!Serving, Candidate!Scan, Candidate!Then,
        Candidate!Refused, Candidate!Answer, CandInv, CandTypes, CommandSteps, LeaseKept,
        PushKnown, Untainted, Published, Acknowledged
<1>12. CASE Candidate!Publish
  <2>0. conn.kind = "candidate" /\ conn.pc = "scanned" /\ conn.of \in Commits
        /\ UNCHANGED <<direct, ref, wip, pushing, lease, head, command, outside, receipts,
                       ours, late, recorded, elsewhere, disclosed>>
    BY <1>0, <1>12 DEF Candidate!Publish, Candidate!Serving, CandTypes
  <2>1. CASE Candidate!Refused /\ UNCHANGED intent
    BY <1>0, <2>0, <2>1 DEF Candidate!Refused, Candidate!Answer, CandInv, CandTypes,
                            CommandSteps, LeaseKept, PushKnown, Untainted, Published, Acknowledged
  <2>2. CASE /\ ref = Absent /\ intent' = conn.of /\ UNCHANGED reply
             /\ conn' = [conn EXCEPT !.pc = "push", !.seen = ref]
    <3>1. conn' \in [pc : {"push"}, kind : CandKinds, of : Commits, seen : Commits \cup {Absent}]
      BY <1>0, <2>0, <2>2 DEF CandTypes
    <3>2. conn'.kind = "candidate" /\ conn'.of = conn.of /\ conn'.pc = "push"
      BY <1>0, <2>0, <2>2 DEF CandTypes
    <3> QED BY <1>0, <2>0, <2>2, <3>1, <3>2 DEF CandInv, CandTypes, CommandSteps, LeaseKept,
                                                PushKnown, Untainted, Published, Acknowledged
  <2>3. CASE /\ Candidate!Owns(ref) /\ ref = conn.of /\ UNCHANGED <<intent, reply>>
             /\ conn' = [conn EXCEPT !.pc = "confirm", !.seen = ref]

    <3>1. conn' \in [pc : {"confirm"}, kind : CandKinds, of : Commits,
                      seen : Commits \cup {Absent}]
      BY <1>0, <2>0, <2>3 DEF CandTypes
    <3>2. conn'.kind = "candidate" /\ conn'.of = conn.of /\ conn'.pc = "confirm"
      BY <1>0, <2>0, <2>3 DEF CandTypes
    <3> QED BY <1>0, <2>0, <2>3, <3>1, <3>2 DEF CandInv, CandTypes, CommandSteps, LeaseKept,
                                                PushKnown, Untainted, Published, Acknowledged
  <2> QED BY <2>1, <2>2, <2>3, <1>12 DEF Candidate!Publish
<1>13. CASE Candidate!PublishWip
  BY <1>0, <1>13 DEF Candidate!PublishWip, Candidate!Serving, Candidate!Refused, Candidate!Answer,
        Candidate!Then, CandInv, CandTypes, CommandSteps, LeaseKept, PushKnown, Untainted, Published,
        Acknowledged
<1>14. CASE Candidate!Push
  BY <1>0, <1>14 DEF Candidate!Push, Candidate!Serving, Candidate!PushCreate, Candidate!Reads,
        Candidate!Lands, Candidate!Then, CandInv, CandTypes, CommandSteps, LeaseKept, PushKnown,
        Untainted, Published, Acknowledged
<1>15. CASE Candidate!AfterFailedPush
  <2>0. /\ conn.pc = "failed"
        /\ UNCHANGED <<direct, ref, wip, pushing, lease, head, command, outside, receipts,
                       ours, late, recorded, elsewhere, disclosed>>
    BY <1>15 DEF Candidate!AfterFailedPush, Candidate!Serving
  <2>1. CASE Candidate!Refused /\ UNCHANGED intent
    BY <1>0, <2>0, <2>1 DEF Candidate!Refused, Candidate!Answer, CandInv, CandTypes,
                            CommandSteps, LeaseKept, PushKnown, Untainted, Published, Acknowledged
  <2>2. CASE ref = conn.of /\ Candidate!Then("confirm") /\ UNCHANGED <<intent, reply>>
    BY <1>0, <2>0, <2>2 DEF Candidate!Then, CandInv, CandTypes, CommandSteps, LeaseKept,
                            PushKnown, Untainted, Published, Acknowledged
  <2>3. CASE ref # conn.of /\ Candidate!Refused /\ intent' = Absent
    BY <1>0, <2>0, <2>3 DEF Candidate!Refused, Candidate!Answer, CandInv, CandTypes,
                            CommandSteps, LeaseKept, PushKnown, Untainted, Published, Acknowledged
  <2> QED BY <2>1, <2>2, <2>3, <1>15 DEF Candidate!AfterFailedPush
<1>16. CASE Candidate!Confirm
  BY <1>0, <1>16 DEF Candidate!Confirm, Candidate!Serving, Candidate!Refused, Candidate!Answer,
        Candidate!Then, Candidate!Reads, CandInv, CandTypes, CommandSteps, LeaseKept, PushKnown,
        Untainted, Published, Acknowledged
<1>17. CASE Candidate!Accept
  BY <1>0, <1>17 DEF Candidate!Accept, Candidate!Serving, Candidate!Answer, CandInv, CandTypes,
        CommandSteps, LeaseKept, PushKnown, Untainted, Published, Acknowledged
<1>18. CASE Candidate!HelperDies
  BY <1>0, <1>18 DEF Candidate!HelperDies, CandInv, CandTypes, CommandSteps, LeaseKept, PushKnown,
        Untainted, Published, Acknowledged
<1>19. ASSUME NEW p \in pushing, Candidate!LatePush(p) PROVE CandInv'
  <2>0. p[1] \in CandKinds /\ p[2] \in Commits /\ Published(p[2])
    BY <1>0 DEF Untainted, Published
  <2>1. /\ pushing' \subseteq pushing
        /\ UNCHANGED <<direct, lease, intent, conn, head, command, reply, outside,
                       receipts, recorded, elsewhere, disclosed>>
    BY <1>19 DEF Candidate!LatePush
  <2>2. CASE Candidate!Lands(p[1], p[2]) /\ late' = TRUE
    <3>1. (ref = Absent /\ ref' = p[2] /\ ours' = ours \cup {p[2]}) \/ UNCHANGED <<ref, ours>>
      BY <2>2 DEF Candidate!Lands
    <3>2. wip' = wip \/ wip' = [wip EXCEPT ![p[2]] = p[2]]
      BY <2>2 DEF Candidate!Lands
    <3>3. /\ wip' \in [Commits -> Commits \cup {Absent}]
          /\ \A c \in Commits : wip'[c] # Absent => wip'[c] = c /\ Published(c)
      BY <1>0, <2>0, <3>2 DEF CandTypes, Untainted, Published
    <3>4. late' = TRUE
      BY <2>2
    <3> QED BY <1>0, <2>0, <2>1, <3>1, <3>3, <3>4 DEF CandInv, CandTypes, CommandSteps,

        LeaseKept, PushKnown, Untainted, Published, Acknowledged
  <2>3. CASE UNCHANGED <<ref, wip, ours, late>>
    BY <1>0, <2>1, <2>3 DEF CandInv, CandTypes, CommandSteps, LeaseKept, PushKnown, Untainted, Published,
                            Acknowledged
  <2> QED BY <2>2, <2>3, <1>19 DEF Candidate!LatePush
<1>20. ASSUME NEW c \in Commits \cup {Absent}, Candidate!WriteOutside(c) PROVE CandInv'
  BY <1>0, <1>20 DEF Candidate!WriteOutside, Candidate!InHistory, CandInv, CandTypes,
        CommandSteps, LeaseKept, PushKnown, Untainted, Published, Acknowledged
<1>21. ASSUME NEW secrets, Candidate!PublishElsewhere(secrets) PROVE CandInv'
  BY <1>0, <1>21 DEF Candidate!PublishElsewhere, CandInv, CandTypes, CommandSteps, LeaseKept,
        PushKnown, Untainted, Published, Acknowledged
<1> QED BY <1>1, <1>2, <1>3, <1>4, <1>5, <1>6, <1>7, <1>8, <1>9, <1>10, <1>11, <1>12, <1>13,
           <1>14, <1>15, <1>16, <1>17, <1>18, <1>19, <1>20, <1>21
        DEF Candidate!PushNext, Candidate!ClientNext, Candidate!HelperNext

\* A launch has one candidate, which the helper knows as its own, no secret leaves,
\* and a recorded checkpoint was acknowledged, for any commits and any number of
\* connections, deaths and writes by others (candidate_push.rs, git_workflow.rs).
THEOREM CandidatesAreSound == ClientsSpec => []PushSound
<1>1. ClientsInit => CandInv
  BY CandInvInit DEF ClientsInit
<1>2. CandInv /\ [ClientsNext]_allVars => CandInv'
  <2> SUFFICES ASSUME CandInv, [ClientsNext]_allVars PROVE CandInv'
    OBVIOUS
  <2>1. CASE Candidate!PushNext
    BY <2>1, CandInvStep
  <2>2. CASE UNCHANGED candidateVars
    BY <2>2 DEF candidateVars, CandInv, CandTypes, CommandSteps, LeaseKept, PushKnown, Untainted,
         Published, Acknowledged
  <2> QED BY <2>1, <2>2 DEF ClientsNext, allVars
<1>3. CandInv => PushSound
  BY DEF CandInv, CandTypes, LeaseKept, PushKnown, Untainted, Published, Acknowledged, PushSound, Candidate!PushSound,
       Candidate!OneCandidate, Candidate!KnowsItsPush, Candidate!NothingTaintedLeaves,
       Candidate!RecordedIsAcknowledged
<1> QED BY <1>1, <1>2, <1>3, PTL DEF ClientsSpec

---------------------------------------------------------------------------
(* The saved sessions *)

Mutations == [kind : {"register", "acknowledge", "claim", "job"}, revision : Nat]

SavedStates == [session : Saved!Sessions, orientation : Nat, acknowledged : Nat,
                pending : Mutations \cup {Nothing}]

SendSteps == {"register", "acknowledge", "claim", "job", "retry"}

ClientSteps == SendSteps \cup {"idle", "fetch", "orient", "acknowledged", "resumed", "claiming",
                               "verify", "reverify", "guard"}

FileTypes ==
  /\ file \in [Copies -> SavedStates \cup {Nothing}]
  /\ doingFor \in [Copies -> ClientSteps]
  /\ applied \in [Copies -> BOOLEAN] /\ answer \in [Copies -> {"ok", "refused", Nothing}]
  /\ shown \in [Copies -> SUBSET Nat]
  /\ unanswered \subseteq Copies

ServiceTypes ==
  /\ policy \in Seq(Rules) /\ Len(policy) >= 1
  /\ session \in [Saved!Sessions -> {"none", "open", "closed"}]
  /\ agreed \in [Saved!Sessions -> 0 .. Len(policy)]
  /\ jobs \subseteq Saved!Sessions /\ guarded \subseteq Saved!Sessions
  /\ jobJournal \in [Saved!Sessions -> {"none", "prepared", "registered"}]
  /\ grants \subseteq [copy : Copies, session : Saved!Sessions, revision : 1 .. Len(policy),
                       agreed : 1 .. Len(policy)]

\* What the next step of a copy's command says about its file.
SesSteps ==
  \A c \in Copies :
    /\ doingFor[c] # "idle" => file[c] # Nothing
    /\ doingFor[c] \in {"fetch", "orient"} => file[c].pending = Nothing
    /\ doingFor[c] \in SendSteps => file[c].pending # Nothing
    /\ doingFor[c] \in {"verify", "reverify"} => jobJournal[file[c].session] = "registered"
    /\ doingFor[c] = "guard" => file[c].session \in jobs

\* A file names revisions its copy was shown; a job is asked for by a session
\* that was open, and one that was applied is refused only after it was closed.
SesFiles ==
  \A c \in Copies : file[c] # Nothing =>
    /\ file[c].orientation \in shown[c] \cup {0}
    /\ file[c].pending # Nothing =>
         /\ file[c].pending.revision \in shown[c] \cup {0}
         /\ file[c].pending.kind = "job" =>
              /\ session[file[c].session] # "none"
              /\ answer[c] = "refused" => ~applied[c] \/ session[file[c].session] = "closed"

\* A grant is informed, its copy stays saved and its session stays in some copy;
\* an unanswered one is still pending.
GrantsTell ==
  \A g \in grants :
       /\ file[g.copy] # Nothing /\ g.revision \in shown[g.copy]
       /\ policy[g.agreed] = policy[g.revision]
       /\ session[g.session] # "none"
       /\ session[g.session] = "open" =>
            \E c \in Copies : file[c] # Nothing /\ file[c].session = g.session

AnswersTell ==
  \A c \in unanswered :
       file[c] # Nothing /\ file[c].pending # Nothing /\ file[c].pending.kind = "claim"

\* A registered job is bound, or the request that registered it is still pending.
JobsTell ==
  /\ \A s \in jobs :
       /\ session[s] # "none"
       /\ session[s] = "open" =>
            \/ jobJournal[s] = "registered"
            \/ \E c \in Copies : /\ file[c] # Nothing /\ file[c].session = s
                                 /\ file[c].pending # Nothing /\ file[c].pending.kind = "job"
                                 /\ applied[c]
  /\ \A s \in guarded : s \in jobs /\ jobJournal[s] = "registered"

SesInv ==
  /\ FileTypes /\ ServiceTypes /\ SesSteps /\ SesFiles
  /\ GrantsTell /\ AnswersTell /\ JobsTell

\* No session is saved.
LEMMA SesInvInit == Saved!ClientInit => SesInv
<1> SUFFICES ASSUME Saved!ClientInit PROVE SesInv
  OBVIOUS
<1> USE NothingAssumption DEF Saved!ClientInit
<1>1. FileTypes /\ ServiceTypes
  BY DEF FileTypes, ServiceTypes, SendSteps, ClientSteps
<1>2. SesSteps /\ SesFiles /\ GrantsTell /\ AnswersTell /\ JobsTell
  BY DEF SesSteps, SesFiles, GrantsTell, AnswersTell, JobsTell, SendSteps
<1> QED BY <1>1, <1>2 DEF SesInv

\* What a command's writes do, to the copy it runs for and to no other.
FileWritten(c, st) ==
  /\ file' \in [Copies -> SavedStates \cup {Nothing}]
  /\ file'[c] = st /\ \A d \in Copies \ {c} : file'[d] = file[d]

StepTaken(c, s) ==
  /\ doingFor' \in [Copies -> ClientSteps]
  /\ doingFor'[c] = s /\ \A d \in Copies \ {c} : doingFor'[d] = doingFor[d]

ClearedFor(c) ==
  /\ applied' \in [Copies -> BOOLEAN] /\ answer' \in [Copies -> {"ok", "refused", Nothing}]
  /\ ~applied'[c] /\ answer'[c] = Nothing /\ unanswered' = unanswered \ {c}
  /\ \A d \in Copies \ {c} : applied'[d] = applied[d] /\ answer'[d] = answer[d]

SetTo(st, m) == [st EXCEPT !.pending = m]

PersistedFor(c, st, m, s) ==
  /\ st.pending \in {m, Nothing}
  /\ FileWritten(c, SetTo(st, m)) /\ StepTaken(c, s)
  /\ applied' \in [Copies -> BOOLEAN] /\ answer' \in [Copies -> {"ok", "refused", Nothing}]
  /\ answer'[c] = Nothing /\ applied'[c] = (st.pending = m /\ applied[c])
  /\ \A d \in Copies \ {c} : applied'[d] = applied[d] /\ answer'[d] = answer[d]

\* A session file that exists holds a saved state.
LEMMA FileState == ASSUME FileTypes, NEW c \in Copies, file[c] # Nothing
  PROVE file[c] \in SavedStates
BY DEF FileTypes

\* Saving a pending mutation, field by field.
LEMMA SetPending ==
  ASSUME NEW st \in SavedStates, NEW m \in Mutations \cup {Nothing}
  PROVE  LET t == [st EXCEPT !.pending = m]
         IN  t \in SavedStates /\ t # Nothing /\ t.session = st.session
             /\ t.orientation = st.orientation /\ t.pending = m
BY NothingAssumption DEF SavedStates, Mutations

\* Saving an acknowledgement, field by field.
LEMMA SetAcknowledged ==
  ASSUME NEW st \in SavedStates
  PROVE  LET t == [st EXCEPT !.acknowledged = st.orientation]
         IN  t \in SavedStates /\ t # Nothing /\ t.session = st.session
             /\ t.orientation = st.orientation /\ t.pending = st.pending
BY NothingAssumption DEF SavedStates, Mutations

\* Saving an orientation, field by field.
LEMMA SetOrientation ==
  ASSUME NEW st \in SavedStates, NEW n \in Nat
  PROVE  LET t == [st EXCEPT !.orientation = n]
         IN  t \in SavedStates /\ t # Nothing /\ t.session = st.session
             /\ t.orientation = n /\ t.pending = st.pending
BY NothingAssumption DEF SavedStates, Mutations

\* The state of a session file at its registration.
LEMMA FreshState ==
  ASSUME NEW s \in Saved!Sessions
  PROVE  LET t == Saved!NewState(s)
         IN  t \in SavedStates /\ t # Nothing /\ t.session = s /\ t.orientation = 0
             /\ t.pending = Nothing
BY NothingAssumption DEF SavedStates, Mutations, Saved!NewState

\* One session file is written, the others are left alone.
LEMMA Written ==
  ASSUME FileTypes, NEW c \in Copies, NEW st \in SavedStates, Saved!Save(c, st)
  PROVE  FileWritten(c, st)
BY DEF FileTypes, Saved!Save, FileWritten

\* One command takes its step, the others are left alone.
LEMMA Stepped ==
  ASSUME FileTypes, NEW c \in Copies, NEW s \in ClientSteps, Saved!Go(c, s)
  PROVE  StepTaken(c, s)
BY DEF FileTypes, Saved!Go, StepTaken, ClientSteps

\* A cleared mutation is pending no more and its answer is consumed.
LEMMA ClearedEffect == ASSUME FileTypes, NEW c \in Copies, Saved!Cleared(c) PROVE ClearedFor(c)
BY DEF FileTypes, Saved!Cleared, Saved!Replies, ClearedFor

\* What persisting a mutation before it is sent establishes.
LEMMA PersistEffect ==
  ASSUME FileTypes, NEW c \in Copies, NEW st \in SavedStates, NEW kind, NEW revision,
         NEW s \in ClientSteps, [kind |-> kind, revision |-> revision] \in Mutations,
         Saved!Persist(c, st, kind, revision, s)
  PROVE  PersistedFor(c, st, [kind |-> kind, revision |-> revision], s)
<1> DEFINE m == [kind |-> kind, revision |-> revision]
<1>1. Saved!Save(c, SetTo(st, m)) /\ st.pending \in {m, Nothing} /\ Saved!Go(c, s)
  BY DEF Saved!Persist, SetTo
<1>2. SetTo(st, m) \in SavedStates
  BY SetPending DEF SetTo
<1>3. FileWritten(c, SetTo(st, m)) /\ StepTaken(c, s)
  BY <1>1, <1>2, Written, Stepped
<1>4. applied' = [applied EXCEPT ![c] = st.pending = m /\ applied[c]]
      /\ answer' = [answer EXCEPT ![c] = Nothing]
  BY DEF Saved!Persist
<1> HIDE DEF m
<1>5. applied' \in [Copies -> BOOLEAN] /\ applied'[c] = (st.pending = m /\ applied[c])
      /\ \A d \in Copies \ {c} : applied'[d] = applied[d]
  BY <1>4 DEF FileTypes
<1>6. answer' \in [Copies -> {"ok", "refused", Nothing}] /\ answer'[c] = Nothing
      /\ \A d \in Copies \ {c} : answer'[d] = answer[d]
  BY <1>4 DEF FileTypes
<1>7. st.pending \in {m, Nothing}
  BY <1>1
<1>8. PersistedFor(c, st, m, s)
  BY <1>3, <1>5, <1>6, <1>7 DEF PersistedFor
<1> QED BY <1>8 DEF m


\* What keeps each part of the invariant when a command saves its copy's file.
LEMMA StepsKept ==

  ASSUME SesSteps, FileTypes, NEW c \in Copies, NEW st, NEW s,
         FileWritten(c, st), StepTaken(c, s),
         st # Nothing,
         s \in {"fetch", "orient"} => st.pending = Nothing,
         s \in SendSteps => st.pending # Nothing,
         s \in {"verify", "reverify"} => jobJournal'[st.session] = "registered",
         s = "guard" => st.session \in jobs',
         jobs' = jobs,
         \A t : jobJournal[t] = "registered" => jobJournal'[t] = "registered"
  PROVE  SesSteps'
<1> SUFFICES ASSUME NEW d \in Copies PROVE SesSteps!(d)'
  BY DEF SesSteps
<1>1. CASE d = c
  BY <1>1 DEF FileWritten, StepTaken, SesSteps
<1>2. CASE d # c
  BY <1>2 DEF FileWritten, StepTaken, SesSteps
<1> QED BY <1>1, <1>2

\* Writing a well-formed state keeps the files well-formed.
LEMMA FilesKept ==
  ASSUME SesFiles, NEW c \in Copies, NEW st, FileWritten(c, st), UNCHANGED session,
         \A d \in Copies \ {c} : /\ shown'[d] = shown[d] /\ applied'[d] = applied[d]
                                 /\ answer'[d] = answer[d],
         st.orientation \in shown'[c] \cup {0},
         st.pending # Nothing =>
           /\ st.pending.revision \in shown'[c] \cup {0}
           /\ st.pending.kind = "job" =>
                /\ session[st.session] # "none"
                /\ answer'[c] = "refused" => ~applied'[c] \/ session[st.session] = "closed"
  PROVE  SesFiles'
<1> SUFFICES ASSUME NEW d \in Copies PROVE SesFiles!(d)'
  BY DEF SesFiles
<1>1. CASE d = c
  BY <1>1 DEF FileWritten
<1>2. CASE d # c
  BY <1>2 DEF FileWritten, SesFiles
<1> QED BY <1>1, <1>2

\* What the files say of grants survives a write that agrees with it.
LEMMA GrantsKept ==
  ASSUME ServiceTypes, GrantsTell, NEW c \in Copies, NEW st, FileWritten(c, st), st # Nothing,
         UNCHANGED <<policy, session, grants>>,
         file[c] # Nothing => \/ st.session = file[c].session
                              \/ session[file[c].session] = "closed",
         \A d \in Copies : file[d] # Nothing => shown[d] \subseteq shown'[d]
  PROVE  GrantsTell'
<1> SUFFICES ASSUME NEW g \in grants PROVE GrantsTell!(g)'
  BY DEF GrantsTell
<1>1. g.copy \in Copies
  BY DEF ServiceTypes
<1>2. file'[g.copy] # Nothing /\ g.revision \in shown'[g.copy]
  BY <1>1 DEF GrantsTell, FileWritten
<1>3. ASSUME session[g.session] = "open"
      PROVE  \E d \in Copies : file'[d] # Nothing /\ file'[d].session = g.session
  <2>1. PICK d \in Copies : file[d] # Nothing /\ file[d].session = g.session
    BY <1>3 DEF GrantsTell
  <2>2. file'[d] # Nothing /\ file'[d].session = g.session
    BY <1>3, <2>1 DEF FileWritten
  <2> QED BY <2>2
<1> QED BY <1>2, <1>3 DEF GrantsTell

\* What the files say of answers survives a step that agrees with it.
LEMMA AnswersKept ==
  ASSUME AnswersTell, FileTypes, NEW c \in Copies, NEW st, FileWritten(c, st), st # Nothing,
         unanswered' \subseteq unanswered,
         c \in unanswered' => st.pending # Nothing /\ st.pending.kind = "claim"
  PROVE  AnswersTell'
BY DEF AnswersTell, FileTypes, FileWritten

\* What the files say of jobs survives a write that agrees with it.
LEMMA JobsKept ==
  ASSUME ServiceTypes, JobsTell, NEW c \in Copies, NEW st, FileWritten(c, st), st # Nothing,
         UNCHANGED <<session, jobs, guarded>>,
         \A t : jobJournal[t] = "registered" => jobJournal'[t] = "registered",
         \A d \in Copies \ {c} : applied'[d] = applied[d],
         file[c] # Nothing /\ file[c].pending # Nothing /\ file[c].pending.kind = "job"
           /\ applied[c] =>
           \/ session[file[c].session] = "closed"
           \/ jobJournal[file[c].session] = "registered"
           \/ /\ st.session = file[c].session /\ st.pending # Nothing /\ st.pending.kind = "job"
              /\ applied'[c]
  PROVE  JobsTell'
<1>1. ASSUME NEW s \in jobs, session[s] = "open", jobJournal'[s] # "registered"
      PROVE  \E d \in Copies : /\ file'[d] # Nothing /\ file'[d].session = s
                               /\ file'[d].pending # Nothing /\ file'[d].pending.kind = "job"
                               /\ applied'[d]
  <2>1. PICK d \in Copies : /\ file[d] # Nothing /\ file[d].session = s
                            /\ file[d].pending # Nothing /\ file[d].pending.kind = "job"
                            /\ applied[d]
    BY <1>1 DEF JobsTell
  <2>2. CASE d = c
    BY <1>1, <2>1, <2>2 DEF FileWritten
  <2>3. CASE d # c
    BY <2>1, <2>3 DEF FileWritten
  <2> QED BY <2>2, <2>3
<1> QED BY <1>1 DEF JobsTell

\* Every step of a command, a transport and the service keeps the invariant.
LEMMA SesInvStep == SesInv /\ Saved!ClientNext => SesInv'
<1> SUFFICES ASSUME SesInv, Saved!ClientNext PROVE SesInv'
  OBVIOUS
<1> USE DEF Saved!remote, Saved!local, Saved!request
<1>0. /\ FileTypes /\ ServiceTypes /\ SesSteps /\ SesFiles
      /\ GrantsTell /\ AnswersTell /\ JobsTell
  BY DEF SesInv
<1>1. ASSUME NEW c \in Copies, Saved!Deliver(c) PROVE SesInv'
  <2> DEFINE st == file[c]
             r == st.session
  <2>1. /\ st # Nothing /\ st \in SavedStates /\ st.pending # Nothing /\ doingFor[c] \in SendSteps
        /\ UNCHANGED <<file, doingFor, jobJournal, guarded, shown>>
    BY <1>0, <1>1, FileState DEF Saved!Deliver, Saved!Sending, SesSteps, SendSteps
  <2>2. /\ r \in Saved!Sessions /\ st.pending.revision \in shown[c] \cup {0}
        /\ st.pending.kind = "job" => session[r] # "none"
    BY <1>0, <2>1 DEF SavedStates, SesFiles
  <2> HIDE DEF st, r
  <2>3. ASSUME NEW a \in {"ok", "refused"}, Saved!Replies(c, a)
        PROVE  /\ answer' \in [Copies -> {"ok", "refused", Nothing}] /\ answer'[c] = a
               /\ \A d \in Copies \ {c} : answer'[d] = answer[d]
    BY <1>0, <2>3 DEF Saved!Replies, FileTypes
  <2>4. CASE Saved!Replies(c, "ok") /\ UNCHANGED <<applied, Saved!remote, unanswered>>
    BY <1>0, <2>1, <2>3, <2>4 DEF SesInv, FileTypes, ServiceTypes, SesSteps, SesFiles, GrantsTell,
         AnswersTell, JobsTell
  <2>5. CASE /\ ~applied[c] \/ ~Saved!Open(c)
             /\ Saved!Replies(c, "refused") /\ UNCHANGED <<applied, Saved!remote, unanswered>>
    <3>1. ~applied[c] \/ session[r] # "open"
      BY <2>5 DEF Saved!Open, Saved!Mine, r, st
    <3>2. st.pending.kind = "job" => ~applied[c] \/ session[r] = "closed"
      BY <1>0, <2>2, <3>1 DEF ServiceTypes
    <3>3. SesFiles'
      BY <1>0, <2>1, <2>3, <2>5, <3>2 DEF SesFiles, r, st
    <3> QED BY <1>0, <2>1, <2>3, <2>5, <3>3 DEF SesInv, FileTypes, ServiceTypes, SesSteps,
                                                GrantsTell,
              AnswersTell, JobsTell
  <2>6. CASE /\ ~applied[c] /\ Saved!Apply(c)
             /\ applied' = [applied EXCEPT ![c] = TRUE] /\ Saved!Replies(c, "ok")
    <3>1. /\ applied' \in [Copies -> BOOLEAN] /\ applied'[c]
          /\ \A d \in Copies \ {c} : applied'[d] = applied[d]
      BY <1>0, <2>6 DEF FileTypes
    <3>2. SesSteps' \/ jobs' # jobs
      BY <1>0, <2>1 DEF SesSteps
    <3>3. CASE /\ session[r] # "closed" /\ session' = [session EXCEPT ![r] = "open"]
               /\ UNCHANGED <<policy, agreed, jobs, grants, unanswered>>
      <4>1. /\ session' \in [Saved!Sessions -> {"none", "open", "closed"}]
            /\ \A t \in Saved!Sessions : session[t] # "none" => session'[t] = session[t]
        BY <1>0, <2>2, <3>3 DEF ServiceTypes
      <4>2. SesFiles'
        BY <1>0, <2>1, <2>3, <2>6, <3>1, <4>1 DEF SesFiles, FileTypes, SavedStates
      <4>3. GrantsTell' /\ AnswersTell'
        BY <1>0, <2>1, <3>3, <4>1 DEF GrantsTell, AnswersTell, ServiceTypes
      <4>4. JobsTell'
        BY SMTT(30), <1>0, <2>1, <3>1, <3>3, <4>1 DEF JobsTell, ServiceTypes
      <4> QED BY <1>0, <2>1, <2>3, <2>6, <3>1, <3>2, <3>3, <4>1, <4>2, <4>3, <4>4
                 DEF SesInv, FileTypes, ServiceTypes
    <3>4. CASE agreed' = [agreed EXCEPT ![r] = Len(policy)]
               /\ UNCHANGED <<policy, session, jobs, grants, unanswered>>
      <4>1. agreed' \in [Saved!Sessions -> 0 .. Len(policy)]
        <5>1. Len(policy) \in 0 .. Len(policy)
          BY <1>0 DEF ServiceTypes
        <5> QED BY <1>0, <3>4, <5>1 DEF ServiceTypes
      <4>2. SesFiles' /\ JobsTell'
        BY <1>0, <2>1, <2>3, <2>6, <3>1, <3>4 DEF SesFiles, JobsTell
      <4> QED BY <1>0, <2>1, <2>3, <2>6, <3>1, <3>2, <3>4, <4>1, <4>2
                 DEF SesInv, FileTypes, ServiceTypes, GrantsTell, AnswersTell
    <3>5. CASE /\ st.pending.kind = "claim" /\ session[r] = "open"
               /\ st.pending.revision = Len(policy)
               /\ agreed[r] # 0 /\ policy[agreed[r]] = policy[Len(policy)]
               /\ grants' = grants \cup {[copy |-> c, session |-> r, revision |-> Len(policy),
                                         agreed |-> agreed[r]]}
               /\ unanswered' = unanswered \cup {c}
               /\ UNCHANGED <<policy, session, agreed, jobs>>
      <4> DEFINE g == [copy |-> c, session |-> r, revision |-> Len(policy), agreed |-> agreed[r]]
      <4>1. /\ g \in [copy : Copies, session : Saved!Sessions, revision : 1 .. Len(policy),
                      agreed : 1 .. Len(policy)]
            /\ g.copy = c /\ g.session = r /\ g.revision = Len(policy) /\ g.agreed = agreed[r]
        BY <1>0, <2>2, <3>5 DEF ServiceTypes
      <4>2. grants' = grants \cup {g}
        BY <3>5
      <4> HIDE DEF g
      <4>3. ServiceTypes'
        BY <1>0, <2>1, <3>5, <4>1, <4>2 DEF ServiceTypes
      <4>4. Len(policy) \in shown[c]
        BY <1>0, <2>2, <3>5 DEF ServiceTypes
      <4>5. GrantsTell'
        BY <1>0, <2>1, <3>5, <4>1, <4>2, <4>4 DEF GrantsTell, r, st
      <4>6. SesFiles' /\ JobsTell' /\ AnswersTell'
        BY <1>0, <2>1, <2>3, <2>6, <3>1, <3>5 DEF SesFiles, JobsTell, AnswersTell, st
      <4> QED BY <1>0, <2>1, <2>3, <2>6, <3>1, <3>2, <3>5, <4>3, <4>5, <4>6 DEF SesInv, FileTypes
    <3>6. CASE /\ st.pending.kind = "job" /\ session[r] = "open" /\ jobs' = jobs \cup {r}
               /\ UNCHANGED <<policy, session, agreed, grants, unanswered>>
      <4>1. JobsTell'
        BY <1>0, <2>1, <3>1, <3>6 DEF JobsTell, r, st
      <4>2. SesFiles' /\ SesSteps'
        BY <1>0, <2>1, <2>3, <2>6, <3>1, <3>6 DEF SesFiles, SesSteps
      <4> QED BY <1>0, <2>1, <2>2, <2>3, <2>6, <3>1, <3>6, <4>1, <4>2
                 DEF SesInv, FileTypes, ServiceTypes, GrantsTell, AnswersTell
    <3> QED BY <2>6, <3>3, <3>4, <3>5, <3>6
               DEF Saved!Apply, Saved!Mine, Saved!Open, Saved!Grantable, Saved!Current, r, st
  <2> QED BY <2>4, <2>5, <2>6, <1>1 DEF Saved!Deliver
<1>2. ASSUME NEW c \in Copies, Saved!Stop(c) PROVE SesInv'
  <2>1. FileTypes'
    BY <1>0, NothingAssumption, <1>2 DEF Saved!Stop, Saved!Ended, Saved!Replies, Saved!Go,
          Saved!Trouble, SendSteps, ClientSteps, FileTypes, ServiceTypes, SesSteps, SesFiles,
          GrantsTell, AnswersTell, JobsTell
  <2>2. ServiceTypes'
    BY <1>0, NothingAssumption, <1>2 DEF Saved!Stop, Saved!Ended, Saved!Replies, Saved!Go,
          Saved!Trouble, SendSteps, ClientSteps, FileTypes, ServiceTypes, SesSteps, SesFiles,
          GrantsTell, AnswersTell, JobsTell
  <2>3. SesSteps'
    BY <1>0, NothingAssumption, <1>2 DEF Saved!Stop, Saved!Ended, Saved!Replies, Saved!Go,
          Saved!Trouble, SendSteps, ClientSteps, FileTypes, ServiceTypes, SesSteps, SesFiles,
          GrantsTell, AnswersTell, JobsTell
  <2>4. SesFiles'
    BY <1>0, NothingAssumption, <1>2 DEF Saved!Stop, Saved!Ended, Saved!Replies, Saved!Go,
          Saved!Trouble, SendSteps, ClientSteps, FileTypes, ServiceTypes, SesSteps, SesFiles,
          GrantsTell, AnswersTell, JobsTell
  <2>5. GrantsTell'
    BY <1>0, NothingAssumption, <1>2 DEF Saved!Stop, Saved!Ended, Saved!Replies, Saved!Go,
          Saved!Trouble, SendSteps, ClientSteps, FileTypes, ServiceTypes, SesSteps, SesFiles,
          GrantsTell, AnswersTell, JobsTell
  <2>6. AnswersTell'
    BY <1>0, NothingAssumption, <1>2 DEF Saved!Stop, Saved!Ended, Saved!Replies, Saved!Go,
          Saved!Trouble, SendSteps, ClientSteps, FileTypes, ServiceTypes, SesSteps, SesFiles,
          GrantsTell, AnswersTell, JobsTell
  <2>7. JobsTell'
    BY <1>0, NothingAssumption, <1>2 DEF Saved!Stop, Saved!Ended, Saved!Replies, Saved!Go,
          Saved!Trouble, SendSteps, ClientSteps, FileTypes, ServiceTypes, SesSteps, SesFiles,
          GrantsTell, AnswersTell, JobsTell
  <2> QED BY <2>1, <2>2, <2>3, <2>4, <2>5, <2>6, <2>7 DEF SesInv
<1>3. ASSUME NEW c \in Copies, Saved!Refused(c) PROVE SesInv'
  <2> DEFINE st == [file[c] EXCEPT !.pending = Nothing]
  <2>1. file[c] \in SavedStates /\ file[c] # Nothing
    BY <1>0, <1>3, FileState DEF Saved!Refused, Saved!Sending, SesSteps
  <2>2. /\ st \in SavedStates /\ st # Nothing /\ st.session = file[c].session
        /\ st.orientation = file[c].orientation /\ st.pending = Nothing
    BY <2>1, SetPending
  <2>3. Saved!Save(c, st) /\ Saved!Cleared(c) /\ UNCHANGED <<Saved!remote, Saved!local, shown>>
    BY <1>3 DEF Saved!Refused
  <2> HIDE DEF st
  <2>4. FileWritten(c, st) /\ ClearedFor(c)
    BY <1>0, <2>2, <2>3, Written, ClearedEffect
  <2>5. StepTaken(c, "idle")
    BY <1>0, <1>3, Stepped DEF Saved!Refused, ClientSteps
  <2>6. file[c].pending # Nothing /\ file[c].pending.kind = "job" /\ applied[c] =>
          session[file[c].session] = "closed"
    BY <1>0, <2>1, <1>3 DEF Saved!Refused, Saved!Sending, SesFiles, SesSteps, Saved!Mine,
                            SendSteps
  <2>20. FileTypes'
    BY <1>0, <2>1, <2>2, <2>3, <2>4, <2>5, <2>6 DEF FileTypes, FileWritten, StepTaken,
       ClearedFor, PersistedFor
  <2>21. ServiceTypes'
    BY <1>0, <2>1, <2>2, <2>3, <2>4, <2>5, <2>6 DEF ServiceTypes
  <2>22. SesSteps'
    BY <1>0, <2>1, <2>2, <2>3, <2>4, <2>5, <2>6, StepsKept DEF ServiceTypes, SendSteps,
       ClearedFor, PersistedFor
  <2>23. SesFiles'
    BY <1>0, <2>1, <2>2, <2>3, <2>4, <2>5, <2>6, FilesKept DEF SesFiles, FileTypes, ClearedFor,
       PersistedFor
  <2>24. GrantsTell'
    BY <1>0, <2>1, <2>2, <2>3, <2>4, <2>5, <2>6, GrantsKept DEF FileTypes, PersistedFor
  <2>25. AnswersTell'
    BY <1>0, <2>1, <2>2, <2>3, <2>4, <2>5, <2>6, AnswersKept DEF AnswersTell, ClearedFor,
       PersistedFor
  <2>26. JobsTell'
    BY <1>0, <2>1, <2>2, <2>3, <2>4, <2>5, <2>6, JobsKept DEF ClearedFor, PersistedFor
  <2> QED BY <2>20, <2>21, <2>22, <2>23, <2>24, <2>25, <2>26 DEF SesInv
<1>4. ASSUME NEW c \in Copies, Saved!Accepted(c) PROVE SesInv'
  <2> DEFINE st == [file[c] EXCEPT !.pending = Nothing]
  <2>1. file[c] \in SavedStates /\ file[c] # Nothing
    BY <1>0, <1>4, FileState DEF Saved!Accepted, Saved!Sending, SesSteps
  <2>2. /\ st \in SavedStates /\ st # Nothing /\ st.session = file[c].session
        /\ st.orientation = file[c].orientation /\ st.pending = Nothing
    BY <2>1, SetPending
  <2>3. Saved!Save(c, st) /\ Saved!Cleared(c) /\ UNCHANGED <<Saved!remote, Saved!local, shown>>
    BY <1>4 DEF Saved!Accepted
  <2> HIDE DEF st
  <2>4. FileWritten(c, st) /\ ClearedFor(c)
    BY <1>0, <2>2, <2>3, Written, ClearedEffect
  <2>5. PICK s \in {"idle", "fetch", "acknowledged", "resumed"} : StepTaken(c, s)
    BY <1>0, <1>4, Stepped DEF Saved!Accepted, ClientSteps
  <2>6. file[c].pending.kind # "job"
    BY <1>0, <2>1, <1>4 DEF Saved!Accepted, Saved!Sending, SesFiles, SesSteps, Saved!Mine,
                            SendSteps
  <2>20. FileTypes'
    BY <1>0, <2>1, <2>2, <2>3, <2>4, <2>5, <2>6 DEF FileTypes, FileWritten, StepTaken,
       ClearedFor, PersistedFor
  <2>21. ServiceTypes'
    BY <1>0, <2>1, <2>2, <2>3, <2>4, <2>5, <2>6 DEF ServiceTypes
  <2>22. SesSteps'
    BY <1>0, <2>1, <2>2, <2>3, <2>4, <2>5, <2>6, StepsKept DEF ServiceTypes, SendSteps,
       ClearedFor, PersistedFor
  <2>23. SesFiles'
    BY <1>0, <2>1, <2>2, <2>3, <2>4, <2>5, <2>6, FilesKept DEF SesFiles, FileTypes, ClearedFor,
       PersistedFor
  <2>24. GrantsTell'
    BY <1>0, <2>1, <2>2, <2>3, <2>4, <2>5, <2>6, GrantsKept DEF FileTypes, PersistedFor
  <2>25. AnswersTell'
    BY <1>0, <2>1, <2>2, <2>3, <2>4, <2>5, <2>6, AnswersKept DEF AnswersTell, ClearedFor,
       PersistedFor
  <2>26. JobsTell'
    BY <1>0, <2>1, <2>2, <2>3, <2>4, <2>5, <2>6, JobsKept DEF ClearedFor, PersistedFor
  <2> QED BY <2>20, <2>21, <2>22, <2>23, <2>24, <2>25, <2>26 DEF SesInv
<1>5. ASSUME NEW c \in Copies, Saved!Retry(c) PROVE SesInv'
  <2>1. FileTypes'
    BY <1>0, NothingAssumption, <1>5 DEF Saved!Retry, Saved!Loaded, Saved!Unlocked, Saved!Saved,
          Saved!Go, Saved!Replies, SendSteps, ClientSteps, FileTypes, ServiceTypes, SesSteps,
          SesFiles, GrantsTell, AnswersTell, JobsTell
  <2>2. ServiceTypes'
    BY <1>0, NothingAssumption, <1>5 DEF Saved!Retry, Saved!Loaded, Saved!Unlocked, Saved!Saved,
          Saved!Go, Saved!Replies, SendSteps, ClientSteps, FileTypes, ServiceTypes, SesSteps,
          SesFiles, GrantsTell, AnswersTell, JobsTell
  <2>3. SesSteps'
    BY <1>0, NothingAssumption, <1>5 DEF Saved!Retry, Saved!Loaded, Saved!Unlocked, Saved!Saved,
          Saved!Go, Saved!Replies, SendSteps, ClientSteps, FileTypes, ServiceTypes, SesSteps,
          SesFiles, GrantsTell, AnswersTell, JobsTell
  <2>4. SesFiles'
    BY <1>0, NothingAssumption, <1>5 DEF Saved!Retry, Saved!Loaded, Saved!Unlocked, Saved!Saved,
          Saved!Go, Saved!Replies, SendSteps, ClientSteps, FileTypes, ServiceTypes, SesSteps,
          SesFiles, GrantsTell, AnswersTell, JobsTell
  <2>5. GrantsTell'
    BY <1>0, NothingAssumption, <1>5 DEF Saved!Retry, Saved!Loaded, Saved!Unlocked, Saved!Saved,
          Saved!Go, Saved!Replies, SendSteps, ClientSteps, FileTypes, ServiceTypes, SesSteps,
          SesFiles, GrantsTell, AnswersTell, JobsTell
  <2>6. AnswersTell'
    BY <1>0, NothingAssumption, <1>5 DEF Saved!Retry, Saved!Loaded, Saved!Unlocked, Saved!Saved,
          Saved!Go, Saved!Replies, SendSteps, ClientSteps, FileTypes, ServiceTypes, SesSteps,
          SesFiles, GrantsTell, AnswersTell, JobsTell
  <2>7. JobsTell'
    BY <1>0, NothingAssumption, <1>5 DEF Saved!Retry, Saved!Loaded, Saved!Unlocked, Saved!Saved,
          Saved!Go, Saved!Replies, SendSteps, ClientSteps, FileTypes, ServiceTypes, SesSteps,
          SesFiles, GrantsTell, AnswersTell, JobsTell
  <2> QED BY <2>1, <2>2, <2>3, <2>4, <2>5, <2>6, <2>7 DEF SesInv
<1>6. ASSUME NEW c \in Copies, Saved!RetriedAcknowledgement(c) PROVE SesInv'
  <2> DEFINE st == [file[c] EXCEPT !.acknowledged = file[c].orientation]
  <2>1. file[c] \in SavedStates /\ file[c] # Nothing
    BY <1>0, <1>6, FileState DEF Saved!RetriedAcknowledgement, SesSteps
  <2>2. /\ st \in SavedStates /\ st # Nothing /\ st.session = file[c].session
        /\ st.orientation = file[c].orientation /\ st.pending = file[c].pending
    BY <2>1, SetAcknowledged
  <2>3. Saved!Save(c, st) /\ UNCHANGED <<Saved!request, Saved!remote, Saved!local, shown>>
    BY <1>6 DEF Saved!RetriedAcknowledgement
  <2> HIDE DEF st
  <2>4. FileWritten(c, st)
    BY <1>0, <2>2, <2>3, Written
  <2>5. StepTaken(c, "idle")
    BY <1>0, <1>6, Stepped DEF Saved!RetriedAcknowledgement, ClientSteps
  <2>20. FileTypes'
    BY <1>0, <2>1, <2>2, <2>3, <2>4, <2>5 DEF FileTypes, FileWritten, StepTaken, ClearedFor,
       PersistedFor
  <2>21. ServiceTypes'
    BY <1>0, <2>1, <2>2, <2>3, <2>4, <2>5 DEF ServiceTypes
  <2>22. SesSteps'
    BY <1>0, <2>1, <2>2, <2>3, <2>4, <2>5, StepsKept DEF ServiceTypes, SendSteps, ClearedFor,
       PersistedFor
  <2>23. SesFiles'
    BY <1>0, <2>1, <2>2, <2>3, <2>4, <2>5, FilesKept DEF SesFiles, FileTypes, ClearedFor,
       PersistedFor
  <2>24. GrantsTell'
    BY <1>0, <2>1, <2>2, <2>3, <2>4, <2>5, GrantsKept DEF FileTypes, PersistedFor
  <2>25. AnswersTell'
    BY <1>0, <2>1, <2>2, <2>3, <2>4, <2>5, AnswersKept DEF AnswersTell, ClearedFor, PersistedFor
  <2>26. JobsTell'
    BY <1>0, <2>1, <2>2, <2>3, <2>4, <2>5, JobsKept DEF ClearedFor, PersistedFor
  <2> QED BY <2>20, <2>21, <2>22, <2>23, <2>24, <2>25, <2>26 DEF SesInv
<1>7. ASSUME NEW c \in Copies, Saved!ConnectAgain(c) PROVE SesInv'
  <2>1. FileTypes'
    BY <1>0, NothingAssumption, <1>7 DEF Saved!ConnectAgain, Saved!Loaded, Saved!Unlocked,
          Saved!Saved, Saved!Go, Saved!Replies, SendSteps, ClientSteps, FileTypes, ServiceTypes,
          SesSteps, SesFiles, GrantsTell, AnswersTell, JobsTell
  <2>2. ServiceTypes'
    BY <1>0, NothingAssumption, <1>7 DEF Saved!ConnectAgain, Saved!Loaded, Saved!Unlocked,
          Saved!Saved, Saved!Go, Saved!Replies, SendSteps, ClientSteps, FileTypes, ServiceTypes,
          SesSteps, SesFiles, GrantsTell, AnswersTell, JobsTell
  <2>3. SesSteps'
    BY <1>0, NothingAssumption, <1>7 DEF Saved!ConnectAgain, Saved!Loaded, Saved!Unlocked,
          Saved!Saved, Saved!Go, Saved!Replies, SendSteps, ClientSteps, FileTypes, ServiceTypes,
          SesSteps, SesFiles, GrantsTell, AnswersTell, JobsTell
  <2>4. SesFiles'
    BY <1>0, NothingAssumption, <1>7 DEF Saved!ConnectAgain, Saved!Loaded, Saved!Unlocked,
          Saved!Saved, Saved!Go, Saved!Replies, SendSteps, ClientSteps, FileTypes, ServiceTypes,
          SesSteps, SesFiles, GrantsTell, AnswersTell, JobsTell
  <2>5. GrantsTell'
    BY <1>0, NothingAssumption, <1>7 DEF Saved!ConnectAgain, Saved!Loaded, Saved!Unlocked,
          Saved!Saved, Saved!Go, Saved!Replies, SendSteps, ClientSteps, FileTypes, ServiceTypes,
          SesSteps, SesFiles, GrantsTell, AnswersTell, JobsTell
  <2>6. AnswersTell'
    BY <1>0, NothingAssumption, <1>7 DEF Saved!ConnectAgain, Saved!Loaded, Saved!Unlocked,
          Saved!Saved, Saved!Go, Saved!Replies, SendSteps, ClientSteps, FileTypes, ServiceTypes,
          SesSteps, SesFiles, GrantsTell, AnswersTell, JobsTell
  <2>7. JobsTell'
    BY <1>0, NothingAssumption, <1>7 DEF Saved!ConnectAgain, Saved!Loaded, Saved!Unlocked,
          Saved!Saved, Saved!Go, Saved!Replies, SendSteps, ClientSteps, FileTypes, ServiceTypes,
          SesSteps, SesFiles, GrantsTell, AnswersTell, JobsTell
  <2> QED BY <2>1, <2>2, <2>3, <2>4, <2>5, <2>6, <2>7 DEF SesInv
<1>8. ASSUME NEW c \in Copies, Saved!FetchSession(c) PROVE SesInv'
  <2>1. FileTypes'
    BY <1>0, <1>8 DEF Saved!FetchSession, Saved!Open, Saved!Go, Saved!Mine, SendSteps,
                      ClientSteps,
          FileTypes, ServiceTypes, SesSteps, SesFiles, GrantsTell, AnswersTell, JobsTell
  <2>2. ServiceTypes'
    BY <1>0, <1>8 DEF Saved!FetchSession, Saved!Open, Saved!Go, Saved!Mine, SendSteps,
                      ClientSteps,
          FileTypes, ServiceTypes, SesSteps, SesFiles, GrantsTell, AnswersTell, JobsTell
  <2>3. SesSteps'
    BY <1>0, <1>8 DEF Saved!FetchSession, Saved!Open, Saved!Go, Saved!Mine, SendSteps,
                      ClientSteps,
          FileTypes, ServiceTypes, SesSteps, SesFiles, GrantsTell, AnswersTell, JobsTell
  <2>4. SesFiles'
    BY <1>0, <1>8 DEF Saved!FetchSession, Saved!Open, Saved!Go, Saved!Mine, SendSteps,
                      ClientSteps,
          FileTypes, ServiceTypes, SesSteps, SesFiles, GrantsTell, AnswersTell, JobsTell
  <2>5. GrantsTell'
    BY <1>0, <1>8 DEF Saved!FetchSession, Saved!Open, Saved!Go, Saved!Mine, SendSteps,
                      ClientSteps,
          FileTypes, ServiceTypes, SesSteps, SesFiles, GrantsTell, AnswersTell, JobsTell
  <2>6. AnswersTell'
    BY <1>0, <1>8 DEF Saved!FetchSession, Saved!Open, Saved!Go, Saved!Mine, SendSteps,
                      ClientSteps,
          FileTypes, ServiceTypes, SesSteps, SesFiles, GrantsTell, AnswersTell, JobsTell
  <2>7. JobsTell'
    BY <1>0, <1>8 DEF Saved!FetchSession, Saved!Open, Saved!Go, Saved!Mine, SendSteps,
                      ClientSteps,
          FileTypes, ServiceTypes, SesSteps, SesFiles, GrantsTell, AnswersTell, JobsTell
  <2> QED BY <2>1, <2>2, <2>3, <2>4, <2>5, <2>6, <2>7 DEF SesInv
<1>9. ASSUME NEW c \in Copies, Saved!Orient(c) PROVE SesInv'
  <2> DEFINE st == [file[c] EXCEPT !.orientation = Len(policy)]
  <2>0. Len(policy) \in Nat
    BY <1>0 DEF ServiceTypes
  <2>1. file[c] \in SavedStates /\ file[c] # Nothing /\ file[c].pending = Nothing
    BY <1>0, <1>9, FileState DEF Saved!Orient, SesSteps
  <2>2. /\ st \in SavedStates /\ st # Nothing /\ st.session = file[c].session
        /\ st.orientation = Len(policy) /\ st.pending = Nothing
    BY <2>0, <2>1, SetOrientation
  <2>3. /\ Saved!Save(c, st) /\ UNCHANGED <<Saved!request, Saved!remote, Saved!local>>
        /\ shown' = [shown EXCEPT ![c] = @ \cup {Len(policy)}]
    BY <1>9 DEF Saved!Orient, Saved!Current
  <2> HIDE DEF st
  <2>4. FileWritten(c, st)
    BY <1>0, <2>2, <2>3, Written
  <2>5. StepTaken(c, "idle")
    BY <1>0, <1>9, Stepped DEF Saved!Orient, ClientSteps
  <2>6. /\ shown' \in [Copies -> SUBSET Nat] /\ Len(policy) \in shown'[c]
        /\ \A d \in Copies : shown[d] \subseteq shown'[d]
        /\ \A d \in Copies \ {c} : shown'[d] = shown[d]
    BY <1>0, <2>0, <2>3 DEF FileTypes
  <2>20. FileTypes'
    BY <1>0, <2>1, <2>2, <2>3, <2>4, <2>5, <2>6 DEF FileTypes, FileWritten, StepTaken,
       ClearedFor, PersistedFor
  <2>21. ServiceTypes'
    BY <1>0, <2>1, <2>2, <2>3, <2>4, <2>5, <2>6 DEF ServiceTypes
  <2>22. SesSteps'
    BY <1>0, <2>1, <2>2, <2>3, <2>4, <2>5, <2>6, StepsKept DEF ServiceTypes, SendSteps,
       ClearedFor, PersistedFor
  <2>23. SesFiles'
    BY <1>0, <2>1, <2>2, <2>3, <2>4, <2>5, <2>6, FilesKept DEF SesFiles, FileTypes, ClearedFor,
       PersistedFor
  <2>24. GrantsTell'
    BY <1>0, <2>1, <2>2, <2>3, <2>4, <2>5, <2>6, GrantsKept DEF FileTypes, PersistedFor
  <2>25. AnswersTell'
    BY <1>0, <2>1, <2>2, <2>3, <2>4, <2>5, <2>6, AnswersKept DEF AnswersTell, ClearedFor,
       PersistedFor
  <2>26. JobsTell'
    BY <1>0, <2>1, <2>2, <2>3, <2>4, <2>5, <2>6, JobsKept DEF ClearedFor, PersistedFor
  <2> QED BY <2>20, <2>21, <2>22, <2>23, <2>24, <2>25, <2>26 DEF SesInv
<1>10. ASSUME NEW c \in Copies, Saved!Acknowledge(c) PROVE SesInv'
  <2> DEFINE old == file[c]
             m == [kind |-> "acknowledge", revision |-> file[c].orientation]
             st == SetTo(old, m)
  <2>1. old \in SavedStates /\ file[c] # Nothing /\ old = file[c]
        /\ old.orientation \in shown[c] \cup {0}
    BY <1>0, <1>10, FileState, FreshState DEF Saved!Acknowledge, Saved!Oriented, SesFiles,
         Saved!Loaded, Saved!Unlocked, Saved!Saved
  <2>2. m \in Mutations /\ m # Nothing /\ m.kind = "acknowledge"
          /\ m.revision = file[c].orientation
    BY <2>1, NothingAssumption DEF Mutations, SavedStates
  <2>3. Saved!Persist(c, old, "acknowledge", file[c].orientation, "acknowledge")
          /\ UNCHANGED <<Saved!remote, Saved!local, shown, unanswered>>
    BY <1>10 DEF Saved!Acknowledge
  <2>4. PersistedFor(c, old, m, "acknowledge")
    BY <1>0, <2>1, <2>2, <2>3, PersistEffect DEF ClientSteps, SendSteps
  <2>5. /\ st \in SavedStates /\ st # Nothing /\ st.session = old.session
        /\ st.orientation = old.orientation /\ st.pending = m
    BY <2>1, <2>2, SetPending DEF SetTo
  <2> HIDE DEF st, old, m
  <2>6. FileWritten(c, st) /\ StepTaken(c, "acknowledge") /\ old.pending \in {m, Nothing}
    BY <2>4 DEF PersistedFor, st
  <2>20. FileTypes'
    BY <1>0, <2>1, <2>2, <2>3, <2>4, <2>5, <2>6 DEF FileTypes, FileWritten, StepTaken,
       ClearedFor, PersistedFor
  <2>21. ServiceTypes'
    BY <1>0, <2>1, <2>2, <2>3, <2>4, <2>5, <2>6 DEF ServiceTypes
  <2>22. SesSteps'
    BY <1>0, <2>1, <2>2, <2>3, <2>4, <2>5, <2>6, StepsKept DEF ServiceTypes, SendSteps,
       ClearedFor, PersistedFor
  <2>23. SesFiles'
    BY <1>0, <2>1, <2>2, <2>3, <2>4, <2>5, <2>6, FilesKept DEF SesFiles, FileTypes, ClearedFor,
       PersistedFor
  <2>24. GrantsTell'
    BY <1>0, <2>1, <2>2, <2>3, <2>4, <2>5, <2>6, GrantsKept DEF FileTypes, PersistedFor
  <2>25. AnswersTell'
    BY <1>0, <2>1, <2>2, <2>3, <2>4, <2>5, <2>6, AnswersKept DEF AnswersTell, ClearedFor,
       PersistedFor
  <2>26. JobsTell'
    BY <1>0, <2>1, <2>2, <2>3, <2>4, <2>5, <2>6, JobsKept DEF ClearedFor, PersistedFor
  <2> QED BY <2>20, <2>21, <2>22, <2>23, <2>24, <2>25, <2>26 DEF SesInv
<1>11. ASSUME NEW c \in Copies, Saved!SaveAcknowledged(c) PROVE SesInv'
  <2> DEFINE st == [file[c] EXCEPT !.acknowledged = file[c].orientation]
  <2>1. file[c] \in SavedStates /\ file[c] # Nothing
    BY <1>0, <1>11, FileState DEF Saved!SaveAcknowledged, SesSteps
  <2>2. /\ st \in SavedStates /\ st # Nothing /\ st.session = file[c].session
        /\ st.orientation = file[c].orientation /\ st.pending = file[c].pending
    BY <2>1, SetAcknowledged
  <2>3. Saved!Save(c, st) /\ UNCHANGED <<Saved!request, Saved!remote, Saved!local, shown>>
    BY <1>11 DEF Saved!SaveAcknowledged
  <2> HIDE DEF st
  <2>4. FileWritten(c, st)
    BY <1>0, <2>2, <2>3, Written
  <2>5. StepTaken(c, "claiming")
    BY <1>0, <1>11, Stepped DEF Saved!SaveAcknowledged, ClientSteps
  <2>20. FileTypes'
    BY <1>0, <2>1, <2>2, <2>3, <2>4, <2>5 DEF FileTypes, FileWritten, StepTaken, ClearedFor,
       PersistedFor
  <2>21. ServiceTypes'
    BY <1>0, <2>1, <2>2, <2>3, <2>4, <2>5 DEF ServiceTypes
  <2>22. SesSteps'
    BY <1>0, <2>1, <2>2, <2>3, <2>4, <2>5, StepsKept DEF ServiceTypes, SendSteps, ClearedFor,
       PersistedFor
  <2>23. SesFiles'
    BY <1>0, <2>1, <2>2, <2>3, <2>4, <2>5, FilesKept DEF SesFiles, FileTypes, ClearedFor,
       PersistedFor
  <2>24. GrantsTell'
    BY <1>0, <2>1, <2>2, <2>3, <2>4, <2>5, GrantsKept DEF FileTypes, PersistedFor
  <2>25. AnswersTell'
    BY <1>0, <2>1, <2>2, <2>3, <2>4, <2>5, AnswersKept DEF AnswersTell, ClearedFor, PersistedFor
  <2>26. JobsTell'
    BY <1>0, <2>1, <2>2, <2>3, <2>4, <2>5, JobsKept DEF ClearedFor, PersistedFor
  <2> QED BY <2>20, <2>21, <2>22, <2>23, <2>24, <2>25, <2>26 DEF SesInv
<1>12. ASSUME NEW c \in Copies, Saved!Claim(c) PROVE SesInv'
  <2> DEFINE old == file[c]
             m == [kind |-> "claim", revision |-> file[c].orientation]
             st == SetTo(old, m)
  <2>1. old \in SavedStates /\ file[c] # Nothing /\ old = file[c]
        /\ old.orientation \in shown[c] \cup {0}
    BY <1>0, <1>12, FileState, FreshState DEF Saved!Claim, Saved!Oriented, SesSteps, SesFiles,
         Saved!Loaded, Saved!Unlocked, Saved!Saved
  <2>2. m \in Mutations /\ m # Nothing /\ m.kind = "claim" /\ m.revision = file[c].orientation
    BY <2>1, NothingAssumption DEF Mutations, SavedStates
  <2>3. Saved!Persist(c, old, "claim", file[c].orientation, "claim")
          /\ UNCHANGED <<Saved!remote, Saved!local, shown, unanswered>>
    BY <1>12 DEF Saved!Claim
  <2>4. PersistedFor(c, old, m, "claim")
    BY <1>0, <2>1, <2>2, <2>3, PersistEffect DEF ClientSteps, SendSteps
  <2>5. /\ st \in SavedStates /\ st # Nothing /\ st.session = old.session
        /\ st.orientation = old.orientation /\ st.pending = m
    BY <2>1, <2>2, SetPending DEF SetTo
  <2> HIDE DEF st, old, m
  <2>6. FileWritten(c, st) /\ StepTaken(c, "claim") /\ old.pending \in {m, Nothing}
    BY <2>4 DEF PersistedFor, st
  <2>20. FileTypes'
    BY <1>0, <2>1, <2>2, <2>3, <2>4, <2>5, <2>6 DEF FileTypes, FileWritten, StepTaken,
       ClearedFor, PersistedFor
  <2>21. ServiceTypes'
    BY <1>0, <2>1, <2>2, <2>3, <2>4, <2>5, <2>6 DEF ServiceTypes
  <2>22. SesSteps'
    BY <1>0, <2>1, <2>2, <2>3, <2>4, <2>5, <2>6, StepsKept DEF ServiceTypes, SendSteps,
       ClearedFor, PersistedFor
  <2>23. SesFiles'
    BY <1>0, <2>1, <2>2, <2>3, <2>4, <2>5, <2>6, FilesKept DEF SesFiles, FileTypes, ClearedFor,
       PersistedFor
  <2>24. GrantsTell'
    BY <1>0, <2>1, <2>2, <2>3, <2>4, <2>5, <2>6, GrantsKept DEF FileTypes, PersistedFor
  <2>25. AnswersTell'
    BY <1>0, <2>1, <2>2, <2>3, <2>4, <2>5, <2>6, AnswersKept DEF AnswersTell, ClearedFor,
       PersistedFor
  <2>26. JobsTell'
    BY <1>0, <2>1, <2>2, <2>3, <2>4, <2>5, <2>6, JobsKept DEF ClearedFor, PersistedFor
  <2> QED BY <2>20, <2>21, <2>22, <2>23, <2>24, <2>25, <2>26 DEF SesInv
<1>13. ASSUME NEW c \in Copies, Saved!RunJob(c) PROVE SesInv'
  <2>1. /\ file[c] # Nothing /\ file[c].pending = Nothing /\ file[c] \in SavedStates
        /\ session[file[c].session] = "open"
        /\ UNCHANGED <<Saved!remote, guarded, shown, unanswered>>
    BY <1>0, <1>13, FileState DEF Saved!RunJob, Saved!Loaded, Saved!Saved, Saved!Open, Saved!Mine
  <2>2. CASE /\ jobJournal[file[c].session] # "registered"
             /\ Saved!Prepared(file[c].session) /\ Saved!RegisterJob(c)
    <3> DEFINE old == file[c]
               m == [kind |-> "job", revision |-> 0]
               st == SetTo(old, m)
    <3>1. old = file[c] /\ old \in SavedStates
      BY <2>1 
    <3>2. m \in Mutations /\ m # Nothing /\ m.kind = "job" /\ m.revision = 0
      BY <3>1, NothingAssumption DEF Mutations, SavedStates
    <3>3. Saved!Persist(c, old, "job", 0, "job")
            /\ jobJournal' = [jobJournal EXCEPT ![file[c].session] = "prepared"]
      BY <2>2 DEF Saved!RegisterJob, Saved!Prepared
    <3>4. PersistedFor(c, old, m, "job")
      BY <1>0, <3>1, <3>2, <3>3, PersistEffect DEF ClientSteps, SendSteps
    <3>5. /\ st \in SavedStates /\ st # Nothing /\ st.session = old.session
          /\ st.orientation = old.orientation /\ st.pending = m
      BY <3>1, <3>2, SetPending DEF SetTo
    <3> HIDE DEF st, old, m
    <3>6. FileWritten(c, st) /\ StepTaken(c, "job") /\ old.pending \in {m, Nothing}
      BY <3>4 DEF PersistedFor, st
    <3>7. /\ jobJournal' \in [Saved!Sessions -> {"none", "prepared", "registered"}]
          /\ \A t : jobJournal[t] = "registered" => jobJournal'[t] = "registered"
      BY <1>0, <2>1, <2>2, <3>3 DEF ServiceTypes, SavedStates
    <3>20. FileTypes'
      BY <1>0, <2>1, <2>2, <3>1, <3>2, <3>3, <3>4, <3>5, <3>6,
        <3>7 DEF FileTypes, FileWritten, StepTaken,
         ClearedFor, PersistedFor
    <3>21. ServiceTypes'
      BY <1>0, <2>1, <2>2, <3>1, <3>2, <3>3, <3>4, <3>5, <3>6,
        <3>7 DEF ServiceTypes
    <3>22. SesSteps'
      BY <1>0, <2>1, <2>2, <3>1, <3>2, <3>3, <3>4, <3>5, <3>6,
        <3>7, StepsKept DEF ServiceTypes, SendSteps,
         ClearedFor, PersistedFor
    <3>23. SesFiles'
      BY <1>0, <2>1, <2>2, <3>1, <3>2, <3>3, <3>4, <3>5, <3>6,
        <3>7, FilesKept DEF SesFiles, FileTypes, ClearedFor,
         PersistedFor
    <3>24. GrantsTell'
      BY <1>0, <2>1, <2>2, <3>1, <3>2, <3>3, <3>4, <3>5, <3>6,
        <3>7, GrantsKept DEF FileTypes, PersistedFor
    <3>25. AnswersTell'
      BY <1>0, <2>1, <2>2, <3>1, <3>2, <3>3, <3>4, <3>5, <3>6,
        <3>7, AnswersKept DEF AnswersTell, ClearedFor,
         PersistedFor
    <3>26. JobsTell'
      BY <1>0, <2>1, <2>2, <3>1, <3>2, <3>3, <3>4, <3>5, <3>6,
        <3>7, JobsKept DEF ClearedFor, PersistedFor
    <3> QED BY <3>20, <3>21, <3>22, <3>23, <3>24, <3>25, <3>26 DEF SesInv
  <2>3. CASE /\ jobJournal[file[c].session] = "registered" /\ Saved!Go(c, "verify")
             /\ UNCHANGED <<file, applied, answer, jobJournal>>
    <3>1. StepTaken(c, "verify")
      BY <1>0, <2>3, Stepped DEF ClientSteps
    <3> QED BY <1>0, <2>1, <2>3, <3>1 DEF SesInv, StepTaken, FileTypes, ServiceTypes, SesSteps,
              SesFiles, GrantsTell, AnswersTell, JobsTell, SendSteps
  <2> QED BY <2>2, <2>3, <1>13 DEF Saved!RunJob, Saved!Mine
<1>14. ASSUME NEW c \in Copies, Saved!RecordRegistration(c) PROVE SesInv'
  <2>1. /\ file[c] # Nothing /\ file[c] \in SavedStates /\ doingFor[c] \in SendSteps
        /\ UNCHANGED <<file, Saved!request, Saved!remote, guarded, shown>>
        /\ jobJournal' = [jobJournal EXCEPT ![file[c].session] = "registered"]
    BY <1>0, <1>14, FileState DEF Saved!RecordRegistration, Saved!Sending, Saved!Mine,
                                  SesSteps, SendSteps
  <2>2. StepTaken(c, IF doingFor[c] = "job" THEN "verify" ELSE "reverify")
    BY <1>0, <1>14, Stepped DEF Saved!RecordRegistration, ClientSteps
  <2>3. /\ jobJournal' \in [Saved!Sessions -> {"none", "prepared", "registered"}]
        /\ jobJournal'[file[c].session] = "registered"
        /\ \A t \in Saved!Sessions : jobJournal[t] = "registered" => jobJournal'[t] = "registered"
    BY <1>0, <2>1 DEF ServiceTypes, SavedStates
  <2>4. \A d \in Copies : file[d] # Nothing => file[d].session \in Saved!Sessions
    BY <1>0 DEF FileTypes, SavedStates
  <2>5. SesSteps'
    BY <1>0, <2>1, <2>2, <2>3, <2>4 DEF StepTaken, SesSteps, SendSteps
  <2>6. JobsTell'
    BY <1>0, <2>1, <2>3 DEF JobsTell, ServiceTypes
  <2> QED BY <1>0, <2>1, <2>2, <2>3, <2>5, <2>6 DEF StepTaken, SesInv, FileTypes, ServiceTypes,
             SesFiles, GrantsTell, AnswersTell
<1>15. ASSUME NEW c \in Copies, Saved!ReconcileJob(c) PROVE SesInv'
  <2> DEFINE st == [file[c] EXCEPT !.pending = Nothing]
  <2>1. file[c] \in SavedStates /\ file[c] # Nothing
    BY <1>0, <1>15, FileState DEF Saved!ReconcileJob, SesSteps
  <2>2. /\ st \in SavedStates /\ st # Nothing /\ st.session = file[c].session
        /\ st.orientation = file[c].orientation /\ st.pending = Nothing
    BY <2>1, SetPending
  <2>3. Saved!Save(c, st) /\ Saved!Cleared(c) /\ UNCHANGED <<Saved!remote, Saved!local, shown>>
    BY <1>15 DEF Saved!ReconcileJob
  <2> HIDE DEF st
  <2>4. FileWritten(c, st) /\ ClearedFor(c)
    BY <1>0, <2>2, <2>3, Written, ClearedEffect
  <2>5. StepTaken(c, IF doingFor[c] = "verify" THEN "guard" ELSE "idle")
    BY <1>0, <1>15, Stepped DEF Saved!ReconcileJob, ClientSteps
  <2>6. file[c].session \in jobs /\ jobJournal[file[c].session] = "registered"
    BY <1>0, <2>1, <1>15 DEF Saved!ReconcileJob, SesFiles, SesSteps, Saved!Mine, SendSteps
  <2>20. FileTypes'
    BY <1>0, <2>1, <2>2, <2>3, <2>4, <2>5, <2>6 DEF FileTypes, FileWritten, StepTaken,
       ClearedFor, PersistedFor
  <2>21. ServiceTypes'
    BY <1>0, <2>1, <2>2, <2>3, <2>4, <2>5, <2>6 DEF ServiceTypes
  <2>22. SesSteps'
    BY <1>0, <2>1, <2>2, <2>3, <2>4, <2>5, <2>6, StepsKept DEF ServiceTypes, SendSteps,
       ClearedFor, PersistedFor
  <2>23. SesFiles'
    BY <1>0, <2>1, <2>2, <2>3, <2>4, <2>5, <2>6, FilesKept DEF SesFiles, FileTypes, ClearedFor,
       PersistedFor
  <2>24. GrantsTell'
    BY <1>0, <2>1, <2>2, <2>3, <2>4, <2>5, <2>6, GrantsKept DEF FileTypes, PersistedFor
  <2>25. AnswersTell'
    BY <1>0, <2>1, <2>2, <2>3, <2>4, <2>5, <2>6, AnswersKept DEF AnswersTell, ClearedFor,
       PersistedFor
  <2>26. JobsTell'
    BY <1>0, <2>1, <2>2, <2>3, <2>4, <2>5, <2>6, JobsKept DEF ClearedFor, PersistedFor
  <2> QED BY <2>20, <2>21, <2>22, <2>23, <2>24, <2>25, <2>26 DEF SesInv
<1>16. ASSUME NEW c \in Copies, Saved!StartGuardian(c) PROVE SesInv'
  <2>1. FileTypes'
    BY <1>0, <1>16 DEF Saved!StartGuardian, Saved!Mine, Saved!Go, SendSteps, ClientSteps,
                       FileTypes,
          ServiceTypes, SesSteps, SesFiles, GrantsTell, AnswersTell, JobsTell
  <2>2. ServiceTypes'
    BY <1>0, <1>16 DEF Saved!StartGuardian, Saved!Mine, Saved!Go, SendSteps, ClientSteps,
                       FileTypes,
          ServiceTypes, SesSteps, SesFiles, GrantsTell, AnswersTell, JobsTell
  <2>3. SesSteps'
    BY <1>0, <1>16 DEF Saved!StartGuardian, Saved!Mine, Saved!Go, SendSteps, ClientSteps,
                       FileTypes,
          ServiceTypes, SesSteps, SesFiles, GrantsTell, AnswersTell, JobsTell
  <2>4. SesFiles'
    BY <1>0, <1>16 DEF Saved!StartGuardian, Saved!Mine, Saved!Go, SendSteps, ClientSteps,
                       FileTypes,
          ServiceTypes, SesSteps, SesFiles, GrantsTell, AnswersTell, JobsTell
  <2>5. GrantsTell'
    BY <1>0, <1>16 DEF Saved!StartGuardian, Saved!Mine, Saved!Go, SendSteps, ClientSteps,
                       FileTypes,
          ServiceTypes, SesSteps, SesFiles, GrantsTell, AnswersTell, JobsTell
  <2>6. AnswersTell'
    BY <1>0, <1>16 DEF Saved!StartGuardian, Saved!Mine, Saved!Go, SendSteps, ClientSteps,
                       FileTypes,
          ServiceTypes, SesSteps, SesFiles, GrantsTell, AnswersTell, JobsTell
  <2>7. JobsTell'
    BY <1>0, <1>16 DEF Saved!StartGuardian, Saved!Mine, Saved!Go, SendSteps, ClientSteps,
                       FileTypes,
          ServiceTypes, SesSteps, SesFiles, GrantsTell, AnswersTell, JobsTell
  <2> QED BY <2>1, <2>2, <2>3, <2>4, <2>5, <2>6, <2>7 DEF SesInv
<1>17. ASSUME NEW c \in Copies, Saved!Adopt(c) PROVE SesInv'
  <2> DEFINE st == [Saved!NewState(Transport) EXCEPT !.orientation = Len(policy)]
  <2>0. Len(policy) \in Nat /\ Transport \in Saved!Sessions
    BY <1>0 DEF ServiceTypes, Saved!Sessions
  <2>1. file[c] = Nothing /\ doingFor[c] = "idle"
    BY <1>17 DEF Saved!Adopt, Saved!Adoptable, Saved!Saved, Saved!Unlocked
  <2>2. st \in SavedStates /\ st # Nothing /\ st.orientation = Len(policy) /\ st.pending = Nothing
    BY <2>0, FreshState, SetOrientation
  <2>3. /\ Saved!Save(c, st) /\ UNCHANGED <<doingFor, Saved!request, Saved!remote, Saved!local>>
        /\ shown' = [shown EXCEPT ![c] = @ \cup {Len(policy)}]
    BY <1>17 DEF Saved!Adopt, Saved!Current
  <2> HIDE DEF st
  <2>4. FileWritten(c, st)
    BY <1>0, <2>2, <2>3, Written
  <2>5. StepTaken(c, "idle")
    BY <1>0, <2>1, <2>3 DEF FileTypes, StepTaken
  <2>6. /\ shown' \in [Copies -> SUBSET Nat] /\ Len(policy) \in shown'[c]
        /\ \A d \in Copies : shown[d] \subseteq shown'[d]
        /\ \A d \in Copies \ {c} : shown'[d] = shown[d]
    BY <1>0, <2>0, <2>3 DEF FileTypes
  <2>20. FileTypes'
    BY <1>0, <2>1, <2>2, <2>3, <2>4, <2>5, <2>6 DEF FileTypes, FileWritten, StepTaken,
       ClearedFor, PersistedFor
  <2>21. ServiceTypes'
    BY <1>0, <2>1, <2>2, <2>3, <2>4, <2>5, <2>6 DEF ServiceTypes
  <2>22. SesSteps'
    BY <1>0, <2>1, <2>2, <2>3, <2>4, <2>5, <2>6, StepsKept DEF ServiceTypes, SendSteps,
       ClearedFor, PersistedFor
  <2>23. SesFiles'
    BY <1>0, <2>1, <2>2, <2>3, <2>4, <2>5, <2>6, FilesKept DEF SesFiles, FileTypes, ClearedFor,
       PersistedFor
  <2>24. GrantsTell'
    BY <1>0, <2>1, <2>2, <2>3, <2>4, <2>5, <2>6, GrantsKept DEF FileTypes, PersistedFor
  <2>25. AnswersTell'
    BY <1>0, <2>1, <2>2, <2>3, <2>4, <2>5, <2>6, AnswersKept DEF AnswersTell, ClearedFor,
       PersistedFor
  <2>26. JobsTell'
    BY <1>0, <2>1, <2>2, <2>3, <2>4, <2>5, <2>6, JobsKept DEF ClearedFor, PersistedFor
  <2> QED BY <2>20, <2>21, <2>22, <2>23, <2>24, <2>25, <2>26 DEF SesInv
<1>18. ASSUME NEW c \in Copies, NEW s \in Identities, Saved!ConnectNew(c, s) PROVE SesInv'
  <2> DEFINE old == Saved!NewState(s)
             m == [kind |-> "register", revision |-> 0]
             st == SetTo(old, m)
  <2>1. old \in SavedStates /\ old.pending = Nothing /\ old.orientation = 0 /\ old.session = s
        /\ session[s] = "none" /\ file[c] = Nothing
    BY <1>0, <1>18, FileState, FreshState DEF Saved!ConnectNew, Saved!Fresh, Saved!Unused,
                                              Saved!Sessions,
         Saved!Loaded, Saved!Unlocked, Saved!Saved
  <2>2. m \in Mutations /\ m # Nothing /\ m.kind = "register" /\ m.revision = 0
    BY <2>1, NothingAssumption DEF Mutations, SavedStates
  <2>3. Saved!Persist(c, old, "register", 0, "register")
          /\ UNCHANGED <<Saved!remote, Saved!local, shown, unanswered>>
    BY <1>18 DEF Saved!ConnectNew
  <2>4. PersistedFor(c, old, m, "register")
    BY <1>0, <2>1, <2>2, <2>3, PersistEffect DEF ClientSteps, SendSteps
  <2>5. /\ st \in SavedStates /\ st # Nothing /\ st.session = old.session
        /\ st.orientation = old.orientation /\ st.pending = m
    BY <2>1, <2>2, SetPending DEF SetTo
  <2> HIDE DEF st, old, m
  <2>6. FileWritten(c, st) /\ StepTaken(c, "register") /\ old.pending \in {m, Nothing}
    BY <2>4 DEF PersistedFor, st
  <2>20. FileTypes'
    BY <1>0, <2>1, <2>2, <2>3, <2>4, <2>5, <2>6 DEF FileTypes, FileWritten, StepTaken,
       ClearedFor, PersistedFor
  <2>21. ServiceTypes'
    BY <1>0, <2>1, <2>2, <2>3, <2>4, <2>5, <2>6 DEF ServiceTypes
  <2>22. SesSteps'
    BY <1>0, <2>1, <2>2, <2>3, <2>4, <2>5, <2>6, StepsKept DEF ServiceTypes, SendSteps,
       ClearedFor, PersistedFor
  <2>23. SesFiles'
    BY <1>0, <2>1, <2>2, <2>3, <2>4, <2>5, <2>6, FilesKept DEF SesFiles, FileTypes, ClearedFor,
       PersistedFor
  <2>24. GrantsTell'
    BY <1>0, <2>1, <2>2, <2>3, <2>4, <2>5, <2>6, GrantsKept DEF FileTypes, PersistedFor
  <2>25. AnswersTell'
    BY <1>0, <2>1, <2>2, <2>3, <2>4, <2>5, <2>6, AnswersKept DEF AnswersTell, ClearedFor,
       PersistedFor
  <2>26. JobsTell'
    BY <1>0, <2>1, <2>2, <2>3, <2>4, <2>5, <2>6, JobsKept DEF ClearedFor, PersistedFor
  <2> QED BY <2>20, <2>21, <2>22, <2>23, <2>24, <2>25, <2>26 DEF SesInv
<1>19. ASSUME NEW c \in Copies, NEW s \in Identities, Saved!ReplaceClosed(c, s) PROVE SesInv'
  <2> DEFINE old == Saved!NewState(s)
             m == [kind |-> "register", revision |-> 0]
             st == SetTo(old, m)
  <2>1. old \in SavedStates /\ old.pending = Nothing /\ old.orientation = 0 /\ old.session = s
        /\ session[s] = "none" /\ file[c] # Nothing /\ file[c].pending = Nothing
        /\ session[file[c].session] = "closed"
    BY <1>0, <1>19, FileState, FreshState DEF Saved!ReplaceClosed, Saved!Replaceable, Saved!Mine,
         Saved!Fresh, Saved!Unused, Saved!Sessions, SesSteps
  <2>2. m \in Mutations /\ m # Nothing /\ m.kind = "register" /\ m.revision = 0
    BY <2>1, NothingAssumption DEF Mutations, SavedStates
  <2>3. Saved!Persist(c, old, "register", 0, "register")
          /\ UNCHANGED <<Saved!remote, Saved!local, shown, unanswered>>
    BY <1>19 DEF Saved!ReplaceClosed
  <2>4. PersistedFor(c, old, m, "register")
    BY <1>0, <2>1, <2>2, <2>3, PersistEffect DEF ClientSteps, SendSteps
  <2>5. /\ st \in SavedStates /\ st # Nothing /\ st.session = old.session
        /\ st.orientation = old.orientation /\ st.pending = m
    BY <2>1, <2>2, SetPending DEF SetTo
  <2> HIDE DEF st, old, m
  <2>6. FileWritten(c, st) /\ StepTaken(c, "register") /\ old.pending \in {m, Nothing}
    BY <2>4 DEF PersistedFor, st
  <2>20. FileTypes'
    BY <1>0, <2>1, <2>2, <2>3, <2>4, <2>5, <2>6 DEF FileTypes, FileWritten, StepTaken,
       ClearedFor, PersistedFor
  <2>21. ServiceTypes'
    BY <1>0, <2>1, <2>2, <2>3, <2>4, <2>5, <2>6 DEF ServiceTypes
  <2>22. SesSteps'
    BY <1>0, <2>1, <2>2, <2>3, <2>4, <2>5, <2>6, StepsKept DEF ServiceTypes, SendSteps,
       ClearedFor, PersistedFor
  <2>23. SesFiles'
    BY <1>0, <2>1, <2>2, <2>3, <2>4, <2>5, <2>6, FilesKept DEF SesFiles, FileTypes, ClearedFor,
       PersistedFor
  <2>24. GrantsTell'
    BY <1>0, <2>1, <2>2, <2>3, <2>4, <2>5, <2>6, GrantsKept DEF FileTypes, PersistedFor
  <2>25. AnswersTell'
    BY <1>0, <2>1, <2>2, <2>3, <2>4, <2>5, <2>6, AnswersKept DEF AnswersTell, ClearedFor,
       PersistedFor
  <2>26. JobsTell'
    BY <1>0, <2>1, <2>2, <2>3, <2>4, <2>5, <2>6, JobsKept DEF ClearedFor, PersistedFor
  <2> QED BY <2>20, <2>21, <2>22, <2>23, <2>24, <2>25, <2>26 DEF SesInv
<1>20. ASSUME NEW c \in Copies, NEW d \in Copies, Saved!Migrate(c, d) PROVE SesInv'
  <2> DEFINE st == file[c]
  <2>1. st \in SavedStates /\ st # Nothing /\ st.pending = Nothing /\ doingFor[d] = "idle"
        /\ file[d] = Nothing
    BY <1>0, <1>20, FileState DEF Saved!Migrate, Saved!Loaded, Saved!Unlocked, Saved!Saved
  <2>2. st.orientation \in shown[c] \cup {0}
    BY <1>0, <2>1 DEF SesFiles
  <2>3. /\ Saved!Save(d, st) /\ UNCHANGED <<doingFor, Saved!request, Saved!remote, Saved!local>>
        /\ shown' = [shown EXCEPT ![d] = shown[c]]
    BY <1>20 DEF Saved!Migrate
  <2>4. FileWritten(d, st)
    BY <1>0, <2>1, <2>3, Written
  <2>5. StepTaken(d, "idle")
    BY <1>0, <2>1, <2>3 DEF FileTypes, StepTaken
  <2>6. /\ shown' \in [Copies -> SUBSET Nat] /\ shown'[d] = shown[c]
        /\ \A e \in Copies \ {d} : shown'[e] = shown[e]
    BY <1>0, <2>3 DEF FileTypes
  <2>20. FileTypes'
    BY <1>0, <2>1, <2>2, <2>3, <2>4, <2>5, <2>6 DEF FileTypes, FileWritten, StepTaken,
       ClearedFor, PersistedFor
  <2>21. ServiceTypes'
    BY <1>0, <2>1, <2>2, <2>3, <2>4, <2>5, <2>6 DEF ServiceTypes
  <2>22. SesSteps'
    BY <1>0, <2>1, <2>2, <2>3, <2>4, <2>5, <2>6, StepsKept DEF ServiceTypes, SendSteps,
       ClearedFor, PersistedFor
  <2>23. SesFiles'
    BY <1>0, <2>1, <2>2, <2>3, <2>4, <2>5, <2>6, FilesKept DEF SesFiles, FileTypes, ClearedFor,
       PersistedFor
  <2>24. GrantsTell'
    BY <1>0, <2>1, <2>2, <2>3, <2>4, <2>5, <2>6, GrantsKept DEF FileTypes, PersistedFor
  <2>25. AnswersTell'
    BY <1>0, <2>1, <2>2, <2>3, <2>4, <2>5, <2>6, AnswersKept DEF AnswersTell, ClearedFor,
       PersistedFor
  <2>26. JobsTell'
    BY <1>0, <2>1, <2>2, <2>3, <2>4, <2>5, <2>6, JobsKept DEF ClearedFor, PersistedFor
  <2> QED BY <2>20, <2>21, <2>22, <2>23, <2>24, <2>25, <2>26 DEF SesInv
<1>21. ASSUME NEW r \in Rules, Saved!EditPolicy(r) PROVE SesInv'
  <2>1. FileTypes'
    BY <1>0, <1>21 DEF Saved!EditPolicy, Saved!Trouble, SendSteps, ClientSteps, FileTypes,
          ServiceTypes, SesSteps, SesFiles, GrantsTell, AnswersTell, JobsTell
  <2>2. ServiceTypes'
    BY <1>0, <1>21 DEF Saved!EditPolicy, Saved!Trouble, SendSteps, ClientSteps, FileTypes,
          ServiceTypes, SesSteps, SesFiles, GrantsTell, AnswersTell, JobsTell
  <2>3. SesSteps'
    BY <1>0, <1>21 DEF Saved!EditPolicy, Saved!Trouble, SendSteps, ClientSteps, FileTypes,
          ServiceTypes, SesSteps, SesFiles, GrantsTell, AnswersTell, JobsTell
  <2>4. SesFiles'
    BY <1>0, <1>21 DEF Saved!EditPolicy, Saved!Trouble, SendSteps, ClientSteps, FileTypes,
          ServiceTypes, SesSteps, SesFiles, GrantsTell, AnswersTell, JobsTell
  <2>5. GrantsTell'
    BY <1>0, <1>21 DEF Saved!EditPolicy, Saved!Trouble, SendSteps, ClientSteps, FileTypes,
          ServiceTypes, SesSteps, SesFiles, GrantsTell, AnswersTell, JobsTell
  <2>6. AnswersTell'
    BY <1>0, <1>21 DEF Saved!EditPolicy, Saved!Trouble, SendSteps, ClientSteps, FileTypes,
          ServiceTypes, SesSteps, SesFiles, GrantsTell, AnswersTell, JobsTell
  <2>7. JobsTell'
    BY <1>0, <1>21 DEF Saved!EditPolicy, Saved!Trouble, SendSteps, ClientSteps, FileTypes,
          ServiceTypes, SesSteps, SesFiles, GrantsTell, AnswersTell, JobsTell
  <2> QED BY <2>1, <2>2, <2>3, <2>4, <2>5, <2>6, <2>7 DEF SesInv
<1>22. ASSUME NEW s \in Saved!Sessions, Saved!CloseSession(s) PROVE SesInv'
  <2>1. FileTypes'
    BY <1>0, <1>22 DEF Saved!CloseSession, Saved!Trouble, SendSteps, ClientSteps, FileTypes,
          ServiceTypes, SesSteps, SesFiles, GrantsTell, AnswersTell, JobsTell
  <2>2. ServiceTypes'
    BY <1>0, <1>22 DEF Saved!CloseSession, Saved!Trouble, SendSteps, ClientSteps, FileTypes,
          ServiceTypes, SesSteps, SesFiles, GrantsTell, AnswersTell, JobsTell
  <2>3. SesSteps'
    BY <1>0, <1>22 DEF Saved!CloseSession, Saved!Trouble, SendSteps, ClientSteps, FileTypes,
          ServiceTypes, SesSteps, SesFiles, GrantsTell, AnswersTell, JobsTell
  <2>4. SesFiles'
    BY <1>0, <1>22 DEF Saved!CloseSession, Saved!Trouble, SendSteps, ClientSteps, FileTypes,
          ServiceTypes, SesSteps, SesFiles, GrantsTell, AnswersTell, JobsTell
  <2>5. GrantsTell'
    BY <1>0, <1>22 DEF Saved!CloseSession, Saved!Trouble, SendSteps, ClientSteps, FileTypes,
          ServiceTypes, SesSteps, SesFiles, GrantsTell, AnswersTell, JobsTell
  <2>6. AnswersTell'
    BY <1>0, <1>22 DEF Saved!CloseSession, Saved!Trouble, SendSteps, ClientSteps, FileTypes,
          ServiceTypes, SesSteps, SesFiles, GrantsTell, AnswersTell, JobsTell
  <2>7. JobsTell'
    BY <1>0, <1>22 DEF Saved!CloseSession, Saved!Trouble, SendSteps, ClientSteps, FileTypes,
          ServiceTypes, SesSteps, SesFiles, GrantsTell, AnswersTell, JobsTell
  <2> QED BY <2>1, <2>2, <2>3, <2>4, <2>5, <2>6, <2>7 DEF SesInv
<1> QED BY <1>1, <1>2, <1>3, <1>4, <1>5, <1>6, <1>7, <1>8, <1>9, <1>10, <1>11, <1>12, <1>13,
           <1>14, <1>15, <1>16, <1>17, <1>18, <1>19, <1>20, <1>21, <1>22
        DEF Saved!ClientNext

\* Every claim is informed, the session it belongs to is kept while it is open, a
\* granted claim is answered or pending, and a registered job bound or pending, for
\* any copies, identities and policies (cli/main.rs, cli/session_adoption.rs).
THEOREM SavedSessionsAreSound == ClientsSpec => []SavedSessionsSound
<1>1. ClientsInit => SesInv
  BY SesInvInit DEF ClientsInit
<1>2. SesInv /\ [ClientsNext]_allVars => SesInv'
  <2> SUFFICES ASSUME SesInv, [ClientsNext]_allVars PROVE SesInv'
    OBVIOUS
  <2>1. CASE Saved!ClientNext
    BY <2>1, SesInvStep
  <2>2. CASE UNCHANGED savedVars
    BY <2>2 DEF savedVars, SesInv, FileTypes, ServiceTypes, SesSteps, SesFiles,
         GrantsTell, AnswersTell, JobsTell
  <2> QED BY <2>1, <2>2 DEF ClientsNext, allVars
<1>3. SesInv => SavedSessionsSound
  BY DEF SesInv, FileTypes, ServiceTypes, GrantsTell, AnswersTell, JobsTell,
         SavedSessionsSound, Saved!SavedSessionsSound,
       Saved!ClaimsAreInformed, Saved!OwnersAreKept, Saved!GrantsAreAnswered, Saved!JobsAreBound,
       Saved!Saved, Saved!Mine
<1> QED BY <1>1, <1>2, <1>3, PTL DEF ClientsSpec
=============================================================================
