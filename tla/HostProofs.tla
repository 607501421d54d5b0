------------------------------ MODULE HostProofs ------------------------------
(***************************************************************************)
(* The host supervisor, for any number of launches, crashes, reboots and   *)
(* failed calls.                                                           *)
(*                                                                         *)
(* The implementer loop (LoopInv): a launch that runs has a record of this *)
(* boot with its pid, so that recovery finds it alive; recovery looks at   *)
(* every record before the loop claims, so that a loop that claims knows of*)
(* no running launch.  A launch is in the ledger when its record says so or*)
(* is gone, and strikes lag behind empty exits only by the exits that a    *)
(* death kept from being counted.                                          *)
(*                                                                         *)
(* The reviewer side (ReviewInv): the poll's own review is undecided and   *)
(* its launch has ended before the verdict is read; events go only after   *)
(* their row, or while the launch has outlived everyone who waited for it. *)
(*                                                                         *)
(* The reporting passes (ReportInv): what they store and set aside is      *)
(* accounted for whatever they had planned to send.                        *)
(***************************************************************************)
EXTENDS MCHost, TLAPS

USE HostAssumption DEF Implementer!Total

---------------------------------------------------------------------------
(* The implementer loop.                                                    *)

LaunchRecordRow == [pid : BOOLEAN, thisBoot : BOOLEAN, young : BOOLEAN,
                    released : BOOLEAN, failures : Nat, costed : BOOLEAN]

WatchRow == [drain : BOOLEAN, submitted : BOOLEAN,
             code : {None, "failed", "killed", "exit0", "exit1"}]

Places == {"off", "recover", "admit", "claim", "record", "spawn", "savepid", "watch",
           "cost", "markcost", "judge", "forgive", "release", "finish", "discard",
           "unrecord", "idle"}

Held == Tasks \cup {"total"}

LoopTypes ==
  /\ pc \in Places
  /\ cur \in Implementer!Launches \cup {None}
  /\ todo \in SUBSET Implementer!Launches
  /\ blocked \in BOOLEAN /\ stopping \in BOOLEAN
  /\ watch \in WatchRow
  /\ planned \in Nat /\ planned <= MaxLaunches
  /\ launch \in [Implementer!Launches -> Tasks \cup {None}]
  /\ files \in [Implementer!Launches -> {"none", "ready", "started", "terminal"}]
  /\ record \in [Implementer!Launches -> LaunchRecordRow \cup {None}]
  /\ proc \in [Implementer!Launches -> {"none", "live", "killed", "exit0", "exit1"}]
  /\ attempt \in [Implementer!Launches -> {"none", "active", "submitted", "ended"}]
  /\ rows \in [Implementer!Launches -> Nat]
  /\ strikes \in [Held -> Nat] /\ streak \in [Held -> Nat]
  /\ mem \in LaunchRecordRow \cup {None}
  /\ crashes \in Nat /\ callFailures \in Nat /\ writeFailures \in Nat
  /\ crashes + writeFailures <= MaxFaults
  /\ untracked \in SUBSET Implementer!Launches
  /\ unwritten \in SUBSET Implementer!Launches
  /\ recounted \in SUBSET Implementer!Launches

\* The loop is busy with a launch that it planned itself.
Mine == watch.code # None

\* A record names a launch by then, and the loop's own launch is the last it planned.
Busy ==
  /\ watch = Implementer!NoWatch \/ Mine
  /\ watch.submitted => watch.drain
  /\ pc \in {"off", "recover", "admit", "idle"} => ~Mine
  /\ pc \in {"claim", "record", "spawn", "savepid", "watch", "judge", "forgive", "finish"} => Mine
  /\ pc \notin {"off", "recover", "admit", "idle"} =>
       /\ cur \in Implementer!Launches /\ cur <= planned
       /\ Mine => cur = planned
  /\ pc \in {"claim", "record", "spawn", "savepid", "watch"} =>
       watch.code = "failed" /\ files[cur] # "none"
  /\ \A l \in Implementer!Launches : l <= planned => launch[l] \in Tasks

\* Nothing exists of a launch that is not planned yet.
Unplanned ==
  \A l \in Implementer!Launches : l > planned =>
    /\ record[l] = None /\ proc[l] = "none" /\ rows[l] = 0 /\ files[l] = "none"
    /\ l \notin untracked

\* The ledger has the launch, or its row could not be appended.
Told(l) == rows[l] >= 1 \/ l \in unwritten

\* What the loop has on disk and in memory of the launch it is busy with.  The memory
\* may be ahead of the disk, and the disk have nothing when the first record could not
\* be saved.
Recorded ==
  /\ pc \in {"claim", "record"} => record[cur] = None /\ proc[cur] = "none" /\ rows[cur] = 0
  /\ pc \in {"spawn", "savepid", "watch", "cost", "markcost", "judge", "release"} => mem # None
  /\ pc \in {"spawn", "savepid", "watch"} =>
       record[cur] # None /\ record[cur].thisBoot /\ ~record[cur].costed
  /\ pc \in {"spawn", "savepid", "watch", "cost", "markcost"} => ~mem.costed
  /\ pc \in {"spawn", "savepid", "watch"} => mem.thisBoot
  /\ pc = "spawn" => proc[cur] = "none"
  /\ pc \in {"savepid", "watch"} => proc[cur] # "none"
  /\ pc = "cost" => IF record[cur] = None THEN rows[cur] = 0 ELSE ~record[cur].costed
  /\ pc \in {"judge", "release"} => mem.costed
  /\ pc \in {"markcost", "judge", "forgive", "release"} => Told(cur)
  /\ pc \in {"finish", "discard", "unrecord"} => proc[cur] = "none" \/ Told(cur)

\* The ledger and the records: a launch is counted when its record says so or is gone,
\* unless its row could not be appended, and counted again only when a row was written
\* and not marked.
Ledger ==
  \A l \in Implementer!Launches :
    /\ record[l] # None /\ record[l].costed => Told(l)
    /\ record[l] = None /\ proc[l] # "none" => Told(l)
    /\ files[l] = "none" /\ proc[l] # "none" => Told(l)
    /\ rows[l] > 1 => l \in recounted
    /\ rows[l] <= crashes + writeFailures + 1
    /\ record[l] # None /\ ~record[l].costed /\ ~(pc = "markcost" /\ cur = l) =>
         rows[l] <= crashes + writeFailures /\ (rows[l] >= 1 => l \in recounted)

\* Launches that run and that a loop knows, or can find by their pid.
Tracked(l) == proc[l] = "live" /\ l \notin untracked

\* Such a launch has a record that recovery takes for alive; there is one at most, and
\* a loop goes on to another only when there is none.
Guarded ==
  /\ \A l \in Implementer!Launches : Tracked(l) =>
       /\ record[l] # None /\ record[l].thisBoot /\ files[l] # "none"
       /\ record[l].pid \/ (pc \in {"savepid", "watch"} /\ cur = l)
  /\ \A l, m \in Implementer!Launches : Tracked(l) /\ Tracked(m) => l = m
  /\ pc \in {"admit", "claim", "record", "spawn"} => \A l \in Implementer!Launches : ~Tracked(l)
  /\ pc \in {"savepid", "watch"} => \A l \in Implementer!Launches : Tracked(l) => l = cur
  /\ Mine /\ pc \notin {"claim", "record", "spawn", "savepid", "watch"} =>
       \A l \in Implementer!Launches : ~Tracked(l)
  /\ Mine /\ pc \notin {"savepid", "watch"} => proc[cur] # "live"

\* Recovery looks at every record, and does not settle a launch that runs.
Recovery ==
  /\ \A l \in todo : record[l] # None
  /\ Mine \/ pc = "admit" => todo = {}
  /\ ~Mine /\ pc \in {"recover", "cost", "markcost", "release", "discard", "unrecord"} =>
       \A l \in Implementer!Launches : Tracked(l) => l \in todo \/ blocked
  /\ ~Mine /\ pc \in {"cost", "markcost", "release", "discard", "unrecord"} =>
       cur \notin todo /\ ~Tracked(cur)

\* The loop's own launch has not been judged yet.
Unjudged ==
  Mine /\ pc \in {"claim", "record", "spawn", "savepid", "watch", "cost", "markcost", "judge"}

\* It exited empty, and no strike has been counted for that yet.
Pending ==
  /\ Unjudged /\ pc \in {"cost", "markcost", "judge"}
  /\ watch.code = "exit0" /\ ~watch.drain /\ attempt[cur] # "submitted"

\* Strikes stay below a limit that holds tasks, and lag behind the exits only by the
\* exits that a death or a failed write kept from being counted.
Strikes ==
  /\ \A x \in Held : strikes[x] <= planned /\ (Unjudged => strikes[x] < planned)
  /\ EmptyExitLimit > 0 => \A t \in Tasks :
       strikes[t] <= EmptyExitLimit /\ (Unjudged /\ t = launch[cur] => strikes[t] < EmptyExitLimit)
  /\ TotalLimit > 0 =>
       strikes["total"] <= TotalLimit /\ (Unjudged => strikes["total"] < TotalLimit)
  /\ \A x \in Held :
       streak[x] <= strikes[x] + crashes + writeFailures
                      + IF Pending /\ x \in {launch[cur], "total"} THEN 1 ELSE 0

LoopInv ==
  LoopTypes /\ Busy /\ Unplanned /\ Recorded /\ Ledger /\ Guarded /\ Recovery /\ Strikes

\* What a step leaves of the record of launch l: the fields the invariant reads.
Rewritten(l, costed, pid, thisBoot) ==
  /\ record' \in [Implementer!Launches -> LaunchRecordRow \cup {None}]
  /\ \A m \in Implementer!Launches \ {l} : record'[m] = record[m]
  /\ record'[l] # None
  /\ record'[l].costed = costed /\ record'[l].pid = pid /\ record'[l].thisBoot = thisBoot

LEMMA RecordFields ==
  ASSUME LoopTypes, NEW l \in Implementer!Launches, record[l] # None
  PROVE  /\ record[l] \in LaunchRecordRow
         /\ record[l].costed \in BOOLEAN /\ record[l].pid \in BOOLEAN
         /\ record[l].thisBoot \in BOOLEAN /\ record[l].failures \in Nat
  BY DEF LoopTypes, LaunchRecordRow

LEMMA Rewrites ==
  ASSUME LoopTypes, NEW l \in Implementer!Launches, NEW q \in LaunchRecordRow,
         record' = [record EXCEPT ![l] = q]
  PROVE  Rewritten(l, q.costed, q.pid, q.thisBoot)
  BY DEF LoopTypes, Rewritten, LaunchRecordRow

\* What a save of record q leaves: q, or the record as it was.
Saved(q) ==
  /\ record' \in [Implementer!Launches -> LaunchRecordRow \cup {None}]
  /\ \A m \in Implementer!Launches \ {cur} : record'[m] = record[m]
  /\ q # None /\ q \in LaunchRecordRow
  /\ \/ record'[cur] = q /\ writeFailures' = writeFailures
     \/ /\ record' = record /\ writeFailures' = writeFailures + 1
        /\ crashes + writeFailures < MaxFaults

LEMMA Saving ==
  ASSUME LoopTypes, cur \in Implementer!Launches, NEW q \in LaunchRecordRow,
         Implementer!Saves(q)
  PROVE  Saved(q)
  <1>1. q # None
    BY DEF LaunchRecordRow
  <1>2. CASE record' = [record EXCEPT ![cur] = q] /\ UNCHANGED writeFailures
    BY <1>1, <1>2 DEF LoopTypes, Saved
  <1>3. CASE Implementer!WriteFails /\ UNCHANGED record
    BY <1>1, <1>3 DEF LoopTypes, Saved, Implementer!WriteFails, Implementer!Faults
  <1> QED BY <1>2, <1>3 DEF Implementer!Saves

\* Updates of the record in memory keep its type and the fields they do not name.
LEMMA MemoryUpdates ==
  ASSUME LoopTypes, mem # None
  PROVE  /\ LET q == [mem EXCEPT !.pid = TRUE]
            IN q \in LaunchRecordRow /\ q.costed = mem.costed /\ q.pid /\ q.thisBoot = mem.thisBoot
         /\ LET q == [mem EXCEPT !.costed = TRUE]
            IN q \in LaunchRecordRow /\ q.costed
         /\ LET q == [mem EXCEPT !.released = TRUE]
            IN q \in LaunchRecordRow /\ q.costed = mem.costed
         /\ LET q == [mem EXCEPT !.failures = mem.failures + 1]
            IN q \in LaunchRecordRow /\ q.costed = mem.costed
  <1>1. mem \in LaunchRecordRow
    BY DEF LoopTypes
  <1>2. LET q == [mem EXCEPT !.pid = TRUE]
        IN q \in LaunchRecordRow /\ q.costed = mem.costed /\ q.pid /\ q.thisBoot = mem.thisBoot
    BY <1>1 DEF LaunchRecordRow
  <1>3. LET q == [mem EXCEPT !.costed = TRUE] IN q \in LaunchRecordRow /\ q.costed
    BY <1>1 DEF LaunchRecordRow
  <1>4. LET q == [mem EXCEPT !.released = TRUE] IN q \in LaunchRecordRow /\ q.costed = mem.costed
    BY <1>1 DEF LaunchRecordRow
  <1>5. LET q == [mem EXCEPT !.failures = mem.failures + 1]
        IN q \in LaunchRecordRow /\ q.costed = mem.costed
    BY <1>1 DEF LaunchRecordRow
  <1> QED BY <1>2, <1>3, <1>4, <1>5, Zenon

LEMMA PlannedLaunches ==
  ASSUME LoopTypes, Unplanned, NEW l \in Implementer!Launches,
         record[l] # None \/ proc[l] # "none"
  PROVE  l \in Nat /\ l <= planned
  BY DEF LoopTypes, Unplanned, Implementer!Launches


LEMMA StartLoopKeeps ==
  ASSUME LoopInv, Implementer!StartLoop
  PROVE  LoopInv'
  <1>0. /\ record' \in [Implementer!Launches -> LaunchRecordRow \cup {None}]
        /\ \A l \in Implementer!Launches :
             IF record[l] = None THEN record'[l] = None
             ELSE /\ record'[l] # None /\ record'[l].costed = record[l].costed
                  /\ record'[l].pid = record[l].pid /\ record'[l].thisBoot = record[l].thisBoot
        /\ writeFailures' \in Nat /\ writeFailures' >= writeFailures
        /\ crashes + writeFailures' <= MaxFaults
    <2>1. ASSUME NEW l \in Implementer!Launches, record[l] # None
          PROVE  LET q == [record[l] EXCEPT !.failures = 0]
                 IN /\ q \in LaunchRecordRow /\ q.costed = record[l].costed
                    /\ q.pid = record[l].pid /\ q.thisBoot = record[l].thisBoot
      BY <2>1, RecordFields DEF LoopInv, LaunchRecordRow
    <2>2. PICK stuck \in SUBSET Implementer!Launches : record' = Implementer!RetriesReset(stuck)
      <3>1. CASE record' = Implementer!RetriesReset({})
        BY <3>1
      <3>2. ASSUME NEW l \in Implementer!Records, record' = Implementer!RetriesReset({l})
            PROVE  \E stuck \in SUBSET Implementer!Launches : record' = Implementer!RetriesReset(stuck)
        <4>1. {l} \in SUBSET Implementer!Launches
          BY DEF Implementer!Records
        <4> QED BY <3>2, <4>1
      <3> QED BY <3>1, <3>2 DEF Implementer!StartLoop
    <2>3. /\ writeFailures' \in Nat /\ writeFailures' >= writeFailures
          /\ crashes + writeFailures' <= MaxFaults
      BY DEF LoopInv, LoopTypes, Implementer!StartLoop, Implementer!WriteFails, Implementer!Faults
    <2> QED BY <2>1, <2>2, <2>3, RecordFields DEF LoopInv, LoopTypes, Implementer!RetriesReset, LaunchRecordRow
  <1>1. LoopTypes' /\ Busy' /\ Unplanned' /\ Recorded'
    BY <1>0 DEF LoopInv, Implementer!StartLoop, Implementer!Swept,
      Implementer!Records, Implementer!history, LoopTypes, Places, WatchRow,
      LaunchRecordRow, Implementer!NoWatch, Held, Busy, Mine, Unplanned, Recorded
  <1>2. Ledger' /\ Guarded' /\ Recovery'
    BY SMTT(30), <1>0 DEF LoopInv, Implementer!StartLoop, Implementer!Swept,
      Implementer!Records, Implementer!history, LoopTypes, Busy, Recorded, Told, Ledger,
      LaunchRecordRow, Guarded, Recovery, Tracked, Mine, Implementer!NoWatch
  <1>3. Strikes'
    BY <1>0 DEF LoopInv, Implementer!StartLoop, Implementer!Swept,
      Implementer!Records, Implementer!history, LoopTypes, Busy, Guarded, Strikes, Unjudged,
      Pending, Mine, Held, Implementer!NoWatch, WatchRow
  <1> QED BY <1>1, <1>2, <1>3 DEF LoopInv

LEMMA SaveRecordKeeps ==
  ASSUME LoopInv, Implementer!SaveRecord
  PROVE  LoopInv'
  <1>0. cur \in Implementer!Launches
    BY DEF LoopInv, Busy, Recorded, Implementer!SaveRecord
  <1> DEFINE q == Implementer!NewRecord
  <1>1. q \in LaunchRecordRow /\ ~q.costed /\ q.thisBoot
    BY <1>0, MemoryUpdates DEF LoopInv, Implementer!NewRecord, LaunchRecordRow
  <1>2. Saved(q)
    BY <1>0, <1>1, Saving DEF LoopInv, Implementer!SaveRecord
  <1>3. /\ pc = "record" /\ mem' = q
        /\ pc' \in {"spawn", "cost"} /\ (pc' = "cost" <=> record' = record)
        /\ UNCHANGED <<cur, todo, blocked, watch, planned, launch>>
        /\ UNCHANGED <<files, rows, strikes, proc, attempt, stopping, crashes, callFailures>>
        /\ UNCHANGED <<untracked, unwritten, recounted, streak>>
    BY DEF Implementer!SaveRecord, Implementer!world, Implementer!history, Implementer!control
  <1> HIDE DEF q
  <1> USE <1>0, <1>1, <1>2, <1>3 DEF Saved
  <1>4. LoopTypes' /\ Busy' /\ Unplanned'
    <2>1. LoopTypes'
      BY DEF LoopInv, LoopTypes, Places
    <2>2. Busy'
      BY DEF LoopInv, LoopTypes, Busy, Mine, Implementer!NoWatch
    <2>3. Unplanned'
      BY PlannedLaunches DEF LoopInv, LoopTypes, Busy, Unplanned, Recorded, Implementer!Launches
    <2> QED BY <2>1, <2>2, <2>3
  <1>5. Recorded'
    BY DEF LoopInv, LoopTypes, Busy, Recorded, Told, Ledger, Mine
  <1>6. Ledger'
    BY DEF LoopInv, LoopTypes, Busy, Recorded, Told, Ledger
  <1>7. Guarded' /\ Recovery'
    BY DEF LoopInv, LoopTypes, Busy, Recorded, Guarded, Recovery, Tracked, Mine, Implementer!NoWatch
  <1>8. Strikes'
    BY DEF LoopInv, LoopTypes, Busy, Strikes, Unjudged, Pending, Mine, Held, Implementer!NoWatch
  <1> QED BY <1>4, <1>5, <1>6, <1>7, <1>8 DEF LoopInv

LEMMA SavePidKeeps ==
  ASSUME LoopInv, Implementer!SavePid
  PROVE  LoopInv'
  <1>0. cur \in Implementer!Launches /\ mem # None
    BY DEF LoopInv, Busy, Recorded, Implementer!SavePid
  <1> DEFINE q == [mem EXCEPT !.pid = TRUE]
  <1>1. q \in LaunchRecordRow /\ q.costed = mem.costed /\ q.pid /\ q.thisBoot = mem.thisBoot
    BY <1>0, MemoryUpdates DEF LoopInv, Implementer!NewRecord, LaunchRecordRow
  <1>2. Saved(q)
    BY <1>0, <1>1, Saving DEF LoopInv, Implementer!SavePid
  <1>3. /\ pc = "savepid" /\ pc' = "watch" /\ mem' = q
        /\ UNCHANGED <<cur, todo, blocked, watch, planned, launch>>
        /\ UNCHANGED <<files, rows, strikes, proc, attempt, stopping, crashes, callFailures>>
        /\ UNCHANGED <<untracked, unwritten, recounted, streak>>
    BY DEF Implementer!SavePid, Implementer!world, Implementer!history, Implementer!control
  <1> HIDE DEF q
  <1> USE <1>0, <1>1, <1>2, <1>3 DEF Saved
  <1>4. LoopTypes' /\ Busy' /\ Unplanned'
    <2>1. LoopTypes'
      BY DEF LoopInv, LoopTypes, Places
    <2>2. Busy'
      BY DEF LoopInv, LoopTypes, Busy, Mine, Implementer!NoWatch
    <2>3. Unplanned'
      BY PlannedLaunches DEF LoopInv, LoopTypes, Busy, Unplanned, Recorded, Implementer!Launches
    <2> QED BY <2>1, <2>2, <2>3
  <1>5. Recorded'
    BY DEF LoopInv, LoopTypes, Busy, Recorded, Told, Ledger, Mine
  <1>6. Ledger'
    BY DEF LoopInv, LoopTypes, Busy, Recorded, Told, Ledger
  <1>7. Guarded' /\ Recovery'
    BY DEF LoopInv, LoopTypes, Busy, Recorded, Guarded, Recovery, Tracked, Mine, Implementer!NoWatch
  <1>8. Strikes'
    BY DEF LoopInv, LoopTypes, Busy, Strikes, Unjudged, Pending, Mine, Held, Implementer!NoWatch
  <1> QED BY <1>4, <1>5, <1>6, <1>7, <1>8 DEF LoopInv

LEMMA MarkCostKeeps ==
  ASSUME LoopInv, Implementer!MarkCost
  PROVE  LoopInv'
  <1>0. cur \in Implementer!Launches /\ mem # None
    BY DEF LoopInv, Busy, Recorded, Implementer!MarkCost
  <1> DEFINE q == [mem EXCEPT !.costed = TRUE]
  <1>1. q \in LaunchRecordRow /\ q.costed
    BY <1>0, MemoryUpdates DEF LoopInv, Implementer!NewRecord, LaunchRecordRow
  <1>2. Saved(q)
    BY <1>0, <1>1, Saving DEF LoopInv, Implementer!MarkCost
  <1>3. /\ pc = "markcost" /\ pc' = (IF Implementer!Recovering THEN "release" ELSE "judge") /\ mem' = q
        /\ recounted' = recounted \cup IF writeFailures' = writeFailures THEN {} ELSE {cur}
        /\ UNCHANGED <<cur, todo, blocked, watch, planned, launch>>
        /\ UNCHANGED <<files, rows, strikes, proc, attempt, stopping, crashes, callFailures>>
        /\ UNCHANGED <<untracked, unwritten, streak>>
    BY DEF Implementer!MarkCost, Implementer!world, Implementer!history, Implementer!control
  <1> HIDE DEF q
  <1> USE <1>0, <1>1, <1>2, <1>3 DEF Saved, Implementer!Recovering
  <1>4. LoopTypes' /\ Busy' /\ Unplanned'
    <2>1. LoopTypes'
      BY DEF LoopInv, LoopTypes, Places
    <2>2. Busy'
      BY DEF LoopInv, LoopTypes, Busy, Mine, Implementer!NoWatch
    <2>3. Unplanned'
      BY PlannedLaunches DEF LoopInv, LoopTypes, Busy, Unplanned, Recorded, Implementer!Launches
    <2> QED BY <2>1, <2>2, <2>3
  <1>5. Recorded'
    BY DEF LoopInv, LoopTypes, Busy, Recorded, Told, Ledger, Mine
  <1>6. Ledger'
    BY DEF LoopInv, LoopTypes, Busy, Recorded, Told, Ledger
  <1>7. Guarded' /\ Recovery'
    BY DEF LoopInv, LoopTypes, Busy, Recorded, Guarded, Recovery, Tracked, Mine, Implementer!NoWatch
  <1>8. Strikes'
    BY DEF LoopInv, LoopTypes, Busy, Strikes, Unjudged, Pending, Mine, Held, Implementer!NoWatch
  <1> QED BY <1>4, <1>5, <1>6, <1>7, <1>8 DEF LoopInv

LEMMA SubmittedKeeps ==
  ASSUME LoopInv, Implementer!Submitted
  PROVE  LoopInv'
  <1>0. cur \in Implementer!Launches /\ mem # None
    BY DEF LoopInv, Busy, Recorded, Implementer!Submitted
  <1> DEFINE q == [mem EXCEPT !.released = TRUE]
  <1>1. q \in LaunchRecordRow /\ q.costed = mem.costed
    BY <1>0, MemoryUpdates DEF LoopInv, Implementer!NewRecord, LaunchRecordRow
  <1>2. Saved(q)
    BY <1>0, <1>1, Saving DEF LoopInv, Implementer!Submitted
  <1>3. /\ pc = "judge" /\ pc' = "forgive" /\ mem' = None
        /\ watch.submitted \/ attempt[cur] = "submitted"
        /\ UNCHANGED <<cur, todo, blocked, watch, planned, launch>>
        /\ UNCHANGED <<files, rows, strikes, proc, attempt, stopping, crashes, callFailures>>
        /\ UNCHANGED <<untracked, unwritten, recounted, streak>>
    BY DEF Implementer!Submitted, Implementer!world, Implementer!history, Implementer!control
  <1> HIDE DEF q
  <1> USE <1>0, <1>1, <1>2, <1>3 DEF Saved
  <1>4. LoopTypes' /\ Busy' /\ Unplanned'
    <2>1. LoopTypes'
      BY DEF LoopInv, LoopTypes, Places
    <2>2. Busy'
      BY DEF LoopInv, LoopTypes, Busy, Mine, Implementer!NoWatch
    <2>3. Unplanned'
      <3>1. \A l \in Implementer!Launches : l > planned => l # cur
        BY PlannedLaunches DEF LoopInv, LoopTypes, Busy, Implementer!Launches
      <3>2. \A l \in Implementer!Launches : l # cur => record'[l] = record[l]
        BY DEF LoopInv, LoopTypes
      <3> QED BY <3>1, <3>2 DEF LoopInv, Unplanned
    <2> QED BY <2>1, <2>2, <2>3
  <1>5. Recorded'
    BY DEF LoopInv, LoopTypes, Busy, Recorded, Told, Ledger, Mine
  <1>6. Ledger'
    BY DEF LoopInv, LoopTypes, Busy, Recorded, Told, Ledger
  <1>7. Guarded' /\ Recovery'
    BY DEF LoopInv, LoopTypes, Busy, Recorded, Guarded, Recovery, Tracked, Mine, Implementer!NoWatch
  <1>8. Strikes'
    BY DEF LoopInv, LoopTypes, Busy, Strikes, Unjudged, Pending, Mine, Held, Implementer!NoWatch
  <1> QED BY <1>4, <1>5, <1>6, <1>7, <1>8 DEF LoopInv

LEMMA NotSubmittedKeeps ==
  ASSUME LoopInv, Implementer!NotSubmitted
  PROVE  LoopInv'
  <1>0. /\ pc = "judge" /\ pc' = "release" /\ cur \in Implementer!Launches /\ mem # None
        /\ writeFailures' \in Nat /\ callFailures' \in Nat
        /\ writeFailures' >= writeFailures /\ crashes + writeFailures' <= MaxFaults
        /\ UNCHANGED <<cur, mem, files, record, rows, proc, attempt, stopping, crashes>>
        /\ UNCHANGED <<todo, blocked, watch, planned, launch>>
        /\ UNCHANGED <<untracked, unwritten, recounted, streak>>
    BY DEF LoopInv, LoopTypes, Busy, Recorded, Implementer!NotSubmitted, Implementer!WriteFails,
      Implementer!Faults, Implementer!history, Implementer!control
  <1>1. /\ strikes' \in [Held -> Nat]
        /\ \/ /\ strikes' = IF Implementer!EmptyExit THEN Implementer!Counted(strikes, launch[cur])
                            ELSE strikes
              /\ writeFailures' = writeFailures
           \/ strikes' = strikes /\ writeFailures' = writeFailures + 1
    BY DEF LoopInv, LoopTypes, Implementer!NotSubmitted, Implementer!WriteFails, Implementer!Counted, Held
  <1>2. LoopTypes' /\ Busy' /\ Unplanned' /\ Recorded'
    BY <1>0, <1>1 DEF LoopInv, LoopTypes, Places, WatchRow, Implementer!NoWatch, Held, Busy, Mine,
      Unplanned, Recorded, Told
  <1>3. Ledger' /\ Guarded' /\ Recovery'
    BY <1>0 DEF LoopInv, LoopTypes, Busy, Recorded, Told, Ledger, Guarded, Recovery, Tracked, Mine,
      Implementer!NoWatch
  <1>4. Strikes'
    BY <1>0, <1>1 DEF LoopInv, LoopTypes, Busy, Strikes, Unjudged, Pending, Mine, Held,
      Implementer!NoWatch, Implementer!EmptyExit, Implementer!Counted, WatchRow
  <1> QED BY <1>2, <1>3, <1>4 DEF LoopInv

LEMMA ReleaseKeeps ==
  ASSUME LoopInv, Implementer!Release
  PROVE  LoopInv'
  <1>0. cur \in Implementer!Launches /\ mem # None
    BY DEF LoopInv, Busy, Recorded, Implementer!Release
  <1> DEFINE q == [mem EXCEPT !.released = TRUE]
  <1>1. q \in LaunchRecordRow /\ q.costed = mem.costed
    BY <1>0, MemoryUpdates DEF LoopInv, Implementer!NewRecord, LaunchRecordRow
  <1>2. Saved(q)
    BY <1>0, <1>1, Saving DEF LoopInv, Implementer!Release
  <1>3. mem' = None
    BY DEF Implementer!Release
  <1> HIDE DEF q
  <1> USE <1>0, <1>1, <1>2, <1>3 DEF Implementer!Release, Saved,
      Implementer!DoneWithLaunch, Implementer!Afterwards, Implementer!Recovering,
      Implementer!Faults, Implementer!history, Implementer!control
  <1>4. LoopTypes' /\ Busy' /\ Unplanned'
    <2>1. LoopTypes'
      BY DEF LoopInv, LoopTypes, Places
    <2>2. Busy'
      BY DEF LoopInv, LoopTypes, Busy, Mine, Implementer!NoWatch
    <2>3. Unplanned'
      BY PlannedLaunches DEF LoopInv, LoopTypes, Busy, Unplanned, Recorded, Implementer!Launches
    <2> QED BY <2>1, <2>2, <2>3
  <1>5. Recorded'
    BY DEF LoopInv, LoopTypes, Busy, Recorded, Told, Ledger, Mine
  <1>6. Ledger'
    BY DEF LoopInv, LoopTypes, Busy, Recorded, Told, Ledger
  <1>7. Guarded' /\ Recovery'
    BY DEF LoopInv, LoopTypes, Busy, Recorded, Guarded, Recovery, Tracked, Mine, Implementer!NoWatch
  <1>8. Strikes'
    BY DEF LoopInv, LoopTypes, Busy, Strikes, Unjudged, Pending, Mine, Held, Implementer!NoWatch
  <1> QED BY <1>4, <1>5, <1>6, <1>7, <1>8 DEF LoopInv

LEMMA ReleaseFailsKeeps ==
  ASSUME LoopInv, Implementer!ReleaseFails
  PROVE  LoopInv'
  <1>0. cur \in Implementer!Launches /\ mem # None
    BY DEF LoopInv, Busy, Recorded, Implementer!ReleaseFails
  <1> DEFINE q == [mem EXCEPT !.failures = mem.failures + 1]
  <1>1. q \in LaunchRecordRow /\ q.costed = mem.costed
    BY <1>0, MemoryUpdates DEF LoopInv, Implementer!NewRecord, LaunchRecordRow
  <1>2. Saved(q)
    BY <1>0, <1>1, Saving DEF LoopInv, Implementer!ReleaseFails
  <1>3. mem' = None
    BY DEF Implementer!ReleaseFails
  <1> HIDE DEF q
  <1> USE <1>0, <1>1, <1>2, <1>3 DEF Implementer!ReleaseFails, Saved,
      Implementer!DoneWithLaunch, Implementer!Afterwards, Implementer!Recovering,
      Implementer!Faults, Implementer!history, Implementer!control
  <1>4. LoopTypes' /\ Busy' /\ Unplanned'
    <2>1. LoopTypes'
      BY DEF LoopInv, LoopTypes, Places
    <2>2. Busy'
      BY DEF LoopInv, LoopTypes, Busy, Mine, Implementer!NoWatch
    <2>3. Unplanned'
      BY PlannedLaunches DEF LoopInv, LoopTypes, Busy, Unplanned, Recorded, Implementer!Launches
    <2> QED BY <2>1, <2>2, <2>3
  <1>5. Recorded'
    BY DEF LoopInv, LoopTypes, Busy, Recorded, Told, Ledger, Mine
  <1>6. Ledger'
    BY DEF LoopInv, LoopTypes, Busy, Recorded, Told, Ledger
  <1>7. Guarded' /\ Recovery'
    BY DEF LoopInv, LoopTypes, Busy, Recorded, Guarded, Recovery, Tracked, Mine, Implementer!NoWatch
  <1>8. Strikes'
    BY DEF LoopInv, LoopTypes, Busy, Strikes, Unjudged, Pending, Mine, Held, Implementer!NoWatch
  <1> QED BY <1>4, <1>5, <1>6, <1>7, <1>8 DEF LoopInv

LEMMA PlanLaunchKeeps ==
  ASSUME LoopInv, NEW t \in Tasks, Implementer!PlanLaunch(t)
  PROVE  LoopInv'
  <1>0. /\ planned' = planned + 1 /\ planned' \in Nat /\ planned' \in Implementer!Launches
        /\ planned' <= MaxLaunches /\ planned' > planned
        /\ record[planned'] = None /\ proc[planned'] = "none" /\ rows[planned'] = 0
        /\ \A l \in Implementer!Launches : l \in Nat /\ (l <= planned' <=> l <= planned \/ l = planned')
        /\ watch' \in WatchRow /\ watch'.code = "failed" /\ ~watch'.submitted
    <2>1. planned' = planned + 1 /\ planned \in Nat /\ planned < MaxLaunches
      BY DEF LoopInv, LoopTypes, Implementer!PlanLaunch
    <2>2. planned' \in Nat /\ planned' \in Implementer!Launches /\ planned' <= MaxLaunches
          /\ planned' > planned
      BY <2>1 DEF Implementer!Launches
    <2>3. \A l \in Implementer!Launches : l \in Nat /\ (l <= planned' <=> l <= planned \/ l = planned')
      BY <2>1 DEF Implementer!Launches
    <2>4. record[planned'] = None /\ proc[planned'] = "none" /\ rows[planned'] = 0
      BY <2>2 DEF LoopInv, Unplanned
    <2>5. watch' \in WatchRow /\ watch'.code = "failed" /\ ~watch'.submitted
      BY DEF Implementer!PlanLaunch, WatchRow, Implementer!NoWatch
    <2> QED BY <2>1, <2>2, <2>3, <2>4, <2>5
  <1> QED BY <1>0 DEF LoopInv, Implementer!PlanLaunch, Implementer!TaskHeld,
      Implementer!TotalHeld, Implementer!world, Implementer!history, Implementer!kept, LoopTypes, Places,
      WatchRow, LaunchRecordRow, Implementer!NoWatch, Held, Busy, Mine, Unplanned, Recorded,
      Told, Ledger, Guarded, Recovery, Tracked, Strikes, Unjudged, Pending

LEMMA RenewRefusedKeeps ==
  ASSUME LoopInv, NEW read \in BOOLEAN, Implementer!RenewRefused(read)
  PROVE  LoopInv'
  <1>0. watch' \in WatchRow /\ watch'.code = watch.code /\ watch'.drain
    <2> DEFINE seen == read /\ attempt[cur] = "submitted"
    <2>1. seen \in BOOLEAN
      OBVIOUS
    <2>2. watch' = [watch EXCEPT !.drain = TRUE, !.submitted = seen]
      BY DEF Implementer!RenewRefused
    <2> HIDE DEF seen
    <2> QED BY <2>1, <2>2 DEF LoopInv, LoopTypes, WatchRow
  <1> QED BY <1>0 DEF LoopInv, Implementer!RenewRefused, Implementer!disk, Implementer!kept, Implementer!history, Implementer!kept,
      LoopTypes, Places, WatchRow, LaunchRecordRow, Implementer!NoWatch, Held, Busy, Mine,
      Unplanned, Recorded, Told, Ledger, Guarded, Recovery, Tracked, Strikes, Unjudged, Pending

LEMMA GracePassesKeeps ==
  ASSUME LoopInv, NEW l \in Implementer!Launches, Implementer!GracePasses(l)
  PROVE  LoopInv'
  <1>0. Rewritten(l, record[l].costed, record[l].pid, record[l].thisBoot)
    <2>1. record[l] # None
      BY DEF Implementer!GracePasses
    <2> DEFINE q == [record[l] EXCEPT !.young = FALSE]
    <2>2. q \in LaunchRecordRow /\ q.costed = record[l].costed /\ q.pid = record[l].pid /\ q.thisBoot = record[l].thisBoot
      BY <2>1, RecordFields DEF LoopInv, LaunchRecordRow
    <2>3. record' = [record EXCEPT ![l] = q]
      BY <2>1 DEF LoopInv, LoopTypes, Implementer!GracePasses
    <2> HIDE DEF q
    <2> QED BY <2>1, <2>2, <2>3, Rewrites DEF LoopInv
  <1> QED BY <1>0 DEF LoopInv, Implementer!GracePasses, Implementer!world, Implementer!history, Implementer!kept,
      Implementer!loop, Rewritten, LoopTypes, Places, WatchRow, LaunchRecordRow,
      Implementer!NoWatch, Held, Busy, Mine, Unplanned, Recorded, Told, Ledger, Guarded, Recovery,
      Tracked, Strikes, Unjudged, Pending

LEMMA CrashKeeps ==
  ASSUME LoopInv, Implementer!Crash
  PROVE  LoopInv'
  <1>00. /\ watch' \in WatchRow /\ crashes' \in Nat /\ crashes' + writeFailures <= MaxFaults
         /\ untracked' \in SUBSET Implementer!Launches /\ recounted' \in SUBSET Implementer!Launches
    <2>1. watch' \in WatchRow
      BY DEF Implementer!Crash, Implementer!Down, Implementer!LiveLaunches, WatchRow, Implementer!NoWatch
    <2>2. crashes' \in Nat /\ crashes' + writeFailures <= MaxFaults
      BY DEF Implementer!Crash, Implementer!Faults, LoopInv, LoopTypes
    <2>3. pc \in {"savepid", "markcost"} => cur \in Implementer!Launches
      BY DEF LoopInv, Busy
    <2> QED BY <2>1, <2>2, <2>3 DEF Implementer!Crash, Implementer!Down, Implementer!LiveLaunches, LoopInv, LoopTypes
  <1>1. LoopTypes'
    BY <1>00 DEF LoopInv, Implementer!Crash, Implementer!Down, Implementer!LiveLaunches, Implementer!disk, Implementer!kept, LoopTypes,
      Places, WatchRow, LaunchRecordRow, Implementer!NoWatch, Held, Busy
  <1>2. Busy' /\ Unplanned' /\ Recorded'
    BY <1>00 DEF LoopInv, Implementer!Crash, Implementer!Down, Implementer!LiveLaunches, Implementer!disk, Implementer!kept, LoopTypes,
      Busy, Mine, Implementer!NoWatch, WatchRow, Unplanned, Recorded, LaunchRecordRow
  <1>3. Ledger' /\ Guarded' /\ Recovery'
    BY <1>00 DEF LoopInv, Implementer!Crash, Implementer!Down, Implementer!LiveLaunches, Implementer!disk, Implementer!kept, LoopTypes,
      Busy, Recorded, Told, Ledger, LaunchRecordRow, Guarded, Recovery, Tracked, Mine,
      Implementer!NoWatch
  <1>4. Strikes'
    BY <1>00 DEF LoopInv, Implementer!Crash, Implementer!Down, Implementer!LiveLaunches, Implementer!disk, Implementer!kept, LoopTypes,
      Busy, Guarded, Strikes, Unjudged, Pending, Mine, Held, Implementer!NoWatch, WatchRow
  <1> QED BY <1>1, <1>2, <1>3, <1>4 DEF LoopInv

LEMMA RebootKeeps ==
  ASSUME LoopInv, Implementer!Reboot
  PROVE  LoopInv'
  <1>00. /\ watch' \in WatchRow /\ crashes' \in Nat /\ crashes' + writeFailures <= MaxFaults
         /\ untracked' \in SUBSET Implementer!Launches /\ recounted' \in SUBSET Implementer!Launches
    <2>1. watch' \in WatchRow
      BY DEF Implementer!Reboot, Implementer!Down, WatchRow, Implementer!NoWatch
    <2>2. crashes' \in Nat /\ crashes' + writeFailures <= MaxFaults
      BY DEF Implementer!Reboot, Implementer!Faults, LoopInv, LoopTypes
    <2>3. pc \in {"savepid", "markcost"} => cur \in Implementer!Launches
      BY DEF LoopInv, Busy
    <2> QED BY <2>1, <2>2, <2>3 DEF Implementer!Reboot, Implementer!Down, LoopInv, LoopTypes
  <1>0. /\ record' \in [Implementer!Launches -> LaunchRecordRow \cup {None}]
        /\ \A l \in Implementer!Launches :
             IF record[l] = None THEN record'[l] = None
             ELSE /\ record'[l] # None /\ record'[l].costed = record[l].costed
                  /\ record'[l].pid = record[l].pid
    <2>1. ASSUME NEW l \in Implementer!Launches, record[l] # None
          PROVE  LET q == [record[l] EXCEPT !.thisBoot = FALSE]
                 IN q \in LaunchRecordRow /\ q.costed = record[l].costed /\ q.pid = record[l].pid
      BY <2>1, RecordFields DEF LoopInv, LaunchRecordRow
    <2> QED BY <2>1, RecordFields DEF LoopInv, Implementer!Reboot, LaunchRecordRow
  <1>1. LoopTypes'
    BY <1>00, <1>0 DEF LoopInv, Implementer!Reboot, Implementer!Down, LoopTypes, Places,
      WatchRow, LaunchRecordRow, Implementer!NoWatch, Held, Busy
  <1>2. Busy' /\ Unplanned' /\ Recorded'
    BY <1>00, <1>0 DEF LoopInv, Implementer!Reboot, Implementer!Down, LoopTypes, Busy, Mine,
      Implementer!NoWatch, WatchRow, Unplanned, Recorded, LaunchRecordRow
  <1>3. Ledger' /\ Guarded' /\ Recovery'
    BY <1>00, <1>0 DEF LoopInv, Implementer!Reboot, Implementer!Down, LoopTypes, Busy,
      Recorded, Told, Ledger, LaunchRecordRow, Guarded, Recovery, Tracked, Mine,
      Implementer!NoWatch
  <1>4. Strikes'
    BY <1>00, <1>0 DEF LoopInv, Implementer!Reboot, Implementer!Down, LoopTypes, Busy,
      Guarded, Strikes, Unjudged, Pending, Mine, Held, Implementer!NoWatch, WatchRow
  <1> QED BY <1>1, <1>2, <1>3, <1>4 DEF LoopInv

LEMMA LoopKeeps ==
  ASSUME LoopInv, Implementer!Next
  PROVE  LoopInv'
  <1> USE PlannedLaunches, RecordFields
          DEF LoopInv, LoopTypes, Busy, Unplanned, Recorded, Told, Ledger, Guarded, Recovery, Strikes,
              LaunchRecordRow, WatchRow, Places, Held, Mine, Tracked, Unjudged, Pending,
              Implementer!NoWatch
  <1>1. ASSUME Implementer!Recovered PROVE LoopInv'
    BY <1>1 DEF Implementer!Recovered, Implementer!disk, Implementer!kept, Implementer!world,
      Implementer!history, Implementer!control
  <1>2. ASSUME Implementer!NothingToLaunch PROVE LoopInv'
    BY <1>2 DEF Implementer!NothingToLaunch, Implementer!disk, Implementer!kept, Implementer!world,
      Implementer!history, Implementer!control
  <1>3. ASSUME Implementer!ClaimFails PROVE LoopInv'
    BY <1>3 DEF Implementer!ClaimFails, Implementer!disk, Implementer!kept, Implementer!history, Implementer!kept,
      Implementer!control
  <1>4. ASSUME Implementer!Claim PROVE LoopInv'
    BY <1>4 DEF Implementer!Claim, Implementer!disk, Implementer!kept, Implementer!history, Implementer!kept,
      Implementer!control
  <1>5. ASSUME Implementer!PrepareFails PROVE LoopInv'
    BY <1>5 DEF Implementer!PrepareFails, Implementer!disk, Implementer!kept, Implementer!world,
      Implementer!history, Implementer!control
  <1>6. ASSUME Implementer!Spawn PROVE LoopInv'
    BY <1>6 DEF Implementer!Spawn, Implementer!disk, Implementer!kept, Implementer!history, Implementer!kept,
      Implementer!control
  <1>7. ASSUME Implementer!Drain PROVE LoopInv'
    <2>0. /\ pc = "watch" /\ watch' \in WatchRow /\ watch'.code = watch.code /\ watch'.drain
          /\ UNCHANGED <<pc, cur, todo, blocked, planned, launch, files, record, rows, strikes>>
          /\ UNCHANGED <<proc, attempt, stopping, crashes, callFailures, mem, writeFailures>>
          /\ UNCHANGED <<untracked, unwritten, recounted, streak>>
      BY <1>7 DEF Implementer!Drain, Implementer!disk, Implementer!kept, Implementer!world,
        Implementer!history
    <2>1. LoopTypes'
      BY <2>0
    <2>2. Busy' /\ Unplanned'
      BY <2>0
    <2>3. Recorded' /\ Ledger'
      BY <2>0
    <2>4. Guarded' /\ Recovery'
      BY <2>0
    <2>5. Strikes'
      BY <2>0
    <2> QED BY <2>1, <2>2, <2>3, <2>4, <2>5
  <1>8. ASSUME Implementer!Kill PROVE LoopInv'
    BY <1>8 DEF Implementer!Kill, Implementer!disk, Implementer!kept, Implementer!history, Implementer!kept, Implementer!control
  <1>9. ASSUME Implementer!SeeExit PROVE LoopInv'
    <2>0. /\ pc = "watch" /\ pc' = "cost" /\ proc[cur] # "live" /\ watch' \in WatchRow
          /\ watch'.code = proc[cur] /\ watch'.drain = watch.drain /\ watch'.submitted = watch.submitted
          /\ streak' = IF proc[cur] = "exit0" /\ ~watch.drain /\ attempt[cur] # "submitted"
                         THEN Implementer!Counted(streak, launch[cur]) ELSE streak
          /\ UNCHANGED <<cur, todo, blocked, planned, launch, files, record, rows, strikes>>
          /\ UNCHANGED <<proc, attempt, stopping, crashes, callFailures, mem, writeFailures>>
          /\ UNCHANGED <<untracked, unwritten, recounted>>
      BY <1>9 DEF Implementer!SeeExit, Implementer!disk,
        Implementer!kept, Implementer!world
    <2>1. LoopTypes'
      BY <2>0 DEF Implementer!Counted
    <2>2. Busy' /\ Unplanned'
      BY <2>0
    <2>3. Recorded' /\ Ledger'
      BY <2>0
    <2>4. Guarded' /\ Recovery'
      BY <2>0
    <2>5. Strikes'
      BY <2>0 DEF Implementer!Counted
    <2> QED BY <2>1, <2>2, <2>3, <2>4, <2>5
  <1>10. ASSUME Implementer!SettleCost PROVE LoopInv'
    <2>0. /\ pc = "cost" /\ pc' = "markcost"
          /\ \/ rows' = [rows EXCEPT ![cur] = @ + 1] /\ UNCHANGED <<writeFailures, unwritten>>
             \/ /\ unwritten' = unwritten \cup {cur} /\ UNCHANGED rows
                /\ writeFailures' = writeFailures + 1 /\ crashes + writeFailures < MaxFaults
          /\ UNCHANGED <<cur, todo, blocked, planned, launch, watch, files, record, strikes>>
          /\ UNCHANGED <<proc, attempt, stopping, crashes, callFailures, mem>>
          /\ UNCHANGED <<untracked, recounted, streak>>
      BY <1>10 DEF Implementer!SettleCost, Implementer!WriteFails, Implementer!Faults,
        Implementer!world, Implementer!control
    <2>1. LoopTypes'
      BY <2>0
    <2>2. Busy' /\ Unplanned'
      <3>1. /\ cur \in Implementer!Launches /\ cur <= planned /\ planned \in Nat
            /\ rows \in [Implementer!Launches -> Nat]
        BY <2>0
      <3>2. \A l \in Implementer!Launches : l > planned => l # cur
        BY <3>1 DEF Implementer!Launches
      <3>3. \A l \in Implementer!Launches : l # cur => rows'[l] = rows[l]
        BY <2>0, <3>1
      <3> QED BY <2>0, <3>1, <3>2, <3>3
    <2>3. Recorded' /\ Ledger'
      BY <2>0
    <2>4. Guarded' /\ Recovery'
      BY <2>0
    <2>5. Strikes'
      BY <2>0
    <2> QED BY <2>1, <2>2, <2>3, <2>4, <2>5
  <1>11. ASSUME Implementer!Forgive PROVE LoopInv'
    BY SMTT(30), <1>11 DEF Implementer!Forgive, Implementer!Cleared, Implementer!WriteFails,
      Implementer!Faults, Implementer!world,
      Implementer!control
  <1>12. ASSUME Implementer!Finish PROVE LoopInv'
    <2>0. /\ pc = "finish"
          /\ \/ pc' = "idle" /\ cur' = None /\ watch' = Implementer!NoWatch
             \/ pc' = "discard" /\ UNCHANGED <<cur, watch>>
          /\ UNCHANGED <<todo, blocked, planned, launch, files, record, rows, strikes>>
          /\ UNCHANGED <<proc, attempt, stopping, crashes, callFailures, mem, writeFailures>>
          /\ UNCHANGED <<untracked, unwritten, recounted, streak>>
      BY <1>12 DEF Implementer!Finish, Implementer!DoneWithLaunch, Implementer!Recovering,
        Implementer!disk, Implementer!kept, Implementer!world, Implementer!history
    <2>1. LoopTypes'
      <3>1. CASE pc' = "idle" /\ cur' = None /\ watch' = Implementer!NoWatch
        BY <2>0, <3>1
      <3>2. CASE pc' = "discard" /\ UNCHANGED <<cur, watch>>
        BY <2>0, <3>2
      <3> QED BY <2>0, <3>1, <3>2
    <2>2. Busy' /\ Unplanned'
      BY <2>0
    <2>3. Recorded' /\ Ledger'
      BY <2>0
    <2>4. Guarded' /\ Recovery'
      BY <2>0
    <2>5. Strikes'
      BY <2>0
    <2> QED BY <2>1, <2>2, <2>3, <2>4, <2>5
  <1>13. ASSUME Implementer!Discard PROVE LoopInv'
    BY <1>13 DEF Implementer!Discard, Implementer!world, Implementer!history, Implementer!kept,
      Implementer!control
  <1>14. ASSUME Implementer!RemoveRecord PROVE LoopInv'
    <2>0. /\ pc = "unrecord" /\ pc' \in {"recover", "idle"} /\ cur' = None
          /\ pc' = "recover" <=> watch = Implementer!NoWatch
          /\ watch' = Implementer!NoWatch
          /\ \/ record' = [record EXCEPT ![cur] = None] /\ UNCHANGED writeFailures
             \/ /\ writeFailures' = writeFailures + 1 /\ crashes + writeFailures < MaxFaults
                /\ UNCHANGED record
          /\ UNCHANGED <<todo, blocked, planned, launch, files, rows, strikes>>
          /\ UNCHANGED <<proc, attempt, stopping, crashes, callFailures, mem>>
          /\ UNCHANGED <<untracked, unwritten, recounted, streak>>
      BY <1>14 DEF Implementer!RemoveRecord, Implementer!DoneWithLaunch, Implementer!Recovering,
        Implementer!WriteFails, Implementer!Faults, Implementer!world, Implementer!history
    <2>1. LoopTypes'
      BY <2>0
    <2>2. Busy' /\ Unplanned'
      BY <2>0
    <2>3. Recorded' /\ Ledger'
      BY <2>0
    <2>4. Guarded' /\ Recovery'
      <3>1. /\ \A l \in Implementer!Launches : Tracked(l)' <=> Tracked(l)
            /\ ~Tracked(cur)
        BY <2>0
      <3>2. \A l \in Implementer!Launches : Tracked(l) => record'[l] = record[l]
        BY <2>0, <3>1
      <3>3. Guarded'
        BY <2>0, <3>1, <3>2
      <3>4. Recovery'
        BY <2>0, <3>1, <3>2
      <3> QED BY <3>3, <3>4
    <2>5. Strikes'
      BY <2>0
    <2> QED BY <2>1, <2>2, <2>3, <2>4, <2>5
  <1>15. ASSUME Implementer!NextPoll PROVE LoopInv'
    <2>0. /\ pc = "idle" /\ pc' \in {"off", "recover"} /\ blocked' = FALSE
          /\ todo' \in SUBSET Implementer!Launches
          /\ \A l \in Implementer!Launches : l \in todo' <=> record[l] # None
          /\ UNCHANGED <<cur, watch, planned, launch, files, record, rows, strikes>>
          /\ UNCHANGED <<proc, attempt, stopping, crashes, callFailures, mem, writeFailures>>
          /\ UNCHANGED <<untracked, unwritten, recounted, streak>>
      BY <1>15 DEF Implementer!NextPoll, Implementer!Records, Implementer!kept, Implementer!disk,
        Implementer!world, Implementer!history
    <2>1. LoopTypes'
      <3>1. /\ pc' \in Places /\ blocked' \in BOOLEAN
            /\ todo' \in SUBSET Implementer!Launches
        BY <2>0
      <3>2. /\ cur' \in Implementer!Launches \cup {None} /\ watch' \in WatchRow
            /\ planned' \in Nat /\ planned' <= MaxLaunches
            /\ mem' \in LaunchRecordRow \cup {None}
        BY <2>0
      <3> QED BY <2>0, <3>1, <3>2
    <2>2. Busy' /\ Unplanned'
      BY <2>0
    <2>3. Recorded' /\ Ledger'
      BY <2>0
    <2>4. Guarded' /\ Recovery'
      BY <2>0
    <2>5. Strikes'
      BY <2>0
    <2> QED BY <2>1, <2>2, <2>3, <2>4, <2>5
  <1>16. ASSUME NEW l \in Implementer!Launches, Implementer!RecoverSkips(l) PROVE LoopInv'
    BY <1>16 DEF Implementer!RecoverSkips, Implementer!MayBeAlive, Implementer!disk, Implementer!kept,
      Implementer!world, Implementer!history, Implementer!kept
  <1>17. ASSUME NEW l \in Implementer!Launches, Implementer!RecoverSettles(l) PROVE LoopInv'
    BY <1>17 DEF Implementer!RecoverSettles, Implementer!MayBeAlive, Implementer!disk, Implementer!kept,
      Implementer!world, Implementer!history, Implementer!kept
  <1>18. ASSUME NEW l \in Implementer!Launches, Implementer!HarnessStarts(l) PROVE LoopInv'
    BY <1>18 DEF Implementer!HarnessStarts, Implementer!world, Implementer!history, Implementer!kept,
      Implementer!loop
  <1>19. ASSUME NEW l \in Implementer!Launches, Implementer!AgentSubmits(l) PROVE LoopInv'
    BY <1>19 DEF Implementer!AgentSubmits, Implementer!disk, Implementer!kept, Implementer!history, Implementer!kept,
      Implementer!loop
  <1>20. ASSUME NEW l \in Implementer!Launches, Implementer!AttemptEnds(l) PROVE LoopInv'
    BY <1>20 DEF Implementer!AttemptEnds, Implementer!disk, Implementer!kept, Implementer!history, Implementer!kept,
      Implementer!loop
  <1>21. ASSUME NEW l \in Implementer!Launches, NEW code \in Implementer!Exits, Implementer!LaunchExits(l, code) PROVE LoopInv'
    BY <1>21 DEF Implementer!LaunchExits, Implementer!Exits, Implementer!history,
      Implementer!loop
  <1>23. ASSUME Implementer!ReleasedBefore PROVE LoopInv'
    BY <1>23 DEF Implementer!ReleasedBefore, Implementer!Afterwards, Implementer!Recovering,
      Implementer!disk, Implementer!kept, Implementer!world, Implementer!history, Implementer!control
  <1>24. ASSUME Implementer!DiscardFails PROVE LoopInv'
    BY <1>24 DEF Implementer!DiscardFails, Implementer!DoneWithLaunch, Implementer!Recovering,
      Implementer!WriteFails, Implementer!Faults, Implementer!world, Implementer!history
  <1>22. ASSUME Implementer!RequestStop PROVE LoopInv'
    BY <1>22 DEF Implementer!RequestStop, Implementer!disk, Implementer!kept, Implementer!history, Implementer!kept,
      Implementer!loop
  <1> HIDE PlannedLaunches, RecordFields DEF LoopInv
  <1> QED BY <1>1, <1>2, <1>3, <1>4, <1>5, <1>6, <1>7, <1>8, <1>9, <1>10, <1>11, <1>12, <1>13,
      <1>14, <1>15, <1>16, <1>17, <1>18, <1>19, <1>20, <1>21, <1>22, <1>23, <1>24, StartLoopKeeps,
      SaveRecordKeeps, SavePidKeeps, MarkCostKeeps, SubmittedKeeps, NotSubmittedKeeps,
      ReleaseKeeps, ReleaseFailsKeeps, PlanLaunchKeeps, RenewRefusedKeeps, GracePassesKeeps,
      CrashKeeps, RebootKeeps DEF Implementer!Next, Implementer!LoopStep,
      Implementer!Surroundings

LEMMA LoopStarts == Implementer!Init => LoopInv
  <1> SUFFICES ASSUME Implementer!Init PROVE LoopInv
    OBVIOUS
  <1>1. watch \in WatchRow /\ ~Mine /\ ~watch.submitted
    BY DEF Implementer!Init, WatchRow, Mine, Implementer!NoWatch
  <1>2. LoopTypes
    <2>1. pc \in Places /\ planned <= MaxLaunches /\ crashes + writeFailures <= MaxFaults
      BY DEF Implementer!Init, Places
    <2>2. record \in [Implementer!Launches -> LaunchRecordRow \cup {None}]
      BY DEF Implementer!Init
    <2> QED BY <1>1, <2>1, <2>2 DEF Implementer!Init, LoopTypes, Held
  <1>3. \A l \in Implementer!Launches : l \in Nat /\ l > 0
    BY DEF Implementer!Launches
  <1>4. Busy /\ Unplanned /\ Recorded /\ Ledger
    BY <1>1, <1>2, <1>3 DEF Implementer!Init, LoopTypes, Busy, Unplanned, Recorded, Told, Ledger
  <1>5. Guarded /\ Recovery
    BY <1>1 DEF Implementer!Init, Guarded, Recovery, Tracked
  <1>6. Strikes
    BY <1>1, <1>2 DEF Implementer!Init, Strikes, Held, Unjudged, Pending, LoopTypes
  <1> QED BY <1>2, <1>4, <1>5, <1>6 DEF LoopInv

\* The invariant gives what the properties of the loop say.
LEMMA LoopTells ==
  ASSUME LoopInv
  PROVE  /\ Implementer!TypeOK /\ Implementer!LiveIsGuarded /\ Implementer!EmptyExitsBounded
         /\ Implementer!CostKept
  <1>1. Implementer!TypeOK
    <2>1. \A l \in Implementer!Launches : rows[l] \in 0 .. (MaxFaults + 1)
      BY DEF LoopInv, LoopTypes, Ledger
    <2>2. \A x \in Held : strikes[x] \in 0 .. MaxLaunches
      BY DEF LoopInv, LoopTypes, Strikes
    <2> QED BY <2>1, <2>2 DEF Implementer!TypeOK, LoopInv, LoopTypes, Places, Held, Implementer!Exits
  <1>2. Implementer!LiveIsGuarded
    BY DEF LoopInv, Guarded, Tracked, Implementer!LiveIsGuarded, Implementer!LiveLaunches
  <1>3. Implementer!EmptyExitsBounded
    <2>1. ASSUME EmptyExitLimit > 0, NEW t \in Tasks PROVE streak[t] <= EmptyExitLimit + crashes + writeFailures
      BY <2>1 DEF LoopInv, LoopTypes, Strikes, Pending, Held
    <2>2. ASSUME TotalLimit > 0 PROVE streak["total"] <= TotalLimit + crashes + writeFailures
      BY <2>2 DEF LoopInv, LoopTypes, Strikes, Pending, Held
    <2> QED BY <2>1, <2>2 DEF Implementer!EmptyExitsBounded
  <1>4. Implementer!CostKept
    BY DEF LoopInv, Ledger, Told, Implementer!CostKept
  <1> QED BY <1>1, <1>2, <1>3, <1>4

\* The invariant of the loop in every behaviour of the host.
LEMMA LoopInvariant == Spec => []LoopInv
  <1>1. Init => LoopInv
    BY LoopStarts DEF Init
  <1>2. LoopInv /\ [Next]_all => LoopInv'
    <2> SUFFICES ASSUME LoopInv, [Next]_all PROVE LoopInv'
      OBVIOUS
    <2>1. ASSUME Implementer!Next PROVE LoopInv'
      BY <2>1, LoopKeeps
    <2>2. ASSUME UNCHANGED loopVars PROVE LoopInv'
      BY <2>2 DEF loopVars, LoopInv, LoopTypes, Busy, Unplanned, Recorded, Told, Ledger, Guarded, Recovery,
         Strikes, Mine, Tracked, Unjudged, Pending
    <2> QED BY <2>1, <2>2 DEF Next, all
  <1> QED BY <1>1, <1>2, PTL DEF Spec

\* While a launch runs, its files and its record stay and the host runs no other, and a
\* task that keeps exiting empty is launched no more than a limit allows (record.rs,
\* unsubmitted.rs).
THEOREM LaunchesAreSound == Spec => []LaunchesSound
  <1>1. LoopInv => LaunchesSound
    BY LoopTells DEF LaunchesSound
  <1> QED BY <1>1, LoopInvariant, PTL

---------------------------------------------------------------------------
(* The reviewer side.                                                       *)

ReviewRow == [submission : Submissions \cup {Nothing},
              state : {"none", "held", "decided", "released", "lapsed"}]

EntryRow == [sameBoot : BOOLEAN, recent : BOOLEAN]

ReviewPlaces == {"down", "settle", "next", "polled", "record", "launch", "wait",
                 "cost", "remove", "unrecord", "judge", "release"}

ReviewTypes ==
  /\ at \in ReviewPlaces
  /\ now \in ReviewSide!Reviews \cup {Nothing}
  /\ own \in BOOLEAN /\ left \in SUBSET ReviewSide!Reviews
  /\ taken \in Nat /\ taken <= MaxReviews
  /\ review \in [ReviewSide!Reviews -> ReviewRow]
  /\ entry \in [ReviewSide!Reviews -> EntryRow \cup {Nothing}]
  /\ run \in [ReviewSide!Reviews -> {"none", "empty", "events"}]
  /\ reviewer \in [ReviewSide!Reviews -> {"none", "live", "dead"}]
  /\ verdict \in [ReviewSide!Reviews -> {"none", "approve", "bare", "changes"}]
  /\ ledger \in [ReviewSide!Reviews -> Nat]
  /\ failed \in [Submissions -> Nat] /\ inARow = failed
  /\ outlived \in SUBSET ReviewSide!Reviews

\* The poll is busy with a review that it claimed itself.
OwnReview ==
  at \in {"record", "launch", "wait", "judge", "release"}
    \/ (at \in {"cost", "remove", "unrecord"} /\ own)

\* The poll's own review is not decided, and its submission may be claimed once more.
Reviewing ==
  /\ at \in {"record", "launch", "wait", "cost", "remove", "unrecord", "judge", "release"} =>
       now \in ReviewSide!Reviews
  /\ at \in {"record", "launch", "wait", "judge", "release"} => own
  /\ at \in {"settle", "next"} => ~own
  /\ OwnReview =>
       /\ now <= taken
       /\ review[now].submission \in Submissions
       /\ review[now].state \in {"held", "lapsed"}
       /\ failed[review[now].submission] < ReviewAttempts
  /\ OwnReview /\ at # "wait" => reviewer[now] # "live"
  /\ at \in {"record", "launch"} => reviewer[now] = "none" /\ verdict[now] = "none"

\* Every failed verdict took a review and had an attempt left.
FailuresCounted ==
  \A s \in Submissions :
    /\ failed[s] <= taken /\ failed[s] <= ReviewAttempts
    /\ OwnReview => failed[s] < taken

Untaken ==
  \A r \in ReviewSide!Reviews : r > taken => reviewer[r] = "none" /\ verdict[r] = "none"

\* A decided review's launch has ended with its verdict.
DecidedEnded ==
  \A r \in ReviewSide!Reviews : review[r].state = "decided" =>
    reviewer[r] # "live" /\ verdict[r] \in {"approve", "changes"}

\* A launch leaves a verdict in its events, which go only once they are in the ledger,
\* or while it runs on past the time that anyone waits for it.
ReviewsAccounted ==
  /\ \A r \in ReviewSide!Reviews :
       /\ ledger[r] <= 1
       /\ verdict[r] # "none" => run[r] # "empty"
       /\ run[r] = "none" /\ reviewer[r] = "live" => r \in outlived
       /\ run[r] = "none" /\ verdict[r] # "none" /\ r \notin outlived => ledger[r] = 1
  /\ at \in {"cost", "remove", "unrecord"} /\ reviewer[now] = "live" => now \in outlived
  /\ at = "remove" /\ verdict[now] # "none" /\ now \notin outlived => ledger[now] = 1

ReviewInv ==
  /\ ReviewTypes /\ Reviewing /\ FailuresCounted /\ Untaken /\ DecidedEnded
  /\ ReviewsAccounted

\* Steps that rewrite the records of launches.
LEMMA ReviewAges ==
  ASSUME ReviewInv, NEW r \in ReviewSide!Reviews, ReviewSide!RecordAges(r)
  PROVE  ReviewInv'
  <1>1. entry[r] \in EntryRow
    BY DEF ReviewInv, ReviewTypes, ReviewSide!RecordAges
  <1>2. [entry[r] EXCEPT !.recent = FALSE] \in EntryRow
    BY <1>1 DEF EntryRow
  <1>3. entry' \in [ReviewSide!Reviews -> EntryRow \cup {Nothing}]
    BY <1>2 DEF ReviewInv, ReviewTypes, ReviewSide!RecordAges
  <1> QED BY <1>3 DEF ReviewSide!RecordAges, ReviewSide!launchState, ReviewSide!counts,
       ReviewInv, ReviewTypes, Reviewing, FailuresCounted, Untaken, DecidedEnded,
       ReviewsAccounted, OwnReview

LEMMA DeathKeeps ==
  ASSUME ReviewInv, NEW reboot \in BOOLEAN, ReviewSide!ReviewerDies(reboot)
  PROVE  ReviewInv'
  <1>1. entry' \in [ReviewSide!Reviews -> EntryRow \cup {Nothing}]
    <2>1. ASSUME NEW r \in ReviewSide!Reviews, entry[r] # Nothing
          PROVE  [entry[r] EXCEPT !.sameBoot = @ /\ ~reboot] \in EntryRow
      <3> DEFINE kept == entry[r].sameBoot /\ ~reboot
      <3>1. kept \in BOOLEAN
        OBVIOUS
      <3>2. entry[r] \in EntryRow
        BY <2>1 DEF ReviewInv, ReviewTypes
      <3>3. [entry[r] EXCEPT !.sameBoot = kept] \in EntryRow
        <4> HIDE DEF kept
        <4> QED BY <3>1, <3>2 DEF EntryRow
      <3> QED BY <3>3, Zenon
    <2> QED BY <2>1, Zenon DEF ReviewSide!ReviewerDies
  <1>2. ReviewTypes'
    BY <1>1 DEF ReviewSide!ReviewerDies, ReviewInv, ReviewTypes, ReviewPlaces
  <1>3. ReviewsAccounted'
    BY <1>2 DEF ReviewSide!ReviewerDies, ReviewInv, ReviewTypes, ReviewsAccounted
  <1> QED BY <1>2, <1>3 DEF ReviewSide!ReviewerDies, ReviewInv, ReviewTypes, Reviewing,
       FailuresCounted, Untaken, DecidedEnded, OwnReview

\* A claim takes the next review.
LEMMA ClaimKeeps ==
  ASSUME ReviewInv, NEW s \in Submissions, ReviewSide!ClaimReview(s)
  PROVE  ReviewInv'
  <1>1. taken' = taken + 1 /\ taken \in Nat /\ taken < MaxReviews /\ now' = taken'
    BY DEF ReviewInv, ReviewTypes, ReviewSide!ClaimReview
  <1>2. /\ now' \in ReviewSide!Reviews /\ taken' \in Nat /\ taken' <= MaxReviews
        /\ \A r \in ReviewSide!Reviews : r > taken' => r > taken
        /\ now' > taken
    BY <1>1 DEF ReviewSide!Reviews
  <1>3. [submission |-> s, state |-> "held"] \in ReviewRow
    BY DEF ReviewRow
  <1>4. /\ review' \in [ReviewSide!Reviews -> ReviewRow]
        /\ \A r \in ReviewSide!Reviews : r # now' => review'[r] = review[r]
        /\ review'[now'].submission = s /\ review'[now'].state = "held"
    BY <1>1, <1>2, <1>3 DEF ReviewInv, ReviewTypes, ReviewSide!ClaimReview
  <1>5. ReviewTypes'
    BY <1>1, <1>2, <1>4 DEF ReviewSide!ClaimReview, ReviewSide!onDisk, ReviewSide!launchState,
       ReviewSide!counts, ReviewInv, ReviewTypes, ReviewPlaces
  <1> QED BY <1>1, <1>2, <1>4, <1>5 DEF ReviewSide!ClaimReview, ReviewSide!Claimable, ReviewSide!onDisk,
       ReviewSide!launchState, ReviewSide!counts, ReviewInv, ReviewTypes, Reviewing, FailuresCounted,
       Untaken, DecidedEnded, ReviewsAccounted, OwnReview

LEMMA ReviewKeeps ==
  ASSUME ReviewInv, ReviewSide!ReviewNext
  PROVE  ReviewInv'
  <1> USE DEF ReviewInv, ReviewTypes, Reviewing, FailuresCounted, Untaken, DecidedEnded,
              ReviewsAccounted, OwnReview, ReviewRow, EntryRow, ReviewPlaces
  <1>1. ASSUME ReviewSide!StartReviewer PROVE ReviewInv'
    BY <1>1 DEF ReviewSide!StartReviewer, ReviewSide!onDisk, ReviewSide!launchState,
      ReviewSide!counts, ReviewSide!budgets
  <1>2. ASSUME ReviewSide!ReviewsRecovered PROVE ReviewInv'
    BY <1>2 DEF ReviewSide!ReviewsRecovered, ReviewSide!onDisk, ReviewSide!launchState,
      ReviewSide!counts, ReviewSide!budgets
  <1>3. ASSUME ReviewSide!NoReviewToClaim PROVE ReviewInv'
    BY <1>3 DEF ReviewSide!NoReviewToClaim, ReviewSide!onDisk, ReviewSide!launchState,
      ReviewSide!counts, ReviewSide!budgets
  <1>4. ASSUME ReviewSide!SaveReviewLaunch PROVE ReviewInv'
    BY <1>4 DEF ReviewSide!SaveReviewLaunch, ReviewSide!launchState, ReviewSide!counts,
      ReviewSide!budgets
  <1>5. ASSUME ReviewSide!LaunchReviewFails PROVE ReviewInv'
    BY <1>5 DEF ReviewSide!LaunchReviewFails, ReviewSide!launchState, ReviewSide!counts,
      ReviewSide!budgets
  <1>6. ASSUME ReviewSide!LaunchReview PROVE ReviewInv'
    BY SMTT(30), <1>6 DEF ReviewSide!LaunchReview, ReviewSide!Reviews, ReviewSide!counts,
      ReviewSide!budgets
  <1>7. ASSUME ReviewSide!WaitEnds PROVE ReviewInv'
    BY SMTT(30), <1>7 DEF ReviewSide!WaitEnds, ReviewSide!Reviews, ReviewSide!onDisk,
      ReviewSide!counts, ReviewSide!budgets
  <1>8. ASSUME ReviewSide!SettleReview PROVE ReviewInv'
    BY <1>8 DEF ReviewSide!SettleReview, ReviewSide!Settled, ReviewSide!launchState,
      ReviewSide!counts, ReviewSide!budgets
  <1>9. ASSUME ReviewSide!SettleReviewFails PROVE ReviewInv'
    BY <1>9 DEF ReviewSide!SettleReviewFails, ReviewSide!Fails, ReviewSide!onDisk,
      ReviewSide!launchState, ReviewSide!counts
  <1>10. ASSUME ReviewSide!DiscardReview PROVE ReviewInv'
    BY <1>10 DEF ReviewSide!DiscardReview, ReviewSide!launchState, ReviewSide!counts,
      ReviewSide!budgets
  <1>11. ASSUME ReviewSide!RemoveReviewLaunch PROVE ReviewInv'
    BY <1>11 DEF ReviewSide!RemoveReviewLaunch, ReviewSide!launchState, ReviewSide!counts,
      ReviewSide!budgets
  <1>12. ASSUME ReviewSide!Decide PROVE ReviewInv'
    BY <1>12 DEF ReviewSide!Decide, ReviewSide!Postable, ReviewSide!onDisk,
      ReviewSide!launchState, ReviewSide!budgets
  <1>13. ASSUME ReviewSide!NoVerdict PROVE ReviewInv'
    BY <1>13 DEF ReviewSide!NoVerdict, ReviewSide!Fails, ReviewSide!onDisk,
      ReviewSide!launchState, ReviewSide!counts
  <1>14. ASSUME ReviewSide!Requeue PROVE ReviewInv'
    BY <1>14 DEF ReviewSide!Requeue, ReviewSide!onDisk, ReviewSide!launchState,
      ReviewSide!budgets
  <1>15. ASSUME ReviewSide!RequeueFails PROVE ReviewInv'
    BY <1>15 DEF ReviewSide!RequeueFails, ReviewSide!Fails, ReviewSide!onDisk,
      ReviewSide!launchState
  <1>16. ASSUME NEW s \in Submissions, ReviewSide!ClaimReviewFails(s) PROVE ReviewInv'
    BY <1>16 DEF ReviewSide!ClaimReviewFails, ReviewSide!Claimable, ReviewSide!Fails,
      ReviewSide!onDisk, ReviewSide!launchState
  <1>17. ASSUME NEW r \in ReviewSide!Reviews, ReviewSide!RecoverReview(r) PROVE ReviewInv'
    BY <1>17 DEF ReviewSide!RecoverReview, ReviewSide!onDisk, ReviewSide!launchState,
      ReviewSide!budgets
  <1>18. ASSUME NEW r \in ReviewSide!Reviews, ReviewSide!ReviewerWrites(r) PROVE ReviewInv'
    BY <1>18 DEF ReviewSide!ReviewerWrites, ReviewSide!launchState, ReviewSide!counts,
      ReviewSide!budgets
  <1>19. ASSUME NEW r \in ReviewSide!Reviews, ReviewSide!ReviewLapses(r) PROVE ReviewInv'
    BY <1>19 DEF ReviewSide!ReviewLapses, ReviewSide!onDisk, ReviewSide!launchState,
      ReviewSide!counts, ReviewSide!budgets
  <1>20. ASSUME NEW r \in ReviewSide!Reviews, NEW v \in ReviewSide!Verdicts, ReviewSide!ReviewerEnds(r, v) PROVE ReviewInv'
    BY <1>20 DEF ReviewSide!ReviewerEnds, ReviewSide!Verdicts, ReviewSide!onDisk,
      ReviewSide!counts, ReviewSide!budgets
  <1> HIDE DEF ReviewInv
  <1> QED BY <1>1, <1>2, <1>3, <1>4, <1>5, <1>6, <1>7, <1>8, <1>9, <1>10, <1>11, <1>12, <1>13,
      <1>14, <1>15, <1>16, <1>17, <1>18, <1>19, <1>20, ReviewAges, DeathKeeps, ClaimKeeps
      DEF ReviewSide!ReviewNext

LEMMA ReviewStarts == ReviewSide!ReviewInit => ReviewInv
  <1> SUFFICES ASSUME ReviewSide!ReviewInit PROVE ReviewInv
    OBVIOUS
  <1>1. ReviewSide!NoReview \in ReviewRow /\ ReviewSide!NoReview.state = "none"
    BY DEF ReviewSide!NoReview, ReviewRow
  <1>2. ReviewTypes
    <2>1. at \in ReviewPlaces /\ taken \in Nat /\ taken <= MaxReviews
      BY DEF ReviewSide!ReviewInit, ReviewPlaces
    <2>2. /\ review \in [ReviewSide!Reviews -> ReviewRow]
          /\ entry \in [ReviewSide!Reviews -> EntryRow \cup {Nothing}]
      BY <1>1 DEF ReviewSide!ReviewInit
    <2> QED BY <2>1, <2>2 DEF ReviewSide!ReviewInit, ReviewTypes
  <1> QED BY <1>1, <1>2 DEF ReviewSide!ReviewInit, ReviewInv, ReviewTypes, Reviewing, FailuresCounted,
       Untaken, DecidedEnded, ReviewsAccounted, OwnReview

LEMMA ReviewTells ==
  ASSUME ReviewInv
  PROVE  ReviewSide!ReviewTypeOK /\ ReviewSide!ReviewCostOnce /\ ReviewSide!VerdictsEarned
  <1>1. \A s \in Submissions : failed[s] \in 0 .. MaxReviews
    BY DEF ReviewInv, ReviewTypes, FailuresCounted
  <1>2. \A r \in ReviewSide!Reviews : review[r] \in ReviewRow
    BY DEF ReviewInv, ReviewTypes
  <1>3. ReviewSide!ReviewTypeOK
    BY <1>1, <1>2 DEF ReviewSide!ReviewTypeOK, ReviewInv, ReviewTypes, ReviewPlaces, ReviewRow,
       ReviewSide!Verdicts
  <1>4. ReviewSide!ReviewCostOnce
    BY DEF ReviewSide!ReviewCostOnce, ReviewInv, ReviewsAccounted
  <1>5. ReviewSide!VerdictsEarned
    BY DEF ReviewSide!VerdictsEarned, ReviewInv, ReviewTypes, DecidedEnded, FailuresCounted
  <1> QED BY <1>3, <1>4, <1>5

LEMMA ReviewInvariant == Spec => []ReviewInv
  <1>1. Init => ReviewInv
    BY ReviewStarts DEF Init
  <1>2. ReviewInv /\ [Next]_all => ReviewInv'
    <2> SUFFICES ASSUME ReviewInv, [Next]_all PROVE ReviewInv'
      OBVIOUS
    <2>1. ASSUME ReviewSide!ReviewNext PROVE ReviewInv'
      BY <2>1, ReviewKeeps
    <2>2. ASSUME UNCHANGED reviewVars PROVE ReviewInv'
      BY <2>2 DEF reviewVars, ReviewInv, ReviewTypes, Reviewing, FailuresCounted, Untaken,
         DecidedEnded, ReviewsAccounted, OwnReview
    <2> QED BY <2>1, <2>2 DEF Next, all
  <1> QED BY <1>1, <1>2, PTL DEF Spec

\* A review is decided only on a launch that left a verdict with evidence, and a
\* submission whose verdicts keep failing is reviewed no more often than review_attempts
\* (review.rs).
THEOREM VerdictsAreEarned == Spec => []VerdictsEarned
  <1>1. ReviewInv => VerdictsEarned
    BY ReviewTells DEF VerdictsEarned
  <1> QED BY <1>1, ReviewInvariant, PTL

---------------------------------------------------------------------------
(* The reporting of the ledger.                                             *)

\* RowsAccounted is inductive with the types of what it reads, whatever the passes
\* have planned to send.
ReportInv ==
  /\ stored \in [Rows -> Nat]
  /\ setAside \in [Rows -> SUBSET {"project", "rejected"}]
  /\ Reporting!RowsAccounted

LEMMA ReportKeeps ==
  ASSUME ReportInv, Reporting!ReportNext
  PROVE  ReportInv'
  <1> USE DEF ReportInv, Reporting!RowsAccounted
  <1>1. ASSUME Reporting!AppendRow PROVE ReportInv'
    BY <1>1 DEF Reporting!AppendRow
  <1>2. ASSUME NEW p \in Passes, Reporting!PassStep(p) PROVE ReportInv'
    <2>1. ASSUME Reporting!BeginPass(p) \/ Reporting!EndPass(p) \/ Reporting!RejectedBatch(p)
          PROVE  ReportInv'
      BY <2>1 DEF Reporting!BeginPass, Reporting!EndPass, Reporting!RejectedBatch
    <2>2. ASSUME Reporting!DeliverStored(p) \/ Reporting!ReplyLost(p) PROVE ReportInv'
      <3>1. /\ stored' = Reporting!Insert(Reporting!BatchRows(p))
            /\ Reporting!BatchRows(p) \cap Invalid = {}
            /\ reported' = reported \/ reported' = reported \cup Reporting!BatchRows(p)
            /\ UNCHANGED setAside
        BY <2>2 DEF Reporting!DeliverStored, Reporting!ReplyLost, Reporting!Acceptable
      <3> QED BY <3>1 DEF Reporting!Insert
    <2>3. ASSUME NEW stop \in BOOLEAN, Reporting!Unanswered(p, stop) PROVE ReportInv'
      BY <2>3 DEF Reporting!Unanswered
    <2>4. ASSUME Reporting!RejectedRow(p) PROVE ReportInv'
      <3>1. Reporting!BatchRows(p) \subseteq Invalid
        <4> DEFINE rs == Head(pass[p])
        <4>1. Len(rs) = 1 /\ Reporting!BatchRows(p) = {rs[i] : i \in 1 .. Len(rs)}
          BY <2>4 DEF Reporting!RejectedRow, Reporting!BatchRows
        <4>2. Reporting!BatchRows(p) = {rs[1]}
          BY <4>1
        <4> QED BY <2>4, <4>2 DEF Reporting!RejectedRow
      <3>2. /\ setAside' \in [Rows -> SUBSET {"project", "rejected"}]
            /\ \A r \in Rows : "project" \in setAside'[r] => "project" \in setAside[r]
        BY <2>4 DEF Reporting!RejectedRow
      <3>3. reported' = reported \cup Reporting!BatchRows(p) /\ UNCHANGED stored
        BY <2>4 DEF Reporting!RejectedRow
      <3> QED BY <3>1, <3>2, <3>3
    <2>5. ASSUME Reporting!MissingProject(p) PROVE ReportInv'
      BY <2>5 DEF Reporting!MissingProject
    <2> HIDE DEF ReportInv
    <2> QED BY <1>2, <2>1, <2>2, <2>3, <2>4, <2>5 DEF Reporting!PassStep
  <1>3. ASSUME NEW q \in Reporting!AllProjects, Reporting!CreateProject(q) PROVE ReportInv'
    BY <1>3 DEF Reporting!CreateProject
  <1>4. ASSUME NEW r \in Rows, Reporting!ReleaseQuarantine(r) PROVE ReportInv'
    BY <1>4 DEF Reporting!ReleaseQuarantine
  <1> HIDE DEF ReportInv
  <1> QED BY <1>1, <1>2, <1>3, <1>4 DEF Reporting!ReportNext

LEMMA ReportInvariant == Spec => []ReportInv
  <1>1. Init => ReportInv
    BY DEF Init, Reporting!ReportInit, ReportInv, Reporting!RowsAccounted
  <1>2. ReportInv /\ [Next]_all => ReportInv'
    <2> SUFFICES ASSUME ReportInv, [Next]_all PROVE ReportInv'
      OBVIOUS
    <2>1. ASSUME Reporting!ReportNext PROVE ReportInv'
      BY <2>1, ReportKeeps
    <2>2. ASSUME UNCHANGED reportVars PROVE ReportInv'
      BY <2>2 DEF reportVars, ReportInv, Reporting!RowsAccounted
    <2> QED BY <2>1, <2>2 DEF Next, all
  <1> QED BY <1>1, <1>2, PTL DEF Spec

\* Every launch is in the ledger once before its events go, and the coordinator holds
\* each of its rows once; a row that is not sent again is stored, malformed or waits for
\* its project (cost.rs, review_cost.rs, report.rs, telemetry.rs).
THEOREM CostsAreSound == Spec => []CostsSound
  <1>1. LoopInv /\ ReviewInv /\ ReportInv => CostsSound
    BY LoopTells, ReviewTells DEF CostsSound, ReportInv
  <1> QED BY <1>1, LoopInvariant, ReviewInvariant, ReportInvariant, PTL
=============================================================================
