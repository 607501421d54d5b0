--------------------------- MODULE DeliveryProofs ----------------------------
(***************************************************************************)
(* A mutation happens once, and work is owned no longer than granted, for  *)
(* any number of clients, mutations, losses, retries, restarts, steps of   *)
(* the wall clock and restores.                                            *)
(*                                                                         *)
(* DeliveryInv is the inductive invariant.  Its parts say what a client    *)
(* remembers (Remembered), what is on its way (Sent), what the database and*)
(* every backup of it promise (Promises), which credentials exist (Known), *)
(* where the receipt of an effect is (Receipted), whom a live credential   *)
(* still speaks for (Fresh), and how long a lease may last (Granted).      *)
(***************************************************************************)
EXTENDS Delivery, TLAPS

---------------------------------------------------------------------------
(* Types.                                                                   *)

Receipt == [epoch : Nat, created : Int, compacted : BOOLEAN]

Database ==
  [restores : Nat, reconciling : BOOLEAN,
   required : SUBSET (Clients \cup {"old_installation", "gap"}),
   credentials : SUBSET Clients, revoked : SUBSET Clients,
   open : SUBSET (Clients \X Nat), closed : SUBSET (Clients \X Nat),
   activity : [Clients -> Int], leases : [Clients -> Nat],
   receipts : UNION {[S -> Receipt] : S \in SUBSET Keys},
   run : [open : BOOLEAN, cutoff : Int]]

Backup == [db : Database, stored : Nat, paused : BOOLEAN]
Answers == {"none", "ok", "refused", "conflict", "busy"}
JournalRow == [pending : Nat, last : Nat, saved : Seq(Operations), session : Nat]
ProcessRow == [at : {"idle", "saved", "waiting", "answered"}, key : Nat, answer : Answers]

ClientTypes ==
  /\ journal \in [Clients -> JournalRow]
  /\ process \in [Clients -> ProcessRow]
  /\ flight \subseteq [client : Clients, key : Nat, session : Nat, live : BOOLEAN]
  /\ concluded \in [Keys -> {"none", "done", "refused"}]
  /\ born \in [Keys -> Nat]

ServiceTypes ==
  /\ ClockTypeOK /\ elapsed <= MaxElapsed
  /\ db \in Database
  /\ snapshot \in Seq(Backup) /\ Len(snapshot) <= 1
  /\ effects \in [Keys -> Nat]
  /\ issued \subseteq Clients
  /\ deadline \in [Clients -> Int]

---------------------------------------------------------------------------
(* The inductive invariant.                                                 *)

\* A client has saved nothing before it was provisioned, and everything it has not been
\* answered is the one mutation it keeps as unresolved; what its process works on is that.
Remembered ==
  \A c \in Clients :
    /\ Len(journal[c].saved) <= MaxKeys
    /\ journal[c].pending <= Len(journal[c].saved)
    /\ journal[c].last <= Len(journal[c].saved)
    /\ journal[c].saved # <<>> => c \in issued
    /\ \A n \in 1 .. Len(journal[c].saved) :
         concluded[<<c, n>>] = "none" => journal[c].pending = n
    /\ process[c].at # "idle" => process[c].key # 0 /\ journal[c].pending = process[c].key

\* A request names a saved mutation, and one somebody waits for is the
\* one its client's process has sent.
Sent ==
  \A r \in flight :
    /\ r.key \in 1 .. Len(journal[r.client].saved)
    /\ r.live => /\ process[r.client].at = "waiting" /\ process[r.client].key = r.key
                 /\ journal[r.client].session = r.session

\* What a database promises, whose durable mark is the given time: a result is dropped
\* after its window only, and a run's cutoff stays before every open window.
Promises(d, mark) ==
  /\ \A k \in DOMAIN d.receipts :
       /\ d.receipts[k].created <= mark
       /\ d.receipts[k].compacted => mark - d.receipts[k].created > Retention
  /\ d.run.open => d.run.cutoff <= mark - Retention

Kept ==
  /\ Promises(db, stored)
  /\ \A i \in DOMAIN snapshot : Promises(snapshot[i].db, snapshot[i].stored)

\* No database holds a credential that was never issued.
Known ==
  /\ db.credentials \subseteq issued
  /\ \A i \in DOMAIN snapshot : snapshot[i].db.credentials \subseteq issued

Live(c) == c \in db.credentials \ db.revoked

\* A mutation that took effect was saved, did so once, and has its receipt, or the
\* credential it came with is void for good.
Receipted ==
  \A k \in Keys : effects[k] # 0 =>
    /\ effects[k] = 1
    /\ k[2] <= Len(journal[k[1]].saved)
    /\ k \in DOMAIN db.receipts \/ ~Live(k[1])

\* What a live credential has saved, it saved since the last restore.
Fresh ==
  \A c \in Clients : Live(c) =>
    \A n \in 1 .. Len(journal[c].saved) : born[<<c, n>>] = db.restores

\* A lease ends when it was granted for, counted by the process that granted it, or by
\* the durable mark once that process is gone.
Granted ==
  \A c \in Clients : db.leases[c] # 0 =>
    /\ db.leases[c] <= stored + Lease
    /\ db.leases[c] <= deadline[c] + runtime \/ deadline[c] = MaxElapsed + Lease

DeliveryInv ==
  /\ ClientTypes /\ ServiceTypes
  /\ Remembered /\ Sent
  /\ Kept /\ Known /\ Receipted /\ Fresh
  /\ Granted /\ PausedIsQuiet /\ OwnerHasSession

LEMMA ConstantTypes ==
  /\ Lease \in Nat /\ Retention \in Nat /\ Tolerance \in Nat /\ MaxElapsed \in Nat
  /\ MaxKeys \in Nat
  /\ \A s \in Skews : s \in Nat
  BY ClockAssumption, DeliveryAssumption

LEMMA InitDelivery == Init => DeliveryInv
  <1> SUFFICES ASSUME Init PROVE DeliveryInv
    OBVIOUS
  <1>1. ClientTypes
    BY DEF Init, ClientTypes, JournalRow, ProcessRow, Answers, Keys, Clients
  <1>2. db \in Database
    <2> DEFINE r == [k \in {} |-> 0]
    <2>1. r \in [{} -> Receipt] /\ {} \in SUBSET Keys
      OBVIOUS
    <2>2. r \in UNION {[S -> Receipt] : S \in SUBSET Keys}
      BY <2>1
    <2> HIDE DEF r
    <2>3. [c \in Clients |-> 0] \in [Clients -> Int] /\ [c \in Clients |-> 0] \in [Clients -> Nat]
      OBVIOUS
    <2>4. NoRun \in [open : BOOLEAN, cutoff : Int]
      BY DEF NoRun
    <2> QED BY <2>2, <2>3, <2>4 DEF Init, Database, r
  <1>3. ServiceTypes
    <2>1. MaxElapsed + Lease \in Int
      BY ConstantTypes
    <2>2. effects \in [Keys -> Nat] /\ issued \subseteq Clients /\ deadline \in [Clients -> Int]
      BY <2>1 DEF Init
    <2>3. snapshot \in Seq(Backup) /\ Len(snapshot) <= 1
      BY DEF Init
    <2>4. ClockTypeOK
      <3>1. elapsed = 0 /\ stored = 0 /\ incident = 0 /\ runtime = 0 /\ paused = FALSE /\ skew \in Skews
        BY DEF Init, ClockInit
      <3>2. {elapsed, stored, incident} \subseteq Nat
        BY <3>1
      <3>3. paused \in BOOLEAN
        BY <3>1, Zenon
      <3>4. runtime \in Int
        BY <3>1
      <3> QED BY <3>1, <3>2, <3>3, <3>4, Zenon DEF ClockTypeOK
    <2>5. elapsed <= MaxElapsed
      BY ConstantTypes DEF Init, ClockInit
    <2> QED BY <1>2, <2>2, <2>3, <2>4, <2>5 DEF ServiceTypes
  <1>4. /\ \A c \in Clients :
             /\ Len(journal[c].saved) = 0 /\ journal[c].saved = <<>>
             /\ journal[c].pending = 0 /\ journal[c].last = 0
             /\ process[c].at = "idle" /\ db.leases[c] = 0
        /\ \A k \in Keys : effects[k] = 0
        /\ flight = {} /\ db.credentials = {} /\ issued = {}
    BY DEF Init
  <1>6. Remembered /\ Sent /\ Receipted /\ Fresh /\ Granted
    BY <1>4, ConstantTypes DEF Remembered, Sent, Receipted, Fresh, Live, Granted
  <1>7. Known /\ PausedIsQuiet /\ OwnerHasSession
    BY <1>4 DEF Init, Known, PausedIsQuiet, OwnerHasSession
  <1>5. Kept
    BY DEF Init, ClockInit, Kept, Promises, NoRun
  <1> QED BY <1>1, <1>3, <1>5, <1>6, <1>7 DEF DeliveryInv

---------------------------------------------------------------------------
(* The clock.                                                               *)

LEMMA Sampling ==
  ASSUME ServiceTypes
  PROVE  /\ SafeNow \in Nat /\ Anchored \in Int
         /\ SafeNow >= stored /\ SafeNow >= elapsed + runtime
         /\ Anchored >= runtime /\ elapsed + Anchored >= SafeNow
  <1>1. /\ elapsed \in Nat /\ stored \in Nat /\ runtime \in Int /\ skew \in Nat
    BY ConstantTypes DEF ServiceTypes, ClockTypeOK
  <1>2. Raw \in Nat /\ Counted \in Int
    BY <1>1 DEF Raw, Counted
  <1>3. Expected \in Nat /\ Expected >= stored /\ Expected >= Counted
    BY <1>1, <1>2 DEF Expected, Later
  <1>4. SafeNow \in Nat /\ SafeNow >= Expected /\ SafeNow >= Raw
    BY <1>2, <1>3 DEF SafeNow, Later
  <1> QED BY <1>1, <1>2, <1>3, <1>4 DEF Anchored, Started, Counted

\* The service's time and its process's count only move forward.
Onward ==
  /\ ClockTypeOK' /\ elapsed' <= MaxElapsed
  /\ stored' >= stored /\ runtime' >= runtime

LEMMA Commits ==
  ASSUME ServiceTypes, CommitSample
  PROVE  /\ Onward
         /\ stored' = SafeNow /\ elapsed + runtime' >= stored'
         /\ paused' <=> paused \/ Rollback
  <1>1. /\ stored' = SafeNow /\ runtime' = Anchored /\ elapsed' = elapsed /\ skew' = skew
        /\ paused' = (paused \/ Rollback)
        /\ incident' = IF Rollback THEN incident + 1 ELSE incident
    BY DEF CommitSample
  <1>2. incident' \in Nat /\ paused' \in BOOLEAN
    BY <1>1 DEF ServiceTypes, ClockTypeOK
  <1>3. ClockTypeOK'
    BY <1>1, <1>2, Sampling DEF ServiceTypes, ClockTypeOK
  <1> QED BY <1>1, <1>3, Sampling DEF ServiceTypes, ClockTypeOK, Onward

LEMMA Abandons ==
  ASSUME ServiceTypes, AbandonSample
  PROVE  Onward /\ stored' = stored /\ paused' = paused
  BY Sampling DEF ServiceTypes, ClockTypeOK, AbandonSample, Onward
---------------------------------------------------------------------------
(* Clients.                                                                 *)

ClientFrame == UNCHANGED <<clockVars, db, snapshot, effects, issued, deadline>>

\* What a client does on its own leaves the service's side as it was.
LEMMA ClientStep ==
  ASSUME DeliveryInv, ClientFrame, ClientTypes', Remembered', Sent', Fresh',
         \A c \in Clients : Len(journal'[c].saved) >= Len(journal[c].saved)
  PROVE  DeliveryInv'
  <1>1. ServiceTypes'
    BY DEF DeliveryInv, ServiceTypes, ClientFrame, clockVars, ClockTypeOK
  <1>2. Kept' /\ Known' /\ PausedIsQuiet' /\ OwnerHasSession' /\ Granted'
    BY DEF DeliveryInv, Kept, Known, PausedIsQuiet, OwnerHasSession, Granted, ClientFrame, clockVars
  <1>3. Receipted'
    <2> SUFFICES ASSUME NEW k \in Keys, effects[k] # 0
                 PROVE  /\ effects[k] = 1
                        /\ k[2] <= Len(journal'[k[1]].saved)
                        /\ k \in DOMAIN db.receipts \/ ~Live(k[1])
      BY DEF Receipted, ClientFrame, Live
    <2>1. k[1] \in Clients /\ k[2] \in Int
      BY DEF Keys
    <2>2. Len(journal'[k[1]].saved) \in Int /\ Len(journal[k[1]].saved) \in Int
      BY <2>1 DEF DeliveryInv, ClientTypes
    <2>3. /\ effects[k] = 1
          /\ k[2] <= Len(journal[k[1]].saved)
          /\ k \in DOMAIN db.receipts \/ ~Live(k[1])
      BY DEF DeliveryInv, Receipted
    <2>4. Len(journal'[k[1]].saved) >= Len(journal[k[1]].saved)
      BY <2>1
    <2> QED BY <2>1, <2>2, <2>3, <2>4
  <1> QED BY <1>1, <1>2, <1>3 DEF DeliveryInv

LEMMA JournalRows ==
  ASSUME ClientTypes, NEW c \in Clients
  PROVE  /\ journal[c] \in JournalRow /\ process[c] \in ProcessRow
         /\ journal[c].saved \in Seq(Operations) /\ Len(journal[c].saved) \in Nat
         /\ journal[c].pending \in Nat /\ journal[c].last \in Nat
         /\ process[c].key \in Nat
  BY DEF ClientTypes, JournalRow, ProcessRow

LEMMA SavedRow ==
  ASSUME NEW j \in JournalRow, NEW op \in Operations, NEW n \in Nat
  PROVE  LET row == [j EXCEPT !.saved = Append(@, op), !.pending = n]
         IN /\ row \in JournalRow /\ row.pending = n /\ row.last = j.last
            /\ row.session = j.session
            /\ Len(row.saved) = Len(j.saved) + 1 /\ row.saved # <<>>
  <1>1. j.saved \in Seq(Operations)
    BY DEF JournalRow
  <1>2. /\ Append(j.saved, op) \in Seq(Operations) /\ Append(j.saved, op) # <<>>
        /\ Len(Append(j.saved, op)) = Len(j.saved) + 1
    BY <1>1
  <1> QED BY <1>2 DEF JournalRow

LEMMA SaveKeeps ==
  ASSUME DeliveryInv, NEW c \in Clients, NEW op \in Operations, Save(c, op)
  PROVE  DeliveryInv'
  <1> DEFINE n == Len(journal[c].saved) + 1
             row == [journal[c] EXCEPT !.saved = Append(@, op), !.pending = n]
             work == [at |-> "saved", key |-> n, answer |-> "none"]
  <1> USE DEF DeliveryInv
  <1>1. /\ journal' = [journal EXCEPT ![c] = row]
        /\ process' = [process EXCEPT ![c] = work]
        /\ born' = [born EXCEPT ![<<c, n>>] = db.restores]
        /\ flight' = flight /\ concluded' = concluded /\ ClientFrame
    BY DEF Save, ClientFrame
  <1>2. c \in issued /\ process[c].at = "idle" /\ journal[c].pending = 0
    BY DEF Save
  <1>3. n \in Nat /\ n >= 1 /\ n - 1 = Len(journal[c].saved) /\ n <= MaxKeys
    BY SMTT(30), JournalRows, ConstantTypes DEF Save, Room
  <1>4. /\ row \in JournalRow /\ row.pending = n /\ row.last = journal[c].last
        /\ row.session = journal[c].session
        /\ Len(row.saved) = n /\ row.saved # <<>>
    <2>1. journal[c] \in JournalRow
      BY JournalRows
    <2> HIDE DEF DeliveryInv
    <2>2. /\ row \in JournalRow /\ row.pending = n /\ row.last = journal[c].last
          /\ row.session = journal[c].session
          /\ Len(row.saved) = Len(journal[c].saved) + 1 /\ row.saved # <<>>
      BY <2>1, <1>3, SavedRow, Zenon
    <2> QED BY <2>2
  <1>5. work \in ProcessRow /\ work.at = "saved" /\ work.key = n
    BY <1>3 DEF ProcessRow, Answers
  <1> HIDE DEF n, row, work
  <1>6. <<c, n>> \in Keys /\ db.restores \in Nat
    BY <1>3, ConstantTypes DEF Keys, ServiceTypes, Database
  <1>7. ClientTypes'
    BY <1>1, <1>4, <1>5, <1>6 DEF ClientTypes
  <1>8. /\ journal'[c] = row /\ process'[c] = work
        /\ \A d \in Clients : d # c => journal'[d] = journal[d] /\ process'[d] = process[d]
        /\ born'[<<c, n>>] = db.restores
        /\ \A k \in Keys : k # <<c, n>> => born'[k] = born[k]
    BY <1>1, <1>6 DEF ClientTypes
  <1>9. Remembered'
    <2> SUFFICES ASSUME NEW d \in Clients
                 PROVE  (/\ Len(journal[d].saved) <= MaxKeys
                         /\ journal[d].pending <= Len(journal[d].saved)
                         /\ journal[d].last <= Len(journal[d].saved)
                         /\ journal[d].saved # <<>> => d \in issued
                         /\ \A m \in 1 .. Len(journal[d].saved) :
                              concluded[<<d, m>>] = "none" => journal[d].pending = m
                         /\ process[d].at # "idle" =>
                              process[d].key # 0 /\ journal[d].pending = process[d].key)'
      BY DEF Remembered
    <2>1. CASE d = c
      <3>1. \A m \in 1 .. Len(journal[c].saved) : concluded[<<c, m>>] # "none"
        BY <1>2, JournalRows DEF Remembered
      <3>2. journal[c].last <= Len(journal[c].saved)
        BY DEF Remembered
      <3> QED BY <2>1, <3>1, <3>2, <1>1, <1>2, <1>3, <1>4, <1>5, <1>8, JournalRows DEF ClientFrame
    <2>2. CASE d # c
      BY <2>2, <1>1, <1>8 DEF Remembered, ClientFrame
    <2> QED BY <2>1, <2>2
  <1>10. Sent'
    BY <1>1, <1>2, <1>3, <1>4, <1>8, JournalRows DEF Sent, ClientTypes
  <1>11. Fresh'
    <2> SUFFICES ASSUME NEW d \in Clients, Live(d), NEW m \in 1 .. Len(journal'[d].saved)
                 PROVE  born'[<<d, m>>] = db.restores
      BY <1>1 DEF Fresh, Live, ClientFrame
    <2>1. CASE d = c /\ m = n
      BY <2>1, <1>8
    <2>2. CASE d # c \/ m # n
      <3>1. m \in 1 .. Len(journal[d].saved)
        BY <2>2, <1>3, <1>4, <1>8
      <3>2. <<d, m>> \in Keys /\ <<d, m>> # <<c, n>>
        BY <2>2, <3>1, JournalRows, ConstantTypes DEF Remembered, Keys
      <3> QED BY <3>1, <3>2, <1>8 DEF Fresh
    <2> QED BY <2>1, <2>2
  <1>12. \A d \in Clients : Len(journal'[d].saved) >= Len(journal[d].saved)
    BY <1>3, <1>4, <1>8, JournalRows
  <1> QED BY <1>1, <1>7, <1>9, <1>10, <1>11, <1>12, ClientStep

\* A client's step that moves its process only, on the mutation it keeps as unresolved.
LEMMA ProcessStep ==
  ASSUME DeliveryInv, NEW c \in Clients, NEW work \in ProcessRow,
         process' = [process EXCEPT ![c] = work],
         UNCHANGED <<journal, concluded, born>>, ClientFrame,
         flight' \subseteq [client : Clients, key : Nat, session : Nat, live : BOOLEAN],
         work.at # "idle" => work.key # 0 /\ journal[c].pending = work.key,
         Sent'
  PROVE  DeliveryInv'
  <1> USE DEF DeliveryInv
  <1>1. ClientTypes'
    BY DEF ClientTypes
  <1>2. Remembered'
    BY DEF Remembered, ClientFrame, ClientTypes
  <1>3. Fresh'
    BY DEF Fresh, Live, ClientFrame
  <1>4. \A d \in Clients : Len(journal'[d].saved) >= Len(journal[d].saved)
    BY JournalRows
  <1> QED BY <1>1, <1>2, <1>3, <1>4, ClientStep

LEMMA SendKeeps ==
  ASSUME DeliveryInv, NEW c \in Clients, Send(c)
  PROVE  DeliveryInv'
  <1> DEFINE work == [process[c] EXCEPT !.at = "waiting"]
  <1> USE DEF DeliveryInv
  <1>1. /\ process' = [process EXCEPT ![c] = work] /\ process[c].at = "saved"
        /\ flight' = flight \cup {Request(c, TRUE)}
        /\ UNCHANGED <<journal, concluded, born>> /\ ClientFrame
    BY DEF Send, ClientFrame, history
  <1>2. work \in ProcessRow /\ work.at = "waiting" /\ work.key = process[c].key
    BY JournalRows DEF ProcessRow
  <1> HIDE DEF work
  <1>3. /\ Request(c, TRUE) \in [client : Clients, key : Nat, session : Nat, live : BOOLEAN]
        /\ Request(c, TRUE).client = c /\ Request(c, TRUE).key = process[c].key
        /\ Request(c, TRUE).session = journal[c].session
    BY JournalRows DEF Request, ClientTypes, JournalRow
  <1>4. process[c].key # 0 /\ journal[c].pending = process[c].key
        /\ process[c].key <= Len(journal[c].saved)
    BY <1>1 DEF Remembered
  <1>5. Sent'
    <2> SUFFICES ASSUME NEW r \in flight'
                 PROVE  /\ r.key \in 1 .. Len(journal[r.client].saved)
                        /\ r.live => /\ process'[r.client].at = "waiting"
                                     /\ process'[r.client].key = r.key
                                     /\ journal[r.client].session = r.session
      BY <1>1 DEF Sent
    <2>1. CASE r \in flight
      <3>1. r.client \in Clients
        BY <2>1 DEF ClientTypes
      <3>2. r.client = c => ~r.live
        BY <2>1, <1>1 DEF Sent
      <3> QED BY <2>1, <3>1, <3>2, <1>1 DEF Sent, ClientTypes
    <2>2. CASE r = Request(c, TRUE)
      <3>1. r.client = c /\ r.key = process[c].key /\ r.session = journal[c].session
        BY <2>2, <1>3
      <3>2. process'[c] = work
        BY <1>1 DEF ClientTypes
      <3>3. process[c].key \in 1 .. Len(journal[c].saved)
        BY <1>4, JournalRows
      <3> QED BY <3>1, <3>2, <3>3, <1>2
    <2> QED BY <2>1, <2>2, <1>1
  <1>6. flight' \subseteq [client : Clients, key : Nat, session : Nat, live : BOOLEAN]
    BY <1>1, <1>3 DEF ClientTypes
  <1>7. work.at # "idle" => work.key # 0 /\ journal[c].pending = work.key
    BY <1>2, <1>4
  <1> QED BY <1>1, <1>2, <1>5, <1>6, <1>7, ProcessStep

LEMMA GiveUpKeeps ==
  ASSUME DeliveryInv, NEW c \in Clients, GiveUp(c)
  PROVE  DeliveryInv'
  <1> DEFINE work == [at |-> "idle", key |-> 0, answer |-> "none"]
             rest == {r \in flight : ~(r.client = c /\ r.live)}
  <1> USE DEF DeliveryInv
  <1>1. /\ process' = [process EXCEPT ![c] = work] /\ process[c].at # "idle"
        /\ UNCHANGED <<journal, concluded, born>> /\ ClientFrame
    BY DEF GiveUp, ClientFrame, history
  <1>2. flight' \subseteq rest \cup {Request(c, FALSE)}
    BY DEF GiveUp, Abandoned
  <1>3. work \in ProcessRow /\ work.at = "idle"
    BY DEF ProcessRow, Answers
  <1> HIDE DEF work
  <1>4. /\ Request(c, FALSE) \in [client : Clients, key : Nat, session : Nat, live : BOOLEAN]
        /\ Request(c, FALSE).client = c /\ Request(c, FALSE).key = process[c].key
        /\ ~Request(c, FALSE).live
    BY JournalRows DEF Request, ClientTypes, JournalRow
  <1>5. process[c].key \in 1 .. Len(journal[c].saved)
    BY <1>1, JournalRows DEF Remembered
  <1>6. Sent'
    <2> SUFFICES ASSUME NEW r \in flight'
                 PROVE  /\ r.key \in 1 .. Len(journal[r.client].saved)
                        /\ r.live => /\ process'[r.client].at = "waiting"
                                     /\ process'[r.client].key = r.key
                                     /\ journal[r.client].session = r.session
      BY <1>1 DEF Sent
    <2>1. CASE r \in rest
      BY <2>1, <1>1 DEF Sent, ClientTypes
    <2>2. CASE r = Request(c, FALSE)
      BY <2>2, <1>4, <1>5
    <2> QED BY <2>1, <2>2, <1>2
  <1>7. flight' \subseteq [client : Clients, key : Nat, session : Nat, live : BOOLEAN]
    BY <1>2, <1>4 DEF ClientTypes
  <1> QED BY <1>1, <1>3, <1>6, <1>7, ProcessStep

LEMMA RetryKeeps ==
  ASSUME DeliveryInv, NEW c \in Clients, Retry(c)
  PROVE  DeliveryInv'
  <1> DEFINE n == RetryKey(c)
             row == [journal[c] EXCEPT !.pending = n]
             work == [at |-> "saved", key |-> n, answer |-> "none"]
  <1> USE DEF DeliveryInv
  <1>1. /\ journal' = [journal EXCEPT ![c] = row]
        /\ process' = [process EXCEPT ![c] = work]
        /\ flight' = flight /\ UNCHANGED <<concluded, born>> /\ ClientFrame
        /\ process[c].at = "idle"
    BY DEF Retry, ClientFrame, history
  <1>2. n \in 1 .. Len(journal[c].saved) /\ (journal[c].pending # 0 => n = journal[c].pending)
    <2>1. journal[c].pending <= Len(journal[c].saved) /\ journal[c].last <= Len(journal[c].saved)
      BY DEF Remembered
    <2>2. RetryKey(c) \in {journal[c].pending, journal[c].last, 0} /\ RetryKey(c) # 0
      BY DEF Retry, RetryKey
    <2> QED BY <2>1, <2>2, JournalRows DEF RetryKey
  <1>3. n \in Nat /\ n >= 1 /\ n <= Len(journal[c].saved)
    BY <1>2, JournalRows
  <1>4. /\ row \in JournalRow /\ row.pending = n /\ row.last = journal[c].last
        /\ row.session = journal[c].session
        /\ row.saved = journal[c].saved
    BY <1>3, JournalRows DEF JournalRow
  <1>5. work \in ProcessRow /\ work.at = "saved" /\ work.key = n
    BY <1>3 DEF ProcessRow, Answers
  <1> HIDE DEF n, row, work
  <1>6. ClientTypes'
    BY <1>1, <1>4, <1>5 DEF ClientTypes
  <1>7. /\ journal'[c] = row /\ process'[c] = work
        /\ \A d \in Clients : /\ journal'[d].saved = journal[d].saved
                              /\ journal'[d].session = journal[d].session
        /\ \A d \in Clients : d # c => journal'[d] = journal[d] /\ process'[d] = process[d]
    BY <1>1, <1>4 DEF ClientTypes
  <1>8. Remembered'
    <2> SUFFICES ASSUME NEW d \in Clients
                 PROVE  (/\ Len(journal[d].saved) <= MaxKeys
                         /\ journal[d].pending <= Len(journal[d].saved)
                         /\ journal[d].last <= Len(journal[d].saved)
                         /\ journal[d].saved # <<>> => d \in issued
                         /\ \A m \in 1 .. Len(journal[d].saved) :
                              concluded[<<d, m>>] = "none" => journal[d].pending = m
                         /\ process[d].at # "idle" =>
                              process[d].key # 0 /\ journal[d].pending = process[d].key)'
      BY DEF Remembered
    <2>1. CASE d = c
      <3>1. \A m \in 1 .. Len(journal[c].saved) :
              concluded[<<c, m>>] = "none" => journal[c].pending = m
        BY DEF Remembered
      <3>2. \A m \in 1 .. Len(journal[c].saved) : concluded[<<c, m>>] = "none" => n = m
        BY <3>1, <1>2, JournalRows
      <3>3. /\ Len(journal[c].saved) <= MaxKeys /\ journal[c].last <= Len(journal[c].saved)
            /\ journal[c].saved # <<>> => c \in issued
        BY DEF Remembered
      <3> QED BY <2>1, <3>2, <3>3, <1>1, <1>3, <1>4, <1>5, <1>7 DEF ClientFrame
    <2>2. CASE d # c
      BY <2>2, <1>1, <1>7 DEF Remembered, ClientFrame
    <2> QED BY <2>1, <2>2
  <1>9. Sent'
    BY <1>1, <1>7 DEF Sent, ClientTypes
  <1>10. Fresh'
    BY <1>1, <1>7 DEF Fresh, Live, ClientFrame
  <1>11. \A d \in Clients : Len(journal'[d].saved) >= Len(journal[d].saved)
    BY <1>7, JournalRows
  <1> QED BY <1>1, <1>6, <1>8, <1>9, <1>10, <1>11, ClientStep

LEMMA ReplaceSessionKeeps ==
  ASSUME DeliveryInv, NEW c \in Clients, ReplaceSession(c)
  PROVE  DeliveryInv'
  <1> DEFINE row == [journal[c] EXCEPT !.session = @ + 1]
  <1> USE DEF DeliveryInv
  <1>1. /\ journal' = [journal EXCEPT ![c] = row]
        /\ UNCHANGED <<process, flight, concluded, born>> /\ ClientFrame
    BY DEF ReplaceSession, ClientFrame, history
  <1>2. /\ row \in JournalRow /\ row.pending = journal[c].pending
        /\ row.last = journal[c].last /\ row.saved = journal[c].saved
    BY JournalRows DEF JournalRow
  <1> HIDE DEF row
  <1>3. ClientTypes'
    BY <1>1, <1>2 DEF ClientTypes
  <1>4. \A d \in Clients : /\ journal'[d].saved = journal[d].saved
                           /\ journal'[d].pending = journal[d].pending
                           /\ journal'[d].last = journal[d].last
    BY <1>1, <1>2 DEF ClientTypes
  <1>5. Remembered'
    BY <1>1, <1>4 DEF Remembered, ClientFrame
  <1>6. Sent' /\ Fresh'
    <2>1. process[c].at = "idle"
      BY DEF ReplaceSession
    <2>2. \A d \in Clients : d # c => journal'[d] = journal[d]
      BY <1>1 DEF ClientTypes
    <2>3. Sent'
      BY <1>1, <1>4, <2>1, <2>2 DEF Sent, ClientTypes
    <2> QED BY <1>1, <1>4, <2>3 DEF Fresh, Live, ClientFrame, ClientTypes
  <1>7. \A d \in Clients : Len(journal'[d].saved) >= Len(journal[d].saved)
    BY <1>4, JournalRows
  <1> QED BY <1>1, <1>3, <1>5, <1>6, <1>7, ClientStep

LEMMA ReceiveKeeps ==
  ASSUME DeliveryInv, NEW c \in Clients, Receive(c)
  PROVE  DeliveryInv'
  <1> DEFINE n == process[c].key
             row == [journal[c] EXCEPT !.pending = 0, !.last = IF c \in Mcps THEN n ELSE 0]
             told == IF process[c].answer = "ok" THEN "done" ELSE "refused"
             work == [at |-> "idle", key |-> 0, answer |-> "none"]
             settled == Definitive(c, journal[c].saved[n], process[c].answer)
  <1> USE DEF DeliveryInv
  <1>1. /\ process' = [process EXCEPT ![c] = work] /\ process[c].at = "answered"
        /\ flight' = flight /\ born' = born /\ ClientFrame
        /\ \/ /\ settled
              /\ journal' = [journal EXCEPT ![c] = row]
              /\ concluded' = [concluded EXCEPT ![<<c, n>>] = told]
           \/ ~settled /\ journal' = journal /\ concluded' = concluded
    BY DEF Receive, ClientFrame
  <1>2. /\ n \in 1 .. Len(journal[c].saved) /\ journal[c].pending = n
        /\ n \in Nat /\ n <= Len(journal[c].saved)
    BY <1>1, JournalRows DEF Remembered
  <1>3. <<c, n>> \in Keys
    BY <1>2, JournalRows, ConstantTypes DEF Remembered, Keys
  <1>4. /\ row \in JournalRow /\ row.pending = 0 /\ row.last \in {0, n}
        /\ row.saved = journal[c].saved /\ row.session = journal[c].session
    BY <1>2, JournalRows DEF JournalRow
  <1>5. work \in ProcessRow /\ work.at = "idle" /\ told \in {"done", "refused"}
    BY DEF ProcessRow, Answers
  <1>6. \A r \in flight : r.client = c => ~r.live
    BY <1>1 DEF Sent
  <1> HIDE DEF n, row, told, work, settled
  <1>7. CASE settled
    <2>1. ClientTypes'
      BY <1>1, <1>3, <1>4, <1>5, <1>7 DEF ClientTypes
    <2>2. /\ journal'[c] = row /\ process'[c] = work /\ concluded'[<<c, n>>] # "none"
          /\ \A d \in Clients : /\ journal'[d].saved = journal[d].saved
                                /\ journal'[d].session = journal[d].session
          /\ \A d \in Clients : d # c => journal'[d] = journal[d] /\ process'[d] = process[d]
          /\ \A k \in Keys : k # <<c, n>> => concluded'[k] = concluded[k]
      BY <1>1, <1>3, <1>4, <1>5, <1>7 DEF ClientTypes
    <2>3. Remembered'
      <3> SUFFICES ASSUME NEW d \in Clients
                   PROVE  (/\ Len(journal[d].saved) <= MaxKeys
                           /\ journal[d].pending <= Len(journal[d].saved)
                           /\ journal[d].last <= Len(journal[d].saved)
                           /\ journal[d].saved # <<>> => d \in issued
                           /\ \A m \in 1 .. Len(journal[d].saved) :
                                concluded[<<d, m>>] = "none" => journal[d].pending = m
                           /\ process[d].at # "idle" =>
                                process[d].key # 0 /\ journal[d].pending = process[d].key)'
        BY DEF Remembered
      <3>1. Len(journal[d].saved) <= MaxKeys /\ (journal[d].saved # <<>> => d \in issued)
        BY DEF Remembered
      <3>2. \A m \in 1 .. Len(journal[d].saved) : <<d, m>> \in Keys
        BY <3>1, JournalRows, ConstantTypes DEF Keys
      <3>3. \A m \in 1 .. Len(journal[d].saved) :
              concluded[<<d, m>>] = "none" => journal[d].pending = m
        BY DEF Remembered
      <3>4. \A m \in 1 .. Len(journal'[d].saved) :
              concluded'[<<d, m>>] = "none" => journal'[d].pending = m
        <4> SUFFICES ASSUME NEW m \in 1 .. Len(journal[d].saved), concluded'[<<d, m>>] = "none"
                     PROVE  journal'[d].pending = m
          BY <2>2
        <4>1. <<d, m>> # <<c, n>> /\ concluded[<<d, m>>] = "none"
          BY <2>2, <3>2
        <4>2. journal[d].pending = m
          BY <4>1, <3>3
        <4>3. d # c
          BY <4>1, <4>2, <1>2
        <4> QED BY <4>2, <4>3, <2>2
      <3>5. CASE d = c
        BY <3>1, <3>4, <3>5, <1>1, <1>2, <1>4, <1>5, <2>2, JournalRows DEF ClientFrame
      <3>6. CASE d # c
        BY <3>4, <3>6, <1>1, <2>2 DEF Remembered, ClientFrame
      <3> QED BY <3>5, <3>6
    <2>4. Sent'
      BY <1>1, <1>6, <2>2 DEF Sent, ClientTypes
    <2>5. Fresh'
      BY <1>1, <2>2 DEF Fresh, Live, ClientFrame
    <2>6. \A d \in Clients : Len(journal'[d].saved) >= Len(journal[d].saved)
      BY <2>2, JournalRows
    <2> QED BY <1>1, <2>1, <2>3, <2>4, <2>5, <2>6, ClientStep
  <1>8. CASE ~settled
    <2>1. Sent'
      BY <1>1, <1>6, <1>8 DEF Sent, ClientTypes
    <2> QED BY <1>1, <1>5, <1>8, <2>1, ProcessStep DEF ClientTypes
  <1> QED BY <1>7, <1>8
---------------------------------------------------------------------------
(* The service, where it grants nothing.                                    *)

\* A database that has everything the present one promises, and owes no more.
Mild(d) ==
  /\ d \in Database
  /\ d.restores = db.restores /\ d.credentials = db.credentials /\ d.revoked = db.revoked
  /\ DOMAIN db.receipts \subseteq DOMAIN d.receipts
  /\ \A c \in Clients : /\ d.leases[c] \in {0, db.leases[c]}
                        /\ d.leases[c] # 0 => \E s \in d.open : s[1] = c
                        /\ d.reconciling => d.leases[c] = 0

LEMMA Expired ==
  ASSUME NEW d \in Database
  PROVE  /\ Expire(d) \in Database
         /\ Expire(d) = [d EXCEPT !.leases = [c \in Clients |-> 0]]
         /\ \A c \in Clients : Expire(d).leases[c] = 0
         /\ Expire(d).receipts = d.receipts /\ Expire(d).run = d.run
         /\ Expire(d).restores = d.restores /\ Expire(d).credentials = d.credentials
         /\ Expire(d).revoked = d.revoked
  BY DEF Expire, Database

LEMMA MildNow == ASSUME DeliveryInv PROVE Mild(db)
  BY DEF DeliveryInv, ServiceTypes, Mild, OwnerHasSession, PausedIsQuiet

LEMMA MildExpire == ASSUME DeliveryInv PROVE Mild(Expire(db))
  BY Expired DEF DeliveryInv, ServiceTypes, Mild

LEMMA PromisesLater ==
  ASSUME NEW d \in Database, NEW mark \in Nat, NEW later \in Nat, later >= mark,
         Promises(d, mark)
  PROVE  Promises(d, later)
  <1>1. /\ \A k \in DOMAIN d.receipts : d.receipts[k].created \in Int
        /\ d.run.cutoff \in Int
    BY DEF Database, Receipt
  <1> QED BY <1>1, ConstantTypes DEF Promises

\* A step of the service that grants nothing and moves its clock forward.
LEMMA MildStep ==
  ASSUME DeliveryInv, Mild(db'), Onward, Promises(db', stored'),
         UNCHANGED <<snapshot, journal, concluded, issued, born, effects, deadline>>,
         paused' => \A c \in Clients : db'.leases[c] = 0,
         ClientTypes', Remembered', Sent'
  PROVE  DeliveryInv'
  <1> USE DEF DeliveryInv
  <1>1. ServiceTypes'
    BY DEF ServiceTypes, Mild, Onward
  <1>2. Kept' /\ Known'
    BY DEF Kept, Known, Mild
  <1>3. Receipted' /\ Fresh'
    BY DEF Receipted, Fresh, Live, Mild
  <1>4. PausedIsQuiet' /\ OwnerHasSession'
    BY DEF PausedIsQuiet, OwnerHasSession, Mild
  <1>5. Granted'
    <2> SUFFICES ASSUME NEW c \in Clients, db'.leases[c] # 0
                 PROVE  /\ db'.leases[c] <= stored' + Lease
                        /\ db'.leases[c] <= deadline[c] + runtime'
                             \/ deadline[c] = MaxElapsed + Lease
      BY DEF Granted
    <2>1. db'.leases[c] = db.leases[c] /\ db.leases[c] \in Nat
      BY DEF Mild, ServiceTypes, Database
    <2>2. /\ db.leases[c] <= stored + Lease
          /\ db.leases[c] <= deadline[c] + runtime \/ deadline[c] = MaxElapsed + Lease
      BY <2>1 DEF Granted
    <2>3. /\ stored \in Nat /\ stored' \in Nat /\ runtime \in Int /\ runtime' \in Int
          /\ deadline[c] \in Int /\ stored' >= stored /\ runtime' >= runtime
      BY DEF ServiceTypes, ClockTypeOK, Onward
    <2> QED BY <2>1, <2>2, <2>3, ConstantTypes
  <1> QED BY <1>1, <1>2, <1>3, <1>4, <1>5

\* The clients do not notice most steps of the service.
LEMMA ClientsUnmoved ==
  ASSUME DeliveryInv, UNCHANGED <<journal, process, flight, concluded, issued, born>>
  PROVE  ClientTypes' /\ Remembered' /\ Sent'
  BY DEF DeliveryInv, ClientTypes, Remembered, Sent

LEMMA PromisedByNow ==
  ASSUME DeliveryInv
  PROVE  Promises(db, SafeNow) /\ Promises(Expire(db), SafeNow)
  <1>1. Promises(db, SafeNow)
    BY Sampling, PromisesLater DEF DeliveryInv, Kept, ServiceTypes, ClockTypeOK
  <1> QED BY <1>1, Expired DEF Promises, DeliveryInv, ServiceTypes

LEMMA MaintainKeeps ==
  ASSUME DeliveryInv, NEW d, Mild(d), Promises(d, SafeNow), Maintain(d)
  PROVE  DeliveryInv'
  <1> USE DEF DeliveryInv
  <1>1. /\ ~paused /\ db' = IF Rollback THEN Expire(db) ELSE d
        /\ CommitSample
        /\ UNCHANGED <<snapshot, journal, process, flight, concluded, issued, born, effects,
                       deadline>>
    BY DEF Maintain, history
  <1>2. Onward /\ stored' = SafeNow /\ (paused' <=> Rollback)
    BY <1>1, Commits
  <1>3. Mild(db') /\ Promises(db', stored')
    BY <1>1, <1>2, MildExpire, PromisedByNow
  <1>4. paused' => \A c \in Clients : db'.leases[c] = 0
    BY <1>1, <1>2, Expired DEF ServiceTypes
  <1>5. ClientTypes' /\ Remembered' /\ Sent'
    BY <1>1, ClientsUnmoved
  <1> QED BY <1>1, <1>2, <1>3, <1>4, <1>5, MildStep

LEMMA ReconcileRestoreKeeps ==
  ASSUME DeliveryInv, NEW d, Mild(d), Promises(d, SafeNow), ReconcileRestore(d)
  PROVE  DeliveryInv'
  <1> USE DEF DeliveryInv
  <1>1. /\ ~Rollback /\ db' = d /\ CommitSample /\ db.reconciling
        /\ UNCHANGED <<snapshot, journal, process, flight, concluded, issued, born, effects,
                       deadline>>
    BY DEF ReconcileRestore, history
  <1>2. Onward /\ stored' = SafeNow
    BY <1>1, Commits
  <1>3. \A c \in Clients : db'.leases[c] = 0
    BY <1>1 DEF PausedIsQuiet, Mild
  <1>4. ClientTypes' /\ Remembered' /\ Sent'
    BY <1>1, ClientsUnmoved
  <1> QED BY <1>1, <1>2, <1>3, <1>4, MildStep

LEMMA ReadKeeps ==
  ASSUME DeliveryInv, Read
  PROVE  DeliveryInv'
  <1> USE DEF DeliveryInv
  <1>1. /\ CommitSample /\ db' = IF Rollback THEN Expire(db) ELSE db
        /\ UNCHANGED <<snapshot, journal, process, flight, concluded, issued, born, effects,
                       deadline>>
    BY DEF Read, history
  <1>2. Onward /\ stored' = SafeNow /\ (paused' <=> paused \/ Rollback)
    BY <1>1, Commits
  <1>3. Mild(db') /\ Promises(db', stored')
    BY <1>1, <1>2, MildNow, MildExpire, PromisedByNow
  <1>4. paused' => \A c \in Clients : db'.leases[c] = 0
    BY <1>1, <1>2, Expired DEF ServiceTypes, PausedIsQuiet
  <1>5. ClientTypes' /\ Remembered' /\ Sent'
    BY <1>1, ClientsUnmoved
  <1> QED BY <1>1, <1>2, <1>3, <1>4, <1>5, MildStep

LEMMA RegisterSessionKeeps ==
  ASSUME DeliveryInv, NEW c \in Clients, RegisterSession(c)
  PROVE  DeliveryInv'
  <1> USE DEF DeliveryInv
  <1>1. /\ CommitSample /\ ~Rollback /\ ~paused
        /\ db' = [db EXCEPT !.open = @ \cup {<<c, journal[c].session>>}, !.activity[c] = SafeNow]
        /\ UNCHANGED <<snapshot, journal, process, flight, concluded, issued, born, effects,
                       deadline>>
    BY DEF RegisterSession, history
  <1>2. Onward /\ stored' = SafeNow /\ ~paused'
    BY <1>1, Commits
  <1>3. /\ db' \in Database /\ db'.leases = db.leases /\ db'.receipts = db.receipts
        /\ db'.run = db.run /\ db.open \subseteq db'.open /\ db'.reconciling = db.reconciling
        /\ db'.restores = db.restores /\ db'.credentials = db.credentials
        /\ db'.revoked = db.revoked
    <2>1. SafeNow \in Int /\ journal[c].session \in Nat /\ db \in Database
      BY Sampling, JournalRows DEF JournalRow, ServiceTypes
    <2> DEFINE opened == db.open \cup {<<c, journal[c].session>>}
               active == [db.activity EXCEPT ![c] = SafeNow]
    <2>2. /\ opened \in SUBSET (Clients \X Nat) /\ active \in [Clients -> Int]
          /\ db.open \subseteq opened
      BY <2>1 DEF Database
    <2>3. db' = [db EXCEPT !.open = opened, !.activity = active]
      BY <1>1, <2>1 DEF Database
    <2> HIDE DEF DeliveryInv, opened, active
    <2> QED BY <2>1, <2>2, <2>3 DEF Database
  <1>4. Mild(db')
    BY <1>3, MildNow DEF Mild
  <1>5. Promises(db', stored')
    BY <1>2, <1>3, PromisedByNow DEF Promises
  <1>6. ClientTypes' /\ Remembered' /\ Sent'
    BY <1>1, ClientsUnmoved
  <1> QED BY <1>1, <1>2, <1>4, <1>5, <1>6, MildStep

LEMMA WithRun ==
  ASSUME NEW d \in Database, NEW r \in [open : BOOLEAN, cutoff : Int]
  PROVE  LET e == [d EXCEPT !.run = r]
         IN /\ e \in Database /\ e.run = r
            /\ e.leases = d.leases /\ e.receipts = d.receipts /\ e.open = d.open
            /\ e.reconciling = d.reconciling /\ e.restores = d.restores
            /\ e.credentials = d.credentials /\ e.revoked = d.revoked
  BY DEF Database

LEMMA WithReceipts ==
  ASSUME NEW d \in Database, NEW r \in UNION {[S -> Receipt] : S \in SUBSET Keys}
  PROVE  LET e == [d EXCEPT !.receipts = r]
         IN /\ e \in Database /\ e.receipts = r
            /\ e.leases = d.leases /\ e.run = d.run /\ e.open = d.open
            /\ e.reconciling = d.reconciling /\ e.restores = d.restores
            /\ e.credentials = d.credentials /\ e.revoked = d.revoked
  BY DEF Database

LEMMA BeginRunKeeps ==
  ASSUME DeliveryInv, BeginRun
  PROVE  DeliveryInv'
  <1> DEFINE r == [open |-> TRUE, cutoff |-> SafeNow - Retention]
             d == [db EXCEPT !.run = r]
  <1>1. Maintain(d)
    BY DEF BeginRun
  <1>2. /\ d \in Database /\ d.run.cutoff = SafeNow - Retention
        /\ d.leases = db.leases /\ d.receipts = db.receipts /\ d.open = db.open
        /\ d.reconciling = db.reconciling /\ d.restores = db.restores
        /\ d.credentials = db.credentials /\ d.revoked = db.revoked
    <2>1. r \in [open : BOOLEAN, cutoff : Int] /\ r.cutoff = SafeNow - Retention
      BY Sampling, ConstantTypes DEF DeliveryInv
    <2>2. db \in Database
      BY DEF DeliveryInv, ServiceTypes
    <2> HIDE DEF r
    <2> QED BY <2>1, <2>2, WithRun
  <1>3. SafeNow - Retention <= SafeNow - Retention
    BY Sampling, ConstantTypes DEF DeliveryInv
  <1> HIDE DEF d
  <1>4. Mild(d)
    BY <1>2, MildNow DEF Mild
  <1>5. Promises(d, SafeNow)
    BY <1>2, <1>3, PromisedByNow DEF Promises
  <1> QED BY <1>1, <1>4, <1>5, MaintainKeeps

LEMMA CompleteRunKeeps ==
  ASSUME DeliveryInv, CompleteRun
  PROVE  DeliveryInv'
  <1> DEFINE d == [db EXCEPT !.run = NoRun]
  <1>1. Maintain(d)
    BY DEF CompleteRun
  <1>2. /\ d \in Database /\ ~d.run.open
        /\ d.leases = db.leases /\ d.receipts = db.receipts /\ d.open = db.open
        /\ d.reconciling = db.reconciling /\ d.restores = db.restores
        /\ d.credentials = db.credentials /\ d.revoked = db.revoked
    <2>1. NoRun \in [open : BOOLEAN, cutoff : Int] /\ ~NoRun.open
      BY DEF NoRun
    <2>2. db \in Database
      BY DEF DeliveryInv, ServiceTypes
    <2> QED BY <2>1, <2>2, WithRun
  <1> HIDE DEF d
  <1>3. Mild(d)
    BY <1>2, MildNow DEF Mild
  <1>4. Promises(d, SafeNow)
    BY <1>2, PromisedByNow DEF Promises
  <1> QED BY <1>1, <1>3, <1>4, MaintainKeeps

LEMMA CloseIdleKeeps ==
  ASSUME DeliveryInv, CloseIdle
  PROVE  DeliveryInv'
  <1> DEFINE gone == {s \in db.open : IdleSession(s)}
             d == [db EXCEPT !.open = @ \ gone, !.closed = @ \cup gone]
  <1>1. Maintain(d)
    BY DEF CloseIdle
  <1>2. gone \subseteq db.open /\ \A s \in gone : db.leases[s[1]] = 0
    BY DEF IdleSession
  <1> HIDE DEF gone
  <1>3. /\ d \in Database /\ d.run = db.run
        /\ d.leases = db.leases /\ d.receipts = db.receipts /\ d.open = db.open \ gone
        /\ d.reconciling = db.reconciling /\ d.restores = db.restores
        /\ d.credentials = db.credentials /\ d.revoked = db.revoked
    BY <1>2 DEF DeliveryInv, ServiceTypes, Database
  <1> HIDE DEF d
  <1>4. Mild(d)
    BY <1>2, <1>3, MildNow DEF Mild
  <1>5. Promises(d, SafeNow)
    BY <1>3, PromisedByNow DEF Promises
  <1> QED BY <1>1, <1>4, <1>5, MaintainKeeps

LEMMA RunBatchKeeps ==
  ASSUME DeliveryInv, RunBatch
  PROVE  DeliveryInv'
  <1>1. PICK T \in Oldest(Batch, {k \in DOMAIN db.receipts : Compactable(k)}) :
          Maintain([db EXCEPT !.receipts = Compacted(T)])
    BY DEF RunBatch
  <1> DEFINE d == [db EXCEPT !.receipts = Compacted(T)]
  <1>2. /\ db.run.open
        /\ \A k \in T : k \in DOMAIN db.receipts /\ db.receipts[k].created < db.run.cutoff
    BY DEF RunBatch, Oldest, Compactable
  <1>3. PICK S \in SUBSET Keys : db.receipts \in [S -> Receipt]
    BY DEF DeliveryInv, ServiceTypes, Database
  <1>4. /\ Compacted(T) \in [S -> Receipt] /\ DOMAIN db.receipts = S
        /\ \A k \in S : /\ Compacted(T)[k].created = db.receipts[k].created
                        /\ Compacted(T)[k].compacted => db.receipts[k].compacted \/ k \in T
    BY <1>3 DEF Compacted, Receipt
  <1>5. /\ d \in Database /\ d.receipts = Compacted(T) /\ d.run = db.run
        /\ d.leases = db.leases /\ d.open = db.open
        /\ d.reconciling = db.reconciling /\ d.restores = db.restores
        /\ d.credentials = db.credentials /\ d.revoked = db.revoked
    <2>1. Compacted(T) \in UNION {[U -> Receipt] : U \in SUBSET Keys} /\ db \in Database
      BY <1>4 DEF DeliveryInv, ServiceTypes
    <2> QED BY <2>1, WithReceipts
  <1> HIDE DEF d
  <1>6. Mild(d)
    BY <1>4, <1>5, MildNow DEF Mild
  <1>7. Promises(d, SafeNow)
    <2>1. db.run.cutoff <= SafeNow - Retention /\ db.run.cutoff \in Int
      BY <1>2, PromisedByNow DEF Promises, DeliveryInv, ServiceTypes, Database
    <2>2. \A k \in S : db.receipts[k].created \in Int
      BY <1>3 DEF Receipt
    <2>3. \A k \in T : SafeNow - db.receipts[k].created > Retention
      BY <1>2, <1>4, <2>1, <2>2, Sampling, ConstantTypes DEF DeliveryInv
    <2>4. \A k \in S : /\ db.receipts[k].created <= SafeNow
                       /\ db.receipts[k].compacted => SafeNow - db.receipts[k].created > Retention
      BY <1>4, PromisedByNow DEF Promises
    <2>5. \A k \in DOMAIN d.receipts :
            /\ d.receipts[k].created <= SafeNow
            /\ d.receipts[k].compacted => SafeNow - d.receipts[k].created > Retention
      <3> SUFFICES ASSUME NEW k \in S
                   PROVE  /\ Compacted(T)[k].created <= SafeNow
                          /\ Compacted(T)[k].compacted => SafeNow - Compacted(T)[k].created > Retention
        BY <1>4, <1>5
      <3>1. /\ Compacted(T)[k].created = db.receipts[k].created
            /\ Compacted(T)[k].compacted => db.receipts[k].compacted \/ k \in T
        BY <1>4, Zenon
      <3>2. CASE k \in T
        BY <3>1, <3>2, <2>3, <2>4
      <3>3. CASE k \notin T
        BY <3>1, <3>3, <2>4
      <3> QED BY <3>2, <3>3
    <2> QED BY <1>5, <2>1, <2>5 DEF Promises
  <1> QED BY <1>1, <1>6, <1>7, MaintainKeeps DEF d

LEMMA AttestKeeps ==
  ASSUME DeliveryInv, NEW item, Attest(item)
  PROVE  DeliveryInv'
  <1> DEFINE d == [db EXCEPT !.required = @ \ {item}]
  <1>1. ReconcileRestore(d)
    BY DEF Attest
  <1>2. /\ d \in Database /\ d.run = db.run
        /\ d.leases = db.leases /\ d.receipts = db.receipts /\ d.open = db.open
        /\ d.reconciling = db.reconciling /\ d.restores = db.restores
        /\ d.credentials = db.credentials /\ d.revoked = db.revoked
    BY DEF DeliveryInv, ServiceTypes, Database
  <1> HIDE DEF d
  <1>3. Mild(d)
    BY <1>2, MildNow DEF Mild
  <1>4. Promises(d, SafeNow)
    BY <1>2, PromisedByNow DEF Promises
  <1> QED BY <1>1, <1>3, <1>4, ReconcileRestoreKeeps

LEMMA FinishRestoreKeeps ==
  ASSUME DeliveryInv, FinishRestore
  PROVE  DeliveryInv'
  <1> DEFINE d == [db EXCEPT !.reconciling = FALSE]
  <1>1. ReconcileRestore(d)
    BY DEF FinishRestore
  <1>2. /\ d \in Database /\ d.run = db.run
        /\ d.leases = db.leases /\ d.receipts = db.receipts /\ d.open = db.open
        /\ d.reconciling = FALSE /\ d.restores = db.restores
        /\ d.credentials = db.credentials /\ d.revoked = db.revoked
    BY DEF DeliveryInv, ServiceTypes, Database
  <1> HIDE DEF d
  <1>3. Mild(d)
    BY <1>2, MildNow DEF Mild
  <1>4. Promises(d, SafeNow)
    BY <1>2, PromisedByNow DEF Promises
  <1> QED BY <1>1, <1>3, <1>4, ReconcileRestoreKeeps

---------------------------------------------------------------------------
(* Time, restarts and backups.                                              *)

LEMMA ClockStepKeeps ==
  ASSUME DeliveryInv, Onward, UNCHANGED deliveryVars, paused' => paused
  PROVE  DeliveryInv'
  <1> USE DEF DeliveryInv
  <1>1. UNCHANGED <<db, snapshot, journal, process, flight, concluded, issued, born, effects,
                    deadline>>
    BY DEF deliveryVars
  <1>2. Mild(db')
    BY <1>1, MildNow DEF Mild
  <1>3. Promises(db', stored')
    BY <1>1, PromisesLater DEF Kept, ServiceTypes, ClockTypeOK, Onward
  <1>4. paused' => \A c \in Clients : db'.leases[c] = 0
    BY <1>1 DEF PausedIsQuiet
  <1>5. ClientTypes' /\ Remembered' /\ Sent'
    BY <1>1, ClientsUnmoved
  <1> QED BY <1>1, <1>2, <1>3, <1>4, <1>5, MildStep

LEMMA ClockMoves ==
  ASSUME DeliveryInv,
         \/ \E i \in 1 .. incident : ReconcileClock(i)
         \/ RecoverClock \/ Elapse \/ \E s \in Skews : StepWallClock(s)
  PROVE  Onward /\ (paused' => paused)
  <1> USE DEF DeliveryInv, Onward, ClockTypeOK
  <1>1. /\ elapsed \in Nat /\ stored \in Nat /\ incident \in Nat /\ runtime \in Int
        /\ skew \in Skews /\ skew \in Nat /\ elapsed <= MaxElapsed /\ Raw \in Nat
    BY ConstantTypes DEF ServiceTypes, Raw
  <1>2. ASSUME NEW i, ReconcileClock(i) PROVE Onward /\ (paused' => paused)
    <2>1. /\ elapsed' = elapsed /\ skew' = skew /\ incident' = incident /\ ~paused'
          /\ stored' = Raw /\ runtime' = Raw - elapsed /\ Raw >= SafeNow
      BY <1>2 DEF ReconcileClock, Started
    <2>2. stored' \in Nat /\ runtime' \in Int /\ stored' >= stored /\ runtime' >= runtime
      BY <1>1, <2>1, Sampling
    <2>3. paused' \in BOOLEAN
      BY <1>2 DEF ReconcileClock
    <2> QED BY <1>1, <2>1, <2>2, <2>3
  <1>3. CASE RecoverClock
    <2>1. /\ elapsed' = elapsed /\ skew' = skew /\ incident' = incident /\ ~paused'
          /\ stored' = Raw /\ runtime' = runtime /\ Raw >= stored
      BY <1>3 DEF RecoverClock
    <2>2. paused' \in BOOLEAN
      BY <1>3 DEF RecoverClock
    <2> QED BY <1>1, <2>1, <2>2
  <1>4. CASE Elapse
    BY <1>1, <1>4, ConstantTypes DEF Elapse, ServiceTypes
  <1>5. ASSUME NEW s \in Skews, StepWallClock(s) PROVE Onward /\ (paused' => paused)
    BY <1>1, <1>5 DEF StepWallClock, ServiceTypes
  <1> QED BY <1>2, <1>3, <1>4, <1>5

LEMMA RestartKeeps ==
  ASSUME DeliveryInv, Restart
  PROVE  DeliveryInv'
  <1> USE DEF DeliveryInv
  <1>1. /\ runtime' = stored - elapsed /\ deadline' = [c \in Clients |-> MaxElapsed + Lease]
        /\ UNCHANGED <<elapsed, skew, stored, paused, incident, db, snapshot, journal, process,
                       flight, concluded, issued, born, effects>>
    BY DEF Restart, OpenService, Started, history
  <1>2. ServiceTypes'
    BY <1>1, ConstantTypes DEF ServiceTypes, ClockTypeOK
  <1>3. ClientTypes' /\ Remembered' /\ Sent'
    BY <1>1, ClientsUnmoved
  <1>4. Kept' /\ Known' /\ Receipted' /\ Fresh' /\ PausedIsQuiet' /\ OwnerHasSession'
    BY <1>1 DEF Kept, Known, Receipted, Fresh, Live, PausedIsQuiet, OwnerHasSession
  <1>5. Granted'
    BY <1>1 DEF Granted
  <1> QED BY <1>2, <1>3, <1>4, <1>5

LEMMA TakeBackupKeeps ==
  ASSUME DeliveryInv, TakeBackup
  PROVE  DeliveryInv'
  <1> DEFINE b == [db |-> db, stored |-> stored, paused |-> paused]
  <1> USE DEF DeliveryInv
  <1>1. /\ snapshot' = <<b>>
        /\ UNCHANGED <<clockVars, db, journal, process, flight, concluded, issued, born, effects,
                       deadline>>
    BY DEF TakeBackup, history
  <1>2. b \in Backup
    BY DEF ServiceTypes, ClockTypeOK, Backup
  <1>3. b.db = db /\ b.stored = stored
    OBVIOUS
  <1> HIDE DEF b
  <1>4. /\ snapshot' \in Seq(Backup) /\ Len(snapshot') <= 1
        /\ DOMAIN snapshot' = {1} /\ snapshot'[1] = b
    BY <1>1, <1>2
  <1>5. ServiceTypes'
    BY <1>1, <1>4 DEF ServiceTypes, ClockTypeOK, clockVars
  <1>6. ClientTypes' /\ Remembered' /\ Sent'
    BY <1>1, ClientsUnmoved
  <1>7. Kept' /\ Known'
    BY <1>1, <1>3, <1>4 DEF Kept, Known, clockVars
  <1>8. Receipted' /\ Fresh' /\ PausedIsQuiet' /\ OwnerHasSession' /\ Granted'
    BY <1>1 DEF Receipted, Fresh, Live, PausedIsQuiet, OwnerHasSession, Granted, clockVars
  <1> QED BY <1>5, <1>6, <1>7, <1>8

LEMMA WithCredential ==
  ASSUME NEW d \in Database, NEW c \in Clients
  PROVE  LET e == [d EXCEPT !.credentials = @ \cup {c}]
         IN /\ e \in Database /\ e.credentials = d.credentials \cup {c}
            /\ e.leases = d.leases /\ e.run = d.run /\ e.open = d.open
            /\ e.reconciling = d.reconciling /\ e.restores = d.restores
            /\ e.receipts = d.receipts /\ e.revoked = d.revoked
  BY DEF Database

LEMMA IssueCredentialKeeps ==
  ASSUME DeliveryInv, NEW c \in Clients, IssueCredential(c)
  PROVE  DeliveryInv'
  <1> USE DEF DeliveryInv
  <1>1. /\ c \notin issued /\ issued' = issued \cup {c} /\ ~Rollback /\ ~paused
        /\ db' = [db EXCEPT !.credentials = @ \cup {c}] /\ CommitSample
        /\ UNCHANGED <<snapshot, journal, process, flight, concluded, born, effects, deadline>>
    BY DEF IssueCredential
  <1>2. Onward /\ stored' = SafeNow /\ ~paused'
    BY <1>1, Commits
  <1>3. /\ db' \in Database /\ db'.credentials = db.credentials \cup {c}
        /\ db'.leases = db.leases /\ db'.run = db.run /\ db'.open = db.open
        /\ db'.reconciling = db.reconciling /\ db'.restores = db.restores
        /\ db'.receipts = db.receipts /\ db'.revoked = db.revoked
    BY <1>1, WithCredential DEF ServiceTypes
  <1>4. ServiceTypes'
    BY <1>1, <1>2, <1>3 DEF ServiceTypes, Onward
  <1>5. ClientTypes' /\ Remembered' /\ Sent'
    BY <1>1 DEF ClientTypes, Remembered, Sent
  <1>6. Kept' /\ Known'
    BY <1>1, <1>2, <1>3, PromisedByNow DEF Kept, Known, Promises
  <1>7. journal[c].saved = <<>>
    BY <1>1 DEF Remembered
  <1>8. Receipted'
    <2> SUFFICES ASSUME NEW k \in Keys, effects[k] # 0
                 PROVE  /\ effects[k] = 1
                        /\ k[2] <= Len(journal[k[1]].saved)
                        /\ k \in DOMAIN db.receipts \/ ~(k[1] \in db'.credentials \ db'.revoked)
      BY <1>1, <1>3 DEF Receipted, Live
    <2>1. k[1] \in Clients /\ k[2] \in 1 .. MaxKeys
      BY DEF Keys
    <2>2. /\ effects[k] = 1 /\ k[2] <= Len(journal[k[1]].saved)
          /\ k \in DOMAIN db.receipts \/ ~Live(k[1])
      BY DEF Receipted
    <2>3. k[1] # c
      BY <1>7, <2>1, <2>2
    <2> QED BY <1>3, <2>2, <2>3 DEF Live
  <1>9. Fresh'
    BY <1>1, <1>3, <1>7 DEF Fresh, Live
  <1>10. PausedIsQuiet' /\ OwnerHasSession'
    BY <1>2, <1>3 DEF PausedIsQuiet, OwnerHasSession
  <1>11. Granted'
    <2> SUFFICES ASSUME NEW d \in Clients, db.leases[d] # 0
                 PROVE  /\ db.leases[d] <= stored' + Lease
                        /\ db.leases[d] <= deadline[d] + runtime'
                             \/ deadline[d] = MaxElapsed + Lease
      BY <1>1, <1>3 DEF Granted
    <2>1. /\ db.leases[d] <= stored + Lease
          /\ db.leases[d] <= deadline[d] + runtime \/ deadline[d] = MaxElapsed + Lease
      BY DEF Granted
    <2>2. /\ stored \in Nat /\ stored' \in Nat /\ runtime \in Int /\ runtime' \in Int
          /\ deadline[d] \in Int /\ stored' >= stored /\ runtime' >= runtime
          /\ db.leases[d] \in Nat
      BY <1>2 DEF ServiceTypes, ClockTypeOK, Onward, Database
    <2> QED BY <2>1, <2>2, ConstantTypes
  <1> QED BY <1>4, <1>5, <1>6, <1>8, <1>9, <1>10, <1>11

LEMMA Voided ==
  ASSUME NEW d \in Database, db \in Database
  PROVE  /\ Invalidated(d) \in Database
         /\ Invalidated(d).receipts = d.receipts /\ Invalidated(d).run = d.run
         /\ Invalidated(d).credentials = d.credentials
         /\ d.credentials \subseteq Invalidated(d).revoked
         /\ \A c \in Clients : Invalidated(d).leases[c] = 0
  <1> DEFINE e == Expire(d)
             required == {"old_installation", "gap"} \cup {c \in Clients : d.leases[c] # 0}
             revoked == d.revoked \cup d.credentials
             closed == d.closed \cup d.open
             restores == db.restores + 1
  <1>1. Invalidated(d) = [e EXCEPT !.restores = restores, !.reconciling = TRUE,
                                   !.required = required, !.revoked = revoked, !.open = {},
                                   !.closed = closed]
    BY Expired DEF Invalidated, Required, Database, Expire
  <1>2. /\ restores \in Nat /\ revoked \in SUBSET Clients /\ d.credentials \subseteq revoked
        /\ closed \in SUBSET (Clients \X Nat)
        /\ required \in SUBSET (Clients \cup {"old_installation", "gap"})
    BY DEF Database
  <1>3. e \in Database /\ e.receipts = d.receipts /\ e.run = d.run
        /\ e.credentials = d.credentials /\ \A c \in Clients : e.leases[c] = 0
    BY Expired
  <1> HIDE DEF e, required, revoked, closed, restores
  <1>4. Invalidated(d) \in Database
    <2>1. Invalidated(d) =
            [restores |-> restores, reconciling |-> TRUE, required |-> required,
             credentials |-> e.credentials, revoked |-> revoked, open |-> {}, closed |-> closed,
             activity |-> e.activity, leases |-> e.leases, receipts |-> e.receipts, run |-> e.run]
      BY <1>1, <1>3 DEF Database
    <2>2. /\ e.credentials \in SUBSET Clients /\ e.activity \in [Clients -> Int]
          /\ e.leases \in [Clients -> Nat]
          /\ e.receipts \in UNION {[S -> Receipt] : S \in SUBSET Keys}
          /\ e.run \in [open : BOOLEAN, cutoff : Int]
      BY <1>3 DEF Database
    <2> HIDE DEF Invalidated
    <2> QED BY <1>2, <2>1, <2>2 DEF Database
  <1>5. /\ Invalidated(d).receipts = e.receipts /\ Invalidated(d).run = e.run
        /\ Invalidated(d).credentials = e.credentials /\ Invalidated(d).leases = e.leases
        /\ Invalidated(d).revoked = revoked
    BY <1>1, <1>3 DEF Database
  <1> QED BY <1>2, <1>3, <1>4, <1>5

LEMMA RestoreBackupKeeps ==
  ASSUME DeliveryInv, RestoreBackup
  PROVE  DeliveryInv'
  <1> DEFINE b == snapshot[1]
  <1> USE DEF DeliveryInv
  <1>1. /\ snapshot # <<>> /\ db' = Invalidated(b.db) /\ stored' = Later(b.stored, Raw)
        /\ paused' = (b.paused \/ Raw + Tolerance < b.stored)
        /\ incident' = IF paused' /\ ~b.paused THEN incident + 1 ELSE incident
        /\ runtime' = stored' - elapsed
        /\ deadline' = [c \in Clients |-> MaxElapsed + Lease]
        /\ UNCHANGED <<elapsed, skew, snapshot, journal, process, flight, effects, concluded,
                       issued, born>>
    BY DEF RestoreBackup, Started, history
  <1>2. b \in Backup /\ 1 \in DOMAIN snapshot
    BY <1>1 DEF ServiceTypes
  <1>3. b.db \in Database /\ b.stored \in Nat /\ b.paused \in BOOLEAN
    BY <1>2 DEF Backup
  <1> HIDE DEF b
  <1>4. /\ db' \in Database /\ db'.receipts = b.db.receipts /\ db'.run = b.db.run
        /\ db'.credentials = b.db.credentials /\ b.db.credentials \subseteq db'.revoked
        /\ \A c \in Clients : db'.leases[c] = 0
    BY <1>1, <1>3, Voided DEF ServiceTypes
  <1>5. stored' \in Nat /\ stored' >= b.stored
    BY <1>1, <1>3, ConstantTypes DEF ServiceTypes, ClockTypeOK, Later, Raw
  <1>6. ServiceTypes'
    <2>1. paused' \in BOOLEAN /\ incident' \in Nat /\ runtime' \in Int
      BY <1>1, <1>3, <1>5 DEF ServiceTypes, ClockTypeOK
    <2>2. ClockTypeOK'
      BY <1>1, <1>5, <2>1 DEF ServiceTypes, ClockTypeOK
    <2>3. deadline' \in [Clients -> Int]
      BY <1>1, ConstantTypes
    <2> QED BY <1>1, <1>4, <2>2, <2>3 DEF ServiceTypes
  <1>7. ClientTypes' /\ Remembered' /\ Sent'
    BY <1>1, ClientsUnmoved
  <1>8. Kept'
    <2>1. Promises(b.db, b.stored)
      BY <1>2 DEF Kept, b
    <2>2. Promises(b.db, stored')
      BY <1>3, <1>5, <2>1, PromisesLater
    <2>3. Promises(db, stored)'
      BY <1>4, <2>2 DEF Promises
    <2> QED BY <1>1, <2>3 DEF Kept
  <1>9. Known'
    BY <1>1, <1>2, <1>4 DEF Known, b
  <1>10. Receipted' /\ Fresh'
    BY <1>1, <1>4 DEF Receipted, Fresh, Live
  <1>11. PausedIsQuiet' /\ OwnerHasSession' /\ Granted'
    BY <1>4 DEF PausedIsQuiet, OwnerHasSession, Granted
  <1> QED BY <1>6, <1>7, <1>8, <1>9, <1>10, <1>11

---------------------------------------------------------------------------
(* The service answers a request.                                           *)

\* The answer reaches its client, if it still waits.
LEMMA Answering ==
  ASSUME DeliveryInv, NEW r \in flight, NEW answer \in Answers,
         flight' = flight \ {r},
         process' = IF r.live THEN [process EXCEPT ![r.client].at = "answered",
                                                   ![r.client].answer = answer]
                    ELSE process,
         UNCHANGED <<journal, concluded, issued, born>>
  PROVE  ClientTypes' /\ Remembered' /\ Sent'
  <1> USE DEF DeliveryInv
  <1> DEFINE c == r.client
             work == [process[c] EXCEPT !.at = "answered", !.answer = answer]
  <1>1. c \in Clients /\ r \in [client : Clients, key : Nat, session : Nat, live : BOOLEAN]
    BY DEF ClientTypes
  <1>2. /\ work \in ProcessRow /\ work.at = "answered" /\ work.key = process[c].key
    BY <1>1, JournalRows DEF ProcessRow
  <1>3. process' = IF r.live THEN [process EXCEPT ![c] = work] ELSE process
    BY <1>1 DEF ClientTypes
  <1>4. r.live => process[c].at = "waiting"
    BY DEF Sent
  <1> HIDE DEF c, work
  <1>5. ClientTypes'
    BY <1>1, <1>2, <1>3 DEF ClientTypes
  <1>6. Remembered'
    BY <1>1, <1>2, <1>3, <1>4 DEF Remembered, ClientTypes
  <1>7. Sent'
    <2> SUFFICES ASSUME NEW q \in flight, q # r, q.live
                 PROVE  /\ process'[q.client].at = "waiting" /\ process'[q.client].key = q.key
      BY DEF Sent
    <2>1. q \in [client : Clients, key : Nat, session : Nat, live : BOOLEAN]
      BY DEF ClientTypes
    <2>2. /\ process[q.client].at = "waiting" /\ process[q.client].key = q.key
          /\ journal[q.client].session = q.session
      BY DEF Sent
    <2>3. CASE r.live /\ q.client = c
      <3>1. q.client = r.client /\ q.key = r.key /\ q.session = r.session /\ q.live = r.live
        BY <1>1, <2>1, <2>2, <2>3 DEF Sent, c
      <3> QED BY <1>1, <2>1, <3>1
    <2>4. CASE ~(r.live /\ q.client = c)
      BY <1>3, <2>1, <2>2, <2>4 DEF ClientTypes
    <2> QED BY <2>3, <2>4
  <1> QED BY <1>5, <1>6, <1>7

\* An answer without an effect: a refusal, a replay, or the detection of a rollback.
LEMMA NothingDone ==
  ASSUME DeliveryInv, UNCHANGED <<snapshot, journal, concluded, issued, born>>,
         \/ Rollback /\ CommitSample /\ db' = Expire(db) /\ UNCHANGED <<effects, deadline>>
         \/ Unchanged,
         ClientTypes', Remembered', Sent'
  PROVE  DeliveryInv'
  <1> USE DEF DeliveryInv
  <1>1. CASE Unchanged
    <2>1. Onward /\ stored' = stored /\ paused' = paused /\ db' = db
          /\ UNCHANGED <<effects, deadline>>
      BY <1>1, Abandons DEF Unchanged
    <2>2. Mild(db')
      BY <2>1, MildNow DEF Mild
    <2> QED BY <2>1, <2>2, MildStep DEF Kept, PausedIsQuiet
  <1>2. CASE Rollback /\ CommitSample /\ db' = Expire(db) /\ UNCHANGED <<effects, deadline>>
    <2>1. Onward /\ stored' = SafeNow
      BY <1>2, Commits
    <2>2. Mild(db') /\ Promises(db', stored')
      BY <1>2, <2>1, MildExpire, PromisedByNow
    <2>3. \A c \in Clients : db'.leases[c] = 0
      BY <1>2, Expired DEF ServiceTypes
    <2> QED BY <1>2, <2>1, <2>2, <2>3, MildStep
  <1> QED BY <1>1, <1>2

\* The effect and its receipt, in one transaction.
LEMMA Finished ==
  ASSUME ServiceTypes, NEW k \in Keys, NEW op, Finish(k, op)
  PROVE  /\ db' \in Database
         /\ db'.open = db.open /\ db'.run = db.run /\ db'.reconciling = db.reconciling
         /\ db'.restores = db.restores /\ db'.credentials = db.credentials
         /\ db'.revoked = db.revoked
         /\ db'.leases = [db.leases EXCEPT ![k[1]] = IF op = "release" THEN 0 ELSE SafeNow + Lease]
         /\ DOMAIN db'.receipts = DOMAIN db.receipts \cup {k}
         /\ db'.receipts[k].created = SafeNow /\ ~db'.receipts[k].compacted
         /\ \A l \in DOMAIN db.receipts : l # k => db'.receipts[l] = db.receipts[l]
  <1> DEFINE receipt == [epoch |-> db.restores, created |-> SafeNow, compacted |-> FALSE]
             receipts == [l \in DOMAIN db.receipts \cup {k} |->
                            IF l = k THEN receipt ELSE db.receipts[l]]
             until == IF op = "release" THEN 0 ELSE SafeNow + Lease
             leases == [db.leases EXCEPT ![k[1]] = until]
             activity == [db.activity EXCEPT ![k[1]] = SafeNow]
  <1>1. db' = [db EXCEPT !.leases = leases, !.activity = activity, !.receipts = receipts]
    BY DEF Finish, Applied, Recorded, ServiceTypes, Database
  <1>2. PICK S \in SUBSET Keys : db.receipts \in [S -> Receipt]
    BY DEF ServiceTypes, Database
  <1>3. receipt \in Receipt /\ receipt.created = SafeNow /\ ~receipt.compacted
    BY SMTT(30), Sampling DEF Receipt, ServiceTypes, Database
  <1> HIDE DEF receipt
  <1>4. /\ receipts \in [S \cup {k} -> Receipt] /\ receipts[k] = receipt
        /\ \A l \in S : l # k => receipts[l] = db.receipts[l]
    BY <1>2, <1>3
  <1>5. leases \in [Clients -> Nat] /\ activity \in [Clients -> Int]
    <2>1. db.leases \in [Clients -> Nat] /\ db.activity \in [Clients -> Int]
      BY DEF ServiceTypes, Database
    <2>2. SafeNow \in Nat /\ SafeNow + Lease \in Nat
      BY Sampling, ConstantTypes
    <2>3. until \in Nat
      BY <2>2
    <2> HIDE DEF until
    <2>4. leases \in [Clients -> Nat]
      BY <2>1, <2>3
    <2>5. SafeNow \in Int
      BY <2>2
    <2>6. activity \in [Clients -> Int]
      BY <2>1, <2>5, Zenon
    <2> QED BY <2>4, <2>6
  <1>6. receipts \in UNION {[U -> Receipt] : U \in SUBSET Keys} /\ DOMAIN receipts = S \cup {k}
    BY <1>4
  <1> HIDE DEF receipts, leases, activity, until
  <1>7. db' \in Database
    BY <1>1, <1>5, <1>6 DEF ServiceTypes, Database
  <1>8. /\ db'.open = db.open /\ db'.run = db.run /\ db'.reconciling = db.reconciling
        /\ db'.restores = db.restores /\ db'.credentials = db.credentials
        /\ db'.revoked = db.revoked /\ db'.leases = leases /\ db'.receipts = receipts
    BY <1>1 DEF ServiceTypes, Database
  <1> QED BY <1>2, <1>3, <1>4, <1>6, <1>7, <1>8 DEF leases, until

\* What the service checks before it lets a mutation take effect.
Granting(r, op) ==
  /\ Verified(r) /\ Authority(op) /\ ~Rollback
  /\ <<r.client, r.key>> \notin DOMAIN db.receipts

LEMMA FinishKeeps ==
  ASSUME DeliveryInv, NEW r \in flight, NEW op, Granting(r, op),
         Finish(<<r.client, r.key>>, op),
         UNCHANGED <<snapshot, journal, concluded, issued, born>>,
         ClientTypes', Remembered', Sent'
  PROVE  DeliveryInv'
  <1> USE DEF DeliveryInv
  <1> DEFINE c == r.client
             k == <<r.client, r.key>>
             until == IF op = "release" THEN 0 ELSE SafeNow + Lease
  <1>1. c \in Clients /\ r.key \in Nat /\ r.key >= 1 /\ r.key <= Len(journal[c].saved)
    BY JournalRows DEF ClientTypes, Sent
  <1>2. k \in Keys /\ k[1] = c /\ k[2] = r.key
    BY <1>1, JournalRows, ConstantTypes DEF Remembered, Keys
  <1>3. Onward /\ stored' = SafeNow /\ elapsed + runtime' >= stored' /\ (paused' <=> paused)
        /\ elapsed' = elapsed
    BY Commits DEF Finish, Granting, CommitSample
  <1>4. /\ effects' = [effects EXCEPT ![k] = @ + 1]
        /\ deadline' = [deadline EXCEPT ![c] = IF op = "release" THEN @ ELSE elapsed + Lease]
    BY DEF Finish
  <1>5. /\ db' \in Database
        /\ db'.open = db.open /\ db'.run = db.run /\ db'.reconciling = db.reconciling
        /\ db'.restores = db.restores /\ db'.credentials = db.credentials
        /\ db'.revoked = db.revoked
        /\ db'.leases = [db.leases EXCEPT ![c] = until]
        /\ DOMAIN db'.receipts = DOMAIN db.receipts \cup {k}
        /\ db'.receipts[k].created = SafeNow /\ ~db'.receipts[k].compacted
        /\ \A l \in DOMAIN db.receipts : l # k => db'.receipts[l] = db.receipts[l]
    BY <1>2, Finished
  <1>6. until \in Nat /\ (op = "release" => until = 0) /\ until <= SafeNow + Lease
    BY Sampling, ConstantTypes
  <1>7. /\ \A d \in Clients : db'.leases[d] = IF d = c THEN until ELSE db.leases[d]
        /\ db.leases \in [Clients -> Nat]
    <2>1. db.leases \in [Clients -> Nat]
      BY DEF ServiceTypes, Database
    <2> HIDE DEF until, c, k
    <2> QED BY <1>1, <1>5, <2>1 DEF c
  <1>8. /\ k \notin DOMAIN db.receipts /\ Live(c)
        /\ <<c, r.session>> \in db.open
        /\ ~db.reconciling /\ (paused => op = "release")
    BY DEF Granting, Verified, Authority, AllowedDuringRestore, AllowedDuringClockReconciliation,
           Live
  <1> HIDE DEF c, k
  <1>9. ServiceTypes'
    <2>1. effects' \in [Keys -> Nat]
      BY <1>2, <1>4 DEF ServiceTypes
    <2>2. elapsed + Lease \in Int /\ deadline \in [Clients -> Int]
      BY ConstantTypes DEF ServiceTypes, ClockTypeOK
    <2>3. deadline' \in [Clients -> Int]
      BY <1>4, <2>2
    <2> QED BY <1>3, <1>5, <2>1, <2>3 DEF ServiceTypes, Onward
  <1>10. Kept'
    <2>1. SafeNow <= SafeNow
      BY Sampling
    <2>2. Promises(db', SafeNow)
      BY <1>5, <2>1, PromisedByNow DEF Promises
    <2> QED BY <1>3, <2>2 DEF Kept
  <1>11. Known' /\ Fresh'
    BY <1>5 DEF Known, Fresh, Live
  <1>12. Receipted'
    <2> SUFFICES ASSUME NEW l \in Keys, effects'[l] # 0
                 PROVE  /\ effects'[l] = 1
                        /\ l[2] <= Len(journal[l[1]].saved)
                        /\ l \in DOMAIN db.receipts \cup {k} \/ ~Live(l[1])
      BY <1>5 DEF Receipted, Live
    <2>1. CASE l = k
      <3>1. effects[k] = 0
        BY <1>2, <1>8 DEF Receipted
      <3>2. effects'[k] = 1
        BY <1>2, <1>4, <3>1 DEF ServiceTypes
      <3> QED BY <1>1, <1>2, <2>1, <3>2
    <2>2. CASE l # k
      BY <1>4, <2>2 DEF Receipted, ServiceTypes
    <2> QED BY <2>1, <2>2
  <1>13. PausedIsQuiet'
    BY <1>3, <1>5, <1>6, <1>7, <1>8 DEF PausedIsQuiet
  <1>14. OwnerHasSession'
    <2>1. \E s \in db.open : s[1] = c
      BY <1>8
    <2> QED BY <1>5, <1>7, <2>1 DEF OwnerHasSession
  <1>15. Granted'
    <2> SUFFICES ASSUME NEW d \in Clients, db'.leases[d] # 0
                 PROVE  /\ db'.leases[d] <= stored' + Lease
                        /\ db'.leases[d] <= deadline'[d] + runtime'
                             \/ deadline'[d] = MaxElapsed + Lease
      BY DEF Granted
    <2>1. /\ stored \in Nat /\ stored' \in Nat /\ runtime \in Int /\ runtime' \in Int
          /\ elapsed \in Nat /\ deadline[d] \in Int /\ stored' >= stored /\ runtime' >= runtime
          /\ deadline \in [Clients -> Int]
      BY <1>3 DEF ServiceTypes, ClockTypeOK, Onward
    <2>2. CASE d = c
      <3>1. db'.leases[d] = SafeNow + Lease /\ op # "release"
        BY <1>7, <2>2
      <3>2. deadline'[d] = elapsed + Lease
        BY <1>4, <2>1, <2>2, <3>1
      <3>3. SafeNow \in Nat /\ Lease \in Nat
        BY Sampling, ConstantTypes
      <3>4. stored' = SafeNow /\ elapsed + runtime' >= SafeNow
        BY <1>3
      <3>5. db'.leases[d] <= stored' + Lease
        BY <2>1, <3>1, <3>3, <3>4
      <3>6. SafeNow + Lease <= (elapsed + Lease) + runtime'
        <4> DEFINE s == SafeNow
                   e == elapsed
                   n == runtime'
        <4> HIDE DEF DeliveryInv
        <4>0. s \in Int /\ Lease \in Int
          BY <3>3
        <4>1. e \in Int /\ n \in Int
          BY <2>1
        <4>3. e + n >= s
          BY <3>4
        <4> HIDE DEF s, e, n
        <4>2. s + Lease <= (e + Lease) + n
          BY <4>0, <4>1, <4>3
        <4> QED BY <4>2 DEF s, e, n
      <3> QED BY <3>1, <3>2, <3>5, <3>6
    <2>3. CASE d # c
      <3>1. db'.leases[d] = db.leases[d] /\ db.leases[d] \in Nat
        BY <1>7, <2>3
      <3>2. deadline'[d] = deadline[d]
        BY <1>4, <2>1, <2>3
      <3>3. /\ db.leases[d] <= stored + Lease
            /\ db.leases[d] <= deadline[d] + runtime \/ deadline[d] = MaxElapsed + Lease
        BY <3>1 DEF Granted
      <3> QED BY <2>1, <3>1, <3>2, <3>3, ConstantTypes
    <2> QED BY <2>2, <2>3
  <1> QED BY <1>9, <1>10, <1>11, <1>12, <1>13, <1>14, <1>15

LEMMA HandleKeeps ==
  ASSUME DeliveryInv, NEW r \in flight, Handle(r)
  PROVE  DeliveryInv'
  <1>1. PICK answer \in {"ok", "refused", "conflict", "busy"} :
          /\ Handled(r, answer)
          /\ process' = IF r.live THEN [process EXCEPT ![r.client].at = "answered",
                                                       ![r.client].answer = answer]
                        ELSE process
    BY DEF Handle
  <1>2. /\ flight' = flight \ {r}
        /\ UNCHANGED <<snapshot, journal, concluded, issued, born>>
    BY DEF Handle
  <1>3. ClientTypes' /\ Remembered' /\ Sent'
    BY <1>1, <1>2, Answering DEF Answers
  <1> DEFINE op == journal[r.client].saved[r.key]
  <1>4. \/ Rollback /\ CommitSample /\ db' = Expire(db) /\ UNCHANGED <<effects, deadline>>
        \/ Unchanged
        \/ Granting(r, op) /\ Finish(<<r.client, r.key>>, op)
    BY <1>1 DEF Handled, Granting
  <1> HIDE DEF op
  <1>5. CASE Granting(r, op) /\ Finish(<<r.client, r.key>>, op)
    BY <1>2, <1>3, <1>5, FinishKeeps
  <1>6. CASE \/ Rollback /\ CommitSample /\ db' = Expire(db) /\ UNCHANGED <<effects, deadline>>
             \/ Unchanged
    BY <1>2, <1>3, <1>6, NothingDone
  <1> QED BY <1>4, <1>5, <1>6

---------------------------------------------------------------------------
(* Every step.                                                              *)

LEMMA StepKeeps == DeliveryInv /\ Step => DeliveryInv'
  <1> SUFFICES ASSUME DeliveryInv, Step PROVE DeliveryInv'
    OBVIOUS
  <1>1. ASSUME NEW c \in Clients, NEW op \in Operations, Save(c, op) PROVE DeliveryInv'
    BY <1>1, SaveKeeps
  <1>2. ASSUME NEW c \in Clients, Retry(c) PROVE DeliveryInv'
    BY <1>2, RetryKeeps
  <1>3. ASSUME NEW c \in Clients, Send(c) PROVE DeliveryInv'
    BY <1>3, SendKeeps
  <1>4. ASSUME NEW c \in Clients, GiveUp(c) PROVE DeliveryInv'
    BY <1>4, GiveUpKeeps
  <1>5. ASSUME NEW c \in Clients, Receive(c) PROVE DeliveryInv'
    BY <1>5, ReceiveKeeps
  <1>6. ASSUME NEW c \in Clients, ReplaceSession(c) PROVE DeliveryInv'
    BY <1>6, ReplaceSessionKeeps
  <1>7. ASSUME NEW c \in Clients, IssueCredential(c) PROVE DeliveryInv'
    BY <1>7, IssueCredentialKeeps
  <1>8. ASSUME NEW c \in Clients, RegisterSession(c) PROVE DeliveryInv'
    BY <1>8, RegisterSessionKeeps
  <1>9. ASSUME NEW r \in flight, Handle(r) PROVE DeliveryInv'
    BY <1>9, HandleKeeps
  <1>10. CASE Read
    BY <1>10, ReadKeeps
  <1>11. CASE Recover
    BY <1>11, ClockMoves, ClockStepKeeps DEF Recover
  <1>12. ASSUME NEW i \in 1 .. incident, Reconcile(i) PROVE DeliveryInv'
    BY <1>12, ClockMoves, ClockStepKeeps DEF Reconcile
  <1>13. CASE RunBatch
    BY <1>13, RunBatchKeeps
  <1>14. CASE CloseIdle
    BY <1>14, CloseIdleKeeps
  <1>15. CASE CompleteRun
    BY <1>15, CompleteRunKeeps
  <1>16. CASE RestoreBackup
    BY <1>16, RestoreBackupKeeps
  <1>17. ASSUME NEW i \in db.required, Attest(i) PROVE DeliveryInv'
    BY <1>17, AttestKeeps
  <1>18. CASE FinishRestore
    BY <1>18, FinishRestoreKeeps
  <1>19. CASE Elapse /\ UNCHANGED deliveryVars
    BY <1>19, ClockMoves, ClockStepKeeps
  <1> QED BY <1>1, <1>2, <1>3, <1>4, <1>5, <1>6, <1>7, <1>8, <1>9, <1>10, <1>11, <1>12, <1>13,
             <1>14, <1>15, <1>16, <1>17, <1>18, <1>19 DEF Step

LEMMA NextKeeps == DeliveryInv /\ [Next]_vars => DeliveryInv'
  <1> SUFFICES ASSUME DeliveryInv, [Next]_vars PROVE DeliveryInv'
    OBVIOUS
  <1>1. CASE Step
    BY <1>1, StepKeeps
  <1>2. CASE Event
    <2>1. CASE Restart
      BY <2>1, RestartKeeps
    <2>2. CASE BeginRun
      BY <2>2, BeginRunKeeps
    <2>3. CASE TakeBackup
      BY <2>3, TakeBackupKeeps
    <2>4. ASSUME NEW s \in Skews, StepWallClock(s), UNCHANGED deliveryVars PROVE DeliveryInv'
      BY <2>4, ClockMoves, ClockStepKeeps
    <2> QED BY <1>2, <2>1, <2>2, <2>3, <2>4 DEF Event
  <1>3. CASE UNCHANGED vars
    <2>1. Onward /\ (paused' => paused) /\ UNCHANGED deliveryVars
      BY <1>3 DEF vars, clockVars, DeliveryInv, ServiceTypes, ClockTypeOK, Onward
    <2> QED BY <2>1, ClockStepKeeps
  <1> QED BY <1>1, <1>2, <1>3 DEF Next

LEMMA DeliveryInvariant == Spec => []DeliveryInv
  BY InitDelivery, NextKeeps, PTL DEF Spec

---------------------------------------------------------------------------
(* Theorems.                                                                *)

LEMMA MutationsHold == DeliveryInv => MutationsSound
  <1> SUFFICES ASSUME DeliveryInv PROVE MutationsSound
    OBVIOUS
  <1> USE DEF DeliveryInv
  <1>1. TypeOK
    <2>1. \A c \in Clients : journal[c].pending \in 0 .. Len(journal[c].saved)
      BY JournalRows DEF Remembered
    <2>2. \A k \in DOMAIN db.receipts : db.receipts[k].created <= stored
      BY DEF Kept, Promises
    <2>3. \A r \in flight : r.key \in 1 .. Len(journal[r.client].saved)
      BY DEF Sent
    <2> QED BY <2>1, <2>2, <2>3 DEF TypeOK, ServiceTypes
  <1>2. AtMostOnce
    <2> SUFFICES ASSUME NEW k \in Keys PROVE effects[k] <= 1
      BY DEF AtMostOnce
    <2>1. effects[k] = 0 \/ effects[k] = 1
      BY DEF Receipted
    <2> QED BY <2>1
  <1>3. UncertainIsPending
    <2> SUFFICES ASSUME NEW c \in Clients, NEW n \in 1 .. MaxKeys, effects[<<c, n>>] > 0,
                        concluded[<<c, n>>] = "none"
                 PROVE  journal[c].pending = n
      BY DEF UncertainIsPending
    <2>1. <<c, n>> \in Keys /\ <<c, n>>[1] = c /\ <<c, n>>[2] = n
      BY DEF Keys
    <2>2. n <= Len(journal[c].saved)
      BY <2>1 DEF Receipted
    <2>3. n \in 1 .. Len(journal[c].saved)
      BY <2>2, JournalRows, ConstantTypes
    <2> QED BY <2>3 DEF Remembered
  <1>4. CompactedIsExpired
    <2> SUFFICES ASSUME NEW k \in DOMAIN db.receipts, db.receipts[k].compacted
                 PROVE  SafeNow - db.receipts[k].created > Retention
      BY DEF CompactedIsExpired
    <2>1. stored - db.receipts[k].created > Retention
      BY DEF Kept, Promises
    <2>2. stored \in Nat /\ db.receipts[k].created \in Int
      BY DEF ServiceTypes, ClockTypeOK, Database, Receipt
    <2> QED BY <2>1, <2>2, Sampling, ConstantTypes
  <1> QED BY <1>1, <1>2, <1>3, <1>4 DEF MutationsSound

LEMMA AuthorityHolds == DeliveryInv => AuthoritySound
  <1> SUFFICES ASSUME DeliveryInv, NEW c \in Clients, db.leases[c] > SafeNow
               PROVE  elapsed < deadline[c]
    BY DEF AuthoritySound, LeaseNotExtended, DeliveryInv
  <1> USE DEF DeliveryInv
  <1>1. /\ elapsed \in Nat /\ elapsed <= MaxElapsed /\ stored \in Nat /\ runtime \in Int
        /\ deadline[c] \in Int /\ db.leases[c] \in Nat
    BY DEF ServiceTypes, ClockTypeOK, Database
  <1>2. SafeNow \in Nat /\ SafeNow >= stored /\ SafeNow >= elapsed + runtime
    BY Sampling
  <1>3. db.leases[c] # 0
    BY <1>1, <1>2
  <1>4. /\ db.leases[c] <= stored + Lease
        /\ db.leases[c] <= deadline[c] + runtime \/ deadline[c] = MaxElapsed + Lease
    BY <1>3 DEF Granted
  <1> QED BY <1>1, <1>2, <1>4, ConstantTypes

\* A saved mutation takes effect at most once, its client is told or keeps it as
\* unresolved, and a result is dropped only after its window (Mutation::begin, finish,
\* Journal::prepare, compact_receipts).
THEOREM MutationsAreSound == Spec => []MutationsSound
  BY DeliveryInvariant, MutationsHold, PTL

\* Work is owned no longer than it was granted for, by an open session, and by nobody
\* while the service is paused (sample_clock, IDLE_SQL, invalidate_restored_state).
THEOREM AuthorityIsSound == Spec => []AuthoritySound
  BY DeliveryInvariant, AuthorityHolds, PTL

\* A client's process moves to an answer only when the service has handled its request.
LEMMA AnswersAreHandled ==
  ASSUME DeliveryInv, [Next]_vars, NEW c \in Clients, process[c].at = "waiting",
         process'[c].at = "answered"
  PROVE  \E r \in flight : r.client = c /\ r.live /\ Handle(r)
  <1> USE DEF DeliveryInv
  <1>1. process' # process
    OBVIOUS
  <1>2. ASSUME NEW d \in Clients, Retry(d) \/ Send(d) \/ GiveUp(d) \/ Receive(d)
                                 \/ \E op \in Operations : Save(d, op)
        PROVE  FALSE
    <2>1. process[d].at # "waiting" \/ process'[d].at = "idle"
      <3>1. CASE GiveUp(d)
        BY <3>1 DEF GiveUp, ClientTypes
      <3> QED BY <1>2, <3>1 DEF Retry, Send, Receive, Save
    <2>2. \A e \in Clients : e # d => process'[e] = process[e]
      BY <1>2 DEF Retry, Send, GiveUp, Receive, Save, ClientTypes
    <2> QED BY <2>1, <2>2
  <1>3. Step
    BY <1>1 DEF Next, vars, deliveryVars, Event, Restart, BeginRun, Maintain, TakeBackup, history
  <1>4. PICK r \in flight : Handle(r)
    BY <1>1, <1>2, <1>3 DEF Step, ReplaceSession, IssueCredential, RegisterSession, Read, Recover,
       Reconcile, RunBatch, CloseIdle, CompleteRun, Maintain, RestoreBackup, Attest, FinishRestore,
       ReconcileRestore, deliveryVars
  <1>5. r.live /\ r.client = c
    BY <1>4 DEF Handle, ClientTypes
  <1> QED BY <1>4, <1>5

LEMMA TransportIsTold ==
  ASSUME DeliveryInv, [Next]_vars, NEW c \in Mcps, GivesUp(c)
  PROVE  effects[<<c, process[c].key>>] = 0
  <1> USE DEF DeliveryInv
  <1>1. c \in Clients /\ c \notin Clis
    BY DeliveryAssumption DEF Clients
  <1>2. /\ process[c].at = "waiting" /\ process'[c].at = "answered" /\ process'[c].answer # "ok"
        /\ Definitive(c, journal[c].saved[process[c].key], process'[c].answer)
    BY DEF GivesUp
  <1>3. PICK r \in flight : r.client = c /\ r.live /\ Handle(r)
    BY <1>1, <1>2, AnswersAreHandled
  <1>4. PICK answer \in {"ok", "refused", "conflict", "busy"} :
          /\ Handled(r, answer)
          /\ process' = [process EXCEPT ![r.client].at = "answered", ![r.client].answer = answer]
    BY <1>3 DEF Handle
  <1>5. process'[c].answer = answer /\ process[c].key = r.key
    BY <1>1, <1>3, <1>4, JournalRows DEF ClientTypes, ProcessRow, Sent
  <1>6. answer = "conflict"
    BY <1>1, <1>2, <1>5 DEF Definitive
  <1>7. Verified(r) /\ <<r.client, r.key>> \notin DOMAIN db.receipts
    BY <1>4, <1>6 DEF Handled, Replay
  <1>8. Live(c)
    BY <1>3, <1>7 DEF Verified, Live
  <1>9. <<c, r.key>> \in Keys /\ <<c, r.key>>[1] = c
    BY <1>1, <1>3, JournalRows, ConstantTypes DEF Remembered, Sent, Keys
  <1> QED BY <1>3, <1>5, <1>7, <1>8, <1>9 DEF Receipted

LEMMA EffectsAreFresh ==
  ASSUME DeliveryInv, [Next]_vars, NEW k \in Keys, effects'[k] > effects[k]
  PROVE  born[k] = db.restores
  <1> USE DEF DeliveryInv
  <1>1. effects' # effects
    <2> SUFFICES ASSUME effects' = effects PROVE FALSE
      OBVIOUS
    <2>1. effects[k] \in Nat
      BY DEF ServiceTypes
    <2> QED BY <2>1
  <1>2. PICK r \in flight : Handle(r)
    BY <1>1 DEF Next, vars, deliveryVars, Event, Restart, BeginRun, Maintain, TakeBackup, history,
       Step, Save, Retry, Send, GiveUp, Receive, ReplaceSession, IssueCredential, RegisterSession,
       Read, Recover, Reconcile, RunBatch, CloseIdle, CompleteRun, RestoreBackup, Attest,
       FinishRestore, ReconcileRestore
  <1>3. Verified(r) /\ effects' = [effects EXCEPT ![<<r.client, r.key>>] = @ + 1]
    BY <1>1, <1>2 DEF Handle, Handled, Finish, Unchanged
  <1>4. k = <<r.client, r.key>>
    <2> SUFFICES ASSUME k # <<r.client, r.key>> PROVE FALSE
      OBVIOUS
    <2>1. effects'[k] = effects[k] /\ effects[k] \in Nat
      BY <1>3 DEF ServiceTypes
    <2> QED BY <2>1
  <1>5. r.client \in Clients /\ Live(r.client) /\ r.key \in 1 .. Len(journal[r.client].saved)
    BY <1>3 DEF Verified, Live, Sent, ClientTypes
  <1> QED BY <1>4, <1>5 DEF Fresh

\* The transport is never made to give up on a mutation that took effect, and nothing
\* saved before a restore takes effect after it (Adapter::dispatch,
\* invalidate_restored_state).
THEOREM NothingIsLate == Spec => NothingComesLate
  <1>1. DeliveryInv /\ [Next]_vars =>
          [\A c \in Mcps : GivesUp(c) => effects[<<c, process[c].key>>] = 0]_vars
    BY TransportIsTold
  <1>2. DeliveryInv /\ [Next]_vars =>
          [\A k \in Keys : effects'[k] > effects[k] => born[k] = db.restores]_vars
    BY EffectsAreFresh
  <1> QED BY <1>1, <1>2, DeliveryInvariant, PTL
          DEF Spec, NothingComesLate, TransportGivesUpSafely, OldAuthorityIsVoid
=============================================================================
