---------------------------- MODULE CandidatePush ----------------------------
(***************************************************************************)
(* How an implementer's commit becomes a candidate on the remote            *)
(* (local/candidate_push.rs, cli/candidate_checkpoint.rs, the checkpoint     *)
(* part of local/git_workflow.rs, integrator/push/serve.rs).  The sandboxed  *)
(* client bundles its clean commit to a helper that holds the push           *)
(* credentials; the helper imports, scans and publishes it to the one ref of *)
(* its launch, or to a create-only ref of work in progress.  Without a       *)
(* helper the client publishes to the ref itself.                            *)
(*                                                                         *)
(* Git on the remote is external: a push may land without its success being  *)
(* reported, and may land after the process that started it is gone.  The    *)
(* helper keeps its lease and its intent as refs of its private repository.  *)
(***************************************************************************)
EXTENDS Naturals

CONSTANTS
    Commits,       \* commits of the launch's checkout
    Secrets,       \* commits that hold a likely secret
    SecretsIn,     \* those in the history of each commit
    Known,         \* those the client's own scan sees: since the launch's base, and recognised
    Burst,         \* MINT_BURST
    MaxServed,     \* bound: connections served
    MaxDeaths,     \* bound: deaths of the helper or its client
    MaxEdits,      \* bound: changes of the checkout
    MaxOutside,    \* bound: writes to the ref by somebody else
    Absent

VARIABLES
    direct,        \* no helper socket is configured
    ref,           \* remote: what the launch's candidate ref names
    wip,           \* remote: what each commit's WIP ref names
    elsewhere,     \* remote: the secrets in the history of its other refs
    pushing,       \* remote: pushes that outlived the process that started them
    lease, intent, \* the helper's private refs
    conn,          \* the connection it serves: [pc, kind, of, seen]
    mints,         \* tokens it may still mint
    head,          \* the checkout: its commit and whether it is clean
    command,       \* the client's command: [pc, kind, of]
    reply,         \* the helper's answer on its way to the client
    served, deaths, outside, edits,
    receipts,      \* history: [kind, of] the helper accepted
    ours,          \* history: commits our own pushes made the ref name
    late,          \* history: a push landed after its process had given up
    disclosed,     \* history: secrets somebody else has published
    recorded       \* history: [kind, of] commands ended with as checkpoints

pushVars == <<direct, ref, wip, elsewhere, pushing, lease, intent, conn, mints, head, command,
              reply, served, deaths, outside, edits, receipts, ours, late, disclosed, recorded>>

others == <<elsewhere, disclosed>>
remote == <<ref, wip, pushing, ours, late, others>>
private == <<lease, intent>>
local == <<direct, head>>
counts == <<served, deaths, outside, edits>>

Quiet == [pc |-> "idle", kind |-> "candidate", of |-> Absent, seen |-> Absent]
NoCommand == [pc |-> "idle", kind |-> "candidate", of |-> Absent]

PushInit ==
    /\ direct \in BOOLEAN
    /\ ref = Absent /\ wip = [c \in Commits |-> Absent] /\ pushing = {}
    /\ elsewhere = {} /\ disclosed = {}
    /\ lease = Absent /\ intent = Absent
    /\ conn = Quiet /\ mints = Burst
    /\ head \in [of : Commits, clean : {TRUE}]
    /\ command = NoCommand /\ reply = Absent
    /\ served = 0 /\ deaths = 0 /\ outside = 0 /\ edits = 0
    /\ receipts = {} /\ ours = {} /\ late = FALSE /\ recorded = {}

----------------------------------------------------------------------------
(* The remote *)

Reads(kind, c) == IF kind = "candidate" THEN ref ELSE wip[c]

\* A push that requires the ref to be absent reaches the remote.
Lands(kind, c) ==
    /\ ref' = IF kind = "candidate" /\ ref = Absent THEN c ELSE ref
    /\ wip' = IF kind = "wip" /\ wip[c] = Absent THEN [wip EXCEPT ![c] = c] ELSE wip
    /\ ours' = IF kind = "candidate" /\ ref = Absent THEN ours \cup {c} ELSE ours

\* push_create: what it did and what it reported; only a success is certain.
PushCreate(kind, c, ok) ==
    /\ UNCHANGED <<late, others>>
    /\ \/ ok /\ Reads(kind, c) = Absent /\ Lands(kind, c) /\ UNCHANGED pushing
       \/ ~ok /\ Lands(kind, c) /\ UNCHANGED pushing
       \/ ~ok /\ UNCHANGED <<ref, wip, pushing, ours>>
       \/ ~ok /\ pushing' = pushing \cup {<<kind, c>>} /\ UNCHANGED <<ref, wip, ours>>

LatePush(p) ==
    /\ p \in pushing
    /\ pushing' = pushing \ {p}
    /\ \/ Lands(p[1], p[2]) /\ late' = TRUE
       \/ UNCHANGED <<ref, wip, ours, late>>
    /\ UNCHANGED <<others, private, local, counts, conn, mints, command, reply, receipts,
                   recorded>>

\* The secrets in the history of c, none when c is no commit.
InHistory(c) == IF c = Absent THEN {} ELSE SecretsIn[c]

\* Somebody else with push access writes the ref, or deletes it.
WriteOutside(c) ==
    /\ outside < MaxOutside /\ ref # c
    /\ outside' = outside + 1
    /\ ref' = c
    /\ disclosed' = disclosed \cup InHistory(c)
    /\ UNCHANGED <<wip, elsewhere, pushing, ours, late, private, local, served, deaths, edits, conn,
                   mints, command, reply, receipts, recorded>>

\* Somebody else publishes a commit's history at another ref, or deletes such refs.
PublishElsewhere(secrets) ==
    /\ elsewhere' = secrets /\ secrets # elsewhere
    /\ disclosed' = disclosed \cup secrets
    /\ UNCHANGED <<ref, wip, pushing, ours, late, private, local, counts, conn, mints, command,
                   reply, receipts, recorded>>

\* What every ref the remote advertises holds.
Advertised == InHistory(ref) \cup elsewhere \cup UNION {InHistory(wip[c]) : c \in Commits}

----------------------------------------------------------------------------
(* The checkout and the command that checkpoints it *)

\* The agent commits, or edits a file.
Work(c, clean) ==
    /\ edits < MaxEdits /\ edits' = edits + 1
    /\ head' = [of |-> c, clean |-> clean] /\ head' # head
    /\ UNCHANGED <<remote, private, direct, served, deaths, outside, conn, mints, command,
                   reply, receipts, recorded>>

\* capture_clean_snapshot, and verify_clean_snapshot against one.
Clean(c) == head = [of |-> c, clean |-> TRUE]

Command(pc) == command' = [command EXCEPT !.pc = pc]
Ends == command' = NoCommand

CaptureSnapshot(kind) ==
    /\ command.pc = "idle" /\ head.clean
    /\ command' = [pc |-> IF direct THEN "publish" ELSE "captured", kind |-> kind, of |-> head.of]
    /\ UNCHANGED <<remote, private, local, counts, conn, mints, reply, receipts, recorded>>

\* scan_candidate_bundle, then the snapshot again, then the socket.
SendToHelper ==
    /\ command.pc = "captured"
    /\ IF SecretsIn[command.of] \cap Known # {} \/ ~Clean(command.of)
         THEN Ends /\ UNCHANGED <<conn, served>>
         ELSE /\ conn.pc = "idle" /\ reply = Absent /\ served < MaxServed
              /\ served' = served + 1
              /\ conn' = [pc |-> "accepted", kind |-> command.kind, of |-> command.of,
                          seen |-> Absent]
              /\ Command("sent")
    /\ UNCHANGED <<remote, private, local, deaths, outside, edits, mints, reply, receipts, recorded>>

Record == recorded' = recorded \cup {[kind |-> command.kind, of |-> command.of]}

\* check_receipt and the snapshot once more; a refusal ends the command.
ReceiveReply ==
    /\ command.pc = "sent" /\ reply # Absent
    /\ reply' = Absent
    /\ Ends
    /\ IF reply = "accepted" /\ Clean(command.of) THEN Record ELSE UNCHANGED recorded
    /\ UNCHANGED <<remote, private, local, counts, conn, mints, receipts>>

\* The command is killed, its own push on its way or not (CheckpointDirectly); the
\* helper goes on, and its answer finds nobody.
CommandDies ==
    /\ command.pc # "idle" /\ deaths < MaxDeaths
    /\ deaths' = deaths + 1
    /\ Ends /\ reply' = Absent
    /\ UNCHANGED <<remote, private, local, served, outside, edits, conn, mints, receipts, recorded>>

\* The outgoing commits are those of the history that no ref of the remote
\* advertises, a commit the repository lacks counting as outgoing.
OutgoingIsClean(c) == SecretsIn[c] \subseteq Advertised

\* checkpoint_candidate: the ref already names the commit, or the outgoing
\* commits are scanned and pushed.
CheckpointDirectly ==
    LET seen == Reads(command.kind, command.of) IN
    /\ command.pc = "publish"
    /\ \/ /\ seen = command.of /\ Command("reading") /\ UNCHANGED remote
       \/ /\ seen = Absent /\ OutgoingIsClean(command.of)
          /\ \E ok \in BOOLEAN : PushCreate(command.kind, command.of, ok)
          /\ Command("reading")
       \/ Ends /\ UNCHANGED remote
    /\ UNCHANGED <<private, local, counts, conn, mints, reply, receipts, recorded>>

\* read_back_checkpoint: fetched, advertised and still what the checkout holds.
ReadBack ==
    /\ command.pc = "reading"
    /\ Ends
    /\ \/ /\ Reads(command.kind, command.of) = command.of /\ Clean(command.of) /\ Record
       \/ UNCHANGED recorded
    /\ UNCHANGED <<remote, private, local, counts, conn, mints, reply, receipts>>

----------------------------------------------------------------------------
(* The helper *)

Serving(pc) == conn.pc = pc
Then(pc) == conn' = [conn EXCEPT !.pc = pc]

\* serve_one sends one reply; it is lost when its client is gone.
Answer(code) ==
    /\ conn' = Quiet
    /\ reply' = IF command.pc = "sent" THEN code ELSE Absent

Refused == Answer("refused")

\* serve_connection: a token, if the mint budget has one and it can be minted.
MintToken ==
    /\ Serving("accepted")
    /\ \/ mints > 0 /\ mints' = mints - 1 /\ Then("read") /\ UNCHANGED reply
       \/ mints > 0 /\ mints' = mints - 1 /\ Refused
       \/ mints = 0 /\ Refused /\ UNCHANGED mints
    /\ UNCHANGED <<remote, private, local, counts, command, receipts, recorded>>

EarnMint ==
    /\ mints < Burst /\ served < MaxServed
    /\ mints' = mints + 1
    /\ UNCHANGED <<remote, private, local, counts, conn, command, reply, receipts, recorded>>

\* refuse_other_than_leased: this launch's candidate is already another commit.
RefuseOtherThanLeased ==
    conn.kind = "candidate" /\ lease # Absent /\ lease # conn.of

\* The bundle is received, verified and imported by object ID, or refused.
Import ==
    /\ Serving("read")
    /\ \/ ~RefuseOtherThanLeased /\ Then("imported") /\ UNCHANGED reply
       \/ Refused
    /\ UNCHANGED <<remote, private, local, counts, mints, command, receipts, recorded>>

\* Mutated form: the scan looks only for what the client knows.
ScanKnown ==
    \/ Refused
    \/ SecretsIn[conn.of] \cap Known \subseteq Advertised /\ Then("scanned") /\ UNCHANGED reply

\* scan: refused when an outgoing commit holds a secret, or cannot be scanned.
Scan ==
    \/ Refused
    \/ OutgoingIsClean(conn.of) /\ Then("scanned") /\ UNCHANGED reply

ScanImported ==
    /\ Serving("imported")
    /\ Scan
    /\ UNCHANGED <<remote, private, local, counts, mints, command, receipts, recorded>>

\* owns: the lease, absent before the first confirmed push, or the intent.
Owns(seen) == seen = lease \/ (seen # Absent /\ seen = intent)

\* publish: a ref of this helper's that is absent is to be created, once the
\* intent is recorded; one that names the commit is confirmed again.
Publish ==
    /\ Serving("scanned") /\ conn.kind = "candidate"
    /\ \/ Refused /\ UNCHANGED intent
       \/ /\ Owns(ref) /\ ref = Absent
          /\ intent' = conn.of
          /\ conn' = [conn EXCEPT !.pc = "push", !.seen = ref] /\ UNCHANGED reply
       \/ /\ Owns(ref) /\ ref = conn.of
          /\ conn' = [conn EXCEPT !.pc = "confirm", !.seen = ref] /\ UNCHANGED <<intent, reply>>
    /\ UNCHANGED <<remote, lease, local, counts, mints, command, receipts, recorded>>

\* publish_wip: no lease, no intent; a ref naming another commit is refused.
PublishWip ==
    /\ Serving("scanned") /\ conn.kind = "wip"
    /\ \/ Refused
       \/ wip[conn.of] = Absent /\ Then("push") /\ UNCHANGED reply
       \/ wip[conn.of] = conn.of /\ Then("confirm") /\ UNCHANGED reply
    /\ UNCHANGED <<remote, private, local, counts, mints, command, receipts, recorded>>

Push ==
    /\ Serving("push")
    /\ \E ok \in BOOLEAN :
         /\ PushCreate(conn.kind, conn.of, ok)
         /\ Then(IF ok \/ conn.kind = "wip" THEN "confirm" ELSE "failed")
    /\ UNCHANGED <<private, local, counts, mints, command, reply, receipts, recorded>>

\* Mutated form: every failed push clears the intent, observed or not.
AfterFailedPushForgets ==
    /\ Serving("failed")
    /\ \/ Refused /\ intent' = Absent
       \/ ref = conn.of /\ Then("confirm") /\ UNCHANGED <<intent, reply>>
    /\ UNCHANGED <<remote, lease, local, counts, mints, command, receipts, recorded>>

\* push, when Git reported a failure: the ref is read again.  An observation
\* error keeps the intent; a definite failure clears it.
AfterFailedPush ==
    /\ Serving("failed")
    /\ \/ Refused /\ UNCHANGED intent
       \/ ref = conn.of /\ Then("confirm") /\ UNCHANGED <<intent, reply>>
       \/ ref # conn.of /\ Refused /\ intent' = Absent
    /\ UNCHANGED <<remote, lease, local, counts, mints, command, receipts, recorded>>

\* confirm: the ref is read back, the lease recorded, then the intent cleared.
Confirm ==
    /\ Serving("confirm")
    /\ \/ Refused /\ UNCHANGED private
       \/ /\ Reads(conn.kind, conn.of) # conn.of
          /\ Refused
          /\ intent' = IF conn.kind = "candidate" THEN Absent ELSE intent
          /\ UNCHANGED lease
       \/ /\ Reads(conn.kind, conn.of) = conn.of
          /\ lease' = IF conn.kind = "candidate" THEN conn.of ELSE lease
          /\ Then("leased") /\ UNCHANGED <<intent, reply>>
    /\ UNCHANGED <<remote, local, counts, mints, command, receipts, recorded>>

Accept ==
    /\ Serving("leased")
    /\ intent' = IF conn.kind = "candidate" THEN Absent ELSE intent
    /\ receipts' = receipts \cup {[kind |-> conn.kind, of |-> conn.of]}
    /\ Answer("accepted")
    /\ UNCHANGED <<remote, lease, local, counts, mints, command, recorded>>

\* The helper dies and is started again on the same private repository; a push
\* it had started may still be on its way.
HelperDies ==
    /\ conn.pc # "idle" /\ deaths < MaxDeaths
    /\ deaths' = deaths + 1
    /\ conn' = Quiet /\ mints' = Burst
    /\ reply' = IF command.pc = "sent" THEN "refused" ELSE Absent
    /\ \/ conn.pc = "push" /\ pushing' = pushing \cup {<<conn.kind, conn.of>>}
       \/ UNCHANGED pushing
    /\ UNCHANGED <<ref, wip, ours, late, others, private, local, served, outside, edits, command,
                   receipts, recorded>>

----------------------------------------------------------------------------

Kinds == {"candidate", "wip"}

ClientNext ==
    \/ \E c \in Commits, clean \in BOOLEAN : Work(c, clean)
    \/ \E kind \in Kinds : CaptureSnapshot(kind)
    \/ SendToHelper \/ ReceiveReply \/ CommandDies
    \/ CheckpointDirectly \/ ReadBack

HelperNext ==
    \/ MintToken \/ EarnMint \/ Import \/ ScanImported
    \/ Publish \/ PublishWip \/ Push \/ AfterFailedPush \/ Confirm \/ Accept
    \/ HelperDies

PushNext ==
    \/ ClientNext \/ HelperNext
    \/ \E p \in pushing : LatePush(p)
    \/ \E c \in Commits \cup {Absent} : WriteOutside(c)
    \/ \E c \in Commits : PublishElsewhere(elsewhere \cup SecretsIn[c])
    \/ PublishElsewhere({})

----------------------------------------------------------------------------

\* A launch has one candidate: whatever is retried, lost or killed, the helper
\* acknowledges at most one commit and keeps it as its lease
\* (candidate_push.rs, refuse_other_than_leased, publish and confirm).
OneCandidate ==
    \A r \in receipts : r.kind = "candidate" => r.of = lease

\* While nobody else writes the ref, our pushes make it name at most one commit,
\* and the helper knows that commit as its own, unless the push landed after
\* the helper had given it up (candidate_push.rs, owns and push).
KnowsItsPush ==
    outside = 0 =>
        /\ \A c, d \in ours : c = d
        /\ ref # Absent /\ ~direct /\ ~late => ref \in {lease, intent}

\* Nothing of ours is the first to publish a secret: whatever our pushes put on the
\* remote, the helper acknowledged or a command recorded, its history holds no
\* secret that somebody else had not published before, whichever way it went,
\* however often it was tried and whatever others deleted since
\* (candidate_push.rs, scan; git_workflow.rs, outgoing_revisions).
NothingTaintedLeaves ==
    \A c \in ours \cup {d \in Commits : wip[d] # Absent}
             \cup {r.of : r \in receipts \cup recorded} : SecretsIn[c] \subseteq disclosed

\* A checkpoint recorded through the helper was acknowledged by it for that
\* commit and kind (candidate_push.rs, check_receipt).
RecordedIsAcknowledged == ~direct => recorded \subseteq receipts

PushSound == OneCandidate /\ KnowsItsPush /\ NothingTaintedLeaves /\ RecordedIsAcknowledged
==============================================================================
