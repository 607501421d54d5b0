----------------------------- MODULE CostReport -----------------------------
(***************************************************************************)
(* Delivery of the cost ledger to the coordinator (run_loop/report.rs,      *)
(* live_report.rs; crates/server/src/telemetry.rs).  The loop and the       *)
(* report-costs command each run passes over the ledger, without a lock     *)
(* between them.  A pass reads which rows are unsent, sends them per        *)
(* project in batches and appends what became of each batch to two files.   *)
(* The coordinator stores a row once per project, host and row identity.    *)
(***************************************************************************)
EXTENDS Naturals, FiniteSets, Sequences, SequencesExt

CONSTANTS
    Passes,        \* the processes that run passes
    Rows,          \* ledger rows, in ledger order: 1..n
    ProjectOf,     \* row -> its project
    Invalid,       \* rows that the coordinator refuses as malformed
    Batch,         \* report::BATCH
    MaxOutages,    \* bound: refused credentials, lost replies, crashes
    Idle           \* a pass that is not running

VARIABLES
    written,       \* rows appended to costs.jsonl so far
    reported,      \* costs.reported
    setAside,      \* costs.quarantined: row -> the kinds it was set aside for
    stored,        \* row -> copies in cost_rows at the coordinator
    projects,      \* projects that exist at the coordinator
    pass,          \* process -> the batches it still has to send, or Idle
    outages

reportVars == <<written, reported, setAside, stored, projects, pass, outages>>

AllProjects == {ProjectOf[r] : r \in Rows}

ReportInit ==
    /\ written = {} /\ reported = {} /\ outages = 0
    /\ setAside = [r \in Rows |-> {}]
    /\ stored = [r \in Rows |-> 0]
    /\ projects \in SUBSET AllProjects
    /\ pass = [p \in Passes |-> Idle]

\* A launch's cost is appended to the ledger.
AppendRow ==
    /\ Rows \ written # {}
    /\ written' = written \cup {CHOOSE r \in Rows \ written :
                                  \A q \in Rows \ written : r <= q}
    /\ UNCHANGED <<reported, setAside, stored, projects, pass, outages>>

\* unsent: ledger rows in neither file.
Unsent == {r \in written : r \notin reported /\ setAside[r] = {}}

\* The batches of a pass: project by project, at most Batch rows each, in
\* ledger order.
Sorted(S) == SetToSortSeq(S, LAMBDA a, b : a < b)

Chunks(s) ==
    [i \in 1..((Len(s) + Batch - 1) \div Batch) |->
        SubSeq(s, (i - 1) * Batch + 1, IF i * Batch < Len(s) THEN i * Batch ELSE Len(s))]

FirstRow(p) == CHOOSE r \in Unsent : /\ ProjectOf[r] = p
                                     /\ \A q \in Unsent : ProjectOf[q] = p => r <= q

BatchesOf(p) == Chunks(Sorted({r \in Unsent : ProjectOf[r] = p}))

Plan ==
    LET ps == SetToSortSeq({ProjectOf[r] : r \in Unsent},
                           LAMBDA a, b : FirstRow(a) < FirstRow(b))
    IN FlattenSeq([i \in DOMAIN ps |-> BatchesOf(ps[i])])

\* flush begins with what is unsent now.
BeginPass(p) ==
    /\ pass[p] = Idle /\ Unsent # {}
    /\ pass' = [pass EXCEPT ![p] = Plan]
    /\ UNCHANGED <<written, reported, setAside, stored, projects, outages>>

EndPass(p) ==
    /\ pass[p] = <<>>
    /\ pass' = [pass EXCEPT ![p] = Idle]
    /\ UNCHANGED <<written, reported, setAside, stored, projects, outages>>

Sending(p) == pass[p] # Idle /\ pass[p] # <<>>

BatchRows(p) == LET rs == Head(pass[p]) IN {rs[i] : i \in 1..Len(rs)}

BatchProject(p) == ProjectOf[Head(Head(pass[p]))]

\* Mutated form of Insert: no conflict clause.
InsertAll(rs) == [r \in Rows |-> IF r \in rs THEN stored[r] + 1 ELSE stored[r]]

\* insert_cost: a conflict on project, host and row identity stores nothing.
Insert(rs) == [r \in Rows |-> IF r \in rs /\ stored[r] = 0 THEN 1 ELSE stored[r]]

\* report_costs accepts a batch of well-formed rows of an existing project.
Acceptable(p) == BatchRows(p) \cap Invalid = {} /\ BatchProject(p) \in projects

\* Stored: the rows are recorded as reported.
DeliverStored(p) ==
    /\ Sending(p) /\ Acceptable(p)
    /\ stored' = Insert(BatchRows(p))
    /\ reported' = reported \cup BatchRows(p)
    /\ pass' = [pass EXCEPT ![p] = Tail(@)]
    /\ UNCHANGED <<written, setAside, projects, outages>>

\* The rows are stored but the reply is lost, or the process dies before it
\* records them: the pass stops.
ReplyLost(p) ==
    /\ Sending(p) /\ Acceptable(p)
    /\ outages < MaxOutages
    /\ outages' = outages + 1
    /\ stored' = Insert(BatchRows(p))
    /\ pass' = [pass EXCEPT ![p] = Idle]
    /\ UNCHANGED <<written, reported, setAside, projects>>

\* The coordinator or the credential is unusable (the whole pass stops), or a
\* 404 without a code answers (the project's other batches are left).
Unanswered(p, stop) ==
    /\ Sending(p)
    /\ outages < MaxOutages
    /\ outages' = outages + 1
    /\ pass' = [pass EXCEPT ![p] = IF stop THEN Idle
         ELSE SelectSeq(Tail(@), LAMBDA b : ProjectOf[Head(b)] # BatchProject(p))]
    /\ UNCHANGED <<written, reported, setAside, stored, projects>>

\* Rejected: a batch is sent again row by row; a single row is set aside and
\* counts as done.
RejectedBatch(p) ==
    /\ Sending(p) /\ BatchRows(p) \cap Invalid # {}
    /\ Len(Head(pass[p])) > 1
    /\ LET rs == Head(pass[p])
       IN pass' = [pass EXCEPT ![p] =
            [i \in DOMAIN rs |-> <<rs[i]>>] \o Tail(@)]
    /\ UNCHANGED <<written, reported, setAside, stored, projects, outages>>

RejectedRow(p) ==
    /\ Sending(p) /\ BatchRows(p) \cap Invalid # {}
    /\ Len(Head(pass[p])) = 1
    /\ setAside' = [r \in Rows |->
         IF r \in BatchRows(p) THEN setAside[r] \cup {"rejected"} ELSE setAside[r]]
    /\ reported' = reported \cup BatchRows(p)
    /\ pass' = [pass EXCEPT ![p] = Tail(@)]
    /\ UNCHANGED <<written, stored, projects, outages>>

\* MissingProject: the rows are set aside, and are not reported.
MissingProject(p) ==
    /\ Sending(p) /\ BatchRows(p) \cap Invalid = {}
    /\ BatchProject(p) \notin projects
    /\ setAside' = [r \in Rows |->
         IF r \in BatchRows(p) THEN setAside[r] \cup {"project"} ELSE setAside[r]]
    /\ pass' = [pass EXCEPT ![p] = Tail(@)]
    /\ UNCHANGED <<written, reported, stored, projects, outages>>

\* The project is created; the operator then removes its rows' lines.
CreateProject(q) ==
    /\ q \in AllProjects \ projects
    /\ projects' = projects \cup {q}
    /\ UNCHANGED <<written, reported, setAside, stored, pass, outages>>

ReleaseQuarantine(r) ==
    /\ "project" \in setAside[r] /\ ProjectOf[r] \in projects
    /\ setAside' = [setAside EXCEPT ![r] = {}]
    /\ UNCHANGED <<written, reported, stored, projects, pass, outages>>

PassStep(p) ==
    \/ BeginPass(p) \/ EndPass(p) \/ DeliverStored(p) \/ ReplyLost(p)
    \/ RejectedBatch(p) \/ RejectedRow(p) \/ MissingProject(p)
    \/ \E stop \in BOOLEAN : Unanswered(p, stop)

ReportNext ==
    \/ AppendRow
    \/ \E p \in Passes : PassStep(p)
    \/ \E q \in AllProjects : CreateProject(q)
    \/ \E r \in Rows : ReleaseQuarantine(r)

(***************************************************************************)
(* Properties                                                              *)
(***************************************************************************)

\* However passes overlap, are cut short or are repeated: the coordinator holds
\* a row once, and a row that no pass sends again is stored there, is malformed,
\* or waits in the quarantine for its project (report.rs).
RowsAccounted ==
    \A r \in Rows :
        /\ stored[r] <= 1
        /\ r \in reported => stored[r] = 1 \/ r \in Invalid
        /\ "project" \in setAside[r] => r \notin Invalid
        /\ r \in Invalid => stored[r] = 0
=============================================================================
