-------------------------------- MODULE Planning --------------------------------
(***************************************************************************)
(* How work enters a project and is grouped (admission.rs, objectives.rs,   *)
(* imports.rs and the task editing of coordination.rs): the weekly budget    *)
(* of agent-created tasks, objectives with required children, and the import *)
(* of an existing checklist in two requests, a preview and its application.  *)
(* Every action is one mutation transaction; a request that names a stale     *)
(* revision is refused and changes nothing.  Claims and the review workflow   *)
(* appear only as the stages of a task's work; Coordination and Workflow       *)
(* model them.                                                                 *)
(***************************************************************************)
EXTENDS Naturals, FiniteSets

CONSTANTS
  Tasks,          \* task identities
  Identities,     \* stable identities of checklist items
  Previews,       \* import previews
  Budget,         \* config.agent_task_weekly_budget
  RuleEditing,    \* the project's agent_rule_editing: agents may cancel what humans planned
  MaxWeek,        \* bound: ISO weeks
  MaxRevision,    \* bound: revisions of a task
  MaxLinks,       \* bound: prerequisites and children named by one request
  Nil

VARIABLES
  week,           \* the ISO week holding the service's clock
  rows,           \* table tasks
  needs,          \* table task_dependencies: <<task, prerequisite>>
  members,        \* table objective_children
  records,        \* table import_records, by stable identity
  previews,       \* table import_previews
  hold,           \* history: what became of a task the budget held
  writer          \* history: who wrote a task last, the import or the service

planningVars == <<week, rows, needs, members, records, previews, hold, writer>>

Row == [life : {"open", "planned", "done", "canceled"}, deleted : BOOLEAN,
        origin : {"human", "agent"}, admitted : 0..MaxWeek, held : BOOLEAN,
        revision : 1..MaxRevision, work : {"none", "owned", "released", "submitted"},
        objective : BOOLEAN]

Member == [objective : Tasks, child : Tasks, required : BOOLEAN]

Exists(t) == rows[t] # Nil

Visible(t) == Exists(t) /\ ~rows[t].deleted

\* A project event of any other kind makes every open preview stale.
Evented(ps) == [p \in Previews |-> IF ps[p] = Nil THEN Nil
                                   ELSE [ps[p] EXCEPT !.fresh = FALSE]]

-----------------------------------------------------------------------------
\* The weekly budget.

\* Mutant of AdmittedInWeek: a task that left the queue gives its place back.
AdmittedAndVisible(w) == Cardinality({t \in Tasks : Visible(t) /\ rows[t].admitted = w})

AdmittedInWeek(w) == Cardinality({t \in Tasks : Exists(t) /\ rows[t].admitted = w})

\* Who may name an admission class: an agent needs evidence the service can
\* verify, or the operator's designation; canary is for designated agents.
ClassPermitted(by, class, backed) ==
  /\ class = "canary" => by = "agent"
  /\ class # "none" /\ by = "agent" => backed

Budgeted(by, class) == by = "agent" /\ class = "none"

\* The row a creation inserts and the admission it records.
Admitted(by, planned, class, objective) ==
  LET counted == Budgeted(by, class) /\ ~planned
      within  == AdmittedInWeek(week) < Budget
      held    == counted /\ ~within
  IN [life      |-> IF planned \/ held THEN "planned" ELSE "open",
      deleted   |-> FALSE,
      origin    |-> by,
      admitted  |-> IF counted /\ within THEN week ELSE 0,
      held      |-> held,
      revision  |-> 1,
      work      |-> "none",
      objective |-> objective]

-----------------------------------------------------------------------------
\* Prerequisites and objective children form one graph.

Follows(ns, ms, x, y) ==
  <<x, y>> \in ns \/ \E r \in ms : r.objective = x /\ r.child = y

\* A set of tasks that holds everything its members wait for.
ClosedIn(ns, ms, S) == \A x \in S, y \in Tasks : Follows(ns, ms, x, y) => y \in S

\* A task waits for what is in every such set that holds it: itself, what follows it,
\* what follows that, and so on.
ReachesIn(ns, ms, from, to) ==
  \A S \in SUBSET Tasks : from \in S /\ ClosedIn(ns, ms, S) => to \in S

DependencyCycles(task, prerequisite) == ReachesIn(needs, members, prerequisite, task)

\* Mutant of SetDependencies: only prerequisites are searched for a cycle.
SetDependenciesOnly(t, ds) ==
  /\ t \notin ds
  /\ \A d \in ds : Exists(d) /\ ~ReachesIn(needs, {}, d, t)
  /\ needs' = {n \in needs : n[1] # t} \union {<<t, d>> : d \in ds}

SetDependencies(t, ds) ==
  /\ t \notin ds
  /\ \A d \in ds : Exists(d) /\ ~DependencyCycles(t, d)
  /\ needs' = {n \in needs : n[1] # t} \union {<<t, d>> : d \in ds}

ValidChildren(o, ms) ==
  \A r \in ms : /\ r.child # o
                /\ Exists(r.child)
                /\ ~\E other \in members : other.child = r.child /\ other.objective # o
                /\ ~DependencyCycles(o, r.child)

ReplaceChildren(o, ms) ==
  /\ ValidChildren(o, ms)
  /\ members' = {r \in members : r.objective # o} \union ms

RequiredChildrenDone(o) ==
  \A r \in members : r.objective = o /\ r.required => rows[r.child].life = "done"

PrerequisitesDone(t) == \A n \in needs : n[1] = t => rows[n[2]].life = "done"

\* The distinct children, and the prerequisites, one request may name.
Memberships ==
  [o \in Tasks |-> {ms \in SUBSET {r \in Member : r.objective = o /\ r.child # o} :
                      /\ Cardinality(ms) <= MaxLinks
                      /\ \A r, s \in ms : r.child = s.child => r = s}]

Prerequisites == [t \in Tasks |-> {ds \in SUBSET (Tasks \ {t}) : Cardinality(ds) <= MaxLinks}]

-----------------------------------------------------------------------------
PlanningInit ==
  /\ week = 1
  /\ rows = [t \in Tasks |-> Nil]
  /\ needs = {} /\ members = {}
  /\ records = [i \in Identities |-> Nil]
  /\ previews = [p \in Previews |-> Nil]
  /\ hold = [t \in Tasks |-> "never"]
  /\ writer = [t \in Tasks |-> "service"]

NextWeek ==
  /\ week < MaxWeek
  /\ week' = week + 1
  /\ UNCHANGED <<rows, needs, members, records, previews, hold, writer>>

\* Insert a task: its row, admission and history.
Insert(t, row) ==
  /\ ~Exists(t)
  /\ rows' = [rows EXCEPT ![t] = row]
  /\ hold' = [hold EXCEPT ![t] = IF row.held THEN "held" ELSE @]
  /\ writer' = [writer EXCEPT ![t] = "service"]
  /\ previews' = Evented(previews)

CreateTask(t, by, planned, class, backed, ds) ==
  /\ ClassPermitted(by, class, backed)
  /\ Insert(t, Admitted(by, planned, class, FALSE))
  /\ SetDependencies(t, ds)
  /\ UNCHANGED <<week, members, records>>

CreateObjective(t, by, planned, ms) ==
  /\ Insert(t, Admitted(by, planned, "none", TRUE))
  /\ ReplaceChildren(t, ms)
  /\ UNCHANGED <<week, needs, records>>

\* Edit a row in a service mutation.
Edit(t, row) ==
  /\ rows[t].revision < MaxRevision
  /\ rows' = [rows EXCEPT ![t] = [row EXCEPT !.revision = @ + 1]]
  /\ writer' = [writer EXCEPT ![t] = "service"]
  /\ previews' = Evented(previews)

Editable(t) ==
  /\ Visible(t)
  /\ rows[t].work \in {"none", "released"}
  /\ rows[t].life \in {"open", "planned"}

\* Mutant of MayRelease: a grant to edit definitions also releases held tasks.
MayReleaseGranted(t, by, planned) == TRUE

\* Only a human takes a task the budget held out of planned.
MayRelease(t, by, planned) ==
  by = "agent" => ~(rows[t].held /\ rows[t].life = "planned" /\ ~planned)

\* An agent edits under a task-definition grant, and never a task it contributed to.
UpdateTask(t, by, planned, ds) ==
  /\ Editable(t)
  /\ MayRelease(t, by, planned)
  /\ SetDependencies(t, ds)
  /\ Edit(t, [rows[t] EXCEPT !.life = IF planned THEN "planned" ELSE "open",
                             !.held = planned /\ @])
  /\ hold' = [hold EXCEPT ![t] = IF @ = "held" /\ by = "human" /\ ~planned
                                 THEN "released" ELSE @]
  /\ UNCHANGED <<week, members, records>>

\* Mutant of MembershipOpen: an objective's children may change until it is done.
MembershipOpenLater(o) == rows[o].life \in {"open", "planned"}

\* No attempt was ever made on the objective and it has no submission.
MembershipOpen(o) ==
  /\ rows[o].life \in {"open", "planned"}
  /\ rows[o].work = "none"

UpdateChildren(o, ms) ==
  /\ Exists(o) /\ rows[o].objective
  /\ MembershipOpen(o)
  /\ ReplaceChildren(o, ms)
  /\ Edit(o, rows[o])
  /\ UNCHANGED <<week, needs, records, hold>>

HasRetainedHistory(t) ==
  \/ rows[t].work # "none"
  \/ \E n \in needs : t \in {n[1], n[2]}
  \/ \E r \in members : t \in {r.objective, r.child}

\* Agents cancel and delete the tasks agents created, and cancel others where the
\* project delegates that to them; the rest takes a human.
MayEndTask(t, by, delegated) == by = "agent" => rows[t].origin = "agent" \/ delegated

CancelTask(t, by) ==
  /\ Editable(t)
  /\ MayEndTask(t, by, RuleEditing)
  /\ Edit(t, [rows[t] EXCEPT !.life = "canceled", !.deleted = ~HasRetainedHistory(t)])
  /\ UNCHANGED <<week, needs, members, records, hold>>

DeleteTask(t, by) ==
  /\ Visible(t)
  /\ MayEndTask(t, by, FALSE)
  /\ rows[t].life \in {"planned", "canceled"}
  /\ ~HasRetainedHistory(t)
  /\ Edit(t, [rows[t] EXCEPT !.deleted = TRUE])
  /\ UNCHANGED <<week, needs, members, records, hold>>

\* A human closes a task delivered outside the coordinator.
CompleteExternal(t) ==
  /\ Editable(t) /\ rows[t].life = "open"
  /\ Edit(t, [rows[t] EXCEPT !.life = "done"])
  /\ UNCHANGED <<week, needs, members, records, hold>>

-----------------------------------------------------------------------------
\* The stages of a task's work.

Work(t, row) ==
  /\ rows' = [rows EXCEPT ![t] = row]
  /\ writer' = [writer EXCEPT ![t] = "service"]
  /\ previews' = Evented(previews)
  /\ UNCHANGED <<week, needs, members, records, hold>>

Claim(t) ==
  /\ Editable(t) /\ rows[t].life = "open"
  /\ PrerequisitesDone(t)
  /\ RequiredChildrenDone(t)
  /\ Work(t, [rows[t] EXCEPT !.work = "owned"])

Release(t) ==
  /\ Visible(t) /\ rows[t].work = "owned"
  /\ Work(t, [rows[t] EXCEPT !.work = "released"])

Submit(t) ==
  /\ Visible(t) /\ rows[t].work = "owned"
  /\ RequiredChildrenDone(t)
  /\ Work(t, [rows[t] EXCEPT !.work = "submitted"])

\* An approved general submission completes its task.
CompleteGeneralSubject(t) ==
  /\ Visible(t) /\ rows[t].work = "submitted" /\ rows[t].life = "open"
  /\ RequiredChildrenDone(t)
  /\ Work(t, [rows[t] EXCEPT !.life = "done"])

\* Changes were requested: the task may be claimed again.
ReopenSubmission(t) ==
  /\ Visible(t) /\ rows[t].work = "submitted" /\ rows[t].life = "open"
  /\ Work(t, [rows[t] EXCEPT !.work = "released"])

-----------------------------------------------------------------------------
\* Imports.

\* What an item says of its task: checked off or not, under the old title or a new one.
Items == [identity : Identities, closed : BOOLEAN, retitled : BOOLEAN]

\* The revision a preview saw of the item's record; 0 when there was none.
RecordRevision(i) == IF records[i] = Nil THEN 0 ELSE records[i].revision

\* A preview's own event does not count against other previews.
Preview(p, item) ==
  /\ previews[p] = Nil
  /\ previews' = [previews EXCEPT ![p] =
                    [item |-> item, prior |-> RecordRevision(item.identity),
                     fresh |-> TRUE, applied |-> FALSE]]
  /\ UNCHANGED <<week, rows, needs, members, records, hold, writer>>

\* The row of a task an import creates; imports are applied by humans.
ImportedRow(closed) ==
  [life |-> IF closed THEN "done" ELSE "planned", deleted |-> FALSE, origin |-> "human",
   admitted |-> 0, held |-> FALSE, revision |-> 1, work |-> "none", objective |-> FALSE]

\* Mutant of ImportManaged: the revision the last import left is not compared.
ImportManagedAnyRevision(t, at) ==
  rows[t].life \in {"planned", "done"} /\ rows[t].work = "none"

\* The task is as the last import left it, and nobody has worked on it.
ImportManaged(t, at) ==
  /\ rows[t].revision = at
  /\ rows[t].life \in {"planned", "done"}
  /\ rows[t].work = "none"

\* Mutant of StaysClosed: an item that is no longer checked off opens its task again.
StaysClosedIfItemSays(record, item) == item.closed

\* What is closed stays closed.
StaysClosed(record, item) ==
  record.closed \/ item.closed \/ rows[record.task].life = "done"

ApplyNew(item, t) ==
  /\ ~Exists(t)
  /\ rows' = [rows EXCEPT ![t] = ImportedRow(item.closed)]
  /\ writer' = [writer EXCEPT ![t] = "import"]
  /\ records' = [records EXCEPT ![item.identity] =
                   [task |-> t, revision |-> 1, at |-> 1, closed |-> item.closed]]

\* Bring an imported task up to date, or preserve what the service made of it.
ApplyExisting(item) ==
  LET record  == records[item.identity]
      t       == record.task
      closed  == StaysClosed(record, item)
      life    == IF closed THEN "done" ELSE "planned"
      changed == ImportManaged(t, record.at) /\ (item.retitled \/ rows[t].life # life)
  IN /\ record.revision < MaxRevision
     /\ changed => rows[t].revision < MaxRevision
     /\ rows' = IF changed
                THEN [rows EXCEPT ![t].life = life, ![t].revision = rows[t].revision + 1]
                ELSE rows
     /\ writer' = IF changed /\ writer[t] # "import"
                  THEN [writer EXCEPT ![t] = "overwritten"]
                  ELSE writer
     /\ records' = [records EXCEPT ![item.identity] =
                      [task |-> t, revision |-> record.revision + 1,
                       at |-> IF changed THEN record.at + 1 ELSE record.at,
                       closed |-> closed]]

\* Not applied yet, and nothing happened in the project since the preview.
Applicable(p) ==
  /\ previews[p] # Nil
  /\ ~previews[p].applied
  /\ previews[p].fresh
  /\ previews[p].prior = RecordRevision(previews[p].item.identity)

Apply(p, t) ==
  /\ Applicable(p)
  /\ LET item == previews[p].item
     IN \/ records[item.identity] = Nil /\ ApplyNew(item, t)
        \/ records[item.identity] # Nil /\ t = records[item.identity].task
                                        /\ ApplyExisting(item)
  /\ previews' = [Evented(previews) EXCEPT ![p].applied = TRUE]
  /\ UNCHANGED <<week, needs, members, hold>>

-----------------------------------------------------------------------------
Classes == {"none", "fix", "canary"}

\* The requests of some actors, naming up to so many prerequisites.
CreateNext(actors, classes, links) ==
  \E t \in {u \in Tasks : ~Exists(u)}, by \in actors, planned \in BOOLEAN :
    \/ \E class \in classes, backed \in BOOLEAN, ds \in Prerequisites[t] :
         Cardinality(ds) <= links /\ CreateTask(t, by, planned, class, backed, ds)
    \/ \E ms \in Memberships[t] : CreateObjective(t, by, planned, ms)

EditNext(actors, links) ==
  \/ \E t \in {u \in Tasks : Exists(u) /\ Editable(u)}, by \in actors :
       \/ CancelTask(t, by)
       \/ \E planned \in BOOLEAN, ds \in Prerequisites[t] :
            Cardinality(ds) <= links /\ UpdateTask(t, by, planned, ds)
  \/ \E t \in {u \in Tasks : Exists(u)} :
       CompleteExternal(t) \/ \E by \in actors : DeleteTask(t, by)
  \/ \E o \in {u \in Tasks : Exists(u) /\ rows[u].objective} :
       \E ms \in Memberships[o] : UpdateChildren(o, ms)

WorkNext ==
  \E t \in Tasks :
    Claim(t) \/ Release(t) \/ Submit(t) \/ CompleteGeneralSubject(t) \/ ReopenSubmission(t)

ImportNext ==
  \E p \in Previews :
    \/ \E item \in Items : Preview(p, item)
    \/ \E t \in Tasks : Apply(p, t)

PlanningNext ==
  \/ NextWeek
  \/ CreateNext({"human", "agent"}, Classes, MaxLinks)
  \/ EditNext({"human", "agent"}, MaxLinks)
  \/ WorkNext \/ ImportNext

-----------------------------------------------------------------------------
\* The work agents open in a week without a human or a fix class never exceeds
\* the budget, however they cancel and recreate it (admission.rs admit), and a
\* task the budget held is open or done only after a human released it
\* (coordination.rs update_task).
BudgetHeld ==
  /\ \A w \in 1..MaxWeek :
       Cardinality({t \in Tasks : Exists(t) /\ rows[t].admitted = w}) <= Budget
  /\ \A t \in Tasks :
       hold[t] = "held" => rows[t].life \in {"planned", "canceled"}

\* Prerequisites and objectives never wait for one another in a circle, and a
\* task has one parent objective (set_dependencies and validate_children check
\* the same graph from their two sides).
PlanIsATree ==
  /\ \A t, u \in Tasks : Follows(needs, members, t, u) => ~ReachesIn(needs, members, u, t)
  /\ \A r, s \in members : r.child = s.child => r = s

\* Once work on an objective began its required children are done and stay done,
\* whatever is edited, canceled or imported afterwards (update_children freezes
\* the membership; apply keeps a closed task closed).
FrozenScopeIsDone ==
  \A t \in Tasks : Exists(t) /\ rows[t].work # "none" => RequiredChildrenDone(t)

\* An import never changes a task the service wrote or worked on since the last
\* import, each checklist item keeps one task of its own, and a task whose item
\* was closed is never put back into the plan (imports.rs apply).
ImportsKeepTheRecord ==
  /\ \A t \in Tasks : writer[t] # "overwritten"
  /\ \A i, j \in Identities :
       records[i] # Nil /\ records[j] # Nil /\ i # j => records[i].task # records[j].task
  /\ \A i \in Identities :
       records[i] # Nil /\ records[i].closed /\ writer[records[i].task] = "import"
         => rows[records[i].task].life = "done"

\* The plan keeps its promises: the budget, the graph of prerequisites and
\* objectives, the frozen scope of an objective, and the imports.
PlanningSound == BudgetHeld /\ PlanIsATree /\ FrozenScopeIsDone /\ ImportsKeepTheRecord

\* "Required children must finish before it can be claimed or completed"
\* (coordination.rs, the guidance of the project overview).  An external completion
\* does not check it (README, section 5); no run checks it.
CompletedHasChildren ==
  \A t \in Tasks : Exists(t) /\ rows[t].life = "done" => RequiredChildrenDone(t)
=============================================================================
