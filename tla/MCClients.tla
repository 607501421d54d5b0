------------------------------- MODULE MCClients -------------------------------
(***************************************************************************)
(* An agent's workstation: the guardian of a job, the helper that pushes a    *)
(* candidate, the publisher of an integration, the directories of the push    *)
(* helpers and the sessions the command line keeps.  They share no file; a     *)
(* behaviour exercises one of them (part), so that the state spaces add up     *)
(* instead of multiplying.                                                     *)
(***************************************************************************)
EXTENDS Guardian

CONSTANTS
    Commits, Secrets, SecretsIn, Known, Burst, MaxServed, MaxDeaths, MaxEdits, MaxOutside, Absent,
    Procs, Owner, Expected, Merged, Elsewhere, NoOne, MaxMoves,
    Roots, MaxKills, Nobody,
    Copies, Home, Identities, Transport, Rules, FirstRules, MaxTroubles, Nothing

VARIABLES
    part,
    direct, ref, wip, elsewhere, pushing, lease, intent, conn, mints, head, command, reply, served, deaths,
    outside, edits, receipts, ours, late, disclosed, recorded,
    contains, target, flying, pushIntent, checkout, holder, step, pending, service, live, retired,
    started, denied, reached, moves,
    doing, sweeper, listed, stale, dir, lock, helper, lost, doomed, kills,
    file, doingFor, applied, answer, policy, session, agreed, jobs, jobJournal, guarded, shown,
    grants, unanswered, troubles

\* The values that stand for nobody and nothing are not among those they are
\* absent from, and the commits of an integration differ.
ASSUME NoneAssumption ==
    /\ Nobody \notin Roots
    /\ NoOne \notin Procs /\ Owner \in Procs
    /\ Expected # Merged /\ Expected # Elsewhere /\ Merged # Elsewhere
    /\ NoOne \notin {Expected, Merged, Elsewhere}
    /\ Absent \notin Commits /\ SecretsIn \in [Commits -> SUBSET Secrets]

Candidate == INSTANCE CandidatePush
Publication == INSTANCE Publisher WITH intent <- pushIntent
LaunchDirs == INSTANCE PushHelper
Saved == INSTANCE ClientSession WITH step <- doingFor, journal <- jobJournal

\* Nothing is neither a saved session nor a mutation nor an answer.
ASSUME NothingAssumption ==
    /\ Nothing \notin [session : Saved!Sessions, orientation : Nat, acknowledged : Nat,
                       pending : [kind : {"register", "acknowledge", "claim", "job"},
                                  revision : Nat] \cup {Nothing}]
    /\ Nothing \notin [kind : {"register", "acknowledge", "claim", "job"}, revision : Nat]
    /\ Nothing \notin {"ok", "refused"}
    /\ FirstRules \in Rules /\ Home \in Copies

\* In the instance a commit's history holds a secret when the commit does.
MCSecretsIn == [c \in Commits |-> {c} \cap Secrets]

candidateVars == <<direct, ref, wip, elsewhere, pushing, lease, intent, conn, mints, head,
                   command, reply, served, deaths, outside, edits, receipts, ours, late,
                   disclosed, recorded>>
publicationVars == <<contains, target, flying, pushIntent, checkout, holder, step, pending,
                     service, live, retired, started, denied, reached, moves>>
dirVars == <<doing, sweeper, listed, stale, dir, lock, helper, lost, doomed, kills>>
savedVars == <<file, doingFor, applied, answer, policy, session, agreed, jobs, jobJournal,
               guarded, shown, grants, unanswered, troubles>>
allVars == <<part, vars, candidateVars, publicationVars, dirVars, savedVars>>

\* A part that does not run is in one initial state.
ClientsInit ==
    /\ part \in {"guardian", "candidate", "publication", "directories", "session"}
    /\ Init /\ Candidate!PushInit /\ Publication!PublisherInit
    /\ LaunchDirs!HelperInit /\ Saved!ClientInit
    /\ part # "candidate" => ~direct /\ head.of = CHOOSE c \in Commits : TRUE
    /\ part # "publication" => ~contains

ClientsNext ==
    \/ /\ part = "guardian" /\ Next
       /\ UNCHANGED <<part, candidateVars, publicationVars, dirVars, savedVars>>
    \/ /\ part = "candidate" /\ Candidate!PushNext
       /\ UNCHANGED <<part, vars, publicationVars, dirVars, savedVars>>
    \/ /\ part = "publication" /\ Publication!PublisherNext
       /\ UNCHANGED <<part, vars, candidateVars, dirVars, savedVars>>
    \/ /\ part = "directories" /\ LaunchDirs!HelperNext
       /\ UNCHANGED <<part, vars, candidateVars, publicationVars, savedVars>>
    \/ /\ part = "session" /\ Saved!ClientNext
       /\ UNCHANGED <<part, vars, candidateVars, publicationVars, dirVars>>

\* The fairness of Guardian: in the other parts no guardian runs.
ClientsSpec == ClientsInit /\ [][ClientsNext]_allVars /\ WF_vars(GuardianStep)

\* A launch publishes one candidate, never one with a secret, and the helper knows
\* the push it made (candidate_push.rs).
PushSound == Candidate!PushSound

\* An integration is pushed once, is reported as it happened, and its intent
\* outlives every stop (git_workflow.rs, cli/main.rs).
IntentSound == Publication!IntentSound

\* A sweep removes what dead launches left and nothing of a live one (layout.rs).
LaunchDirSound == LaunchDirs!LaunchDirSound

\* A saved session claims under rules it was shown, keeps its owner, and answers
\* for every grant and job (cli/main.rs, local/lib.rs).
SavedSessionsSound == Saved!SavedSessionsSound
=============================================================================
