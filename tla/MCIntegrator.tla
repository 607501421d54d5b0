---------------------------- MODULE MCIntegrator ----------------------------
(* The integrator with two tasks whose candidates conflict.                *)
EXTENDS Integrator

CONSTANTS t1, t2, v1

MCTasks == {t1, t2}
MCUndo == t1 :> v1
MCClashes == {{t1, t2}}
MCPrivileged == {t2}

\* The first task is the first to be submitted.
FirstFirst == subs[t2] # <<>> => subs[t1] # <<>>
=============================================================================
