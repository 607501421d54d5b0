------------------------------- MODULE Ownership --------------------------------
(***************************************************************************)
(* What the coordination contract promises about ownership, without leases,*)
(* sessions or clocks: a task has at most one holder, a holder never comes  *)
(* back once it has lapsed, and every grant carries a token greater than    *)
(* every token granted for the task before.                                 *)
(***************************************************************************)
EXTENDS Integers

CONSTANTS Tasks, Holders, None

VARIABLES
  holder,  \* [Tasks -> Holders \cup {None}]: who may act on the task
  token,   \* [Tasks -> Nat]: the fencing token of the latest grant
  spent    \* holders that were granted a task at some time

ownershipVars == <<holder, token, spent>>

OwnershipInit ==
  /\ holder = [t \in Tasks |-> None]
  /\ token = [t \in Tasks |-> 0]
  /\ spent = {}

\* A free task gets a holder nobody was granted before, and a new token.
Grant(t, h) ==
  /\ holder[t] = None
  /\ h \notin spent
  /\ holder' = [holder EXCEPT ![t] = h]
  /\ token' = [token EXCEPT ![t] = @ + 1]
  /\ spent' = spent \cup {h}

\* Time, a release, a closed session or a revoked credential ends holders.
Lapse(T) ==
  /\ T # {}
  /\ \A t \in T : holder[t] # None
  /\ holder' = [t \in Tasks |-> IF t \in T THEN None ELSE holder[t]]
  /\ UNCHANGED <<token, spent>>

OwnershipNext ==
  \/ \E t \in Tasks, h \in Holders : Grant(t, h)
  \/ \E T \in SUBSET Tasks : Lapse(T)

OwnershipSpec == OwnershipInit /\ [][OwnershipNext]_ownershipVars
=============================================================================
