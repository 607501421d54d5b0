------------------------------- MODULE MCDelivery -------------------------------
(* One client of each kind; every bound is in the configuration.                *)
EXTENDS Delivery

CONSTANTS c1, c2

\* A release before any claim is refused, and without a provisioned client nobody is
\* answered: such states are checked, and not followed further.  The wall clock
\* is first right, or wrong by more than the tolerance.
Provisioned ==
  /\ \A c \in Clients : journal[c].saved # <<>> => journal[c].saved[1] = "claim"
  /\ db.open \cup db.closed = {} => elapsed = 0 /\ events = 0
  /\ events = 0 => skew # Tolerance
=============================================================================
