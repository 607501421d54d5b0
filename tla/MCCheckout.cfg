SPECIFICATION Spec
CONSTANTS
  t1 = t1  t2 = t2  s1 = s1  c1 = c1
  a1 = a1  a2 = a2  k1 = k1  v1 = v1  v2 = v2  x1 = x1  j1 = j1
  Tasks = {t1, t2}
  Agents = {s1}
  Humans = {}
  Credentials = {c1}
  CredentialOf <- MCCredentialOf
  AttemptIds = {a1, a2}
  ReservationIds = {v1, v2}
  JobIds = {j1}
  Resources = {x1}
  Checkouts = {k1}
  CheckoutsOn <- MCCheckoutsOn
  Revisions = {}
  Policies <- MCPolicies
  Requests <- MCRequests
  Capacities = {1}
  RenewWindows = {0}
  ReporterLifetime = 2
  DecisionTasks = {}
  MaxTime = 1
  None = None
CONSTRAINT Unedited
SYMMETRY Symmetry
CHECK_DEADLOCK FALSE
INVARIANT UnresolvedKeepsCheckout
