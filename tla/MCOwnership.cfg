SPECIFICATION Spec
CONSTANTS
  t1 = t1  s1 = s1  h1 = h1  c1 = c1  a1 = a1  a2 = a2
  Tasks = {t1}
  Agents = {s1}
  Humans = {h1}
  Credentials = {c1}
  CredentialOf <- MCCredentialOf
  AttemptIds = {a1, a2}
  ReservationIds = {}
  JobIds = {}
  Resources = {}
  Checkouts = {}
  CheckoutsOn <- MCCheckoutsOn
  Revisions = {}
  Policies <- MCPolicies
  Requests = {}
  Capacities = {}
  RenewWindows = {}
  ReporterLifetime = 0
  DecisionTasks = {}
  MaxTime = 3
  None = None
SYMMETRY Symmetry
CHECK_DEADLOCK FALSE
INVARIANT OwnershipSound
PROPERTIES LeaseCapped ImplementsOwnership
