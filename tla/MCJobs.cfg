SPECIFICATION Spec
CONSTANTS
  t1 = t1  s1 = s1  c1 = c1
  a1 = a1  a2 = a2  a3 = a3  k1 = k1  k2 = k2  v1 = v1  v2 = v2  j1 = j1  x1 = x1
  r1 = r1  r2 = r2
  Tasks = {t1}
  Agents = {s1}
  Humans = {}
  Credentials = {c1}
  CredentialOf <- MCCredentialOf
  AttemptIds = {a1, a2, a3}
  ReservationIds = {v1, v2}
  JobIds = {j1}
  Resources = {x1}
  Checkouts = {k1, k2}
  CheckoutsOn <- MCCheckoutsOn
  Revisions = {r1, r2}
  Policies <- MCPolicies
  Requests <- MCRequests
  Capacities = {1}
  RenewWindows = {2}
  ReporterLifetime = 3
  DecisionTasks = {t1}
  MaxTime = 2
  None = None
CONSTRAINT Apart
SYMMETRY Symmetry
CHECK_DEADLOCK FALSE
INVARIANTS EvidenceSound RecoveryEvidence
PROPERTIES EvidenceStaysSettled ResultStands AuthorityNeverReturns
