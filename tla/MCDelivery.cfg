SPECIFICATION Spec
CONSTANTS
  c1 = c1  c2 = c2
  Clis = {c2}
  Mcps = {c1}
  Operations = {"claim", "release"}
  Lease = 1
  Retention = 1
  Idle = 1
  Batch = 1
  Tolerance = 1
  Skews = {0, 1, 2}
  MaxElapsed = 2
  MaxClients = 1
  MaxKeys = 2
  MaxSessions = 2
  MaxRestores = 1
  MaxEvents = 2
  MaxChanges = 3
CONSTRAINT Provisioned
CHECK_DEADLOCK FALSE
INVARIANTS MutationsSound AuthoritySound
PROPERTY NothingComesLate
