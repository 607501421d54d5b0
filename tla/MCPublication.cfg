SPECIFICATION Spec
CONSTANTS
  a1 = a1  a2 = a2  h1 = h1  t1 = t1  t2 = t2  c1 = c1
  Nobody = Nobody  NoTask = NoTask
  Agents = {a1}
  Humans = {}
  Tasks = {t1, t2}
  CodeTasks = {t1, t2}
  Checks = {c1}
  Modes = {"none"}
  Automatics = {FALSE}
  Recoveries = {"agent"}
  MaxSubs = 1
  MaxSlot = 2
  MaxGen = 2
  MaxPolicies = 1
  MaxDigest = 1
  MaxForeign = 1
SYMMETRY Symmetry
CHECK_DEADLOCK FALSE
INVARIANTS PublicationSound AgentNonPublicationIsFinal
CONSTRAINT ThreeClaims
