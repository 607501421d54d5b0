SPECIFICATION Spec
CONSTANTS
  a1 = a1  a2 = a2  h1 = h1  t1 = t1  t2 = t2  c1 = c1
  Nobody = Nobody  NoTask = NoTask
  Agents = {a1, a2}
  Humans = {h1}
  Tasks = {t1}
  CodeTasks = {t1}
  Checks = {c1}
  Modes = {"none", "agent", "human", "either", "both"}
  Automatics = {TRUE}
  Recoveries = {"agent"}
  MaxSubs = 2
  MaxSlot = 1
  MaxGen = 1
  MaxPolicies = 2
  MaxDigest = 2
  MaxForeign = 0
SYMMETRY Symmetry
CHECK_DEADLOCK FALSE
INVARIANT ReviewsSound
PROPERTY AdvanceIsEarned
CONSTRAINT Unpublished
