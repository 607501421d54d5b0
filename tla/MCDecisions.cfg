SPECIFICATION PartsSpec
CONSTANTS
  t1 = t1  t2 = t2  t3 = t3  A = A  B = B  C = C  P = P  Q = Q  R = R
  Tasks = {t1, t2}
  DecisionIds = {1}
  Contents = {A, B}
  Rules = {P, Q}
  Required = {"human"}
  Dispositions = {"allow"}
  Expiries = {0}
  DecisionTimeout = 1
  SweepBatch = 1
  MaxRevision = 2
  MaxPolicies = 3
  MaxGeneration = 2
  MaxTime = 1
CONSTRAINT FewChanges
SYMMETRY Symmetry
CHECK_DEADLOCK FALSE
INVARIANT AnswersSound
PROPERTY WaitingProceeds
