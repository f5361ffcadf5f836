SPECIFICATION Spec
CONSTANTS
  t1 = t1
  t2 = t2
  secp = secp
  session = session
  ed = ed
  Task = {t1, t2}
  Role = {secp, ed}
  KindOf <- MCKindOf
  MaxContexts = 1
  MaxCalls = 1
  MaxFaults = 0
  MaxOdometer = 3
INVARIANTS
  PreFetchIsCurrent
CHECK_DEADLOCK FALSE
