SPECIFICATION Spec
CONSTANTS
  t1 = t1
  t2 = t2
  secp = secp
  session = session
  ed = ed
  Task = {t1}
  Role = {secp, session}
  KindOf <- MCKindOf
  MaxContexts = 2
  MaxCalls = 1
  MaxFaults = 0
  MaxOdometer = 3
INVARIANTS
  BuilderContinues
CHECK_DEADLOCK FALSE
