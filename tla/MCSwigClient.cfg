SPECIFICATION Spec
SYMMETRY Callers
CONSTANTS
  t1 = t1
  t2 = t2
  secp = secp
  session = session
  ed = ed
  Task = {t1, t2}
  Role = {secp, ed}
  KindOf <- MCKindOf
  MaxContexts = 2
  MaxCalls = 1
  MaxFaults = 1
  MaxOdometer = 2
INVARIANTS
  TypeOK
  ClientInv
  SignedNotAhead
  BatchLandsOnce
  PreFetchIsBounded
PROPERTIES
  BuilderLandsInOrder
CHECK_DEADLOCK FALSE
