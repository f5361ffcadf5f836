SPECIFICATION Spec
SYMMETRY Handles
CONSTANTS
  c1 = c1
  c2 = c2
  secp = secp
  ed = ed
  session = session
  exec = exec
  NoKey = NoKey
  Client = {c1, c2}
  Key = {secp, session}
  KindOf <- MCKindOf
  RootKey = secp
  MaxRole = 2
  MaxInner = 1
  MaxCalls <- MCMaxCalls
  Methods = {"AddAuthority", "RemoveAuthority", "SignV2", "CreateSession", "SwitchAuthority"}
  MaxSlot = 0
  MaxFaults = 2
  SlotWindow = 0
  OdometerModulus = 8
  MaxOdometer = 6
INVARIANTS
  TypeOK
  IInv
  RetryExecutesOnce
  PermissionsFreshAfterOk
PROPERTIES
  RemovesTheNamedAuthority
  OptimisticSpec
CHECK_DEADLOCK FALSE
