SPECIFICATION Spec
CONSTANTS
  c1 = c1
  c2 = c2
  secp = secp
  ed = ed
  session = session
  exec = exec
  NoKey = NoKey
  Client = {c1}
  Key = {secp, ed}
  KindOf <- MCKindOf
  RootKey = secp
  MaxRole = 3
  MaxInner = 2
  MaxCalls <- MCMaxCallsOne
  Methods = {"AddAuthority", "SignV2"}
  MaxSlot = 0
  MaxFaults = 0
  SlotWindow = 0
  OdometerModulus = 8
  MaxOdometer = 6
INVARIANTS
  OdometerMatchesChain
CHECK_DEADLOCK FALSE
