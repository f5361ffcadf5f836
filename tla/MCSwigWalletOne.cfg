SPECIFICATION FairSpec
CONSTANTS
  c1 = c1
  c2 = c2
  secp = secp
  ed = ed
  session = session
  exec = exec
  NoKey = NoKey
  Client = {c1}
  Key = {secp, ed, session, exec}
  KindOf <- MCKindOf
  RootKey = secp
  MaxRole = 3
  MaxInner = 2
  MaxCalls <- MCMaxCallsOne
  Methods = {"AddAuthority", "RemoveAuthority", "UpdateAuthority", "SignV2", "SubAccountV1", "SubAccountV2", "CreateSession", "SetRentClaimer", "SwitchAuthority"}
  MaxSlot = 1
  MaxFaults = 1
  SlotWindow = 0
  OdometerModulus = 8
  MaxOdometer = 6
INVARIANTS
  NeverAhead
PROPERTIES
  CallsReturn
CHECK_DEADLOCK FALSE
