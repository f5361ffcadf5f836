SPECIFICATION Spec
CONSTANTS
  merchant = merchant
  owner = owner
  wallet = wallet
  Role = {merchant, owner}
  Asset = {wallet}
  PermissionsOf <- MCPermissionsOf
  MaxDuration <- MCMaxDuration
  MaxLocks = 2
  MaxBalance = 2
  MaxSlot = 1
  MaxCalls <- MCMaxCalls
INVARIANTS
  LocksInv
  TypeOK
  EveryTailDecodes
  PruneIsAccepted
  AvailableIsAccepted
PROPERTIES
  RemovesTheSeenLock
CHECK_DEADLOCK FALSE
