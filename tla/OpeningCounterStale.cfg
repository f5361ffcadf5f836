SPECIFICATION Spec
CONSTANTS
  owner = owner
  other = other
  secp = secp
  ed = ed
  Opener = {owner, other}
  Authority = {secp, ed}
  AuthOf <- MCAuthOf
  Owner = secp
  Counted = {secp}
  MaxCalls <- MCMaxCalls
  MaxRole = 2
  MaxUse = 1
  MaxFaults = 1
PROPERTY
  OpensWithCurrentCounter
CHECK_DEADLOCK FALSE
