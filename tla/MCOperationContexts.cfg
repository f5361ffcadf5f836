CONSTANTS
  swig = swig
  wallet = wallet
  sub1 = sub1
  sub2 = sub2
  own = own
  session = session
  payer = payer
  dest = dest
  ata = ata
  stray = stray
  claimer = claimer
  token = token
  token22 = token22
  system = system
  sysvar = sysvar
  rent = rent
  exec = exec
  other = other
  r1verify = r1verify
  mint = mint
  r1 = r1
  r2 = r2
  Address <- MCAddress
  SystemProgram = system
  InstructionsSysvar = sysvar
  NoAddress = NoAddress
  TokenProgram = token
  RentSysvar = rent
  ExecProgram = exec
  Secp256r1Precompile = r1verify
  NoIndex = NoIndex
  NoOdometer = NoOdometer
  AssociatedToken <- MCAssociatedToken
  Requests <- MCRequests
  Role = {r1, r2}
  NoRole = NoRole
  Swig = swig
  Wallet = wallet
  SubAccount <- MCSubAccount
  Own = own
  Session = session
  StoredClaimer = claimer
  Default = Default
SPECIFICATION Spec
INVARIANTS
  TypeOK
  CompactionInv
  CompactDecodes
  TransfersAreBalanced
  SignersAreAsked
  PayloadNamesAuthority
  BuiltIsAccepted
PROPERTY MetasOnlyGrow
