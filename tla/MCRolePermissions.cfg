SPECIFICATION Spec
CONSTANTS
  c1 = c1
  c2 = c2
  mint = mint
  shop = shop
  app = app
  lib = lib
  Client = {c1, c2}
  Mint = {mint}
  Dest = {shop}
  Scope = {app, lib}
  MaxLimit = 2
  MaxWide = 4
  MaxActions = 4
  MaxChanges = 2
  Lists <- MCLists
  AnyPlace = AnyPlace
  NoArg = NoArg
  NoLimit = NoLimit
  Sol = Sol
SYMMETRY Symmetry
INVARIANTS
  TypeOK
  SpendAnswersAgree
PROPERTIES
  WriteBackKeepsGrants
  RevokesExactly
  RemovesTheSeen
CHECK_DEADLOCK FALSE
