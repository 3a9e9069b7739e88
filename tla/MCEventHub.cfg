SPECIFICATION PublishFairSpec
CONSTANTS
  c1 = c1
  c2 = c2
  u = u
  x = x
  e1 = e1
  e2 = e2
  e3 = e3
  e4 = e4
  NoUser = NoUser
  Users = {u, x}
  Clients <- MCClients
  UserOf <- MCUserOf
  Events <- MCEvents
  Origin <- MCOrigin
  Target <- MCTarget
  TypeOf <- MCTypeOf
  Filters <- MCFilters
  MaxPerUser = 1
  ChanCap = 1
  BufCap = 1
  MaxLosses = 1
INVARIANTS
  TypeOK
  NeverPanics
  LimitHolds
  CopiesAreBounded
PROPERTIES
  PublishReturns
CHECK_DEADLOCK FALSE
