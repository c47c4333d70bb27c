CONSTANTS
  c1 = c1
  c2 = c2
  c3 = c3
  u1 = u1
  u2 = u2
  u3 = u3
  alice = alice
  bob = bob
  ShortCodes = {c1, c2, c3}
  OriginalURLs = {u1, u2, u3}
  Users = {alice, bob}
  Clients = {p1, p2}
  NoRow = NoRow
  NoCall = NoCall
  Requests <- MCRequests
  PoolSize = 2
  Faults = TRUE
SPECIFICATION PgFairSpec
INVARIANTS
  PgTypeOK
  OneCodePerURL
PROPERTIES
  TakenCodesAreNamed
  ImplementsURLStore
  EveryPgCallReturns
