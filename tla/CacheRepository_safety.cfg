CONSTANTS
  c1 = c1
  c2 = c2
  c3 = c3
  u1 = u1
  u2 = u2
  alice = alice
  bob = bob
  ShortCodes = {c1, c2, c3}
  OriginalURLs = {u1, u2}
  Users = {alice, bob}
  Clients = {p1, p2}
  NoRow = NoRow
  NoCode = NoCode
  NoCall = NoCall
  Nobody = Nobody
  Requests <- MCRequests
SPECIFICATION Spec
INVARIANTS
  TypeOK
  IndexMatchesStorage
PROPERTIES
  BindingsAreImmutable
  DeletedStaysDeleted
  ImplementsURLStore
