CONSTANTS
  c1 = c1
  c2 = c2
  u1 = u1
  u2 = u2
  alice = alice
  bob = bob
  ShortCodes = {c1, c2}
  OriginalURLs = {u1, u2}
  LongURLs = {u2}
  Users = {alice, bob}
  p1 = p1
  p2 = p2
  Clients = {p1, p2}
  Deleter = p2
  NoRow = NoRow
  NoCode = NoCode
  NoCall = NoCall
  Nobody = Nobody
  Requests <- MCRequests
  DiskFaults = FALSE
CHECK_DEADLOCK FALSE
SPECIFICATION FileSpec
INVARIANT WhatIsWrittenCanBeRead
