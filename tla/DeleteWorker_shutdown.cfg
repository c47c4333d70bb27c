CONSTANTS
  alice = alice
  bob = bob
  c1 = c1
  c2 = c2
  c3 = c3
  c4 = c4
  t1 = t1
  t2 = t2
  t3 = t3
  t4 = t4
  NoOwner = NoOwner
  Users = {alice, bob}
  ShortCodes = {c1, c2, c3, c4}
  Tasks = {t1, t2, t3, t4}
  Owner <- MCOwner
  TaskUID <- MCTaskUID
  TaskCodes <- MCKnownCodes
  Backend = "postgres"
  StorageFaults = FALSE
  Defaults <- Small
  Options <- NoOption
CHECK_DEADLOCK FALSE
SPECIFICATION Spec
INVARIANT ShutdownFlushSucceeds
