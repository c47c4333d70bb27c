CONSTANTS
  alice = alice
  bob = bob
  c1 = c1
  c3 = c3
  t1 = t1
  t2 = t2
  t3 = t3
  NoOwner = NoOwner
  Users = {alice, bob}
  ShortCodes = {c1, c3}
  Tasks = {t1, t2, t3}
  Owner <- MCOwner
  TaskUID <- MCTaskUID
  TaskCodes <- MCTaskCodes
  Backend = "postgres"
  StorageFaults = TRUE
  Defaults <- Sizes
  Options <- NoOption
  DBDsn = TRUE
  FilePath = TRUE
CHECK_DEADLOCK FALSE
SPECIFICATION LifeFairSpec
INVARIANTS
  LifecycleTypeOK
  StorageClosesLast
  SignalledTasksAreFlushed
  DeletedOnRequest
 
