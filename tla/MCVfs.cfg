SPECIFICATION FairSpec
CONSTANTS
  Process = {p, q}
  Boot = boot
  NodeId = {1, 2, 3, 4, 5, 6, 7, 8, 9, 10, 11, 12}
  None = None
  Paths <- SomePaths
  MkDirs <- SomeDirs
  Num = 2
  MaxSize = 3
  MaxOpens = 6
  MaxFiles = 1
  MaxInode = 4
INVARIANTS NoPanic MountSeen OpenersAgree CopyExact
 
CHECK_DEADLOCK FALSE
