SPECIFICATION MCSpec
CONSTANTS
  a = a
  b = b
  c = c
  i1 = i1
  i2 = i2
  i3 = i3
  o1 = o1
  s1 = s1
  s2 = s2
  f1 = f1
  f2 = f2
  f3 = f3
  f4 = f4
  NoInode = NoInode
  NoData = NoData
  NoFile = NoFile
  NoProc = NoProc
  NoPath = NoPath
  Path <- MCPath
  Tree <- MCPath
  Inode <- MCInode
  Owner <- MCOwner
  Data <- MCData
  Mtime <- MCMtime
  MaxLinks = 5
  MaxChanges = 0
  LiveKinds <- NoKinds
  RacyEdits = FALSE
  Proc <- MCProc
  DBFile <- MCDBFile
  Args <- MCArgs
INVARIANTS
  RunsTypeOK
  NeverAnotherFile
  LockedRunsKeepNames
  LockedRunsSucceed
  CatalogueWhole
  LockedRunsKeepHashes
PROPERTIES
  EveryRunEnds
