SPECIFICATION MCSpec
CONSTANTS
  a = a
  b = b
  c = c
  d = d
  i1 = i1
  i2 = i2
  i3 = i3
  o1 = o1
  o2 = o2
  NoPath = NoPath
  NoInode = NoInode
  Path <- AbcdPath
  Tree <- AbcTree
  Inode <- ThreeInode
  Owner <- OneOwner
  Data <- TwoData
  Mtime <- MCMtime
  MaxLinks = 2
  MaxChanges = 1
  LiveKinds <- AllKinds
  RacyEdits = TRUE
  MaxRuns = 2
SYMMETRY Symmetry
INVARIANTS
  TypeOK
  UntouchedPreserved
  AtMostOneNameLost
  NoContentLost
  DryRunReadOnly
  OldestWins
  FilesExact
