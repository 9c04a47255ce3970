SPECIFICATION MCSpec
CONSTANTS
  a = a
  b = b
  c = c
  d = d
  i1 = i1
  i2 = i2
  i3 = i3
  o1 = o1
  o2 = o2
  NoPath = NoPath
  NoInode = NoInode
  Path <- AbcPath
  Tree <- AbcTree
  Inode <- ThreeInode
  Owner <- TwoOwner
  Data <- TwoData
  Mtime <- MCMtime
  MaxLinks = 3
  MaxChanges = 1
  LiveKinds <- ChownKinds
  RacyEdits = FALSE
  MaxRuns = 1
SYMMETRY Symmetry
INVARIANT
  OwnersPreserved
