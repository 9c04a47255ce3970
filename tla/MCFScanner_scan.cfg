SPECIFICATION MCSpec
CONSTANTS
  a = a
  b = b
  c = c
  h = h
  v = v
  r = r
  d = d
  x = x
  i1 = i1
  i2 = i2
  i3 = i3
  i4 = i4
  o1 = o1
  NoInode = NoInode
  NoKey = NoKey
  Root = r
  HcdPath = h
  VPath = v
  Path <- MCPath
  Tree <- MCPath
  Subdir <- MCSubdir
  Up <- MCUp
  Above <- MCAbove
  OtherFS <- MCOtherFS
  Name <- MCName
  Options <- MCOptions
  HcdFile <- MCHcdFile
  Inode <- MCInode
  Ino <- MCInode
  Key <- MCKey
  SLOTQ = 1
  Owner <- MCOwner
  Data <- MCData
  Mtime <- MCMtime
  MaxLinks = 5
  MaxChanges = 1
  LiveKinds <- EditKinds
  RacyEdits = TRUE
  UseCache <- YesNo
INVARIANTS
  ScanTypeOK
  ScanExact
  FailsOnlyOnRenames
PROPERTIES
  HandsOutClusters
  ScanEnds
