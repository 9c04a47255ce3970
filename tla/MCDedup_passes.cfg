SPECIFICATION PassesSpec
CONSTANTS
  a = a
  b = b
  c = c
  d = d
  i1 = i1
  i2 = i2
  i3 = i3
  o1 = o1
  NoPath = NoPath
  NoInode = NoInode
  NoDB = NoDB
  BadDB = BadDB
  Path <- AbcdPath
  Tree <- AbcPath
  Inode <- ThreeInode
  Owner <- OneOwner
  Data <- Bytes01
  Mtime <- MCMtime
  HashType <- Md5
  BLKSZ = 2
  MaxLinks = 3
  MaxChanges = 0
  LiveKinds <- NoKinds
  RacyEdits = FALSE
  UseCache <- No
  ScanOnly <- YesNo
  MaxRuns = 1
SYMMETRY Symmetry3
INVARIANTS
  DedupTypeOK
  DuplicatesFound
  NothingLeftToMerge
  BlocksExact
  FailsOnlyAtLinkLimit
PROPERTIES
  DoDedupContract
