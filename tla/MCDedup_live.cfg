SPECIFICATION LiveSpec
CONSTANTS
  a = a
  b = b
  c = c
  d = d
  i1 = i1
  i2 = i2
  i3 = i3
  o1 = o1
  NoPath = NoPath
  NoInode = NoInode
  NoDB = NoDB
  BadDB = BadDB
  Path <- AbcPath
  Tree <- AbcPath
  Inode <- TwoInode
  Owner <- OneOwner
  Data <- Truncations
  Mtime <- MCMtime
  HashType <- Md5
  BLKSZ = 2
  MaxLinks = 3
  MaxChanges = 1
  LiveKinds <- AllKinds
  RacyEdits = FALSE
  UseCache <- YesNo
  ScanOnly <- No
  MaxRuns = 2
ACTION_CONSTRAINT CalmWithCache
INVARIANTS
  CacheSound
  ReadsFailOnlyOnDisturbed
PROPERTIES
  DoDedupContract
  Terminates
