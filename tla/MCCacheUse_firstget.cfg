SPECIFICATION MCSpec
CONSTANTS
  a = a
  b = b
  c = c
  i1 = i1
  i2 = i2
  o1 = o1
  NoInode = NoInode
  NoDB = NoDB
  BadDB = BadDB
  NoRec = NoRec
  Path <- AbPath
  Tree <- AbPath
  Inode <- TwoInode
  Owner <- OneOwner
  Data <- SmallData
  Mtime <- MCMtime
  HashType <- Md5
  MaxLinks = 2
  MaxChanges = 2
  LiveKinds <- NoKinds
  RacyEdits = FALSE
  ReadErrors = FALSE
  MaxRuns = 2
SYMMETRY Symmetry
INVARIANT
  FirstGetEndsValidation
