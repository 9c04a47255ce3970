SPECIFICATION Spec
CONSTANTS
  INT_MAX = 262143
  ULLONG = 1073741824
  StBlocks <- MCStBlocks
  MaxTotal = 300000
INVARIANTS
  SizesTypeOK
  FreedIsRight
  CompactFits
PROPERTIES
  FreedNeverShrinks
CHECK_DEADLOCK FALSE
