\* Indices of four bits: the sign bit is at 8 (for 2^31).
CONSTANTS
  BLK_CNT = 4
  IDX_HALF = 8
  PayloadLens = {16, 41}
  StraySizes = {64}
  LastIdx = 14
SPECIFICATION Spec
PROPERTIES DrainedAccepts
CHECK_DEADLOCK FALSE
