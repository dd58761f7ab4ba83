\* Indices of four bits: writing_idx crosses the sign bit (8, for 2^31).
CONSTANTS
  BLK_CNT = 4
  IDX_HALF = 8
  PayloadLens = {16, 41}
  StraySizes = {64}
  LastIdx = 14
SPECIFICATION Spec
INVARIANTS PopSizeNonZero
CHECK_DEADLOCK FALSE
