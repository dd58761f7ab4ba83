\* Two threads that log records of one block.
CONSTANTS
  BLK_CNT = 4
  IDX_HALF = 16
  PayloadLens = {16}
  StraySizes = {0}
  LastIdx = 4
SPECIFICATION SharedSpec
INVARIANTS PublishedAfterWritten
CHECK_DEADLOCK FALSE
