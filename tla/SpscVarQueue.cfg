\* A ring of four blocks; records of one, two and three blocks.  Indices of
\* five bits: the model stays below the sign bit (LastIdx + 3 <= IDX_HALF).
CONSTANTS
  BLK_CNT = 4
  IDX_HALF = 16
  PayloadLens = {16, 41, 168}
  StraySizes = {0, 64}
  LastIdx = 10
SPECIFICATION FairSpec
INVARIANTS TypeOK NoOverrun ReservationContiguous RecordIntact PopSizeNonZero RewindLeadsToRecord IndInv
PROPERTIES DrainedRefusal ImplementsChannel ImplementsLiveChannel PublishReturns
CHECK_DEADLOCK FALSE
