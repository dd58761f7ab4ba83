\* One reader and up to four calibrations; readers do not affect each other.
CONSTANTS
  Readers = {r1}
  Interval = 2
  MaxTsc = 8
SPECIFICATION FairSpec
INVARIANTS TypeOK SnapshotPair SnapshotCurrent IndInv
PROPERTIES Tsc2nsReturns
