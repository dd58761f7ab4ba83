\* One reader and one calibration after init.
CONSTANTS
  Readers = {r1}
  Interval = 2
  MaxTsc = 3
SPECIFICATION Spec
INVARIANTS SnapshotConsistent
