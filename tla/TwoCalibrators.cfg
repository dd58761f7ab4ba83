\* One reader; the first thread calibrates while the second call initialises.
CONSTANTS
  Readers = {r1}
  Interval = 2
  MaxTsc = 4
SPECIFICATION TwoSpec
INVARIANTS OneCalibration
