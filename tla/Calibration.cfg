\* The code's 1 s and 0.3 s, in tenths;
\* a read takes up to three units, so a sample may be off by one.
CONSTANTS
  InitTicks = 3
  Interval = 10
  LongestRead = 3
  MaxCalibrations = 3
SPECIFICATION Spec
INVARIANTS SampleClose FirstCorrection IndInv
PROPERTIES ErrorComesBack
CHECK_DEADLOCK FALSE
