\* A ring of four blocks, records of one and two blocks.  Lines of 8 bytes,
\* which leave no byte of scratch free, and a text too long; two lines fill a
\* batch; stdout may fail.
CONSTANTS
  BLK_CNT = 4
  IDX_HALF = 16
  PayloadLens = {16, 41}
  StraySizes = {0}
  LastIdx = 14
  ScratchLen = 8
  PrefixLen = 2
  FlushBytes = 16
  FlushInterval = 1
  IdleLoops = 2
  TextLens = {5, 6}
  StdoutOutcomes = {"ok", "err"}
  MaxCalls = 3
SPECIFICATION FairSpec
INVARIANTS TypeOK LinesInOrder OutputIsPrefix ScratchInBounds BatchBounded CallsCounted IndInv
PROPERTIES ImplementsBackend AllAccounted CallsReturn
CHECK_DEADLOCK FALSE
