\* Capacity 3, rounded up to 4; indices of four bits wrap for ever.
CONSTANTS
  capacity = 3
  IDX_MOD = 16
SPECIFICATION FairSpec
INVARIANTS TypeOK EntriesHeld IndInv
PROPERTIES PushReturns EventuallyPopped
