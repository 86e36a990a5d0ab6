SPECIFICATION Spec
CONSTANTS
  None = None
  Threads = {a, b, c}
  NumBuckets = 1
  Cap = 1
  Window = 2
  Wrap = 8
  MaxTime = 4
  MaxCalls = 5
INVARIANT RollbackLeavesNoResidue
CHECK_DEADLOCK FALSE
