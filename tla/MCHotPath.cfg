SPECIFICATION AllSpec
CONSTANTS
  None = None
  Threads = {a, b}
  NumBuckets = 2
  Cap = 1
  Window = 2
  Wrap = 8
  MaxTime = 3
  MaxCalls = 4
  Stripes = {s0, s1}
  StripeOf <- OwnStripe
  Batch = 2
  MaxEvents = 4
  Producers = {a, b}
  Capacity = 2
  KeepEveryN = 2
  MaxPackets = 6
INVARIANTS
  CapIsHard
  EachEventSentOnce
  TotalsAreExact
  EnqueuedIsDelivered
PROPERTIES
  WindowsInOrder
  EveryCallReturns
  FlushCoversItsStart
CHECK_DEADLOCK FALSE
