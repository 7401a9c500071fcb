CONSTANTS
  Sizes <- MCSizes
  Align = 2
  xHeapStructSize = 2
  pxEnd = 24
SPECIFICATION GrowingSpec
INVARIANTS
  Tiled
  ListIsJoined
  Counted
  FailsWhenFull
PROPERTIES
  ImplementsHeap
CHECK_DEADLOCK FALSE
