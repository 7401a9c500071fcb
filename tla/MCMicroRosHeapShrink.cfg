CONSTANTS
  Sizes <- MCSizes
  Align = 2
  xHeapStructSize = 2
  pxEnd = 24
SPECIFICATION Spec
INVARIANTS
  FreeChecks
CHECK_DEADLOCK FALSE
