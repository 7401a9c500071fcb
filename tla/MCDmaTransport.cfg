CONSTANTS
  Size = 4
  Lens = {1, 3}
  Timeouts <- MCTimeouts
  MaxBytes = 9
  MaxOpens = 3
SPECIFICATION FairSpec
INVARIANTS
  InOrder
PROPERTIES
  LostByLap
  ByteTaken
  Resyncs
  CallsReturn
