CONSTANTS
  Server = Server
  Ros = Ros
  None = None
  Ids = {1, 2}
  Absent = 100
  Skips = 2
  CountMax = 4
  Noise = {255}
  Room = 4
  Dummies = 2
  EarlyCmds = 1
  MaxCmds = 3
  MaxFaults = 1
SPECIFICATION FairSpec
INVARIANTS
  TypeOK
PROPERTIES
  SentOnce
  AckMeansTaken
  Resyncs
  CallsReturn
CHECK_DEADLOCK FALSE
