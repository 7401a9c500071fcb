CONSTANTS
  Goals = {0, 3}
  Speeds = {0, 2}
  HomeGoal = 1
  BootGoal <- MCBootGoal
  Starts = {0, 3}
  MinShaft <- MCMinShaft
  MaxShaft = 3
  MaxBounces = 2
  TotalBound = 4
SPECIFICATION FairSpec
INVARIANTS
  TargetKept
  HomedAtSwitch
  Coordinates
PROPERTIES
  MoveEnds
  BootHomes
