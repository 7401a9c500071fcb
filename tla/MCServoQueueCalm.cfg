CONSTANTS
  Nodes = {n1, n2}
  NULL = NULL
  STS = {s}
  SCS = {c}
  Steppers = {m}
  Values = {0, 7}
  Speeds = {4}
  Periods <- SteadyPeriods
  StepsPerMs = 4
  Default <- MCDefault
  TickMod = 5
  Poll = 1
SPECIFICATION SteadySpec
INVARIANTS
  OneAtATime
SYMMETRY Symmetry
