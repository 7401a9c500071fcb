CONSTANTS
  Nodes = {n1, n2}
  NULL = NULL
  STS = {s}
  SCS = {}
  Steppers = {m}
  Values = {0, 24}
  Speeds = {4, 8}
  Periods <- MCPeriods
  StepsPerMs = 12
  Default <- MCDefault
  TickMod = 16
  Poll = 2
SPECIFICATION KnownSpec
INVARIANTS
  WaitIsEnough
