CONSTANTS
  Nodes = {n1, n2, n3}
  NULL = NULL
  STS = {s}
  SCS = {}
  Steppers = {m}
  Values = {0, 4}
  Speeds = {4}
  Periods <- MCPeriods
  StepsPerMs = 4
  Default <- MCDefault
  TickMod = 3
  Poll = 1
SPECIFICATION Spec
INVARIANTS
  ListIsOrder
PROPERTIES
  ImplementsFifo
  ActionsEnd
