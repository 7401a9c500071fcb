CONSTANTS
  Actions <- MCActions
  NoAction <- NoActionYet
  Modes = {0, 1, 2, 3, 4, 5, 6, 7, 8, 9, 10, 11, 12, 13, 14, 15, 16}
  PushSteps = {0}
  LiftSteps = {5263}
  QueueBound = 3
SPECIFICATION Spec
INVARIANTS
  SwingsRaised
  TrayTurnsClear
  RestsClear
