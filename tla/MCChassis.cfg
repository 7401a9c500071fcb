CONSTANTS
  SpeedMsgs <- MCSpeedMsgs
  PosMsgs <- MCPosMsgs
  ModeMsgs = {0, 1, 2}
  EncoderReads <- MCEncoderReads
  PosBound = 1
SPECIFICATION Spec
INVARIANTS
  FlagsMatchMove
  CommandInForce
  DisplacementApplied
  RunFlagSelectsKind
  
PROPERTIES
  ImplementsContract
