CONSTANTS
  SpeedMsgs <- MCSpeedMsgs
  PosMsgs <- MCPosMsgs
  ModeMsgs = {0, 1}
  EncoderReads <- Standing
  PosBound = 1
SPECIFICATION Spec
INVARIANT
  PlacesNotAdded
