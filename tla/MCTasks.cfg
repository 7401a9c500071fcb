CONSTANTS
  Control = Control
  Servo = Servo
  Ros = Ros
  Default = Default
  LED = LED
  Control_Lock = Control_Lock
  Servo_Lock = Servo_Lock
  Servo_Lock_Upper = Servo_Lock_Upper
  None = None
SPECIFICATION Spec
INVARIANTS
  TypeOK
  CreatedInTime
  ControlFirst
  RaisedForControl
PROPERTIES
  LockGranted
  AllRun
