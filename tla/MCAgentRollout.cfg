SPECIFICATION LiveSpec
CONSTANTS
  Command = {c1}
  Kind = {"wait", "set", "setWait"}
  Policy = {old, new, other}
  NoSidecar = NoSidecar
  Failure = Failure
  Interval = 2
  Timeout = 3
INVARIANTS
  TypeOK
  SeenIfSteady
  ConfirmedWhenAlone
PROPERTIES
  BoundedWaitEnds
CHECK_DEADLOCK FALSE
