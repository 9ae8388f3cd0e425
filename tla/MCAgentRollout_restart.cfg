SPECIFICATION Spec
CONSTANTS
  Command = {c1}
  Kind = {"setWait"}
  Policy = {old, new}
  NoSidecar = NoSidecar
  Failure = Failure
  Interval = 1
  Timeout = 2
INVARIANTS
  ConfirmedIsLoaded
CHECK_DEADLOCK FALSE
