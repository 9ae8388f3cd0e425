\* A signal observed after the session API died is never forwarded.
CONSTANTS
  Signal = {sigint, sigterm}
  MaxSignals = 2
SPECIFICATION LiveSpec
PROPERTIES
  ObservedSignalEndsRun
CHECK_DEADLOCK FALSE
