\* A signal outside the loop has its default effect.
CONSTANTS
  Signal = {sigint, sigterm}
  MaxSignals = 2
SPECIFICATION Spec
INVARIANTS
  SignalledRunLeavesNothing
CHECK_DEADLOCK FALSE
