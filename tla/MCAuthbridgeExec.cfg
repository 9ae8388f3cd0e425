\* Every configuration and flag combination, two signals, every failure.
CONSTANTS
  Signal = {sigint, sigterm}
  MaxSignals = 2
SPECIFICATION LiveSpec
INVARIANTS
  TypeOK
  DependenciesUp
  NothingLeftBehind
  ChildIsServed
PROPERTIES
  ChildExitEndsRun
  SignalReachesChild
CHECK_DEADLOCK FALSE
