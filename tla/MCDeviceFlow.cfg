\* Requests as long as the interval, a server that insists on more than it
\* names, and a code that outlives several polls.
CONSTANTS
  DefaultInterval = 2
  Backoff = 2
  Timeout = 3
  MaxInterval = 3
  MaxPace = 4
  MaxLife = 16
SPECIFICATION LiveSpec
INVARIANTS
  TypeOK
  BackoffSettles
  FailsForAReason
  GrantedInTime
PROPERTIES
  NeverTooSoon
  LoginEnds
CHECK_DEADLOCK FALSE
