\* Two commands, one name in two namespaces, two ephemeral ports.
CONSTANTS
  c1 = c1
  c2 = c2
  p1 = p1
  p2 = p2
  Command = {c1, c2}
  Port = {otlp, p1, p2}
  Otlp = otlp
  None = None
  Namespace = {n1, n2}
  Name = {a}
  Second = {1, 2}
  Client = {r1}
  Jobs <- MCJobs
SPECIFICATION Spec
SYMMETRY Symmetry
INVARIANTS
  TypeOK
  RecordIsTrue
  RelayedIsItsOwn
  RecordNamesRunning
PROPERTIES
  LaterCollectKeepsConfig
  RemovedByOwner
  HostedClaims
CHECK_DEADLOCK FALSE
