\* Three runs compete for the names of two namespaces while one List call
\* goes through them.
CONSTANTS
  Process = {p1, p2, p3}
  Reader = {r1}
  Namespace = {n1, n2}
  Name = {a, b}
  NoFile = NoFile
SPECIFICATION Spec
SYMMETRY Symmetry
INVARIANTS
  TypeOK
  RecordsWhole
  KeepsItsRecord
  NoTempLeftBehind
  ListAccurate
PROPERTIES
  ClaimsSpec
CHECK_DEADLOCK FALSE
