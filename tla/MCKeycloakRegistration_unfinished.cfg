CONSTANTS
  Run = {r1, r2, r3}
  Workload = {w1, w2}
  ClientSecret = clientSecret
  FederatedJwt = federatedJwt
  MaxObject = 5
SPECIFICATION Spec
SYMMETRY Symmetry
CHECK_DEADLOCK FALSE
INVARIANTS
  RegisterFinishes
