---------------------- MODULE MCKeycloakRegistration ----------------------
(* Model-checking instance of KeycloakRegistration.                        *)
EXTENDS KeycloakRegistration, TLC

\* Runs and workloads are interchangeable, and there is no liveness property.
Symmetry == Permutations(Run) \cup Permutations(Workload)

=============================================================================
