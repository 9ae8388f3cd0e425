------------------------ MODULE MCInstanceRegistry ------------------------
(* Model-checking instance of InstanceRegistry.                            *)
EXTENDS InstanceRegistry, TLC

\* Runs, namespaces and names are interchangeable, and no property of the
\* run is a liveness property.
Symmetry ==
  Permutations(Process) \cup Permutations(Namespace) \cup Permutations(Name)

=============================================================================
