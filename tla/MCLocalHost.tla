----------------------------- MODULE MCLocalHost -----------------------------
(* Model-checking instance of LocalHost: two collectors, or an agent in a  *)
(* container and one other command: another agent in a container, a        *)
(* process, which may hold any port, or a collector.                       *)
EXTENDS LocalHost, TLC

CONSTANTS c1, c2, p1, p2

MCAgents == {j \in Exec : j.contained /\ j.agent}

MCOthers == MCAgents \cup {j \in Exec : ~j.contained} \cup Collect

MCJobs ==
  {(c1 :> j) @@ (c2 :> k) : j \in MCAgents, k \in MCOthers}
    \cup [Command -> Collect]

Symmetry == Permutations({p1, p2}) \cup Permutations(Namespace)

=============================================================================
