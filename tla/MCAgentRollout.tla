--------------------------- MODULE MCAgentRollout ---------------------------
(* AgentRollout is checked as it is: its constants get their values in the *)
(* cfg files.  There is no symmetry, because one of its properties is a    *)
(* liveness property.                                                      *)
EXTENDS AgentRollout

=============================================================================
