-------------------------- MODULE MCAuthbridgeExec --------------------------
(* Model-checking instance of AuthbridgeExec.                              *)
EXTENDS AuthbridgeExec

=============================================================================
