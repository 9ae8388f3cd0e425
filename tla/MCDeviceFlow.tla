---------------------------- MODULE MCDeviceFlow ----------------------------
(* Model-checking instance of DeviceFlow.                                  *)
EXTENDS DeviceFlow

=============================================================================
