--------------------------- MODULE MCInstanceLock ---------------------------
(* Instances of InstanceLock for TLC. *)
EXTENDS InstanceLock, TLC

CONSTANTS app1, app2, cli
=============================================================================
