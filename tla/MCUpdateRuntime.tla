--------------------------- MODULE MCUpdateRuntime ---------------------------
(* Instances of UpdateRuntime for TLC. *)
EXTENDS UpdateRuntime

CONSTANTS h1, h2
=============================================================================
