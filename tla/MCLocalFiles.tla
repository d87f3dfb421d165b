---------------------------- MODULE MCLocalFiles ----------------------------
(* Instances of ConfigStore, and with it of DatabaseFiles, for TLC. *)
EXTENDS ConfigStore, TLC

CONSTANTS a1, a2, cli

Starts == Permutations({a1, a2})
=============================================================================
