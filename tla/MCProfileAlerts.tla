--------------------------- MODULE MCProfileAlerts ---------------------------
(* Instances of AlertDelivery, and with it of Profiles, for TLC. *)
EXTENDS AlertDelivery, TLC

CONSTANTS h1, h2, old, new, k1, k2

Symmetries == Permutations({h1, h2}) \union Permutations({k1, k2})
=============================================================================
