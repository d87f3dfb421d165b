----------------------------- MODULE MCUsageSync -----------------------------
(* Instances of UsageSync for TLC. *)
EXTENDS UsageSync, TLC

CONSTANTS c1, u1, bg, ui

NoRange == {}
\* The first morning, which the collector syncs too, and all that follows it.
MorningAndRest == {<<0, 1>>, <<1, 4>>}
=============================================================================
