------------------------- MODULE MCHistoryRetention -------------------------
(* Instances of HistoryRetention for TLC. *)
EXTENDS HistoryRetention, TLC

CONSTANTS c1, u1, u2, bg, ui, ui2

NoRange == {}
=============================================================================
