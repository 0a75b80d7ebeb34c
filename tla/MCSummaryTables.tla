--------------------------- MODULE MCSummaryTables ---------------------------
(* SummaryTables for TLC: a subtracted and a plain metric column.        *)
EXTENDS SummaryTables

MCColumns == <<"m1", "m2">>

=============================================================================
