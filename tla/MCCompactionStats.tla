------------------------- MODULE MCCompactionStats -------------------------
(***************************************************************************)
(* Model of parse_compactionstats_file over every raw log of at most       *)
(* MaxLines lines drawn from a vocabulary that reaches each branch of the  *)
(* parser: pending totals 0 and 1, target and non-target sublist entries,  *)
(* a malformed sublist line, column header, rows, the sentinel, failure    *)
(* markers, blank lines and noise.                                         *)
(***************************************************************************)
EXTENDS CompactionStats

MCTarget == "ycsb.usertable"

MCRawLine ==
    { Line("hdr", "-", 0), Line("blank", "-", 0), Line("noise", "-", 0),
      Line("fail", "-", 0), Line("pending", "-", 0), Line("pending", "-", 1),
      Line("sub", MCTarget, 1), Line("sub", "ycsb.other", 1),
      Line("badsub", "-", 0), Line("acthdr", "-", 0), Line("row", "-", 0),
      Line("sentinel", "-", 0) }

=============================================================================
