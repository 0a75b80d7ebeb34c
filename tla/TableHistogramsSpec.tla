------------------------ MODULE TableHistogramsSpec ------------------------
(***************************************************************************)
(* The table-histograms extractor as spec.md section 4.3 states it, under  *)
(* the block-level contract of BlockLogSpec.  A data block must carry the *)
(* expected keyspace.table in its header and the expected keyspace/table  *)
(* banner as its first line; after the column-header lines, the rows of   *)
(* the percentile table (up to its closing blank line) give one value per *)
(* label, the last one read winning; a block with no row yields nothing.  *)
(***************************************************************************)
EXTENDS BlockScan

CONSTANTS
    LineSet,        \* the lines a filtered log may contain
    Expected        \* expected_keyspace/expected_table, as one name

VARIABLES lines, done, table, status

Errors == {"header_mismatch", "malformed_banner", "banner_mismatch"}

IsRow(l) == l.kind = "row"

(* The value of each label among the rows of t, the last row winning.     *)
LastValues(t) ==
    LET idx    == {k \in 1 .. Len(t) : IsRow(t[k])}
        labels == {t[k].name : k \in idx}
    IN  [lab \in labels |->
           t[Max({k \in idx : t[k].name = lab})].n]

Extract(b, h, body) ==
    LET f      == SkipBlanks(body, 1)
        rest   == SubSeq(body, f + 1, Len(body))
        u      == SelectInSeq(rest, LAMBDA l : IsRow(l) \/ IsBlank(l))
        tbl0   == IF u = 0 THEN << >> ELSE SubSeq(rest, u, Len(rest))
        e      == SelectInSeq(tbl0, IsBlank)
        tbl    == IF e = 0 THEN tbl0 ELSE SubSeq(tbl0, 1, e - 1)
        vals   == LastValues(tbl)
        err    == CASE h.name # Expected              -> "header_mismatch"
                    [] body[f].kind # "banner"        -> "malformed_banner"
                    [] body[f].name # Expected        -> "banner_mismatch"
                    [] DOMAIN vals = {}               -> "skip"
                    [] OTHER                          -> "none"
    IN  [err |-> err, rec |-> [blk |-> b, vals |-> vals]]

Log == INSTANCE BlockLogSpec

SafetySpec == Log!SafetySpec

=============================================================================
