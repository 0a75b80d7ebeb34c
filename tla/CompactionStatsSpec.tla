------------------------- MODULE CompactionStatsSpec -------------------------
(***************************************************************************)
(* The compaction-stats extractor as spec.md section 4.3 states it, and    *)
(* the block-level contract of BlockLogSpec instantiated with it.  This is *)
(* the abstract specification CompactionStats refines.                     *)
(***************************************************************************)
EXTENDS BlockScan

CONSTANTS
    LineSet,        \* the lines a filtered log may contain
    TargetTable     \* expected_table ("ycsb.usertable")

VARIABLES lines, done, table, status

Errors == {"no_pending", "malformed_sublist", "other_table", "sum_mismatch"}

IsDash(l) == l.kind \in {"sub", "badsub"}

(* Length of the longest prefix of s whose lines all satisfy P.            *)
PrefixLen(s, P(_)) ==
    LET m == SelectInSeq(s, LAMBDA l : ~P(l)) IN IF m = 0 THEN Len(s) ELSE m - 1

(* "pending tasks: N" right after the header, then the "- name: count"     *)
(* sublist (only the target table, summing to N), then after blank lines  *)
(* an optional active-compaction column header, then non-blank rows       *)
(* counted up to the "Active compaction remaining time" sentinel.         *)
Extract(b, h, body) ==
    LET sub    == SubSeq(body, 2, 1 + PrefixLen(Tail(body), IsDash))
        rest0  == SubSeq(body, 2 + Len(sub), Len(body))
        rest1  == SubSeq(rest0, 1 + PrefixLen(rest0, IsBlank), Len(rest0))
        rows0  == IF rest1 # << >> /\ rest1[1].kind = "acthdr"
                    THEN Tail(rest1) ELSE rest1
        rows   == SubSeq(rows0, 1, PrefixLen(rows0, LAMBDA l : l.kind # "sentinel"))
        target == {k \in 1 .. Len(sub) : sub[k].kind = "sub" /\ sub[k].name = TargetTable}
        sum    == MapThenSumSet(LAMBDA k : sub[k].n, target)
        err    == CASE body[1].kind # "pending"                          -> "no_pending"
                    [] \E k \in 1 .. Len(sub) : sub[k].kind = "badsub"    -> "malformed_sublist"
                    [] \E k \in 1 .. Len(sub) : sub[k].name # TargetTable -> "other_table"
                    [] sum # body[1].n                                   -> "sum_mismatch"
                    [] OTHER                                             -> "none"
    IN  [err |-> err,
         rec |-> [blk     |-> b,
                  pending |-> body[1].n,
                  active  |-> Len(SelectSeq(rows, LAMBDA l : ~IsBlank(l)))]]

Log == INSTANCE BlockLogSpec

SafetySpec == Log!SafetySpec

=============================================================================
