--------------------------- MODULE TableStatsSpec ---------------------------
(***************************************************************************)
(* The table-stats extractor as spec.md section 4.3 states it, under the  *)
(* block-level contract of BlockLogSpec.  A data block's header keyspace, *)
(* when the header names one, and every "Keyspace :" line of its body     *)
(* must be the expected keyspace; the block yields the "SSTables in each  *)
(* level" value found inside the expected table's section (the last one   *)
(* if there are several), and must contain one.                           *)
(***************************************************************************)
EXTENDS BlockScan

CONSTANTS
    LineSet,            \* the lines a filtered log may contain
    ExpectedKeyspace,   \* expected_keyspace
    ExpectedTable,      \* expected_table
    NoKeyspace          \* header without "keyspace=..."

VARIABLES lines, done, table, status

Errors == {"header_keyspace", "other_keyspace", "missing_levels"}

(* Position k of body lies in the expected table's section: the nearest   *)
(* "Keyspace :" or "Table :" line above it is "Table : <expected>".       *)
InExpectedSection(body, k) ==
    LET marks == {p \in 1 .. (k - 1) : body[p].kind \in {"ks", "tbl"}}
    IN  /\ marks # {}
        /\ body[Max(marks)].kind = "tbl"
        /\ body[Max(marks)].name = ExpectedTable

Extract(b, h, body) ==
    LET found == {k \in 1 .. Len(body) :
                    body[k].kind = "levels" /\ InExpectedSection(body, k)}
        err   == CASE h.name \notin {NoKeyspace, ExpectedKeyspace} -> "header_keyspace"
                   [] \E k \in 1 .. Len(body) :
                        body[k].kind = "ks" /\ body[k].name # ExpectedKeyspace
                                                           -> "other_keyspace"
                   [] found = {}                           -> "missing_levels"
                   [] OTHER                                -> "none"
    IN  [err |-> err,
         rec |-> [blk |-> b,
                  levels |-> IF found = {} THEN 0 ELSE body[Max(found)].n]]

Log == INSTANCE BlockLogSpec

SafetySpec == Log!SafetySpec

=============================================================================
