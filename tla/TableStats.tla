----------------------------- MODULE TableStats -----------------------------
(***************************************************************************)
(* parse_tablestats_file (plot_cachestat.py), one loop iteration per step. *)
(* A header carries the keyspace of its optional "keyspace=" group, or    *)
(* NoKeyspace; "Keyspace :" and "Table :" lines carry their name; an      *)
(* "SSTables in each level" line carries its bracketed list as a value.   *)
(* "-----" separators and "Total number of tables:" lines are "sep";      *)
(* other lines are "other".                                                *)
(***************************************************************************)
EXTENDS BlockScan

CONSTANTS
    RawLine,            \* the lines a raw log may contain (noise included)
    MaxLines,           \* longest raw log checked
    ExpectedKeyspace,   \* expected_keyspace
    ExpectedTable,      \* expected_table
    NoKeyspace          \* header without "keyspace=..."

ASSUME MaxLines \in Nat

VARIABLES
    lines,          \* _read_filtered_lines(filename)
    i,              \* the scan index (1-based)
    pc,             \* "scan", "consume", "done", "error"
    blk,            \* ordinal of the block being parsed (stands for ts)
    seenOther,      \* seen_other_keyspaces # set()
    inExpected,     \* in_expected_table
    found,          \* found_levels, 0 for None
    records,        \* records
    err             \* reason of the ValueError raised, "none" before

vars == <<lines, i, pc, blk, seenOther, inExpected, found, records, err>>

Init ==
    /\ \E raw \in SeqOf(RawLine, MaxLines) : lines = ReadFilteredLines(raw)
    /\ i = 1
    /\ pc = "scan"
    /\ blk = 0
    /\ seenOther = FALSE
    /\ inExpected = FALSE
    /\ found = 0
    /\ records = << >>
    /\ err = "none"

Raise(reason) ==
    /\ pc' = "error"
    /\ err' = reason
    /\ UNCHANGED <<lines, seenOther, inExpected, found, records>>

ScanLine ==
    /\ pc = "scan"
    /\ i <= Len(lines)
    /\ ~IsHeader(lines[i])
    /\ i' = i + 1
    /\ UNCHANGED <<lines, pc, blk, seenOther, inExpected, found, records, err>>

(* A header: header-only and failure blocks are skipped first; then a     *)
(* "keyspace=" group other than the expected one raises; otherwise the    *)
(* body is consumed from i + 1 with fresh per-block state.                 *)
Header ==
    /\ pc = "scan"
    /\ i <= Len(lines)
    /\ IsHeader(lines[i])
    /\ blk' = HeadersBefore(lines, i) + 1
    /\ LET j == SkipBlanks(lines, i + 1) IN
         CASE j > Len(lines) \/ IsHeader(lines[j]) ->
                /\ i' = j
                /\ UNCHANGED <<lines, pc, seenOther, inExpected, found, records, err>>
           [] BlockHasFailure(lines, j) ->
                /\ i' = NextHeader(lines, j)
                /\ UNCHANGED <<lines, pc, seenOther, inExpected, found, records, err>>
           [] lines[i].name \notin {NoKeyspace, ExpectedKeyspace} ->
                /\ i' = i + 1
                /\ Raise("header_keyspace")
           [] OTHER ->
                /\ i' = i + 1
                /\ pc' = "consume"
                /\ seenOther' = FALSE
                /\ inExpected' = FALSE
                /\ found' = 0
                /\ UNCHANGED <<lines, records, err>>

(* Mutation: a levels line is taken whatever table section it is in.     *)
ConsumeAnyLevels ==
    /\ pc = "consume"
    /\ i <= Len(lines)
    /\ ~IsHeader(lines[i])
    /\ LET l == lines[i] IN
         /\ seenOther' = (seenOther \/ (l.kind = "ks" /\ l.name # ExpectedKeyspace))
         /\ inExpected' = CASE l.kind = "ks"  -> FALSE
                            [] l.kind = "tbl" -> l.name = ExpectedTable
                            [] OTHER          -> inExpected
         /\ found' = IF l.kind = "levels" THEN l.n ELSE found
    /\ i' = i + 1
    /\ UNCHANGED <<lines, pc, blk, records, err>>

(* Mutation: "continue" on a separator line without "i += 1".             *)
ConsumeSepNoAdvance ==
    /\ pc = "consume"
    /\ i <= Len(lines)
    /\ ~IsHeader(lines[i])
    /\ LET l == lines[i] IN
         /\ seenOther' = (seenOther \/ (l.kind = "ks" /\ l.name # ExpectedKeyspace))
         /\ inExpected' = CASE l.kind = "ks"  -> FALSE
                            [] l.kind = "tbl" -> l.name = ExpectedTable
                            [] OTHER          -> inExpected
         /\ found' = IF l.kind = "levels" /\ inExpected THEN l.n ELSE found
         /\ i' = IF l.kind = "sep" THEN i ELSE i + 1
    /\ UNCHANGED <<lines, pc, blk, records, err>>

(* One body line: a "Keyspace :" line records a non-target keyspace and  *)
(* leaves any table section; a "Table :" line enters or leaves the        *)
(* expected table's section; a levels line inside it is kept.             *)
Consume ==
    /\ pc = "consume"
    /\ i <= Len(lines)
    /\ ~IsHeader(lines[i])
    /\ LET l == lines[i] IN
         /\ seenOther' = (seenOther \/ (l.kind = "ks" /\ l.name # ExpectedKeyspace))
         /\ inExpected' = CASE l.kind = "ks"  -> FALSE
                            [] l.kind = "tbl" -> l.name = ExpectedTable
                            [] OTHER          -> inExpected
         /\ found' = IF l.kind = "levels" /\ inExpected THEN l.n ELSE found
    /\ i' = i + 1
    /\ UNCHANGED <<lines, pc, blk, records, err>>

(* Mutation: the "if not found_levels" check is dropped.                  *)
BlockEndNoMissingCheck ==
    /\ pc = "consume"
    /\ ~(i <= Len(lines) /\ ~IsHeader(lines[i]))
    /\ IF seenOther
         THEN Raise("other_keyspace")
         ELSE /\ records' = Append(records, [blk |-> blk, levels |-> found])
              /\ pc' = "scan"
              /\ UNCHANGED <<lines, seenOther, inExpected, found, err>>
    /\ UNCHANGED <<i, blk>>

(* End of the block (next header or EOF): a non-target keyspace raises,  *)
(* then a missing levels line raises; otherwise the record is appended.   *)
BlockEnd ==
    /\ pc = "consume"
    /\ ~(i <= Len(lines) /\ ~IsHeader(lines[i]))
    /\ CASE seenOther  -> Raise("other_keyspace")
         [] found = 0  -> Raise("missing_levels")
         [] OTHER ->
              /\ records' = Append(records, [blk |-> blk, levels |-> found])
              /\ pc' = "scan"
              /\ UNCHANGED <<lines, seenOther, inExpected, found, err>>
    /\ UNCHANGED <<i, blk>>

Finish ==
    /\ pc = "scan"
    /\ i > Len(lines)
    /\ pc' = "done"
    /\ UNCHANGED <<lines, i, blk, seenOther, inExpected, found, records, err>>

Next ==
    \/ ScanLine
    \/ Header
    \/ Consume
    \/ BlockEnd
    \/ Finish

(* A single sequential loop: its next step is always taken.               *)
Spec == Init /\ [][Next]_vars /\ WF_vars(Next)

-----------------------------------------------------------------------------
(***************************************************************************)
(* Properties                                                              *)
(***************************************************************************)

LevelValues == {l.n : l \in {r \in RawLine : r.kind = "levels"}}

TypeOK ==
    /\ lines \in Seq(RawLine)
    /\ i \in 1 .. (Len(lines) + 1)
    /\ pc \in {"scan", "consume", "done", "error"}
    /\ blk \in Nat
    /\ {seenOther, inExpected} \subseteq BOOLEAN
    /\ found \in LevelValues \cup {0}
    /\ records \in Seq([blk : Nat, levels : LevelValues])
    /\ err \in {"none", "header_keyspace", "other_keyspace", "missing_levels"}

BlocksDone ==
    HeadersBefore(lines, i) - (IF pc \in {"consume", "error"} THEN 1 ELSE 0)

Abs == INSTANCE TableStatsSpec
         WITH LineSet <- {l \in RawLine : ~IsNoise(l)},
              done    <- BlocksDone,
              table   <- records,
              status  <- CASE pc = "done"  -> "done"
                           [] pc = "error" -> err
                           [] OTHER        -> "running"

(* The flag-driven body loop implements the block-level contract: a data *)
(* block yields the last levels value of the expected table's section,    *)
(* whatever "Keyspace :" and "Table :" lines come between, and raises     *)
(* exactly when its header or body names another keyspace or the section  *)
(* has no levels line; skippable blocks never raise.                       *)
Refinement == Abs!SafetySpec

(* The parser always returns or raises.                                   *)
Termination == <>(pc \in {"done", "error"})

=============================================================================
