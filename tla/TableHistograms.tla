--------------------------- MODULE TableHistograms ---------------------------
(***************************************************************************)
(* parse_tablehistograms_file (plot_cachestat.py), one loop iteration per  *)
(* step, over the filtered log.  Header and banner lines carry the        *)
(* keyspace.table they name (one model value for the pair); a percentile  *)
(* row carries its label and its SSTables value.                           *)
(***************************************************************************)
EXTENDS BlockScan

CONSTANTS
    RawLine,        \* the lines a raw log may contain (noise included)
    MaxLines,       \* longest raw log checked
    Expected        \* expected_keyspace.expected_table

ASSUME MaxLines \in Nat

VARIABLES
    lines,          \* _read_filtered_lines(filename)
    i,              \* the scan index (1-based)
    pc,             \* "scan", "units", "collect", "done", "error"
    blk,            \* ordinal of the block being parsed (stands for ts)
    vals,           \* vals: label -> SSTables value
    records,        \* records
    err             \* reason of the ValueError raised, "none" before

vars == <<lines, i, pc, blk, vals, records, err>>

(* row_re: a "NN%", "Min" or "Max" label followed by a number.             *)
IsRow(l) == l.kind = "row"

Init ==
    /\ \E raw \in SeqOf(RawLine, MaxLines) : lines = ReadFilteredLines(raw)
    /\ i = 1
    /\ pc = "scan"
    /\ blk = 0
    /\ vals = << >>
    /\ records = << >>
    /\ err = "none"

(* raise ValueError with i where the code has left it.                    *)
Raise(reason, at) ==
    /\ pc' = "error"
    /\ err' = reason
    /\ i' = at
    /\ UNCHANGED <<lines, vals, records>>

ScanLine ==
    /\ pc = "scan"
    /\ i <= Len(lines)
    /\ ~IsHeader(lines[i])
    /\ i' = i + 1
    /\ UNCHANGED <<lines, pc, blk, vals, records, err>>

(* Mutation: the failure skip resumes one line past the next header.    *)
HeaderFailureSkipPastHeader ==
    /\ pc = "scan"
    /\ i <= Len(lines)
    /\ IsHeader(lines[i])
    /\ blk' = HeadersBefore(lines, i) + 1
    /\ LET j == SkipBlanks(lines, i + 1) IN
         CASE lines[i].name # Expected -> Raise("header_mismatch", i + 1)
           [] j > Len(lines) \/ IsHeader(lines[j]) ->
                /\ i' = j
                /\ UNCHANGED <<lines, pc, vals, records, err>>
           [] BlockHasFailure(lines, j) ->
                /\ i' = NextHeader(lines, j) + 1
                /\ UNCHANGED <<lines, pc, vals, records, err>>
           [] lines[j].kind # "banner" -> Raise("malformed_banner", j)
           [] lines[j].name # Expected -> Raise("banner_mismatch", j)
           [] OTHER ->
                /\ i' = j + 1
                /\ pc' = "units"
                /\ vals' = << >>
                /\ UNCHANGED <<lines, records, err>>

(* A header: its keyspace.table is checked first; then a header-only or   *)
(* failure block is skipped; otherwise the first non-blank line must be   *)
(* the expected "keyspace/table histograms" banner.                        *)
Header ==
    /\ pc = "scan"
    /\ i <= Len(lines)
    /\ IsHeader(lines[i])
    /\ blk' = HeadersBefore(lines, i) + 1
    /\ LET j == SkipBlanks(lines, i + 1) IN
         CASE lines[i].name # Expected -> Raise("header_mismatch", i + 1)
           [] j > Len(lines) \/ IsHeader(lines[j]) ->
                /\ i' = j
                /\ UNCHANGED <<lines, pc, vals, records, err>>
           [] BlockHasFailure(lines, j) ->
                /\ i' = NextHeader(lines, j)
                /\ UNCHANGED <<lines, pc, vals, records, err>>
           [] lines[j].kind # "banner" -> Raise("malformed_banner", j)
           [] lines[j].name # Expected -> Raise("banner_mismatch", j)
           [] OTHER ->
                /\ i' = j + 1
                /\ pc' = "units"
                /\ vals' = << >>
                /\ UNCHANGED <<lines, records, err>>

(* Skip the column-header and units lines up to a row, a header or a      *)
(* blank line.                                                             *)
SkipUnits ==
    /\ pc = "units"
    /\ IF i <= Len(lines) /\ ~(IsRow(lines[i]) \/ IsHeader(lines[i])
                              \/ IsBlank(lines[i]))
         THEN /\ i' = i + 1
              /\ UNCHANGED pc
         ELSE /\ pc' = "collect"
              /\ UNCHANGED i
    /\ UNCHANGED <<lines, blk, vals, records, err>>

(* Mutation: the first row of a label wins (vals.setdefault).          *)
CollectFirstWins ==
    /\ pc = "collect"
    /\ IF i > Len(lines) \/ IsBlank(lines[i]) \/ IsHeader(lines[i])
         THEN /\ records' = IF DOMAIN vals = {} THEN records
                            ELSE Append(records, [blk |-> blk, vals |-> vals])
              /\ pc' = "scan"
              /\ UNCHANGED <<i, vals>>
         ELSE /\ vals' = IF IsRow(lines[i])
                           THEN vals @@ (lines[i].name :> lines[i].n)
                           ELSE vals
              /\ i' = i + 1
              /\ UNCHANGED <<pc, records>>
    /\ UNCHANGED <<lines, blk, err>>

(* Mutation: "i += 1" only under "if rm:", other lines never passed. *)
CollectAdvanceOnlyOnRow ==
    /\ pc = "collect"
    /\ IF i > Len(lines) \/ IsBlank(lines[i]) \/ IsHeader(lines[i])
         THEN /\ records' = IF DOMAIN vals = {} THEN records
                            ELSE Append(records, [blk |-> blk, vals |-> vals])
              /\ pc' = "scan"
              /\ UNCHANGED <<i, vals>>
         ELSE /\ vals' = IF IsRow(lines[i])
                           THEN (lines[i].name :> lines[i].n) @@ vals
                           ELSE vals
              /\ i' = IF IsRow(lines[i]) THEN i + 1 ELSE i
              /\ UNCHANGED <<pc, records>>
    /\ UNCHANGED <<lines, blk, err>>

(* Collect rows until a blank line, a header or EOF; at the loop's exit   *)
(* a block with rows yields its record and one without is skipped.        *)
Collect ==
    /\ pc = "collect"
    /\ IF i > Len(lines) \/ IsBlank(lines[i]) \/ IsHeader(lines[i])
         THEN /\ records' = IF DOMAIN vals = {} THEN records
                            ELSE Append(records, [blk |-> blk, vals |-> vals])
              /\ pc' = "scan"
              /\ UNCHANGED <<i, vals>>
         ELSE /\ vals' = IF IsRow(lines[i])
                           THEN (lines[i].name :> lines[i].n) @@ vals
                           ELSE vals
              /\ i' = i + 1
              /\ UNCHANGED <<pc, records>>
    /\ UNCHANGED <<lines, blk, err>>

Finish ==
    /\ pc = "scan"
    /\ i > Len(lines)
    /\ pc' = "done"
    /\ UNCHANGED <<lines, i, blk, vals, records, err>>

Next ==
    \/ ScanLine
    \/ Header
    \/ SkipUnits
    \/ Collect
    \/ Finish

(* A single sequential loop: its next step is always taken.               *)
Spec == Init /\ [][Next]_vars /\ WF_vars(Next)

-----------------------------------------------------------------------------
(***************************************************************************)
(* Properties                                                              *)
(***************************************************************************)

Labels == {l.name : l \in {r \in RawLine : IsRow(r)}}

TypeOK ==
    /\ lines \in Seq(RawLine)
    /\ i \in 1 .. (Len(lines) + 1)
    /\ pc \in {"scan", "units", "collect", "done", "error"}
    /\ blk \in Nat
    /\ DOMAIN vals \subseteq Labels
    /\ \A k \in 1 .. Len(records) :
         /\ DOMAIN records[k] = {"blk", "vals"}
         /\ records[k].blk \in Nat
         /\ DOMAIN records[k].vals \subseteq Labels
    /\ err \in {"none", "header_mismatch", "malformed_banner", "banner_mismatch"}

BlocksDone ==
    HeadersBefore(lines, i)
      - (IF pc \in {"units", "collect", "error"} THEN 1 ELSE 0)

Abs == INSTANCE TableHistogramsSpec
         WITH LineSet <- {l \in RawLine : ~IsNoise(l)},
              done    <- BlocksDone,
              table   <- records,
              status  <- CASE pc = "done"  -> "done"
                           [] pc = "error" -> err
                           [] OTHER        -> "running"

(* For logs of the expected table, the parser implements the block-level  *)
(* contract: skippable blocks yield nothing, a data block with a wrong or *)
(* missing banner raises, and every other data block yields the last      *)
(* value of each percentile label of its table, or nothing if it has no   *)
(* row, in file order.                                                     *)
Refinement == Abs!SafetySpec

(* Spec section 8: a log whose blocks are all header-only or failure      *)
(* blocks parses to an empty table and never raises, whatever its headers *)
(* name (failure and header-only classification take precedence).         *)
SkippableLogNeverRaises ==
    Abs!Log!AllSkippable => pc # "error"

(* The parser always returns or raises.                                   *)
Termination == <>(pc \in {"done", "error"})

=============================================================================
