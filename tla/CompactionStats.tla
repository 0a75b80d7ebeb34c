--------------------------- MODULE CompactionStats ---------------------------
(***************************************************************************)
(* parse_compactionstats_file (plot_cachestat.py), one loop iteration per  *)
(* step.  The filtered log is read once; the index i walks it exactly as   *)
(* the code's while-loops do, pc says which loop of the function is       *)
(* running.  A block's timestamp is abstracted to the block's ordinal.     *)
(***************************************************************************)
EXTENDS BlockScan

CONSTANTS
    RawLine,        \* the lines a raw log may contain (noise included)
    MaxLines,       \* longest raw log checked
    TargetTable     \* expected_table

ASSUME MaxLines \in Nat

VARIABLES
    lines,          \* _read_filtered_lines(filename)
    i,              \* the scan index (1-based: code index + 1)
    pc,             \* "scan", "pending", "sublist", "count", "done", "error"
    blk,            \* ordinal of the block being parsed (stands for ts)
    pendingTotal,   \* pending_total
    ycsbSum,        \* ycsb_sum
    otherSeen,      \* other_seen # []
    activeCount,    \* active_count
    records,        \* records
    err             \* reason of the ValueError raised, "none" before

vars == <<lines, i, pc, blk, pendingTotal, ycsbSum, otherSeen, activeCount,
          records, err>>

IsPending(l) == l.kind = "pending"
StartsWithDash(l) == l.kind \in {"sub", "badsub"}

Init ==
    /\ \E raw \in SeqOf(RawLine, MaxLines) : lines = ReadFilteredLines(raw)
    /\ i = 1
    /\ pc = "scan"
    /\ blk = 0
    /\ pendingTotal = 0
    /\ ycsbSum = 0
    /\ otherSeen = FALSE
    /\ activeCount = 0
    /\ records = << >>
    /\ err = "none"

Raise(reason) ==
    /\ pc' = "error"
    /\ err' = reason
    /\ UNCHANGED <<lines, i, blk, pendingTotal, ycsbSum, otherSeen,
                   activeCount, records>>

(* Outer loop: a line that is not a header is passed over.                 *)
ScanLine ==
    /\ pc = "scan"
    /\ i <= Len(lines)
    /\ ~IsHeader(lines[i])
    /\ i' = i + 1
    /\ UNCHANGED <<lines, pc, blk, pendingTotal, ycsbSum, otherSeen,
                   activeCount, records, err>>

(* Mutation: the header-only skip resumes one line past j.                *)
HeaderSkipPastNext ==
    /\ pc = "scan"
    /\ i <= Len(lines)
    /\ IsHeader(lines[i])
    /\ LET j == SkipBlanks(lines, i + 1) IN
         CASE j > Len(lines) \/ IsHeader(lines[j]) ->
                /\ i' = j + 1
                /\ UNCHANGED pc
           [] BlockHasFailure(lines, j) ->
                /\ i' = NextHeader(lines, j)
                /\ UNCHANGED pc
           [] OTHER ->
                /\ i' = i + 1
                /\ pc' = "pending"
    /\ blk' = HeadersBefore(lines, i) + 1
    /\ UNCHANGED <<lines, pendingTotal, ycsbSum, otherSeen, activeCount,
                   records, err>>

(* Mutation: failure blocks are not recognised before extraction.         *)
HeaderNoFailureCheck ==
    /\ pc = "scan"
    /\ i <= Len(lines)
    /\ IsHeader(lines[i])
    /\ LET j == SkipBlanks(lines, i + 1) IN
         IF j > Len(lines) \/ IsHeader(lines[j])
           THEN /\ i' = j
                /\ UNCHANGED pc
           ELSE /\ i' = i + 1
                /\ pc' = "pending"
    /\ blk' = HeadersBefore(lines, i) + 1
    /\ UNCHANGED <<lines, pendingTotal, ycsbSum, otherSeen, activeCount,
                   records, err>>

(* A header: skip blank lines to j; a header-only block (EOF or another   *)
(* header at j) resumes the scan at j, a failure block resumes it at the  *)
(* next header; otherwise the block is parsed starting at i + 1.           *)
Header ==
    /\ pc = "scan"
    /\ i <= Len(lines)
    /\ IsHeader(lines[i])
    /\ LET j == SkipBlanks(lines, i + 1) IN
         CASE j > Len(lines) \/ IsHeader(lines[j]) ->
                /\ i' = j
                /\ UNCHANGED pc
           [] BlockHasFailure(lines, j) ->
                /\ i' = NextHeader(lines, j)
                /\ UNCHANGED pc
           [] OTHER ->
                /\ i' = i + 1
                /\ pc' = "pending"
    /\ blk' = HeadersBefore(lines, i) + 1
    /\ UNCHANGED <<lines, pendingTotal, ycsbSum, otherSeen, activeCount,
                   records, err>>

(* The line right after the header must be "pending tasks: N".            *)
Pending ==
    /\ pc = "pending"
    /\ IF i <= Len(lines) /\ IsPending(lines[i])
         THEN /\ pendingTotal' = lines[i].n
              /\ i' = i + 1
              /\ ycsbSum' = 0
              /\ otherSeen' = FALSE
              /\ pc' = "sublist"
              /\ UNCHANGED <<lines, blk, activeCount, records, err>>
         ELSE Raise("no_pending")

(* One "- name: count" line of the per-table pending list.                *)
Sublist ==
    /\ pc = "sublist"
    /\ i <= Len(lines)
    /\ StartsWithDash(lines[i])
    /\ IF lines[i].kind = "badsub"
         THEN Raise("malformed_sublist")
         ELSE /\ IF lines[i].name = TargetTable
                   THEN /\ ycsbSum' = ycsbSum + lines[i].n
                        /\ UNCHANGED otherSeen
                   ELSE /\ otherSeen' = TRUE
                        /\ UNCHANGED ycsbSum
              /\ i' = i + 1
              /\ UNCHANGED <<lines, pc, blk, pendingTotal, activeCount,
                             records, err>>

(* End of the pending list: validate it, skip blank lines and the         *)
(* optional active-compaction column header.                               *)
SublistEnd ==
    /\ pc = "sublist"
    /\ ~(i <= Len(lines) /\ StartsWithDash(lines[i]))
    /\ CASE otherSeen                -> Raise("other_table")
         [] ycsbSum # pendingTotal   -> Raise("sum_mismatch")
         [] OTHER ->
              LET k == SkipBlanks(lines, i) IN
              /\ i' = IF k <= Len(lines) /\ lines[k].kind = "acthdr"
                        THEN k + 1 ELSE k
              /\ activeCount' = 0
              /\ pc' = "count"
              /\ UNCHANGED <<lines, blk, pendingTotal, ycsbSum, otherSeen,
                             records, err>>

Emit ==
    records' = Append(records, [blk     |-> blk,
                                pending |-> pendingTotal,
                                active  |-> activeCount])

(* Mutation: "i += 1" indented under "if s:", blank rows never passed.   *)
CountRowNoAdvanceOnBlank ==
    /\ pc = "count"
    /\ CASE i > Len(lines) \/ IsHeader(lines[i]) ->
              /\ Emit
              /\ pc' = "scan"
              /\ UNCHANGED <<i, activeCount>>
         [] lines[i].kind = "sentinel" ->
              /\ Emit
              /\ pc' = "scan"
              /\ i' = i + 1
              /\ UNCHANGED activeCount
         [] OTHER ->
              /\ activeCount' = IF IsBlank(lines[i]) THEN activeCount
                                ELSE activeCount + 1
              /\ i' = IF IsBlank(lines[i]) THEN i ELSE i + 1
              /\ UNCHANGED <<pc, records>>
    /\ UNCHANGED <<lines, blk, pendingTotal, ycsbSum, otherSeen, err>>

(* Count active-compaction rows until the sentinel, a header or EOF; the  *)
(* loop's exit appends the block's record.                                 *)
CountRow ==
    /\ pc = "count"
    /\ CASE i > Len(lines) \/ IsHeader(lines[i]) ->
              /\ Emit
              /\ pc' = "scan"
              /\ UNCHANGED <<i, activeCount>>
         [] lines[i].kind = "sentinel" ->
              /\ Emit
              /\ pc' = "scan"
              /\ i' = i + 1
              /\ UNCHANGED activeCount
         [] OTHER ->
              /\ activeCount' = IF IsBlank(lines[i]) THEN activeCount
                                ELSE activeCount + 1
              /\ i' = i + 1
              /\ UNCHANGED <<pc, records>>
    /\ UNCHANGED <<lines, blk, pendingTotal, ycsbSum, otherSeen, err>>

(* End of file: the records become the returned table.                    *)
Finish ==
    /\ pc = "scan"
    /\ i > Len(lines)
    /\ pc' = "done"
    /\ UNCHANGED <<lines, i, blk, pendingTotal, ycsbSum, otherSeen,
                   activeCount, records, err>>

Next ==
    \/ ScanLine
    \/ Header
    \/ Pending
    \/ Sublist
    \/ SublistEnd
    \/ CountRow
    \/ Finish

(* The parser is a single sequential loop: while it has not returned or  *)
(* raised, its next step is always enabled and is taken.                  *)
Spec == Init /\ [][Next]_vars /\ WF_vars(Next)

-----------------------------------------------------------------------------
(***************************************************************************)
(* Properties                                                              *)
(***************************************************************************)

TypeOK ==
    /\ lines \in Seq(RawLine)
    /\ i \in 1 .. (Len(lines) + 1)
    /\ pc \in {"scan", "pending", "sublist", "count", "done", "error"}
    /\ blk \in Nat
    /\ {pendingTotal, ycsbSum, activeCount} \subseteq Nat
    /\ otherSeen \in BOOLEAN
    /\ records \in Seq([blk : Nat, pending : Nat, active : Nat])
    /\ err \in {"none", "no_pending", "malformed_sublist", "other_table",
                "sum_mismatch"}

(* Blocks the scanner has finished with: every header before i, except    *)
(* the one of the block it is still parsing (or raised in).                *)
BlocksDone ==
    HeadersBefore(lines, i)
      - (IF pc \in {"pending", "sublist", "count", "error"} THEN 1 ELSE 0)

Abs == INSTANCE CompactionStatsSpec
         WITH LineSet <- {l \in RawLine : ~IsNoise(l)},
              done    <- BlocksDone,
              table   <- records,
              status  <- CASE pc = "done"  -> "done"
                           [] pc = "error" -> err
                           [] OTHER        -> "running"

(* The index-walking parser implements the block-level contract of the   *)
(* spec: header-only and failure blocks (wherever the marker sits, after  *)
(* leading blank lines or after the sentinel) are skipped, every data     *)
(* block in file order yields exactly its record (pending total and       *)
(* active rows), and the first malformed data block raises the error the  *)
(* contract names, with no record of a later block produced before it.    *)
Refinement == Abs!SafetySpec

(* The parser always returns or raises: no path through the index loops   *)
(* leaves i where it was.                                                  *)
Termination == <>(pc \in {"done", "error"})

=============================================================================
