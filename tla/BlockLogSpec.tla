---------------------------- MODULE BlockLogSpec ----------------------------
(***************************************************************************)
(* The block-scanning contract of spec.md (sections 3, 4.2 and 7) for a    *)
(* nodetool log, one block at a time.  The file is cut into blocks at      *)
(* header lines; lines before the first header belong to no block.  A     *)
(* block whose body is only blank lines is header-only, a block with a    *)
(* failure marker anywhere in its body is a failure block: both are       *)
(* skipped silently, and take precedence over extraction.  A data block   *)
(* is handed to the format's extractor, which yields one record, nothing  *)
(* ("skip"), or a fatal error that ends the file.                          *)
(*                                                                         *)
(* Extract(b, h, body) is the format's extractor for the b-th block, its   *)
(* header line h and body; it returns [err, rec] where err is "none",     *)
(* "skip" or one of Errors.  Each parser module instantiates this module   *)
(* with its extractor and shows it implements it.                          *)
(***************************************************************************)
EXTENDS BlockScan

CONSTANTS
    LineSet,            \* the lines a filtered log may contain
    Errors,             \* the fatal errors of the format
    Extract(_, _, _)    \* the format's extractor

VARIABLES
    lines,          \* the filtered log
    done,           \* number of blocks already consumed
    table,          \* records produced so far
    status          \* "running", "done", or the fatal error raised

vars == <<lines, done, table, status>>

HeaderPositions == {k \in 1 .. Len(lines) : IsHeader(lines[k])}

NumBlocks == Cardinality(HeaderPositions)

(* Position of the b-th header line.                                       *)
HeaderAt(b) ==
    CHOOSE k \in HeaderPositions : HeadersBefore(lines, k) = b - 1

(* The lines between the b-th header and the next header or end of file.   *)
Body(b) ==
    LET h == HeaderAt(b) IN SubSeq(lines, h + 1, NextHeader(lines, h + 1) - 1)

IsSkippable(body) ==
    \/ \A k \in 1 .. Len(body) : IsBlank(body[k])
    \/ \E k \in 1 .. Len(body) : IsFail(body[k])

(* Every block of the log is header-only or a failure block.              *)
AllSkippable ==
    \A b \in 1 .. NumBlocks : IsSkippable(Body(b))

Init ==
    /\ lines \in Seq(LineSet)
    /\ done = 0
    /\ table = << >>
    /\ status = "running"

SkipBlock ==
    /\ status = "running"
    /\ done < NumBlocks
    /\ IsSkippable(Body(done + 1))
    /\ done' = done + 1
    /\ UNCHANGED <<lines, table, status>>

DataBlock ==
    /\ status = "running"
    /\ done < NumBlocks
    /\ ~IsSkippable(Body(done + 1))
    /\ LET r == Extract(done + 1, lines[HeaderAt(done + 1)], Body(done + 1)) IN
         CASE r.err \in Errors ->
                /\ status' = r.err
                /\ UNCHANGED <<lines, done, table>>
           [] r.err = "skip" ->
                /\ done' = done + 1
                /\ UNCHANGED <<lines, table, status>>
           [] OTHER ->
                /\ table' = Append(table, r.rec)
                /\ done' = done + 1
                /\ UNCHANGED <<lines, status>>

Finish ==
    /\ status = "running"
    /\ done = NumBlocks
    /\ status' = "done"
    /\ UNCHANGED <<lines, done, table>>

Next == SkipBlock \/ DataBlock \/ Finish

SafetySpec == Init /\ [][Next]_vars

Spec == SafetySpec /\ WF_vars(Next)

=============================================================================
