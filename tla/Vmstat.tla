------------------------------- MODULE Vmstat -------------------------------
(***************************************************************************)
(* parse_vmstat_command_file (plot_cachestat.py).  A line is abstracted to *)
(* what the parser tests in it:                                            *)
(*   "procs"   the "procs ---memory--- ..." group header;                  *)
(*   "hdr"     a column header starting with "r "; name "full" when it    *)
(*             also has " swpd " and " id ", "noswpd" when it lacks swpd; *)
(*   "short"   a line with fewer tokens than the header (truncated, or    *)
(*             text);                                                      *)
(*   "row"     a complete data row: name is its CPU columns, "ok" (they   *)
(*             sum into [99,101]), "off" (they do not) or "nan" (one is   *)
(*             not numeric); n is 1 when its timestamp parses, 0 when     *)
(*             pd.to_datetime(errors="coerce") gives NaT.                 *)
(* Empty lines are dropped as the file is read, so they are not in it.    *)
(***************************************************************************)
EXTENDS Integers, Sequences, SequencesExt

CONSTANTS MaxLines

ASSUME MaxLines \in Nat

Line(kind, name, n) == [kind |-> kind, name |-> name, n |-> n]

RawLine ==
    {Line("procs", "-", 0), Line("short", "-", 0),
     Line("hdr", "full", 0), Line("hdr", "noswpd", 0)}
      \cup {Line("row", c, t) : c \in {"ok", "off", "nan"}, t \in {0, 1}}

IsHdr(l) == l.kind = "hdr"

(* Position of the column header: the first "r ... swpd ... id" line, or  *)
(* failing that the "r " line right after the first "procs " line that    *)
(* has one; 0 when neither exists.                                         *)
HeaderIdx(f) ==
    LET full == SelectInSeq(f, LAMBDA l : IsHdr(l) /\ l.name = "full")
        pr   == {p \in 1 .. (Len(f) - 1) : f[p].kind = "procs" /\ IsHdr(f[p + 1])}
    IN  CASE full # 0 -> full
          [] pr # {}  -> Min(pr) + 1
          [] OTHER    -> 0

VARIABLES
    file,       \* the non-empty lines of the file
    k,          \* position of the row loop
    pc,         \* "header", "rows", "validate", "done", "error"
    records,    \* records
    df,         \* the frame after dropna
    v,          \* position of the validation loop
    err         \* reason of the exception raised, "none" before

vars == <<file, k, pc, records, df, v, err>>

Init ==
    /\ file \in SeqOf(RawLine, MaxLines)
    /\ k = 1
    /\ pc = "header"
    /\ records = << >>
    /\ df = << >>
    /\ v = 1
    /\ err = "none"

Fail(reason) ==
    /\ pc' = "error"
    /\ err' = reason

(* An empty file returns an empty frame; no header raises; otherwise the  *)
(* row loop starts after the header.                                       *)
FindHeader ==
    /\ pc = "header"
    /\ CASE file = << >>         -> pc' = "done" /\ UNCHANGED <<k, err>>
         [] HeaderIdx(file) = 0  -> Fail("no_header") /\ UNCHANGED k
         [] OTHER -> /\ k' = HeaderIdx(file) + 1
                     /\ pc' = "rows"
                     /\ UNCHANGED err
    /\ UNCHANGED <<file, records, df, v>>

(* Mutation: repeated header lines are not skipped.                       *)
RowNoHeaderSkip ==
    /\ pc = "rows"
    /\ k <= Len(file)
    /\ records' = CASE file[k].kind = "procs" -> records
                    [] file[k].kind = "short" -> records
                    [] OTHER                  -> Append(records, file[k])
    /\ k' = k + 1
    /\ UNCHANGED <<file, pc, df, v, err>>

(* One line after the header: repeated headers and truncated lines are   *)
(* skipped, a complete row becomes a record.  A header line has as many   *)
(* tokens as a row, so it would otherwise pass the length check.          *)
Row ==
    /\ pc = "rows"
    /\ k <= Len(file)
    /\ records' = IF file[k].kind = "row" THEN Append(records, file[k])
                  ELSE records
    /\ k' = k + 1
    /\ UNCHANGED <<file, pc, df, v, err>>

(* No record: an empty frame.  Otherwise rows whose timestamp is NaT are  *)
(* dropped, and elapsed reads df["timestamp"].iloc[0].                     *)
Frame ==
    /\ pc = "rows"
    /\ k > Len(file)
    /\ LET kept == SelectSeq(records, LAMBDA r : r.n = 1) IN
         CASE records = << >> -> pc' = "done" /\ UNCHANGED <<df, err>>
           [] kept = << >>    -> Fail("index_error") /\ UNCHANGED df
           [] OTHER -> /\ df' = kept
                       /\ pc' = "validate"
                       /\ UNCHANGED err
    /\ UNCHANGED <<file, k, records, v>>

(* Mutation: only the NaN test guards the rows; the sum is not checked.   *)
ValidateNoSumCheck ==
    /\ pc = "validate"
    /\ v <= Len(df)
    /\ CASE df[v].name = "nan" -> Fail("nan") /\ UNCHANGED v
         [] OTHER              -> v' = v + 1 /\ UNCHANGED <<pc, err>>
    /\ UNCHANGED <<file, k, records, df>>

(* One row of the CPU check: a NaN column raises, then a sum outside      *)
(* [99,101] raises.                                                        *)
Validate ==
    /\ pc = "validate"
    /\ v <= Len(df)
    /\ CASE df[v].name = "nan" -> Fail("nan") /\ UNCHANGED v
         [] df[v].name = "off" -> Fail("cpu_sum") /\ UNCHANGED v
         [] OTHER              -> v' = v + 1 /\ UNCHANGED <<pc, err>>
    /\ UNCHANGED <<file, k, records, df>>

Finish ==
    /\ pc = "validate"
    /\ v > Len(df)
    /\ pc' = "done"
    /\ UNCHANGED <<file, k, records, df, v, err>>

Next == FindHeader \/ Row \/ Frame \/ Validate \/ Finish

Spec == Init /\ [][Next]_vars

-----------------------------------------------------------------------------
(***************************************************************************)
(* Properties                                                              *)
(***************************************************************************)

TypeOK ==
    /\ file \in Seq(RawLine)
    /\ pc \in {"header", "rows", "validate", "done", "error"}
    /\ records \in Seq({l \in RawLine : l.kind = "row"})
    /\ df \in Seq({l \in RawLine : l.kind = "row"})
    /\ err \in {"none", "no_header", "index_error", "nan", "cpu_sum"}

(* The data rows of the capture: rows after the column header, with a     *)
(* parseable timestamp.                                                    *)
DataRows ==
    SelectSeq(SubSeq(file, HeaderIdx(file) + 1, Len(file)),
              LAMBDA l : l.kind = "row" /\ l.n = 1)

(* Spec sections 4.3 and 8: the parser returns exactly the data rows of   *)
(* the capture, all of them within the CPU tolerance, and it raises a CPU *)
(* error only for a data row that is out of tolerance or not numeric;     *)
(* repeated "procs" and "r ..." header lines, truncated lines and rows    *)
(* before the header never become rows or errors.                          *)
RowsMatchCapture ==
    /\ pc = "done" =>
         /\ df = DataRows
         /\ \A p \in 1 .. Len(df) : df[p].name = "ok"
    /\ err \in {"nan", "cpu_sum"} =>
         \E p \in 1 .. Len(DataRows) : DataRows[p].name # "ok"

(* Spec section 7: a value that does not parse drops its record and the   *)
(* parse goes on; a capture whose rows all have unparseable timestamps    *)
(* therefore parses to an empty table, not an error.                      *)
UnparseableTimestampsAreDropped ==
    err # "index_error"

=============================================================================
