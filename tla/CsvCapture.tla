------------------------------ MODULE CsvCapture ------------------------------
(***************************************************************************)
(* plot_cachestat.py's two CSV parsers: parse_timestamped_file (the        *)
(* meminfo and /proc/vmstat captures) and parse_file_values_logger_file    *)
(* (values_logger.sh).  A raw line is a CSV header with or without a       *)
(* "timestamp" column, a data row (its timestamp, Bad when pd.to_datetime  *)
(* cannot parse it, and its value, numeric or text), a line containing     *)
(* "Terminated", another noise banner ("Connection refused", "Detached",   *)
(* "Failed to connect"), or a blank line.  Rows and headers have the same  *)
(* two fields; a banner has one, so in row position its timestamp field is *)
(* the banner's text.                                                      *)
(***************************************************************************)
EXTENDS Integers, Sequences, SequencesExt

CONSTANTS
    MaxLines,   \* longest capture checked
    Times       \* seconds a data row's timestamp may carry

ASSUME Times \subseteq Nat

Bad == -1

Line(kind, t, v) == [kind |-> kind, t |-> t, v |-> v]

RawLine ==
    {Line(k, 0, "none") : k \in {"hdr", "hdrnots", "terminated", "noise", "blank"}}
      \cup {Line("row", t, v) : t \in Times \cup {Bad}, v \in {"num", "text"}}

Parsers == {"timestamped", "file_values"}

(* The parsers' line filters: parse_timestamped_file keeps every line      *)
(* without "Terminated"; _read_filtered_lines drops what                   *)
(* _ignore_common_noise matches and keeps blank lines.                     *)
Kept(p, l) ==
    IF p = "timestamped" THEN l.kind # "terminated"
    ELSE l.kind \notin {"terminated", "noise"}

(* The timestamp field of a line in row position: a header's or a         *)
(* banner's text does not parse.                                           *)
RowTime(l) == IF l.kind = "row" THEN l.t ELSE Bad

VARIABLES
    parser,     \* which of the two functions runs
    file,       \* the raw lines of the capture
    lines,      \* the lines left by the filter
    pc,         \* "read", "csv", "datetime", "done", "error"
    header,     \* kind of the line read_csv took for the header
    rows,       \* the lines read_csv took for rows
    frame,      \* the returned rows: [elapsed, v]
    dtype,      \* dtype of the value column: "num" or "text"
    err         \* exception raised, "none" before

vars == <<parser, file, lines, pc, header, rows, frame, dtype, err>>

Init ==
    /\ parser \in Parsers
    /\ file \in SeqOf(RawLine, MaxLines)
    /\ lines = << >>
    /\ pc = "read"
    /\ header = "none"
    /\ rows = << >>
    /\ frame = << >>
    /\ dtype = "num"
    /\ err = "none"

(* The file is read through the parser's filter; parse_file_values_       *)
(* logger_file returns an empty frame when no line is left (a blank line   *)
(* counts as a line).                                                      *)
Filter ==
    /\ pc = "read"
    /\ lines' = SelectSeq(file, LAMBDA l : Kept(parser, l))
    /\ pc' = IF parser = "file_values" /\ lines' = << >> THEN "done" ELSE "csv"
    /\ UNCHANGED <<parser, file, header, rows, frame, dtype, err>>

(* pd.read_csv skips blank lines, takes the first line left for the       *)
(* header and the others for rows, and raises EmptyDataError when no line *)
(* is left; then a header without "timestamp" raises ValueError.          *)
ReadCsv ==
    /\ pc = "csv"
    /\ LET text == SelectSeq(lines, LAMBDA l : l.kind # "blank") IN
         IF text = << >>
           THEN pc' = "error" /\ err' = "empty_data" /\ UNCHANGED <<header, rows>>
           ELSE /\ header' = text[1].kind
                /\ rows' = Tail(text)
                /\ IF text[1].kind = "hdr"
                     THEN pc' = "datetime" /\ UNCHANGED err
                     ELSE pc' = "error" /\ err' = "no_timestamp"
    /\ UNCHANGED <<parser, file, lines, frame, dtype>>

(* Mutation: the loop converting the value columns to numbers is left out. *)
ToFrameNoCoerce ==
    /\ pc = "datetime"
    /\ CASE \E q \in 1 .. Len(rows) : RowTime(rows[q]) = Bad ->
              pc' = "error" /\ err' = "bad_timestamp" /\ UNCHANGED <<frame, dtype>>
         [] rows = << >> ->
              pc' = "error" /\ err' = "index_error" /\ UNCHANGED <<frame, dtype>>
         [] OTHER ->
              /\ frame' = [q \in 1 .. Len(rows) |->
                             [elapsed |-> rows[q].t - rows[1].t, v |-> rows[q].v]]
              /\ dtype' = IF \E q \in 1 .. Len(rows) : rows[q].v = "text" THEN "text" ELSE "num"
              /\ pc' = "done"
              /\ UNCHANGED err
    /\ UNCHANGED <<parser, file, lines, header, rows>>

(* Mutation: pd.to_datetime(errors="coerce"): an unparseable timestamp   *)
(* becomes NaT and so does its elapsed time, or every one when the first  *)
(* row's is NaT.                                                           *)
ToFrameCoerceTimes ==
    /\ pc = "datetime"
    /\ IF rows = << >>
         THEN pc' = "error" /\ err' = "index_error" /\ UNCHANGED <<frame, dtype>>
         ELSE LET coerce == parser = "file_values" IN
              /\ frame' = [q \in 1 .. Len(rows) |->
                             [elapsed |-> IF RowTime(rows[q]) = Bad \/ RowTime(rows[1]) = Bad
                                            THEN "NaT" ELSE rows[q].t - rows[1].t,
                              v |-> IF coerce /\ rows[q].v = "text" THEN "nan" ELSE rows[q].v]]
              /\ dtype' = IF ~coerce /\ \E q \in 1 .. Len(rows) : rows[q].v = "text"
                            THEN "text" ELSE "num"
              /\ pc' = "done"
              /\ UNCHANGED err
    /\ UNCHANGED <<parser, file, lines, header, rows>>

(* pd.to_datetime(errors="raise") raises on a timestamp it cannot parse;  *)
(* elapsed is taken from iloc[0], which raises IndexError with no rows;    *)
(* parse_file_values_logger_file then coerces every value column with      *)
(* pd.to_numeric(errors="coerce"), so text becomes NaN; read_csv leaves a *)
(* column with a text value of object dtype.                               *)
ToFrame ==
    /\ pc = "datetime"
    /\ CASE \E q \in 1 .. Len(rows) : RowTime(rows[q]) = Bad ->
              pc' = "error" /\ err' = "bad_timestamp" /\ UNCHANGED <<frame, dtype>>
         [] rows = << >> ->
              pc' = "error" /\ err' = "index_error" /\ UNCHANGED <<frame, dtype>>
         [] OTHER ->
              LET coerce == parser = "file_values" IN
              /\ frame' = [q \in 1 .. Len(rows) |->
                             [elapsed |-> rows[q].t - rows[1].t,
                              v |-> IF coerce /\ rows[q].v = "text" THEN "nan" ELSE rows[q].v]]
              /\ dtype' = IF ~coerce /\ \E q \in 1 .. Len(rows) : rows[q].v = "text"
                            THEN "text" ELSE "num"
              /\ pc' = "done"
              /\ UNCHANGED err
    /\ UNCHANGED <<parser, file, lines, header, rows>>

Next == Filter \/ ReadCsv \/ ToFrame

Spec == Init /\ [][Next]_vars

-----------------------------------------------------------------------------
(***************************************************************************)
(* Properties                                                              *)
(***************************************************************************)

TypeOK ==
    /\ parser \in Parsers
    /\ pc \in {"read", "csv", "datetime", "done", "error"}
    /\ err \in {"none", "empty_data", "no_timestamp", "bad_timestamp", "index_error"}
    /\ \A q \in 1 .. Len(frame) :
         /\ frame[q].v \in {"num", "text", "nan"}
         /\ frame[q].elapsed \in {t - u : t, u \in Times}
    /\ dtype \in {"num", "text"}

(* A returned frame holds exactly the capture's data rows, in the order   *)
(* they were written, whatever noise and blank lines surround them: each  *)
(* row's elapsed time is its timestamp less the first data row's, its     *)
(* value is as written except that parse_file_values_logger_file turns     *)
(* text into NaN, and only parse_timestamped_file can return a text       *)
(* column.                                                                 *)
FrameIsCaptureRows ==
    LET data == SelectSeq(file, LAMBDA l : l.kind = "row")
    IN  pc = "done" =>
          /\ Len(frame) = Len(data)
          /\ \A q \in 1 .. Len(data) :
               /\ frame[q].elapsed = data[q].t - data[1].t
               /\ frame[q].v = IF parser = "file_values" /\ data[q].v = "text"
                                 THEN "nan" ELSE data[q].v
          /\ dtype = "text" <=> parser = "timestamped" /\ \E q \in 1 .. Len(data) : data[q].v = "text"

(* Spec section 8: a capture of nothing but noise and blank lines goes    *)
(* through the pipeline to an empty table, not an error.                  *)
NoiseOnlyFileIsEmptyTable ==
    (\A a \in 1 .. Len(file) : file[a].kind \in {"blank", "terminated", "noise"})
      => pc # "error"

(* Spec section 7: a non-numeric value in an otherwise-numeric column is  *)
(* recoverable at record level, "coerced to missing rather than aborting  *)
(* the whole file": a returned frame whose value column holds a number    *)
(* holds no text.  parse_timestamped_file hands read_csv's column on       *)
(* without pd.to_numeric.                                                  *)
NonNumericValueIsMissing ==
    pc = "done" /\ (\E q \in 1 .. Len(frame) : frame[q].v = "num")
      => \A q \in 1 .. Len(frame) : frame[q].v # "text"

=============================================================================
