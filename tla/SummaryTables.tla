---------------------------- MODULE SummaryTables ----------------------------
(***************************************************************************)
(* The cover-page summary of plot_cachestat.py's main for one data source: *)
(* subtract_all_data_sources (subtract_initial on every frame), then       *)
(* create_summary_tables with compute_summary_stats.  The parsed frames    *)
(* are the dict in insertion order.  A frame has n rows and a set of       *)
(* columns, each of numeric or object (text) dtype, holding its values     *)
(* after pd.to_numeric(errors="coerce"), Missing standing for NaN.  The   *)
(* statistics of compute_summary_stats (sum, mean, percentiles) are all    *)
(* functions of the series of non-missing values, so a row records that    *)
(* series; the empty series is the "N/A" row.                              *)
(***************************************************************************)
EXTENDS Integers, Sequences, SequencesExt

CONSTANTS
    MaxFiles,       \* most files of the source checked
    MaxRows,        \* most rows of a frame
    Columns,        \* the metric columns, in the order of a frame's header
    SubtractCols,   \* SUBTRACT_FROM_START[source]
    Vals            \* the readings a cell may hold

ASSUME Vals \subseteq Nat /\ SubtractCols \subseteq Range(Columns)

Missing == -1

ColSet == Range(Columns)

Frame(n, P, dt, v) == [n |-> n, cols |-> P, dtype |-> dt, vals |-> v]

Frames ==
    UNION {{Frame(n, P, dt, v) : dt \in [P -> {"num", "text"}],
                                 v \in [P -> [1 .. n -> Vals \cup {Missing}]]} :
           n \in 0 .. MaxRows, P \in SUBSET ColSet}

VARIABLES
    captures,   \* the parsed frames, as the parser returned them
    data,       \* the dict of frames main passes on
    k,          \* position of the loop over the files
    pc,         \* "subtract", "sample", "table", "done", "error"
    sample,     \* index of sample_df, 0 for None
    mi,         \* position of the loop over numeric_metrics
    rows,       \* rows of the table being built: [file, series]
    tables      \* combined: [metric, rows]

vars == <<captures, data, k, pc, sample, mi, rows, tables>>

Init ==
    /\ captures \in SeqOf(Frames, MaxFiles)
    /\ data = captures
    /\ k = 1
    /\ pc = "subtract"
    /\ sample = 0
    /\ mi = 1
    /\ rows = << >>
    /\ tables = << >>

(* df[col] - df[col].iloc[0]: NaN minus anything, and anything minus NaN, *)
(* is NaN.                                                                  *)
Delta(s) == [q \in DOMAIN s |-> IF s[q] = Missing \/ s[1] = Missing THEN Missing
                                ELSE s[q] - s[1]]

(* subtract_initial: a column of object dtype raises TypeError (str - str). *)
SubtractRaises(f) == f.n > 0 /\ \E c \in SubtractCols \cap f.cols : f.dtype[c] = "text"

SubtractInitial(f) ==
    [f EXCEPT !.vals = [c \in f.cols |-> IF c \in SubtractCols /\ f.n > 0
                                          THEN Delta(f.vals[c]) ELSE f.vals[c]]]

(* One file of subtract_all_data_sources.                                  *)
SubtractFile ==
    /\ pc = "subtract"
    /\ k <= Len(data)
    /\ IF SubtractRaises(data[k])
         THEN pc' = "error" /\ UNCHANGED <<data, k>>
         ELSE data' = [data EXCEPT ![k] = SubtractInitial(@)] /\ k' = k + 1
              /\ UNCHANGED pc
    /\ UNCHANGED <<captures, sample, mi, rows, tables>>

(* Every file done; create_summary_tables starts its search for a sample. *)
SubtractEnd ==
    /\ pc = "subtract"
    /\ k > Len(data)
    /\ pc' = "sample"
    /\ k' = 1
    /\ UNCHANGED <<captures, data, sample, mi, rows, tables>>

(* Mutation: the sample is the first frame, empty or not.                *)
SelectSampleAnyFrame ==
    /\ pc = "sample"
    /\ IF k > Len(data)
         THEN pc' = "done" /\ UNCHANGED <<k, sample>>
         ELSE sample' = k /\ k' = 1 /\ pc' = "table"
    /\ UNCHANGED <<captures, data, mi, rows, tables>>

(* for df in data.values(): if not df.empty: sample_df = df; break; an     *)
(* empty dict, or one of empty frames only, gives "".                      *)
SelectSample ==
    /\ pc = "sample"
    /\ IF k > Len(data)
         THEN pc' = "done" /\ UNCHANGED <<k, sample>>
       ELSE IF data[k].n > 0
         THEN sample' = k /\ k' = 1 /\ pc' = "table"
       ELSE k' = k + 1 /\ UNCHANGED <<pc, sample>>
    /\ UNCHANGED <<captures, data, mi, rows, tables>>

(* numeric_metrics: the sample's columns of numeric dtype, in its order.  *)
NumericMetrics == SelectSeq(Columns, LAMBDA c : c \in data[sample].cols
                                                /\ data[sample].dtype[c] = "num")

(* compute_summary_stats: the non-missing values of the coerced column.  *)
Series(f, m) == SelectSeq(f.vals[m], LAMBDA x : x # Missing)

(* One file of the inner loop: a file without the column is skipped.     *)
AddRow ==
    /\ pc = "table"
    /\ mi <= Len(NumericMetrics)
    /\ k <= Len(data)
    /\ LET m == NumericMetrics[mi] IN
         rows' = IF m \in data[k].cols
                   THEN Append(rows, [file |-> k, series |-> Series(data[k], m)])
                   ELSE rows
    /\ k' = k + 1
    /\ UNCHANGED <<captures, data, pc, sample, mi, tables>>

(* End of the inner loop: "if rows:" the metric's table is added.          *)
EndMetric ==
    /\ pc = "table"
    /\ mi <= Len(NumericMetrics)
    /\ k > Len(data)
    /\ tables' = IF rows # << >>
                   THEN Append(tables, [metric |-> NumericMetrics[mi], rows |-> rows])
                   ELSE tables
    /\ rows' = << >>
    /\ mi' = mi + 1
    /\ k' = 1
    /\ UNCHANGED <<captures, data, pc, sample>>

(* The joined tables are returned.                                         *)
Finish ==
    /\ pc = "table"
    /\ mi > Len(NumericMetrics)
    /\ pc' = "done"
    /\ UNCHANGED <<captures, data, k, sample, mi, rows, tables>>

Next == SubtractFile \/ SubtractEnd \/ SelectSample \/ AddRow \/ EndMetric \/ Finish

Spec == Init /\ [][Next]_vars

-----------------------------------------------------------------------------
(***************************************************************************)
(* Properties                                                              *)
(***************************************************************************)

(* The summary of a captured column: its readings, less the first reading *)
(* when the source subtracts that column, with the missing ones left out. *)
Expected(f, m) ==
    LET s == f.vals[m]
    IN  SelectSeq(IF m \in SubtractCols THEN Delta(s) ELSE s, LAMBDA x : x # Missing)

(* The cover page after subtract_all_data_sources: the metrics are the    *)
(* numeric columns of the first non-empty capture, in its column order;   *)
(* each metric's table has one row per capture that has the column, in    *)
(* file order, summarising exactly that capture's readings relative to    *)
(* its first reading ("N/A" when none is left), whatever the other        *)
(* captures and the empty ones hold.                                        *)
SummaryOfInitialDeltas ==
    LET first == SelectInSeq(captures, LAMBDA f : f.n > 0)
        metrics == IF first = 0 THEN << >>
                   ELSE SelectSeq(Columns, LAMBDA c : c \in captures[first].cols
                                               /\ captures[first].dtype[c] = "num")
        has(m) == SelectSeq([q \in 1 .. Len(captures) |-> q],
                            LAMBDA q : m \in captures[q].cols)
    IN  pc = "done" =>
          /\ Len(tables) = Len(metrics)
          /\ \A t \in 1 .. Len(tables) :
               /\ tables[t].metric = metrics[t]
               /\ Len(tables[t].rows) = Len(has(metrics[t]))
               /\ \A r \in 1 .. Len(tables[t].rows) :
                    LET q == has(metrics[t])[r] IN
                    /\ tables[t].rows[r].file = q
                    /\ tables[t].rows[r].series = Expected(captures[q], metrics[t])

(* The docstring: create_summary_tables builds summary tables "for all     *)
(* numeric columns in data": every numeric column of every non-empty       *)
(* capture has a row in its metric's table.                                *)
EveryNumericColumnSummarized ==
    pc = "done" =>
      \A q \in 1 .. Len(captures) : \A c \in captures[q].cols :
         captures[q].n > 0 /\ captures[q].dtype[c] = "num" =>
           \E t \in 1 .. Len(tables) :
              tables[t].metric = c /\ \E r \in 1 .. Len(tables[t].rows) : tables[t].rows[r].file = q

=============================================================================
