------------------------- MODULE SystemMonitoring -------------------------
(***************************************************************************)
(* LogFileProcessor.load_data (plot_system_monitoring.py) for one property *)
(* to plot. A line of the JSON log is undecodable (json.loads fails), or   *)
(* an entry: its list of values, each [id, val] with id the value's        *)
(* identifier and val "num" (parse_value gives a number), "none" (an      *)
(* empty or missing field: nothing appended) or "bad" (a size text         *)
(* humanfriendly cannot parse, or a value that is neither a number nor a   *)
(* string: parse_value raises), and its timestamp, which strptime parses   *)
(* ("ok") or not ("bad", a missing key included).  A value appended to a   *)
(* series is abstracted to the number of the timestamp it was read with,  *)
(* so the series of a correct run is 1, 2, 3, ...                          *)
(***************************************************************************)
EXTENDS Integers, Sequences, SequencesExt

CONSTANTS
    MaxLines,       \* longest log checked
    MaxValues,      \* longest "values" list of an entry
    Ids,            \* identifiers the log may carry ("tmpfs" among them)
    ToPlot          \* identifiers_to_plot

ASSUME MaxLines \in Nat /\ MaxValues \in Nat /\ ToPlot \subseteq Ids

Value == [id : Ids, val : {"num", "none", "bad"}]

(* A log line: not JSON, or an entry with its timestamp and its values     *)
(* (possibly none).                                                        *)
LogLine ==
    [json : {FALSE}, ts : {"ok"}, values : {<< >>}]
      \cup [json : {TRUE}, ts : {"ok", "bad"}, values : SeqOf(Value, MaxValues)]

VARIABLES
    lines,          \* file.readlines()
    k,              \* position of the line loop
    vi,             \* position of the loop over entry['values']
    pc,             \* "line", "value", "validate", "done", "error"
    timestamps,     \* len(self.timestamps)
    data            \* self.data: identifier -> series of the property

vars == <<lines, k, vi, pc, timestamps, data>>

Init ==
    /\ lines \in SeqOf(LogLine, MaxLines)
    /\ k = 1
    /\ vi = 1
    /\ pc = "line"
    /\ timestamps = 0
    /\ data = << >>

(* One line: undecodable JSON and entries with no values are skipped;     *)
(* otherwise strptime raises on a bad timestamp, or the timestamp is      *)
(* appended and the values are walked.                                     *)
ReadLine ==
    /\ pc = "line"
    /\ k <= Len(lines)
    /\ IF ~lines[k].json \/ lines[k].values = << >>
         THEN /\ k' = k + 1
              /\ UNCHANGED <<vi, pc, timestamps>>
       ELSE IF lines[k].ts = "bad"
         THEN /\ pc' = "error"
              /\ UNCHANGED <<k, vi, timestamps>>
         ELSE /\ timestamps' = timestamps + 1
              /\ vi' = 1
              /\ pc' = "value"
              /\ UNCHANGED k
    /\ UNCHANGED <<lines, data>>

(* One value: tmpfs and identifiers not plotted are skipped; the series   *)
(* of a new identifier is created empty; parse_value raises on a bad     *)
(* value, and a parsed value is appended.                                  *)
ReadValue ==
    /\ pc = "value"
    /\ vi <= Len(lines[k].values)
    /\ LET v == lines[k].values[vi]
           series == IF v.id \in DOMAIN data THEN data[v.id] ELSE << >>
       IN  IF v.id # "tmpfs" /\ v.id \in ToPlot /\ v.val = "bad"
             THEN /\ pc' = "error"
                  /\ UNCHANGED <<data, vi>>
             ELSE /\ data' = IF v.id = "tmpfs" \/ v.id \notin ToPlot THEN data
                             ELSE (v.id :> (IF v.val = "num" THEN Append(series, timestamps)
                                            ELSE series)) @@ data
                  /\ vi' = vi + 1
                  /\ UNCHANGED pc
    /\ UNCHANGED <<lines, k, timestamps>>

EntryDone ==
    /\ pc = "value"
    /\ vi > Len(lines[k].values)
    /\ k' = k + 1
    /\ pc' = "line"
    /\ UNCHANGED <<lines, vi, timestamps, data>>

(* Validation check: every series must have as many values as there are  *)
(* timestamps.                                                             *)
Validate ==
    /\ pc = "line"
    /\ k > Len(lines)
    /\ pc' = IF \E id \in DOMAIN data : Len(data[id]) # timestamps
               THEN "error" ELSE "done"
    /\ UNCHANGED <<lines, k, vi, timestamps, data>>

Next == ReadLine \/ ReadValue \/ EntryDone \/ Validate

Spec == Init /\ [][Next]_vars

-----------------------------------------------------------------------------
(***************************************************************************)
(* Properties                                                              *)
(***************************************************************************)

TypeOK ==
    /\ pc \in {"line", "value", "done", "error"}
    /\ timestamps \in 0 .. MaxLines
    /\ DOMAIN data \subseteq ToPlot
    /\ \A id \in DOMAIN data : data[id] \in Seq(1 .. MaxLines)

(* The validation check (lines 95-101) is there so that plot_data never   *)
(* plots a value against another reading's timestamp: when load_data      *)
(* returns, the q-th value of every series was read with the q-th         *)
(* timestamp.                                                              *)
SeriesAlignedWithTimestamps ==
    pc = "done" =>
        \A id \in DOMAIN data : \A q \in 1 .. Len(data[id]) : data[id][q] = q

=============================================================================
