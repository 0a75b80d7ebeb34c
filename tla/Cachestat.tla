------------------------------ MODULE Cachestat ------------------------------
(***************************************************************************)
(* parse_cachestat_file (plot_cachestat.py): the line-collection loop, the *)
(* header checks, and the day-rollover loop that builds "elapsed".  A      *)
(* data row carries the absolute capture time (in seconds) at which       *)
(* cachestat printed it; the row shows only its time of day, so the       *)
(* parser reads ToD(n).  The day is scaled down to Day seconds.           *)
(***************************************************************************)
EXTENDS Integers, Sequences, SequencesExt

CONSTANTS
    MaxLines,       \* longest file checked
    MaxTime,        \* latest absolute capture time
    Day             \* seconds in a day (24 * 3600, scaled)

ASSUME MaxLines \in Nat /\ MaxTime \in Nat /\ Day \in Nat \ {0}

Line(kind, n) == [kind |-> kind, n |-> n]

(* blank; "hdr" a line with both TIME and HITS whose columns include TIME, *)
(* "hdrnotime" one that only mentions TIME inside another column name;    *)
(* "row" a line starting with HH:MM:SS; "noise" any other line            *)
(* (Detached/Terminated banners, tracing messages).                        *)
RawLine ==
    {Line(k, 0) : k \in {"blank", "hdr", "hdrnotime", "noise"}}
      \cup {Line("row", t) : t \in 0 .. MaxTime}

IsRow(l) == l.kind = "row"

(* What cachestat wrote: a capture is in time order.                      *)
RowTimes(f) == [k \in 1 .. Len(SelectSeq(f, IsRow)) |-> SelectSeq(f, IsRow)[k].n]

CaptureFiles ==
    {f \in SeqOf(RawLine, MaxLines) :
        \A a \in 1 .. Len(RowTimes(f)) - 1 : RowTimes(f)[a] <= RowTimes(f)[a + 1]}

(* h, m, s = map(int, t.split(":")); h * 3600 + m * 60 + s                 *)
ToD(n) == n % Day

VARIABLES
    file,       \* f.readlines()
    k,          \* position of the collection loop
    pc,         \* "collect", "elapsed", "done", "error"
    header,     \* header_line: "none", "hdr" or "hdrnotime"
    times,      \* the seconds-of-day of data_lines, in order
    idx,        \* position of the rollover loop
    base,       \* base
    prev,       \* prev
    offset,     \* cum_offset
    elapsed,    \* elapsed
    err         \* reason of the exception raised, "none" before

vars == <<file, k, pc, header, times, idx, base, prev, offset, elapsed, err>>

Init ==
    /\ file \in CaptureFiles
    /\ k = 1
    /\ pc = "collect"
    /\ header = "none"
    /\ times = << >>
    /\ idx = 1
    /\ base = 0
    /\ prev = 0
    /\ offset = 0
    /\ elapsed = << >>
    /\ err = "none"

(* One line: blank lines are skipped, the first header line is kept, rows *)
(* are collected, everything else is dropped.                              *)
CollectLine ==
    /\ pc = "collect"
    /\ k <= Len(file)
    /\ LET l == file[k] IN
         /\ header' = IF header = "none" /\ l.kind \in {"hdr", "hdrnotime"}
                        THEN l.kind ELSE header
         /\ times' = IF IsRow(l) THEN Append(times, ToD(l.n)) ELSE times
    /\ k' = k + 1
    /\ UNCHANGED <<file, pc, idx, base, prev, offset, elapsed, err>>

Fail(reason) ==
    /\ pc' = "error"
    /\ err' = reason
    /\ UNCHANGED <<base, prev>>

(* After the loop: no header raises; read_csv without a TIME column       *)
(* raises; base = times[0] on an empty frame raises IndexError.            *)
Frame ==
    /\ pc = "collect"
    /\ k > Len(file)
    /\ CASE header = "none"      -> Fail("missing_header")
         [] header = "hdrnotime" -> Fail("no_time_column")
         [] times = << >>        -> Fail("index_error")
         [] OTHER -> /\ pc' = "elapsed"
                     /\ base' = times[1]
                     /\ prev' = times[1]
                     /\ UNCHANGED err
    /\ UNCHANGED <<file, k, header, times, idx, offset, elapsed>>

(* Mutation: equal consecutive times are taken for a rollover.            *)
RolloverOnEqual ==
    /\ pc = "elapsed"
    /\ idx <= Len(times)
    /\ LET t == times[idx]
           o == IF t <= prev THEN offset + Day ELSE offset
       IN  /\ offset' = o
           /\ elapsed' = Append(elapsed, t - base + o)
           /\ prev' = t
    /\ idx' = idx + 1
    /\ UNCHANGED <<file, k, pc, header, times, base, err>>

(* One iteration: a time below the previous one adds a day to the offset. *)
Rollover ==
    /\ pc = "elapsed"
    /\ idx <= Len(times)
    /\ LET t == times[idx]
           o == IF t < prev THEN offset + Day ELSE offset
       IN  /\ offset' = o
           /\ elapsed' = Append(elapsed, t - base + o)
           /\ prev' = t
    /\ idx' = idx + 1
    /\ UNCHANGED <<file, k, pc, header, times, base, err>>

Finish ==
    /\ pc = "elapsed"
    /\ idx > Len(times)
    /\ pc' = "done"
    /\ UNCHANGED <<file, k, header, times, idx, base, prev, offset, elapsed, err>>

Next == CollectLine \/ Frame \/ Rollover \/ Finish

Spec == Init /\ [][Next]_vars

-----------------------------------------------------------------------------
(***************************************************************************)
(* Properties                                                              *)
(***************************************************************************)

(* No two consecutive samples are a day or more apart.                    *)
DenseCapture ==
    \A a \in 1 .. Len(RowTimes(file)) - 1 :
        RowTimes(file)[a + 1] - RowTimes(file)[a] < Day

(* Spec section 8: elapsed starts at 0 and follows the clock across       *)
(* midnight.  When cachestat sampled at least once a day, the elapsed     *)
(* value of every row is its true capture time minus the first one's: the *)
(* rollover loop recovers the lost days from time-of-day alone, repeated  *)
(* samples within the same second included.                               *)
ElapsedIsTrueElapsed ==
    pc = "done" /\ DenseCapture =>
        \A a \in 1 .. Len(elapsed) :
            elapsed[a] = RowTimes(file)[a] - RowTimes(file)[1]

(* Spec section 8: a file holding only noise (and blank lines) goes       *)
(* through the pipeline to an empty table, not an error.                  *)
NoiseOnlyFileIsEmptyTable ==
    (\A a \in 1 .. Len(file) : file[a].kind \in {"blank", "noise"})
      => pc # "error"

=============================================================================
