---------------------------- MODULE KswapdTrace ----------------------------
(***************************************************************************)
(* parse_kswapd_wake_trace_file (plot_cachestat.py).  A trace line is     *)
(* abstracted to what the parser tests in it:                              *)
(*   "blank", "hdr" (starts with TIME or #), "noise" (dropped by           *)
(*   _read_filtered_lines), "other" (no mm_vmscan_kswapd_wake),            *)
(*   "nopayload" (the function but no nid=..,order=.. payload),            *)
(*   "ev" a kswapd_wake event: tok is the class of its first token,       *)
(*   "float" (a -T seconds value), "tod" (contains ':', as -t prints), or *)
(*   "bad" (anything float() rejects); t is its seconds value and p its   *)
(*   (nid, order) payload.                                                 *)
(* bcc's trace drains per-CPU buffers, so events need not be in time       *)
(* order in the file.                                                      *)
(***************************************************************************)
EXTENDS Integers, Sequences, SequencesExt

CONSTANTS
    MaxLines,   \* longest trace checked
    Times,      \* the -T seconds values
    Payloads    \* the (nid, order) payloads

ASSUME MaxLines \in Nat /\ Times \subseteq Nat

TLine(kind, tok, t, p) == [kind |-> kind, tok |-> tok, t |-> t, p |-> p]

RawLine ==
    {TLine(k, "-", 0, "-") : k \in {"blank", "hdr", "noise", "other", "nopayload"}}
      \cup {TLine("ev", "float", t, p) : t \in Times, p \in Payloads}
      \cup {TLine("ev", tk, 0, "-") : tk \in {"tod", "bad"}}

(* _ignore_common_noise, as far as trace output can meet it.               *)
IsNoise(l) == l.kind = "noise"

Event(l) == [t |-> l.t, p |-> l.p]

VARIABLES
    lines,      \* _read_filtered_lines(filename)
    k,          \* position of the line loop
    pc,         \* "loop", "done", "error"
    acc,        \* elapsed_vals, nids, orders, zipped
    out,        \* the returned frame
    err         \* reason of the ValueError raised, "none" before

vars == <<lines, k, pc, acc, out, err>>

Init ==
    /\ \E raw \in SeqOf(RawLine, MaxLines) :
          lines = SelectSeq(raw, LAMBDA l : ~IsNoise(l))
    /\ k = 1
    /\ pc = "loop"
    /\ acc = << >>
    /\ out = << >>
    /\ err = "none"

(* Mutation: lines with the function name but no payload are taken.       *)
LineNoPayloadCheck ==
    /\ pc = "loop"
    /\ k <= Len(lines)
    /\ LET l == lines[k] IN
         CASE l.kind \notin {"ev", "nopayload"} -> acc' = acc /\ UNCHANGED <<pc, err>>
           [] l.tok \in {"float", "-"} -> acc' = Append(acc, Event(l)) /\ UNCHANGED <<pc, err>>
           [] l.tok = "tod" -> pc' = "error" /\ err' = "time_of_day" /\ UNCHANGED acc
           [] OTHER -> pc' = "error" /\ err' = "invalid_token" /\ UNCHANGED acc
    /\ k' = k + 1
    /\ UNCHANGED <<lines, out>>

(* One line: blank, TIME/# header lines and lines without the function or *)
(* the payload are skipped; an event's first token must not be a          *)
(* time-of-day, and must parse as a float.                                 *)
ParseLine ==
    /\ pc = "loop"
    /\ k <= Len(lines)
    /\ LET l == lines[k] IN
         CASE l.kind # "ev"  -> acc' = acc /\ UNCHANGED <<pc, err>>
           [] l.tok = "float" -> acc' = Append(acc, Event(l)) /\ UNCHANGED <<pc, err>>
           [] l.tok = "tod" -> pc' = "error" /\ err' = "time_of_day" /\ UNCHANGED acc
           [] OTHER -> pc' = "error" /\ err' = "invalid_token" /\ UNCHANGED acc
    /\ k' = k + 1
    /\ UNCHANGED <<lines, out>>

(* The events, reordered by time: sort_values("elapsed") is quicksort, not *)
(* stable, so events of equal time may come out in any order.              *)
SortedByElapsed(s) ==
    {q \in [1 .. Len(s) -> Range(s)] :
        ToBag(q) = ToBag(s) /\ IsSorted(q, LAMBDA x, y : x.t <= y.t)}

(* Mutation: the frame is returned in file order.                         *)
FinishUnsorted ==
    /\ pc = "loop"
    /\ k > Len(lines)
    /\ out' = acc
    /\ pc' = "done"
    /\ UNCHANGED <<lines, k, acc, err>>

(* No event: an empty frame; otherwise the frame sorted by elapsed.        *)
Finish ==
    /\ pc = "loop"
    /\ k > Len(lines)
    /\ out' \in SortedByElapsed(acc)
    /\ pc' = "done"
    /\ UNCHANGED <<lines, k, acc, err>>

Next == ParseLine \/ Finish

Spec == Init /\ [][Next]_vars

-----------------------------------------------------------------------------
(***************************************************************************)
(* Properties                                                              *)
(***************************************************************************)

TypeOK ==
    /\ lines \in Seq(RawLine)
    /\ pc \in {"loop", "done", "error"}
    /\ acc \in Seq([t : Times, p : Payloads])
    /\ out \in Seq([t : Times, p : Payloads])
    /\ err \in {"none", "time_of_day", "invalid_token"}

(* The kswapd_wake events of the capture, in file order.                  *)
CaptureEvents ==
    LET evs == SelectSeq(lines, LAMBDA l : l.kind = "ev")
    IN  [q \in 1 .. Len(evs) |-> evs[q]]

(* Spec sections 4.3 and 8: a trace captured with -t (its first event     *)
(* carrying a time-of-day token) raises the wrong-capture-flag error and  *)
(* any other unparseable token the invalid-token error, whichever event   *)
(* comes first; a -T capture parses to every kswapd_wake event it holds,  *)
(* ordered by elapsed, however the per-CPU buffers interleaved them.      *)
TableIsSortedEvents ==
    LET evs == CaptureEvents
        bad == {q \in 1 .. Len(evs) : evs[q].tok # "float"}
    IN  /\ pc = "done" =>
             /\ bad = {}
             /\ IsSorted(out, LAMBDA x, y : x.t <= y.t)
             /\ ToBag(out) = ToBag([q \in 1 .. Len(evs) |-> Event(evs[q])])
        /\ pc = "error" =>
             /\ bad # {}
             /\ err = IF evs[Min(bad)].tok = "tod" THEN "time_of_day"
                      ELSE "invalid_token"

=============================================================================
