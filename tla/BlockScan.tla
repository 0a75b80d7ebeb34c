----------------------------- MODULE BlockScan -----------------------------
(***************************************************************************)
(* Line vocabulary and the shared scanning primitives of the nodetool log  *)
(* parsers in plot_cachestat.py: the noise filter (_ignore_common_noise,   *)
(* _read_filtered_lines), the failure-marker test (FAIL_LINE_RE,           *)
(* _block_has_failure) and the index loops every block parser repeats     *)
(* (skip blank lines, advance to the next header).                         *)
(*                                                                         *)
(* A text line is abstracted to a record [kind, name, n]: kind is what the *)
(* parser's regular expressions recognise in it, name the keyspace/table   *)
(* it mentions, n the integer it carries.  Only the fields a parser reads  *)
(* are meaningful for a kind; the others are "-" and 0.                    *)
(***************************************************************************)
EXTENDS Integers, Sequences, SequencesExt

Line(kind, name, n) == [kind |-> kind, name |-> name, n |-> n]

IsHeader(l) == l.kind = "hdr"
IsBlank(l)  == l.kind = "blank"

(* FAIL_LINE_RE: shutdown message, "[WARN] nodetool ... failed",          *)
(* "error: null", "-- StackTrace --" or an indented "at <frame>" line.     *)
IsFail(l) == l.kind = "fail"

(* _ignore_common_noise: a non-blank line mentioning Detached/Terminated,  *)
(* a nodetool or ConnectException "Failed to connect", or "Connection      *)
(* refused".                                                               *)
IsNoise(l) == l.kind = "noise"

(* _read_filtered_lines: drop noise lines, keep blank lines, keep order.   *)
ReadFilteredLines(raw) == SelectSeq(raw, LAMBDA l : ~IsNoise(l))

(* while k < len(lines) and lines[k].strip() == "": k += 1                 *)
SkipBlanks(ls, k) ==
    LET m == SelectInSubSeq(ls, k, Len(ls), LAMBDA l : ~IsBlank(l))
    IN  IF m = 0 THEN Len(ls) + 1 ELSE m

(* while i < len(lines) and not header_re.match(lines[i].strip()): i += 1  *)
NextHeader(ls, k) ==
    LET m == SelectInSubSeq(ls, k, Len(ls), IsHeader)
    IN  IF m = 0 THEN Len(ls) + 1 ELSE m

(* _block_has_failure: some line from k up to the next header is a         *)
(* failure marker.                                                         *)
BlockHasFailure(ls, k) ==
    \E m \in k .. (NextHeader(ls, k) - 1) : IsFail(ls[m])

(* Number of header lines strictly before position k: the ordinal of the  *)
(* block the scanner is in, used as the block's timestamp.                 *)
HeadersBefore(ls, k) ==
    Cardinality({m \in 1 .. (k - 1) : IsHeader(ls[m])})

=============================================================================
