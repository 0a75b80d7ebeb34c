------------------------------ MODULE Filetop ------------------------------
(***************************************************************************)
(* parse_filetop_output and the totals of main (parse_filetop.py).  A      *)
(* line of the filetop capture either matches the row regular expression  *)
(* (TID COMM READS WRITES R_Kb W_Kb T FILE, eight tokens) or not (the      *)
(* column header, loadavg lines, rows with a space in COMM or FILE).  A    *)
(* file name and the --suffixes text are sequences of atoms (a name part, *)
(* an extension, a comma), so that str.split(",") and str.endswith are    *)
(* modelled by what they do.                                               *)
(***************************************************************************)
EXTENDS Integers, Sequences, SequencesExt

CONSTANTS
    MaxLines,       \* longest capture checked
    Files,          \* file names, each a sequence of atoms
    Kbs,            \* R_Kb and W_Kb values
    SuffixAtoms,    \* the atoms a --suffixes text is made of, "," among them
    MaxSuffixLen    \* longest --suffixes text checked

ASSUME MaxLines \in Nat /\ Kbs \subseteq Nat /\ "," \in SuffixAtoms

(* A row: READS and WRITES are 1 (one call of each per interval row), the *)
(* kilobytes vary.                                                         *)
Row(f, rkb, wkb) ==
    [match |-> TRUE, file |-> f, reads |-> 1, writes |-> 1, rkb |-> rkb, wkb |-> wkb]

NoMatch == [match |-> FALSE, file |-> << >>, reads |-> 0, writes |-> 0, rkb |-> 0, wkb |-> 0]

RawLine == {NoMatch} \cup {Row(f, r, w) : f \in Files, r \in Kbs, w \in Kbs}

(* suffixes.split(",") if suffixes else []                                *)
SplitSuffixes(text) ==
    IF text = << >> THEN << >>
    ELSE FoldLeft(LAMBDA acc, c :
                    IF c = "," THEN Append(acc, << >>)
                    ELSE [acc EXCEPT ![Len(acc)] = Append(@, c)],
                  << << >> >>, text)

(* any(file_name.endswith(suffix) for suffix in suffixes)                 *)
EndsWithAny(f, sfx) == \E q \in 1 .. Len(sfx) : IsSuffix(sfx[q], f)

VARIABLES
    lines,          \* file.readlines()
    filterType,     \* --filter_type
    suffixText,     \* --suffixes
    k,              \* position of the line loop
    metrics,        \* file_metrics, in insertion order
    pc,             \* "loop", "done"
    sortedMetrics,  \* sorted_metrics
    totals          \* the TOTAL row: [reads, writes, rkb, wkb]

vars == <<lines, filterType, suffixText, k, metrics, pc, sortedMetrics, totals>>

Zero == [reads |-> 0, writes |-> 0, rkb |-> 0, wkb |-> 0]

Init ==
    /\ lines \in SeqOf(RawLine, MaxLines)
    /\ filterType \in {"reads", "writes", "both"}
    /\ suffixText \in SeqOf(SuffixAtoms, MaxSuffixLen)
    /\ k = 1
    /\ metrics = << >>
    /\ pc = "loop"
    /\ sortedMetrics = << >>
    /\ totals = Zero

(* The columns filter_type adds for one row.                              *)
Added(l) ==
    CASE filterType = "reads"  -> [Zero EXCEPT !.reads = l.reads, !.rkb = l.rkb]
      [] filterType = "writes" -> [Zero EXCEPT !.writes = l.writes, !.wkb = l.wkb]
      [] OTHER                 -> [reads |-> l.reads, writes |-> l.writes,
                                   rkb |-> l.rkb, wkb |-> l.wkb]

(* file_metrics[file_name][...] += ...: the entry is created with zeros,  *)
(* at the end, on its first access.                                        *)
AddRow(m, l) ==
    LET p == SelectInSeq(m, LAMBDA e : e.file = l.file)
        a == Added(l)
    IN  IF p = 0 THEN Append(m, [file |-> l.file, reads |-> a.reads,
                                 writes |-> a.writes, rkb |-> a.rkb, wkb |-> a.wkb])
        ELSE [m EXCEPT ![p].reads = @ + a.reads, ![p].writes = @ + a.writes,
                       ![p].rkb = @ + a.rkb, ![p].wkb = @ + a.wkb]

(* Mutation: the suffix test without "suffixes and", so an empty list    *)
(* filters out every row.                                                  *)
ParseLineNoEmptyCheck ==
    /\ pc = "loop"
    /\ k <= Len(lines)
    /\ LET l == lines[k] IN
         metrics' = IF l.match /\ EndsWithAny(l.file, SplitSuffixes(suffixText))
                      THEN AddRow(metrics, l) ELSE metrics
    /\ k' = k + 1
    /\ UNCHANGED <<lines, filterType, suffixText, pc, sortedMetrics, totals>>

(* One line: a line the regular expression does not match is skipped; a  *)
(* row whose file ends with none of the given suffixes is skipped; a row  *)
(* adds its filter_type columns to its file's entry.                       *)
ParseLine ==
    /\ pc = "loop"
    /\ k <= Len(lines)
    /\ LET l   == lines[k]
           sfx == SplitSuffixes(suffixText)
       IN  metrics' = IF l.match /\ (sfx = << >> \/ EndsWithAny(l.file, sfx))
                        THEN AddRow(metrics, l) ELSE metrics
    /\ k' = k + 1
    /\ UNCHANGED <<lines, filterType, suffixText, pc, sortedMetrics, totals>>

ByKb(a, b) == a.rkb > b.rkb \/ (a.rkb = b.rkb /\ a.wkb > b.wkb)

KbSort == INSTANCE StableSort WITH Gt <- ByKb

(* sorted(file_metrics.items(), key=lambda x: (R_Kb, W_Kb), reverse=True) *)
SortMetrics(m) == KbSort!SortDesc(m)

(* End of file: the entries are sorted, and main adds up the TOTAL row    *)
(* over the sorted entries.                                                *)
Finish ==
    /\ pc = "loop"
    /\ k > Len(lines)
    /\ sortedMetrics' = SortMetrics(metrics)
    /\ totals' = FoldLeft(LAMBDA t, e : [reads |-> t.reads + e.reads,
                                         writes |-> t.writes + e.writes,
                                         rkb |-> t.rkb + e.rkb,
                                         wkb |-> t.wkb + e.wkb],
                          Zero, sortedMetrics')
    /\ pc' = "done"
    /\ UNCHANGED <<lines, filterType, suffixText, k, metrics>>

Next == ParseLine \/ Finish

Spec == Init /\ [][Next]_vars

-----------------------------------------------------------------------------
(***************************************************************************)
(* Properties                                                              *)
(***************************************************************************)

TypeOK ==
    /\ lines \in Seq(RawLine)
    /\ filterType \in {"reads", "writes", "both"}
    /\ pc \in {"loop", "done"}
    /\ \A q \in 1 .. Len(metrics) : metrics[q].file \in Files
    /\ totals \in [reads : Nat, writes : Nat, rkb : Nat, wkb : Nat]

(* The rows of the capture whose file the --suffixes list lets through.   *)
KeptRows(sfx) ==
    SelectSeq(lines, LAMBDA l : l.match /\ (sfx = << >> \/ EndsWithAny(l.file, sfx)))

(* The printed table: one row per file with a kept capture row, carrying *)
(* the sums over that file's rows of the columns filter_type selects (0  *)
(* for the others), and the TOTAL row carrying the sums over every kept   *)
(* row; rows are ordered by R_Kb then W_Kb, largest first, ties in the    *)
(* order the files first appeared.                                         *)
TableMatchesCapture ==
    LET d == KeptRows(SplitSuffixes(suffixText))
        sum(Q, f(_)) == MapThenSumSet(LAMBDA q : f(d[q]), Q)
        rowsOf(f) == {q \in 1 .. Len(d) : d[q].file = f}
        rd == filterType # "writes"
        wr == filterType # "reads"
    IN  pc = "done" =>
          /\ {sortedMetrics[q].file : q \in 1 .. Len(sortedMetrics)}
               = {d[q].file : q \in 1 .. Len(d)}
          /\ \A q \in 1 .. Len(sortedMetrics) :
               LET e == sortedMetrics[q] IN
               /\ e.rkb = IF rd THEN sum(rowsOf(e.file), LAMBDA l : l.rkb) ELSE 0
               /\ e.wkb = IF wr THEN sum(rowsOf(e.file), LAMBDA l : l.wkb) ELSE 0
               /\ e.reads = IF rd THEN sum(rowsOf(e.file), LAMBDA l : l.reads) ELSE 0
          /\ totals.rkb = IF rd THEN sum(1 .. Len(d), LAMBDA l : l.rkb) ELSE 0
          /\ totals.wkb = IF wr THEN sum(1 .. Len(d), LAMBDA l : l.wkb) ELSE 0
          /\ KbSort!IsStableSortDesc(metrics, sortedMetrics)

(* The --suffixes help: the comma-separated suffixes filter the files, so *)
(* when a suffix is given every file in the table ends with one of the    *)
(* suffixes given.                                                          *)
SuffixFilterHolds ==
    LET given == Range(SplitSuffixes(suffixText)) \ {<< >>}
    IN  pc = "done" /\ given # {} =>
          \A q \in 1 .. Len(sortedMetrics) :
             \E s \in given : IsSuffix(s, sortedMetrics[q].file)

=============================================================================
