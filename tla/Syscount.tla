------------------------------ MODULE Syscount ------------------------------
(***************************************************************************)
(* print_syscall_stats and parse_syscount_output (syscount_parser.py):    *)
(* one step per line of the bcc syscount capture, then the sort by count. *)
(* A line is abstracted to what the parser tests in it:                    *)
(*   "blank", "tracing" (contains "Tracing syscalls"), "ts" (an interval   *)
(*   stamp "[HH:MM:SS]"), "hdr" (the exact "SYSCALL COUNT TIME (ms)"       *)
(*   header), "hdrnolat" (the two-column "SYSCALL COUNT" header syscount   *)
(*   prints without -L), "short" (under three tokens: "Detaching...", or  *)
(*   a "read 12" row of a capture without -L), "nonnum" (three or more     *)
(*   tokens, count or time not numeric), and "data" (name, count, time).  *)
(***************************************************************************)
EXTENDS Integers, Sequences, SequencesExt

CONSTANTS
    MaxLines,   \* longest capture checked
    Names,      \* syscall names
    Counts,     \* COUNT column values
    Times       \* TIME (ms) column values, scaled to integers

ASSUME MaxLines \in Nat /\ Counts \subseteq Nat /\ Times \subseteq Nat

SLine(kind, name, count, time) ==
    [kind |-> kind, name |-> name, count |-> count, time |-> time]

RawLine ==
    {SLine(kd, "-", 0, 0) :
        kd \in {"blank", "tracing", "ts", "hdr", "hdrnolat", "short", "nonnum"}}
      \cup {SLine("data", n, c, t) : n \in Names, c \in Counts, t \in Times}

VARIABLES
    lines,          \* the lines of the file
    k,              \* position of the line loop
    tracingStarted, \* tracing_started
    syscalls,       \* the defaultdict, in insertion order: [name, count, time]
    pc,             \* "loop", "done"
    sortedSyscalls  \* sorted_syscalls

vars == <<lines, k, tracingStarted, syscalls, pc, sortedSyscalls>>

Init ==
    /\ lines \in SeqOf(RawLine, MaxLines)
    /\ k = 1
    /\ tracingStarted = FALSE
    /\ syscalls = << >>
    /\ pc = "loop"
    /\ sortedSyscalls = << >>

(* syscalls[name]['count'] += count; ...['total_time_ms'] += time: the    *)
(* defaultdict creates the entry, at the end, on the first access.         *)
Accumulate(s, l) ==
    LET p == SelectInSeq(s, LAMBDA e : e.name = l.name)
    IN  IF p = 0
          THEN Append(s, [name |-> l.name, count |-> l.count, time |-> l.time])
          ELSE [s EXCEPT ![p].count = @ + l.count, ![p].time = @ + l.time]

(* Mutation: the "Tracing syscalls" gate is missing.                     *)
ReadLineNoGate ==
    /\ pc = "loop"
    /\ k <= Len(lines)
    /\ LET l == lines[k] IN
         CASE l.kind = "tracing" -> tracingStarted' = TRUE /\ UNCHANGED syscalls
           [] l.kind = "data"    -> syscalls' = Accumulate(syscalls, l)
                                    /\ UNCHANGED tracingStarted
           [] OTHER -> UNCHANGED <<tracingStarted, syscalls>>
    /\ k' = k + 1
    /\ UNCHANGED <<lines, pc, sortedSyscalls>>

(* One line: blank lines are skipped, the "Tracing syscalls" line opens    *)
(* the capture, everything before it is skipped; after it interval       *)
(* stamps, the exact column header, lines under three tokens and lines    *)
(* whose count or time does not parse are skipped, and a data line is      *)
(* added to its syscall's totals.                                          *)
ReadLine ==
    /\ pc = "loop"
    /\ k <= Len(lines)
    /\ LET l == lines[k] IN
         CASE l.kind = "blank"   -> UNCHANGED <<tracingStarted, syscalls>>
           [] l.kind = "tracing" -> tracingStarted' = TRUE /\ UNCHANGED syscalls
           [] ~tracingStarted    -> UNCHANGED <<tracingStarted, syscalls>>
           [] l.kind = "data"    -> syscalls' = Accumulate(syscalls, l)
                                    /\ UNCHANGED tracingStarted
           [] OTHER              -> UNCHANGED <<tracingStarted, syscalls>>
    /\ k' = k + 1
    /\ UNCHANGED <<lines, pc, sortedSyscalls>>

ByCount(a, b) == a.count > b.count

CountSort == INSTANCE StableSort WITH Gt <- ByCount

(* sorted(syscalls.items(), key=lambda x: x[1]['count'], reverse=True)    *)
SortStats(s) == CountSort!SortDesc(s)

(* End of file: the totals are sorted by count for printing.              *)
Finish ==
    /\ pc = "loop"
    /\ k > Len(lines)
    /\ sortedSyscalls' = SortStats(syscalls)
    /\ pc' = "done"
    /\ UNCHANGED <<lines, k, tracingStarted, syscalls>>

Next == ReadLine \/ Finish

Spec == Init /\ [][Next]_vars

-----------------------------------------------------------------------------
(***************************************************************************)
(* Properties                                                              *)
(***************************************************************************)

TypeOK ==
    /\ lines \in Seq(RawLine)
    /\ tracingStarted \in BOOLEAN
    /\ pc \in {"loop", "done"}
    /\ syscalls \in Seq([name : Names, count : Nat, time : Nat])

(* The data lines after the first "Tracing syscalls" line.                *)
TracedData ==
    LET t == SelectInSeq(lines, LAMBDA l : l.kind = "tracing")
    IN  IF t = 0 THEN << >>
        ELSE SelectSeq(SubSeq(lines, t + 1, Len(lines)),
                       LAMBDA l : l.kind = "data")

(* The docstring's contract: every syscall that has a data line after     *)
(* tracing started gets one entry, entries in the order of their first    *)
(* line, holding the sum of the counts and of the times of all its lines  *)
(* (across every interval of an -i capture); nothing printed before       *)
(* tracing started is counted.                                             *)
SyscallTotals ==
    LET d == TracedData
        firstAt(n) == SelectInSeq(d, LAMBDA l : l.name = n)
        sumOf(n, f(_)) ==
            MapThenSumSet(f, {q \in 1 .. Len(d) : d[q].name = n})
    IN  pc = "done" =>
          /\ Range([q \in 1 .. Len(syscalls) |-> syscalls[q].name])
               = {d[q].name : q \in 1 .. Len(d)}
          /\ \A p \in 1 .. Len(syscalls) :
               LET e == syscalls[p] IN
               /\ e.count = sumOf(e.name, LAMBDA q : d[q].count)
               /\ e.time = sumOf(e.name, LAMBDA q : d[q].time)
               /\ \A p2 \in 1 .. Len(syscalls) :
                    p < p2 => firstAt(e.name) < firstAt(syscalls[p2].name)

(* The docstring: the parser ensures the column headers are SYSCALL,      *)
(* COUNT and TIME (ms).  A capture taken without -L, whose header has no  *)
(* TIME column, must therefore not parse as if it were well formed.       *)
HeaderColumnsEnforced ==
    pc = "done" =>
        \A q \in 1 .. Len(lines) :
            lines[q].kind = "hdrnolat" =>
                ~\E t \in 1 .. (q - 1) : lines[t].kind = "tracing"

=============================================================================
