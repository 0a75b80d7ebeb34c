--------------------------- MODULE MCCaptureParsers ---------------------------
(***************************************************************************)
(* The single-capture parsers and the report builders, checked in one    *)
(* model: plot_cachestat.py's                                              *)
(* main hands each --cachestat-files, --command-vmstat-files,              *)
(* --kswapd-wake-files, --meminfo-files, --proc-vmstat-files and           *)
(* --file-values-files entry to its parser, and the bcc summary scripts    *)
(* syscount_parser.py and parse_filetop.py each parse the one capture     *)
(* named on their command line; main then builds the cover-page summary  *)
(* of each source and the tablestats levels page from the parsed frames;  *)
(* parse_ycsb.py's main aggregates the experiments of one --ycsb-files     *)
(* list and runs the GC-storm check.                                       *)
(* A behaviour runs one of these components on one input; the others stay *)
(* at their start on an empty input and take no step.  They share no      *)
(* state, so the reachable states are those of each component alone.     *)
(***************************************************************************)
EXTENDS Integers, Sequences

VARIABLES
    source,
    cFile, cK, cPc, cHeader, cTimes, cIdx, cBase, cPrev, cOffset, cElapsed, cErr,
    vFile, vK, vPc, vRecords, vDf, vV, vErr,
    kLines, kK, kPc, kAcc, kOut, kErr,
    sLines, sK, sTracing, sSyscalls, sPc, sSorted,
    fLines, fFilter, fSuffix, fK, fMetrics, fPc, fSorted, fTotals,
    uCaptures, uData, uK, uPc, uSample, uMi, uRows, uTables,
    lData, lK, lMaps, lAll, lPc, lTable,
    xParser, xFile, xLines, xPc, xHeader, xRows, xFrame, xDtype, xErr,
    yFiles, yIgnore, yTrim, yK, yPc, yComputed, yByKey, yThr, yResults, yG, yStorm, yErr

cVars == <<cFile, cK, cPc, cHeader, cTimes, cIdx, cBase, cPrev, cOffset, cElapsed, cErr>>
vVars == <<vFile, vK, vPc, vRecords, vDf, vV, vErr>>
kVars == <<kLines, kK, kPc, kAcc, kOut, kErr>>
sVars == <<sLines, sK, sTracing, sSyscalls, sPc, sSorted>>
fVars == <<fLines, fFilter, fSuffix, fK, fMetrics, fPc, fSorted, fTotals>>
uVars == <<uCaptures, uData, uK, uPc, uSample, uMi, uRows, uTables>>
lVars == <<lData, lK, lMaps, lAll, lPc, lTable>>
xVars == <<xParser, xFile, xLines, xPc, xHeader, xRows, xFrame, xDtype, xErr>>
yVars == <<yFiles, yIgnore, yTrim, yK, yPc, yComputed, yByKey, yThr, yResults, yG,
           yStorm, yErr>>

C == INSTANCE Cachestat
       WITH MaxLines <- 4, MaxTime <- 9, Day <- 4,
            file <- cFile, k <- cK, pc <- cPc, header <- cHeader, times <- cTimes,
            idx <- cIdx, base <- cBase, prev <- cPrev, offset <- cOffset,
            elapsed <- cElapsed, err <- cErr

V == INSTANCE Vmstat
       WITH MaxLines <- 5,
            file <- vFile, k <- vK, pc <- vPc, records <- vRecords, df <- vDf,
            v <- vV, err <- vErr

K == INSTANCE KswapdTrace
       WITH MaxLines <- 4, Times <- {1, 2}, Payloads <- {"p1", "p2"},
            lines <- kLines, k <- kK, pc <- kPc, acc <- kAcc, out <- kOut, err <- kErr

S == INSTANCE Syscount
       WITH MaxLines <- 4, Names <- {"read", "write"}, Counts <- {1, 2}, Times <- {1},
            lines <- sLines, k <- sK, tracingStarted <- sTracing,
            syscalls <- sSyscalls, pc <- sPc, sortedSyscalls <- sSorted

F == INSTANCE Filetop
       WITH MaxLines <- 3, Files <- {<<"a", ".db">>, <<"b", ".log">>}, Kbs <- {0, 4},
            SuffixAtoms <- {".db", ".log", ","}, MaxSuffixLen <- 2,
            lines <- fLines, filterType <- fFilter, suffixText <- fSuffix, k <- fK,
            metrics <- fMetrics, pc <- fPc, sortedMetrics <- fSorted, totals <- fTotals

U == INSTANCE SummaryTables
       WITH MaxFiles <- 2, MaxRows <- 2, Columns <- <<"m1", "m2">>,
            SubtractCols <- {"m1"}, Vals <- {1, 3},
            captures <- uCaptures, data <- uData, k <- uK, pc <- uPc,
            sample <- uSample, mi <- uMi, rows <- uRows, tables <- uTables

L == INSTANCE LevelsTable
       WITH MaxExps <- 2, MaxRows <- 2, Stamps <- {5, 6},
            Levels <- {<<"zero">>, <<"num", "zero", "zero">>, <<"ratio", "zero">>,
                       <<"zero", "num">>},
            data <- lData, k <- lK, maps <- lMaps, allElapsed <- lAll, pc <- lPc,
            table <- lTable

X == INSTANCE CsvCapture
       WITH MaxLines <- 4, Times <- {1, 2},
            parser <- xParser, file <- xFile, lines <- xLines, pc <- xPc,
            header <- xHeader, rows <- xRows, frame <- xFrame, dtype <- xDtype,
            err <- xErr

Y == INSTANCE YcsbAggregate
       WITH Dirs <- {"d1"}, Names <- {"p1", "p2"}, MaxFiles <- 3,
            HdrThr <- {19, 21, 38}, OutThr <- {0, 10, 20}, MaxOuts <- 2,
            files <- yFiles, ignoreFailures <- yIgnore, trim <- yTrim, k <- yK,
            pc <- yPc, computed <- yComputed, byKey <- yByKey, thr <- yThr,
            results <- yResults, g <- yG, storm <- yStorm, err <- yErr

Sources == {"cachestat", "command_vmstat", "kswapd_wake", "syscount", "filetop",
            "summary", "levels", "csv", "ycsb"}

(* The start state of each parser on an empty capture: its Init with     *)
(* the input fixed to << >> (and, for filetop, the default options).      *)
CIdle == /\ cFile = << >> /\ cK = 1 /\ cPc = "collect" /\ cHeader = "none"
         /\ cTimes = << >> /\ cIdx = 1 /\ cBase = 0 /\ cPrev = 0 /\ cOffset = 0
         /\ cElapsed = << >> /\ cErr = "none"
VIdle == /\ vFile = << >> /\ vK = 1 /\ vPc = "header" /\ vRecords = << >>
         /\ vDf = << >> /\ vV = 1 /\ vErr = "none"
KIdle == /\ kLines = << >> /\ kK = 1 /\ kPc = "loop" /\ kAcc = << >> /\ kOut = << >>
         /\ kErr = "none"
SIdle == /\ sLines = << >> /\ sK = 1 /\ sTracing = FALSE /\ sSyscalls = << >>
         /\ sPc = "loop" /\ sSorted = << >>
FIdle == /\ fLines = << >> /\ fFilter = "both" /\ fSuffix = << >> /\ fK = 1
         /\ fMetrics = << >> /\ fPc = "loop" /\ fSorted = << >>
         /\ fTotals = [reads |-> 0, writes |-> 0, rkb |-> 0, wkb |-> 0]
UIdle == /\ uCaptures = << >> /\ uData = << >> /\ uK = 1 /\ uPc = "subtract"
         /\ uSample = 0 /\ uMi = 1 /\ uRows = << >> /\ uTables = << >>
LIdle == /\ lData = << >> /\ lK = 1 /\ lMaps = << >> /\ lAll = {} /\ lPc = "loop"
         /\ lTable = << >>
XIdle == /\ xParser = "file_values" /\ xFile = << >> /\ xLines = << >> /\ xPc = "read"
         /\ xHeader = "none" /\ xRows = << >> /\ xFrame = << >> /\ xDtype = "num"
         /\ xErr = "none"
YIdle == /\ yFiles = << >> /\ yIgnore = FALSE /\ yTrim = FALSE /\ yK = 1
         /\ yPc = "process" /\ yComputed = {} /\ yByKey = {} /\ yThr = Y!None
         /\ yResults = << >> /\ yG = 1 /\ yStorm = FALSE /\ yErr = "none"

(* Each parser either parses the capture of this behaviour or waits at its *)
(* start on an empty input.                                                *)
Init ==
    /\ source \in Sources
    /\ IF source = "cachestat" THEN C!Init ELSE CIdle
    /\ IF source = "command_vmstat" THEN V!Init ELSE VIdle
    /\ IF source = "kswapd_wake" THEN K!Init ELSE KIdle
    /\ IF source = "syscount" THEN S!Init ELSE SIdle
    /\ IF source = "filetop" THEN F!Init ELSE FIdle
    /\ IF source = "summary" THEN U!Init ELSE UIdle
    /\ IF source = "levels" THEN L!Init ELSE LIdle
    /\ IF source = "csv" THEN X!Init ELSE XIdle
    /\ IF source = "ycsb" THEN Y!Init ELSE YIdle

Next ==
    \/ source = "cachestat" /\ C!Next /\ UNCHANGED <<source, vVars, kVars, sVars, fVars, uVars, lVars, xVars, yVars>>
    \/ source = "command_vmstat" /\ V!Next /\ UNCHANGED <<source, cVars, kVars, sVars, fVars, uVars, lVars, xVars, yVars>>
    \/ source = "kswapd_wake" /\ K!Next /\ UNCHANGED <<source, cVars, vVars, sVars, fVars, uVars, lVars, xVars, yVars>>
    \/ source = "syscount" /\ S!Next /\ UNCHANGED <<source, cVars, vVars, kVars, fVars, uVars, lVars, xVars, yVars>>
    \/ source = "filetop" /\ F!Next /\ UNCHANGED <<source, cVars, vVars, kVars, sVars, uVars, lVars, xVars, yVars>>

    \/ source = "summary" /\ U!Next /\ UNCHANGED <<source, cVars, vVars, kVars, sVars, fVars, lVars, xVars, yVars>>
    \/ source = "levels" /\ L!Next /\ UNCHANGED <<source, cVars, vVars, kVars, sVars, fVars, uVars, xVars, yVars>>
    \/ source = "csv" /\ X!Next /\ UNCHANGED <<source, cVars, vVars, kVars, sVars, fVars, uVars, lVars, yVars>>
    \/ source = "ycsb" /\ Y!Next /\ UNCHANGED <<source, cVars, vVars, kVars, sVars, fVars, uVars, lVars, xVars>>

Spec == Init /\ [][Next]_<<source, cVars, vVars, kVars, sVars, fVars, uVars, lVars, xVars, yVars>>

-----------------------------------------------------------------------------
(* Cachestat: the day-rollover loop turns time-of-day readings back into  *)
(* the true elapsed capture time whenever samples are under a day apart.  *)
ElapsedIsTrueElapsed == C!ElapsedIsTrueElapsed

(* Vmstat: the types of parse_vmstat_command_file's locals.                *)
VmstatTypeOK == V!TypeOK

(* Vmstat: the frame is exactly the capture's timestamped data rows, all  *)
(* within CPU tolerance, and a CPU error names a data row at fault.       *)
RowsMatchCapture == V!RowsMatchCapture

(* Kswapd: the types of parse_kswapd_wake_trace_file's locals.             *)
KswapdTypeOK == K!TypeOK

(* Kswapd: a -T trace parses to its events sorted by elapsed; a bad trace *)
(* raises the error of its first bad event.                                *)
TableIsSortedEvents == K!TableIsSortedEvents

(* Syscount: the totals per syscall are the sums over the data lines after *)
(* "Tracing syscalls", in first-seen order.                                *)
SyscallTotals == S!SyscallTotals

(* Filetop: the table and its TOTAL row are the sums of the kept rows by  *)
(* filter type, sorted by R_Kb then W_Kb, ties in first-seen order.        *)
TableMatchesCapture == F!TableMatchesCapture

(* Summary: the cover page lists the numeric columns of the first         *)
(* non-empty capture, one row per capture holding the column, each       *)
(* summarising that capture's readings less its first reading.             *)
SummaryOfInitialDeltas == U!SummaryOfInitialDeltas

(* Levels: one row per sampled second, ascending; each cell is the        *)
(* trimmed levels string of that file's sample at that second, or blank.  *)
LevelsCellsAreSamples == L!LevelsCellsAreSamples

(* Csv: the types of the two CSV parsers' locals.                          *)
CsvTypeOK == X!TypeOK

(* Csv: a returned frame holds exactly the capture's data rows in order,   *)
(* elapsed from the first data row, text coerced to NaN by the file-values *)
(* parser only, whatever noise and blank lines surround them.              *)
CsvFrameIsCaptureRows == X!FrameIsCaptureRows

(* Ycsb: parse_ycsb.py stops on a GC storm exactly when trimming is off   *)
(* and some completed experiment deviates by more than 5%.                 *)
GcStormVerdict == Y!GcStormVerdict

(* Ycsb: without trimming the GC loop crashes at the first completed      *)
(* experiment with no merged throughput or a zero .out sum.               *)
GcCrashOnFirstDegenerate == Y!GcCrashOnFirstDegenerate

=============================================================================
