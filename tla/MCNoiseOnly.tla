----------------------------- MODULE MCNoiseOnly -----------------------------
(***************************************************************************)
(* The line-oriented captures whose parsers meet noise-only files:         *)
(* parse_cachestat_file, parse_timestamped_file and                        *)
(* parse_file_values_logger_file.  A behaviour parses one capture with one *)
(* of them; the other stays at its start on an empty input.               *)
(***************************************************************************)
EXTENDS Integers, Sequences

VARIABLES
    source,
    cFile, cK, cPc, cHeader, cTimes, cIdx, cBase, cPrev, cOffset, cElapsed, cErr,
    xParser, xFile, xLines, xPc, xHeader, xRows, xFrame, xDtype, xErr

cVars == <<cFile, cK, cPc, cHeader, cTimes, cIdx, cBase, cPrev, cOffset, cElapsed, cErr>>
xVars == <<xParser, xFile, xLines, xPc, xHeader, xRows, xFrame, xDtype, xErr>>

C == INSTANCE Cachestat
       WITH MaxLines <- 2, MaxTime <- 1, Day <- 4,
            file <- cFile, k <- cK, pc <- cPc, header <- cHeader, times <- cTimes,
            idx <- cIdx, base <- cBase, prev <- cPrev, offset <- cOffset,
            elapsed <- cElapsed, err <- cErr

X == INSTANCE CsvCapture
       WITH MaxLines <- 2, Times <- {1, 2},
            parser <- xParser, file <- xFile, lines <- xLines, pc <- xPc,
            header <- xHeader, rows <- xRows, frame <- xFrame, dtype <- xDtype,
            err <- xErr

CIdle == /\ cFile = << >> /\ cK = 1 /\ cPc = "collect" /\ cHeader = "none"
         /\ cTimes = << >> /\ cIdx = 1 /\ cBase = 0 /\ cPrev = 0 /\ cOffset = 0
         /\ cElapsed = << >> /\ cErr = "none"
XIdle == /\ xParser = "file_values" /\ xFile = << >> /\ xLines = << >> /\ xPc = "read"
         /\ xHeader = "none" /\ xRows = << >> /\ xFrame = << >> /\ xDtype = "num"
         /\ xErr = "none"

Init ==
    /\ source \in {"cachestat", "csv"}
    /\ IF source = "cachestat" THEN C!Init ELSE CIdle
    /\ IF source = "csv" THEN X!Init ELSE XIdle

Next ==
    \/ source = "cachestat" /\ C!Next /\ UNCHANGED <<source, xVars>>
    \/ source = "csv" /\ X!Next /\ UNCHANGED <<source, cVars>>

Spec == Init /\ [][Next]_<<source, cVars, xVars>>

-----------------------------------------------------------------------------
(* Spec section 8: a capture of nothing but noise and blank lines goes    *)
(* through each of these parsers to an empty table, not an error.         *)
NoiseOnlyFileIsEmptyTable ==
    /\ C!NoiseOnlyFileIsEmptyTable
    /\ X!NoiseOnlyFileIsEmptyTable

=============================================================================
