SPECIFICATION Spec
INVARIANT ElapsedIsTrueElapsed
INVARIANT VmstatTypeOK
INVARIANT RowsMatchCapture
INVARIANT KswapdTypeOK
INVARIANT TableIsSortedEvents
INVARIANT SyscallTotals
INVARIANT TableMatchesCapture
INVARIANT SummaryOfInitialDeltas
INVARIANT LevelsCellsAreSamples
INVARIANT CsvTypeOK
INVARIANT CsvFrameIsCaptureRows
INVARIANT GcStormVerdict
INVARIANT GcCrashOnFirstDegenerate
\* Every parser, and parse_ycsb.py, returns or raises and then stops.
CHECK_DEADLOCK FALSE
