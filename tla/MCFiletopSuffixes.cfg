\* One row line and a --suffixes text of up to two atoms (".log,").
CONSTANTS
    MaxLines = 1
    Files <- MCFiles
    Kbs = {0}
    SuffixAtoms = {".db", ".log", ","}
    MaxSuffixLen = 2
SPECIFICATION Spec
INVARIANT SuffixFilterHolds
\* The parser returns at the end of the capture and then stops.
CHECK_DEADLOCK FALSE
