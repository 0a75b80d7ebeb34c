CONSTANTS
    RawLine <- MCRawLineAnyTable
    Expected <- MCExpected
    MaxLines = 3
SPECIFICATION Spec
INVARIANT SkippableLogNeverRaises
\* The parser returns or raises and then stops.
CHECK_DEADLOCK FALSE
