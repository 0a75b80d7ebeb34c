CONSTANTS
    RawLine <- MCRawLine
    TargetTable <- MCTarget
    MaxLines = 5

SPECIFICATION Spec

INVARIANT TypeOK

PROPERTY Refinement
PROPERTY Termination

\* The parser returns or raises and then stops.
CHECK_DEADLOCK FALSE
