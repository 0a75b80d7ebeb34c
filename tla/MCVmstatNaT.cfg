CONSTANTS
    MaxLines = 3
SPECIFICATION Spec
INVARIANT UnparseableTimestampsAreDropped
\* The parser returns or raises and then stops.
CHECK_DEADLOCK FALSE
