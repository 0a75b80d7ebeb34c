CONSTANTS
    MaxLines = 3
    Times = {1, 2}
SPECIFICATION Spec
INVARIANT NonNumericValueIsMissing
\* Each parser returns or raises and then stops.
CHECK_DEADLOCK FALSE
