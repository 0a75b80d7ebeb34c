\* A capture of two lines is enough for "Tracing syscalls" then a header.
CONSTANTS
    MaxLines = 2
    Names = {"read"}
    Counts = {1}
    Times = {1}
SPECIFICATION Spec
INVARIANT HeaderColumnsEnforced
\* The parser returns at the end of the capture and then stops.
CHECK_DEADLOCK FALSE
