\* Two files of up to two rows, a subtracted and a plain column, readings 1
\* and 3 besides NaN: an empty frame before a full one, a first reading
\* NaN, a text column, and files with different columns all occur.
CONSTANTS
    MaxFiles = 2
    MaxRows = 2
    Columns <- MCColumns
    SubtractCols = {"m1"}
    Vals = {1, 3}
SPECIFICATION Spec
INVARIANT EveryNumericColumnSummarized
\* main goes on to the PDF (or stops on the raised error).
CHECK_DEADLOCK FALSE
