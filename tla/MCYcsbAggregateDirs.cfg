CONSTANTS
    Dirs = {"d1", "d2"}
    Names = {"p1"}
    MaxFiles = 2
    HdrThr = {20}
    OutThr = {20}
    MaxOuts = 1
SPECIFICATION Spec
INVARIANT EveryExperimentReported
\* main returns or raises and then stops.
CHECK_DEADLOCK FALSE
