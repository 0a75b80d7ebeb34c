CONSTANTS
    MaxLines = 2
    MaxValues = 2
    Ids = {"eth0", "tmpfs", "lo"}
    ToPlot = {"eth0"}
SPECIFICATION Spec
INVARIANT SeriesAlignedWithTimestamps
\* load_data returns or raises and then stops.
CHECK_DEADLOCK FALSE
