SPECIFICATION Spec
INVARIANT HistogramsTypeOK
INVARIANT TableStatsTypeOK
PROPERTY HistogramsRefinement
PROPERTY HistogramsTermination
PROPERTY TableStatsRefinement
PROPERTY TableStatsTermination
\* Every parser returns or raises and then stops.
CHECK_DEADLOCK FALSE
