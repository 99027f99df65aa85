SPECIFICATION TextSpec
CONSTANTS
    MaxNum = 6
    MaxText = 3
    MaxCriteria = 2
\* A command ends somewhere.
CHECK_DEADLOCK FALSE
INVARIANT SetsMeanRanges
INVARIANT PatternsMatchByParts
INVARIANT SearchIsConjunction
INVARIANT FetchLosesNothing
INVARIANT TextReadsBack
