SPECIFICATION FairSpec
CONSTANTS
    Sessions = {s1, s2}
    Day1 = 1
    Day7 = 4
    Full = 6
    Top = 8
    Normal = 6
    Burned = 2
    BounceCost = 4
    MaxBounces = 1
    MaxAge = 6
    MaxFaults = 1
INVARIANT OvershootBounded
INVARIANT RampGrows
INVARIANT CleanMeansSaved
PROPERTY Recovers
