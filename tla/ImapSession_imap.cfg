SPECIFICATION Spec
CONSTANTS
    Sessions = {a, b}
    Preloaded = 1
    MaxFiles = 3
    MaxEvents = 2
SYMMETRY Interchangeable
INVARIANT NumberingAgrees
PROPERTY RemovalsAskedFor
PROPERTY FlagsNotLost
