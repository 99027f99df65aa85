SPECIFICATION Spec
CONSTANTS
    Sessions = {s1, s2}
    Flags = {"T"}
    Preloaded = 0
    MaxMsg = 1
    MaxValidity = 2
    MaxFaults = 0
    MaxWriteFaults = 1
PROPERTY OnlyDeletedRemoved
CHECK_DEADLOCK FALSE
