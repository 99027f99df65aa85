SPECIFICATION Spec
CONSTANTS
    Sessions = {s1, s2}
    Flags = {"T"}
    Preloaded = 1
    MaxMsg = 3
    MaxValidity = 1
    MaxFaults = 0
    MaxWriteFaults = 0
INVARIANT UIDsNeverReused
