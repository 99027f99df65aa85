SPECIFICATION Spec
CONSTANTS
    Sessions = {s1}
    Flags = {"T"}
    Preloaded = 1
    MaxMsg = 3
    MaxValidity = 2
    MaxFaults = 1
    MaxWriteFaults = 0
INVARIANT UIDsNeverReused
INVARIANT UIDsStable
INVARIANT AppendAnswersUnseen
CHECK_DEADLOCK FALSE
