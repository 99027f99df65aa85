SPECIFICATION Spec
CONSTANTS
    Accounts = {a, b}
    MaxMsg = 2
    MaxLogins = 2
    MaxOthers = 2
    MaxFaults = 1
INVARIANT QuitHonoursDele
INVARIANT OnlyAskedOrFlagged
