SPECIFICATION FairSpec
CONSTANTS
    MaxId = 2
    MaxAttempts = 3
    MaxMX = 2
    MaxFaults = 1
INVARIANT TypeOK
INVARIANT NoSilentLoss
INVARIANT DuplicatesBounded
INVARIANT AttemptsBounded
INVARIANT PenaltiesEarned
INVARIANT SnapshotFresh
PROPERTY ContractHolds
PROPERTY EventuallyLeaves
