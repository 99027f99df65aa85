SPECIFICATION Spec
CONSTANTS
    Conns = {c1}
    Workers = 1
    Addrs = {"alice", "bob"}
    Limits = {1, 2}
    MaxTx = 2
    MaxReloads = 1
    MaxFaults = 1
INVARIANT NoOpenRelay
INVARIANT OnlyItsRecipients
INVARIANT AnswerIsTruthful
