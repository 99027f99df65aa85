SPECIFICATION AuthSpec
CONSTANTS
    Logins = {l1, l2}
    Users = {u1}
    IPs = {i1, i2}
    MaxFailures = 2
    Lockout = 2
    Capacity = 1
INVARIANT FailuresBounded
PROPERTY LocksHold
