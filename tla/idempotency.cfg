SPECIFICATION Spec
CONSTANTS
    Requests = {r1, r2, r3}
    ApiKeys = {a1}
    Agents = {u1}
    Versions = {v1}
    Keys = {k1}
    Bodies = {b1, b2}
    MaxFaults = 1
    None = None
INVARIANT TypeOK ReplayIsHonest RetryableIsNotReplayed HandledTwiceOnlyIfReopened
SYMMETRY Symmetric
CHECK_DEADLOCK FALSE
