SPECIFICATION Spec
CONSTANTS
    Slots = {r1, r2}
    Sessions = {s1, s2}
    ApiKeys = {a1, a2}
    Versions = {old, new}
    LimitedVersions = {old}
    NoVersion = NoVersion
    None = None
    old = old
    new = new
    Configurations <- Deployments
    PathSeen = FALSE
    MaxFaults = 2
SYMMETRY Symmetric
INVARIANT TypeOK ServedAtPin SessionsAreWhole
CHECK_DEADLOCK FALSE
