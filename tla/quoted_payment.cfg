SPECIFICATION Spec
CONSTANTS
    Calls = {c1,c2}
    Totals = {t1, t2}
    SigningKeys = {k1, k2}
    DiscoveryTtl = 2
    FailureTtl = 1
    QuoteTtl = 1
    MaxTime = 2
    MaxChanges = 3
    None = None
SYMMETRY Symmetric
CONSTRAINT CallsMeetEarly
INVARIANT TypeOK PaidIsDue PartsAreMissedBriefly
PROPERTY PayableUnlessUnsigned
CHECK_DEADLOCK FALSE
