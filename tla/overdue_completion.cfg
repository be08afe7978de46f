SPECIFICATION OverdueSpec
CONSTANTS
    Carts = {c1}
    Workers = {w1, w2}
    Credentials = {k1, k2}
    Authorizations = {a1, a2}
    Amounts = {1, 2}
    AuthOf <- AuthOfTwo
    AmountOf <- AmountOfTwo
    MaxMishaps = 2
    None = None
    k1 = k1
    k2 = k2
    a1 = a1
    a2 = a2
SYMMETRY WorkerAndCredentialSymmetry
INVARIANT SecondNeedsOverlap OrderIsPaidUnlessOrphaned
CHECK_DEADLOCK FALSE
