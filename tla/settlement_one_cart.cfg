SPECIFICATION Spec
CONSTANTS
    Carts = {c1}
    Workers = {w1, w2}
    Credentials = {k1, k2, k3, k4}
    Authorizations = {a1, a2}
    Amounts = {1, 2}
    AuthOf <- AuthOfFour
    AmountOf <- AmountOfFour
    MaxMishaps = 2
    None = None
    k1 = k1
    k2 = k2
    k3 = k3
    k4 = k4
    a1 = a1
    a2 = a2
SYMMETRY WorkerAndEncodingSymmetry
INVARIANT SettlementSafe TypeOK OneAuthorizationPerCart ExposureIsHeld FreshCallIsFirst OrderIsPaidInFull SettlingHasAWorker
PROPERTY FrozenWhileAtStake ReviewIsFinal OrderIsNotTakenBack
