SPECIFICATION FairSpec
CONSTANTS
    Carts = {c1}
    Workers = {w1, w2}
    Credentials = {k1}
    Authorizations = {a1}
    Amounts = {1, 2}
    AuthOf <- AuthOfOne
    AmountOf <- AmountOfOne
    MaxMishaps = 1
    None = None
    k1 = k1
    k2 = k2
    k3 = k3
    k4 = k4
    a1 = a1
    a2 = a2
PROPERTY RequestsAreAnswered LockIsReleased
