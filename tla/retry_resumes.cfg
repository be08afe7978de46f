SPECIFICATION Spec
CONSTANTS
    Carts = {c1}
    Workers = {w1, w2}
    Credentials = {k1, k2}
    Authorizations = {a1, a2}
    Amounts = {1, 2}
    AuthOf <- AuthOfTwo
    AmountOf <- AmountOfTwo
    MaxMishaps = 0
    None = None
    k1 = k1
    k2 = k2
    k3 = k3
    k4 = k4
    a1 = a1
    a2 = a2
INVARIANT RetryResumes
