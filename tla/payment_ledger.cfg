SPECIFICATION Spec
CONSTANTS
    Callers = {w1, w2, w3}
    Carts = {c1, c2}
    None = None
    Spellings = {s1, s2, s3}
    Lowercase <- LowercaseOfThree
    s1 = s1
    s2 = s2
    s3 = s3
SYMMETRY CallerAndCartSymmetry
INVARIANT TypeOK GrantedToOneCart
PROPERTY IsRegistry
