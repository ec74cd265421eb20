SPECIFICATION Spec
CONSTANTS
    s1 = s1
    s2 = s2
    s3 = s3
    k1 = k1
    k2 = k2
    Workers = {w1, w2}
    Keys = {k1, k2}
    Servers = {s1, s2, s3}
    KeyOf <- Suites
    LocalDir = TRUE
    None = None
INVARIANTS CapsuleWhole SealedForServer
PROPERTIES PairHeals
