SPECIFICATION Spec
CONSTANTS
    Primaries = {p, q}
    Nodes = {n1}
    Joins = {r1, r2}
    Addresses = {x, y}
    None = None
    TTL = 0
    MaxCodes = 2
    MaxTime = 0
    MaxBoots = 0
INVARIANT JoinSticks
CHECK_DEADLOCK FALSE
SYMMETRY Symm
