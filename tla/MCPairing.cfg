SPECIFICATION Spec
CONSTANTS
    Primaries = {p, q}
    Nodes = {n1}
    Joins = {r1, r2}
    Addresses = {x}
    None = None
    TTL = 0
    MaxCodes = 2
    MaxTime = 1
    MaxBoots = 1
INVARIANTS CodeOnce CodeToConfirmed PairingAgrees
CHECK_DEADLOCK FALSE
SYMMETRY Symm
