SPECIFICATION FairSpec
CONSTANTS
    p1 = p1
    p2 = p2
    Primaries = {p1, p2}
    Callers = {c1, c2}
    NoNode = NoNode
    Self = Self
    MaxVersion <- VersionBound
INVARIANTS StateCovers ServesHeld
PROPERTIES NoPullOverPrimary Refines Convergence
