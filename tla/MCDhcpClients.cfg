SPECIFICATION Spec
CONSTANTS
    Macs = {m1, m2}
    Addrs <- MCAddrs
    Pool <- MCPool
    Subnet <- MCPool
    Protected <- MCProtected
    Names = {n1}
    Handlers = {h1, h2}
    Reservations <- NoneReserved
    NoAddr = NoAddr
    NoMac = NoMac
    NoName = NoName
    LeaseTime = 1
    OfferHold = 1
    QuarantineFor = 1
    Second = 1
    MaxTime = 1
    Faults = {"loss"}
SYMMETRY Symm
INVARIANTS AckedBound NamesUnique
CHECK_DEADLOCK FALSE
