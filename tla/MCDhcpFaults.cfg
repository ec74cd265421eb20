SPECIFICATION Spec
CONSTANTS
    Macs = {m1, m2}
    Addrs <- TwoAddrs
    Pool <- OneAddr
    Subnet <- TwoAddrs
    Protected = {}
    Names = {}
    Handlers = {h1, h2}
    Reservations <- MovingReservation
    NoAddr = NoAddr
    NoMac = NoMac
    NoName = NoName
    LeaseTime = 2
    OfferHold = 1
    QuarantineFor = 2
    Second = 3
    MaxTime = 1
    Faults = {"store", "reboot", "reconfigure", "probe"}
SYMMETRY Symm
INVARIANTS BindingsAgree
PROPERTY OfferHarmless
CHECK_DEADLOCK FALSE
