SPECIFICATION Spec
CONSTANTS
    Names = {1, 2, 3}
    Apex = Apex
    Outside = {x}
    Listed = {1, x}
    a0 = a0
    a1 = a1
    a2 = a2
    a6 = a6
    Addrs = {a0, a1, a2, a6}
    V6 = {a6}
    ReverseZones = {a1}
    Lan = {a0, a1, a2}
    Edge = {a0}
    near = near
    far = far
    guest = guest
    Clients = {near, far, guest}
    Allowed = {near, far}
    wide = wide
    narrow = narrow
    Subnets = {wide, narrow}
    Bits <- MCBits
    Covers <- MCCovers
    CnameChaseDepth = 2
    None = None
    m = m
    m2 = m2
    x = x
    Writers = {w1, w2}
    ServiceDocs <- MCServiceDocs
    Patches <- MCPatches
    AddressForms <- MCAddressForms
    RecordDocs <- MCRecordDocs
    ViewDocs <- MCViewDocs
    Documents <- MCDocuments
    LeaseSets <- MCLeaseSets
    MaxOps = 2
SYMMETRY Symm
INVARIANTS SerialsDistinct RefsExist ReservationsOneToOne
PROPERTIES UpdateLands PublishedAnswers SplitHorizon ChainsComplete
CHECK_DEADLOCK FALSE
