SPECIFICATION Spec
CONSTANTS
    Writers = {w1}
    c1 = c1
    c2 = c2
    Configs = {c1, c2}
    Saved <- MCSaved
    None = None
    File = File
    Failed = Failed
    MaxSaves = 1
    MaxWrites = 2
INVARIANTS ReplicaNeverServes StatusHonest ReservationsFresh BannerOfRunning SourceNotGone
CHECK_DEADLOCK FALSE
