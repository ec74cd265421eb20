SPECIFICATION SettingsSpec
CONSTANTS
    Requests = {r1, r2}
    Boot = Boot
    MaxPulls = 2
SYMMETRY Symm
INVARIANTS HolderFresh
PROPERTY OwnersKept
