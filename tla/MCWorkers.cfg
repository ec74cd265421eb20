SPECIFICATION FairSpec
CONSTANTS
    Callers = {c1, c2}
    Ids = {i1}
    Sources = {File, dhcpd}
    File = File
    LeaseSets <- FourSets
    None = None
    Focus <- OneAtATime
INVARIANTS NoLostWake VerdictEarned
PROPERTIES StatusesFollow RelayFollows LeasesFollow
