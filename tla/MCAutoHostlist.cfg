SPECIFICATION Spec
CONSTANTS
    c1 = c1
    c2 = c2
    auto = auto
    not = not
    site = site
    domain = domain
    Host = {site, domain}
    Visited = {site}
    Entry = {domain}
    NoHost = NoHost
    Suffixes <- MCSuffixes
    Impossible = Impossible
    ListFile = {auto, not}
    NoFile = NoFile
    NProfile = 2
    Include <- MCInclude
    Exclude <- MCExclude
    AutoList <- MCAuto
    Conn = {c1, c2}
    L4 <- MCL4
    FitsOf <- MCFits
    FailThreshold = 2
    FailTime = 1
    RetransThreshold = 2
    UdpOut = 1
    UdpIn = 0
    EditorRaces = FALSE
    MaxEdits = 1
    MaxNow = 2
INVARIANTS NothingMissed JudgedOnce ObservedUntouched
PROPERTIES AddedIsEarned WritesNothingListed
CHECK_DEADLOCK FALSE
