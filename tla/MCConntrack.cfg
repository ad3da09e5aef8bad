SPECIFICATION MCSpec
CONSTANTS
    SeqMod = 2
    SeqSample = {0}
    Lengths = {1}
    Endpoint = {a, b}
    Host = {h, g}
    NoHost = NoHost
    TimeoutSyn = 0
    TimeoutEst = 2
    TimeoutFin = 1
    TimeoutUdp = 1
    PurgeInterval = 2
    L4Proto = {"tcp", "udp"}
    ClockSet = TRUE
    MaxNow = 3
    MaxPackets = 3
    MaxPool = 2
INVARIANTS OneTrackPerFlow HandshakeForgets
PROPERTIES IdleIsBounded
CONSTRAINT Within
SYMMETRY MCSymmetry
CHECK_DEADLOCK FALSE
