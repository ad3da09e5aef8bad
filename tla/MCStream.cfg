\* A word of three bits, so that the client's stream crosses its middle and
\* wraps; a segment stays within less than half of it.
SPECIFICATION StreamSpec
CONSTANTS
    SeqMod = 8
    SeqSample = {0}
    Endpoint = {c, s}
    Client = c
    Server = s
    Host = {h}
    NoHost = NoHost
    TimeoutSyn = 1
    TimeoutEst = 1
    TimeoutFin = 1
    TimeoutUdp = 1
    PurgeInterval = 1
    L4Proto = {"tcp"}
    ClockSet = FALSE
    MaxNow = 1
    Lengths = {0, 2}
    Window = 3
    MaxInc = 2
    SynSeen = TRUE
    SynAgain = TRUE
    Isn = {1, 6}
    MaxRequest = 8
    MaxResponse = 2
    MaxPackets = 7
INVARIANTS RetransmissionIsExact PositionExactOrFlagged
CHECK_DEADLOCK FALSE
