CONSTANTS
    reasm_payload_disable = FALSE
    Datagrams <- Sent
    Size = 6
    HelloLen = 6
    MaxPackets = 6
    MAX_DEFRAG_PIECES = 3
    UDP_MAX_REASM = 18
SPECIFICATION Spec
INVARIANTS ReplayedIsWhole FlightIsSeen HeardInTheEnd
PROPERTY IsDelayLine
CHECK_DEADLOCK FALSE
