SPECIFICATION TcpSpec
CONSTANTS
    SeqMod = 32
    MaxNeg = 8
    Isn = 29
    Segment <- TcpSegment
    HelloStart = 2
    HelloLen = 3
    MinHello = 1
    MaxReasm = 3
    ServerWindow = {0}
    MaxPackets = 12
    StreamLen = 4
    Mss = 2
    Cwnd = 4
    TailProbe = TRUE
    MaxLoss = 1
    MaxRto = 2
PROPERTIES StreamDelivered DelayedDrains
CHECK_DEADLOCK FALSE
