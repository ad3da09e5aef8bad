SPECIFICATION Spec
CONSTANTS
    SeqMod = 16
    MaxNeg = 6
    Isn = 13
    Segment <- AnySegment
    HelloStart = 2
    HelloLen = 3
    MinHello = 1
    MaxReasm = 3
    ServerWindow = {0, 2}
    MaxPackets = 4
INVARIANTS HeldWhileOpen BufferIsStream ReplayIsWholeHello
PROPERTIES IsDelayLine
CHECK_DEADLOCK FALSE
