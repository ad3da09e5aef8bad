CONSTANTS
    c1 = c1
    c2 = c2
    wan = wan
    lte = lte
    a = a
    Conn = {c1, c2}
    AddrOf <- MCAddr
    Iface = {wan, lte}
    Name = {"x", "1.1.1.1"}
    IsIp <- MCIsIp
    Ttl = {57, 58}
    Lifetime = 2
    CacheHostname = TRUE
    MaxNow = 4
    MaxPackets = 4
SPECIFICATION CacheSpec
SYMMETRY MCSymmetry
INVARIANTS NameIsLent UnusedIsForgotten TtlIsOfPath
CHECK_DEADLOCK FALSE
