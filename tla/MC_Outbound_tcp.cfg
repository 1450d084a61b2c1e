CONSTANTS
    c1 = c1  c2 = c2  i1 = i1  i2 = i2  n1 = n1  n2 = n2  lo = lo  none = none
    Conns = {c1}
    IPs <- MCIPs
    Nodes <- MCNodes
    Ports = {80, 81}
    Loopback = lo
    None = none
    NodeName = n1
SPECIFICATION OSpec
CHECK_DEADLOCK FALSE
INVARIANT RequestWellFormed
