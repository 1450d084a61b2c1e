CONSTANTS
    s1 = s1  s2 = s2
    p1 = p1  p2 = p2  p3 = p3
    a = a  b = b  c = c
    wid = wid  cid = cid
    NoReq = NoReq
    Streams <- MCStreams
    Peers <- MCPeers
    IPs <- MCIPs
    Ids <- MCIds
    Ports <- MCPorts
    Keys <- MCKeys
    PeerId <- MCPeerId
    PeerDst <- MCPeerDst
    PortOf <- MCPortOfDistinct
    Waypointed <- MCWaypointedBoth
    WaypointIds <- MCWaypointIds
    SandwichRel <- MCSandwichRel
    ProxyTunnel <- MCNoProxyTunnel
    InitPolicy <- MCInitPolicy
    MaxVersion = 0
SPECIFICATION Spec
INVARIANT SandwichNeverUnauthorized
CHECK_DEADLOCK FALSE
