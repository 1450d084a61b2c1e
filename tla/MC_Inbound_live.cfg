CONSTANTS
    s1 = s1  s2 = s2
    p1 = p1  p2 = p2  p3 = p3
    a = a  b = b  c = c
    wid = wid  cid = cid
    NoReq = NoReq
    Streams <- MCStreams
    Peers <- MCPeers
    IPs <- MCIPs
    Ids <- MCIds
    Ports <- MCPorts
    Keys <- MCKeys
    PeerId <- MCPeerId
    PeerDst <- MCPeerDst
    PortOf <- MCPortOfDistinct
    Waypointed <- MCWaypointed
    WaypointIds <- MCWaypointIds
    SandwichRel <- MCSandwichRel
    ProxyTunnel <- MCNoProxyTunnel
    InitPolicy <- MCInitPolicy
    MaxVersion = 1
SPECIFICATION FairSpec
PROPERTIES RevokedFlowsTerminate ObservedRevocationEnforced DrainTerminates
CHECK_DEADLOCK FALSE
