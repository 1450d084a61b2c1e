------------------------------ MODULE Outbound ------------------------------
(***************************************************************************)
(* The outbound proxy of src/proxy/outbound.rs: Outbound::run accepts an  *)
(* intercepted TCP connection and spawns one OutboundConnection::proxy     *)
(* task for it; the task plans the route with build_request and           *)
(* dispatches it as an HBONE CONNECT tunnel or a plain TCP passthrough.    *)
(*                                                                         *)
(* Data abstraction.  An address is <<ip, port>>.  The workload fields     *)
(* build_request reads are kept (protocol, workload_ip, gateway_ip,       *)
(* remote_proxy, node, whether the name is empty); everything else of a   *)
(* Workload is dropped.  The workload store is not part of src/: each     *)
(* lookup, made atomically under the store's mutex, returns any result    *)
(* the store could hold, and find_upstream's behaviour for a destination  *)
(* unknown to discovery is taken from spec.md 4.4.                        *)
(***************************************************************************)
EXTENDS Naturals

CONSTANTS
    Conns,      \* accepted outbound TCP connections
    IPs,        \* workload, VIP and waypoint IPs
    Ports,      \* application ports of original destinations
    Nodes,      \* node names
    Loopback,   \* 127.0.0.1
    None,       \* Option::None
    NodeName    \* the NODE_NAME environment variable ("" when unset)

(* The empty string: an unset NODE_NAME, a workload without a node. *)
EmptyName == ""

ASSUME OutboundAssumption ==
    /\ Loopback \notin IPs
    /\ None \notin IPs \cup Nodes \cup {EmptyName}
    /\ EmptyName \notin Nodes
    /\ NodeName \in Nodes \cup {EmptyName}
    /\ Ports \cap {15001, 15006, 15008} = {}

(* Config::default: local_node is Some(NODE_NAME) unless it is empty. *)
LocalNode == IF NodeName = EmptyName THEN None ELSE NodeName

Addrs == (IPs \cup {Loopback}) \X (Ports \cup {15001, 15006, 15008})

(* The fields of a Workload that build_request reads. *)
Workloads ==
    [protocol : {"HBONE", "TCP"}, ip : IPs, gateway : (IPs \X {15008}) \cup {None},
     remote_proxy : IPs \cup {None}, node : Nodes \cup {EmptyName}, named : BOOLEAN]

(* find_workload(downstream): the source workload, or None. *)
SourceResults == [remote_proxy : IPs \cup {None}] \cup {None}

(* find_upstream(target): the upstream workload and port and whether     *)
(* target was a VIP.  A pod destination resolves to itself; a VIP to any *)
(* backend; a destination unknown to discovery to a nameless TCP         *)
(* workload at the target itself (spec.md 4.4, "Passthrough").           *)
UpstreamResults(target) ==
    { u \in [wl : {w \in Workloads : w.named}, port : Ports, vip : BOOLEAN] :
        u.vip \/ (u.wl.ip = target[1] /\ u.port = target[2]) }
    \cup { [wl |-> [protocol |-> "TCP", ip |-> target[1], gateway |-> target,
                    remote_proxy |-> None, node |-> EmptyName, named |-> FALSE],
            port |-> target[2], vip |-> FALSE] }

RequestTypes == {"ToClientWaypoint", "ToServerWaypoint", "Direct", "DirectLocal", "Passthrough"}

Requests ==
    [protocol : {"HBONE", "TCP"}, direction : {"Inbound", "Outbound"},
     destination : Addrs, gateway : Addrs, request_type : RequestTypes]

(* Option::None is not a Request. *)
ASSUME NoneIsNoRequest == None \notin Requests

(* Mutant: the gateway_ip expect() is dropped. *)
PlanPanicsSourceOnly(src, us) == src = None

(* build_request's two expect()s: it panics when the source workload is  *)
(* unknown or the upstream workload has no gateway_ip, whichever branch   *)
(* would be taken afterwards.                                             *)
PlanPanics(src, us) == src = None \/ us.wl.gateway = None

(* A Request, by its fields. *)
MkRequest(protocol, direction, destination, gateway, request_type) ==
    [protocol |-> protocol, direction |-> direction, destination |-> destination,
     gateway |-> gateway, request_type |-> request_type]

(* Whether build_request takes the DirectLocal branch for workload w. *)
IsLocal(w) == w.node # EmptyName /\ LocalNode = w.node /\ w.protocol = "HBONE"

(* Mutant: the server-side waypoint is looked at before the client-side one. *)
BuildRequestServerFirst(src, us, target) ==
    LET w == us.wl IN
    IF w.remote_proxy # None
    THEN MkRequest("HBONE", "Inbound", IF us.vip THEN target ELSE <<w.ip, us.port>>,
                   <<w.remote_proxy, 15006>>, "ToServerWaypoint")
    ELSE IF src.remote_proxy # None
    THEN MkRequest("HBONE", "Outbound", target, <<src.remote_proxy, 15001>>, "ToClientWaypoint")
    ELSE IF IsLocal(w)
    THEN MkRequest(w.protocol, "Outbound", <<w.ip, us.port>>, <<Loopback, 15008>>, "DirectLocal")
    ELSE IF ~w.named
    THEN MkRequest(w.protocol, "Outbound", <<w.ip, us.port>>, w.gateway, "Passthrough")
    ELSE MkRequest(w.protocol, "Outbound", <<w.ip, us.port>>, w.gateway, "Direct")

(* OutboundConnection::build_request, past its expect()s: the default     *)
(* Request (the upstream's protocol, workload address and gateway, type   *)
(* Direct) with the fields each branch overwrites.                        *)
BuildRequest(src, us, target) ==
    LET w == us.wl IN
    IF src.remote_proxy # None
    THEN MkRequest("HBONE", "Outbound", target, <<src.remote_proxy, 15001>>, "ToClientWaypoint")
    ELSE IF w.remote_proxy # None
    THEN MkRequest("HBONE", "Inbound", IF us.vip THEN target ELSE <<w.ip, us.port>>,
                   <<w.remote_proxy, 15006>>, "ToServerWaypoint")
    ELSE IF IsLocal(w)
    THEN MkRequest(w.protocol, "Outbound", <<w.ip, us.port>>, <<Loopback, 15008>>, "DirectLocal")
    ELSE IF ~w.named
    THEN MkRequest(w.protocol, "Outbound", <<w.ip, us.port>>, w.gateway, "Passthrough")
    ELSE MkRequest(w.protocol, "Outbound", <<w.ip, us.port>>, w.gateway, "Direct")

-----------------------------------------------------------------------------
OPhases == {"idle", "accepted", "planned", "sent", "copying", "ok", "err", "panic"}

VARIABLES
    ophase,  \* where each connection's proxy task is; ok / err / panic: how it ended
    target,  \* target[c]: the original destination of c (socket::orig_dst_addr)
    lookup,  \* lookup[c]: what the store returned to build_request for c
    oreq,    \* oreq[c]: the Request built for c (None before)
    code     \* code[c]: the status of c's CONNECT response (0 before)

ovars == <<ophase, target, lookup, oreq, code>>

OInit ==
    /\ ophase = [c \in Conns |-> "idle"]
    /\ target = [c \in Conns |-> None]
    /\ lookup = [c \in Conns |-> None]
    /\ oreq = [c \in Conns |-> None]
    /\ code = [c \in Conns |-> 0]

(* Outbound::run: accept a redirected connection and spawn its task. *)
Accept(c) ==
    /\ ophase[c] = "idle"
    /\ \E t \in IPs \X Ports :
         /\ target' = [target EXCEPT ![c] = t]
         /\ ophase' = [ophase EXCEPT ![c] = "accepted"]
    /\ UNCHANGED <<lookup, oreq, code>>

(* OutboundConnection::proxy up to build_request, whose store lookups     *)
(* happen under the store mutex in one step.  The listener is bound to    *)
(* [::]:15001, so the peer may be a native IPv6 address, for which        *)
(* to_ipv4().unwrap() panics before build_request is reached.             *)
Plan(c) ==
    /\ ophase[c] = "accepted"
    /\ \/ /\ ophase' = [ophase EXCEPT ![c] = "panic"]
          /\ UNCHANGED <<lookup, oreq>>
       \/ \E src \in SourceResults, us \in UpstreamResults(target[c]) :
            /\ lookup' = [lookup EXCEPT ![c] = [src |-> src, us |-> us]]
            /\ IF PlanPanics(src, us)
               THEN /\ ophase' = [ophase EXCEPT ![c] = "panic"]
                    /\ UNCHANGED oreq
               ELSE /\ oreq' = [oreq EXCEPT ![c] = BuildRequest(src, us, target[c])]
                    /\ ophase' = [ophase EXCEPT ![c] = "planned"]
    /\ UNCHANGED <<target, code>>

(* Protocol::Hbone: TCP connect to the gateway, the optional TLS wrap,    *)
(* the HTTP/2 handshake and send_request; each '?' ends the task with Err. *)
OpenTunnel(c) ==
    /\ ophase[c] = "planned"
    /\ oreq[c].protocol = "HBONE"
    /\ \/ /\ ophase' = [ophase EXCEPT ![c] = "err"]
          /\ UNCHANGED code
       \/ \E st \in {200, 403, 503} :
            /\ code' = [code EXCEPT ![c] = st]
            /\ ophase' = [ophase EXCEPT ![c] = "sent"]
    /\ UNCHANGED <<target, lookup, oreq>>

(* hyper::upgrade::on: a CONNECT tunnel exists only after a 2xx answer;   *)
(* an upgrade error is printed and the task returns Ok(()).               *)
Upgrade(c) ==
    /\ ophase[c] = "sent"
    /\ \/ code[c] = 200 /\ ophase' = [ophase EXCEPT ![c] = "copying"]
       \/ ophase' = [ophase EXCEPT ![c] = "ok"]
    /\ UNCHANGED <<target, lookup, oreq, code>>

(* Protocol::Tcp: TCP connect to the gateway. *)
OpenTcp(c) ==
    /\ ophase[c] = "planned"
    /\ oreq[c].protocol = "TCP"
    /\ ophase' \in {[ophase EXCEPT ![c] = "err"], [ophase EXCEPT ![c] = "copying"]}
    /\ UNCHANGED <<target, lookup, oreq, code>>

(* The copy ends: copy_hbone's error hits expect() and panics the task;   *)
(* try_join!'s error is returned as Err.                                  *)
CopyEnd(c) ==
    /\ ophase[c] = "copying"
    /\ \E failed \in BOOLEAN :
         ophase' = [ophase EXCEPT ![c] =
                      IF ~failed THEN "ok"
                      ELSE IF oreq[c].protocol = "HBONE" THEN "panic" ELSE "err"]
    /\ UNCHANGED <<target, lookup, oreq, code>>

ONext ==
    \E c \in Conns :
        Accept(c) \/ Plan(c) \/ OpenTunnel(c) \/ Upgrade(c) \/ OpenTcp(c) \/ CopyEnd(c)

OSpec == OInit /\ [][ONext]_ovars

-----------------------------------------------------------------------------
OTypeOK ==
    /\ ophase \in [Conns -> OPhases]
    /\ target \in [Conns -> (IPs \X Ports) \cup {None}]
    /\ oreq \in [Conns -> Requests \cup {None}]
    /\ code \in [Conns -> {0, 200, 403, 503}]
    /\ \A c \in Conns : ophase[c] \notin {"idle", "accepted", "panic"} => oreq[c] \in Requests

(***************************************************************************)
(* The routing table of spec.md 4.4, read top to bottom (the client-side  *)
(* waypoint rule first), stated over what the store lookups returned.     *)
(***************************************************************************)
SpecRow(l) ==
    LET w == l.us.wl IN
    IF l.src.remote_proxy \in IPs THEN "ToClientWaypoint"
    ELSE IF w.remote_proxy \in IPs THEN "ToServerWaypoint"
    ELSE IF NodeName # EmptyName /\ w.node = NodeName /\ w.protocol = "HBONE" THEN "DirectLocal"
    ELSE IF ~w.named THEN "Passthrough"
    ELSE "Direct"

(* The IP the table sends the flow to, for the rows that fix it. *)
SpecHop(l, t) ==
    LET row == SpecRow(l) IN
    IF row = "ToClientWaypoint" THEN l.src.remote_proxy
    ELSE IF row = "ToServerWaypoint" THEN l.us.wl.remote_proxy
    ELSE IF row = "DirectLocal" THEN Loopback
    ELSE t[1]

(* Request r, built for original destination t from lookups l, has the   *)
(* type, protocol, authority and next hop the table gives.               *)
RoutedPerTable(l, r, t) ==
    LET row == SpecRow(l) IN
    /\ r.request_type = row
    /\ r.protocol = IF row \in {"Passthrough", "Direct"} THEN l.us.wl.protocol ELSE "HBONE"
    /\ r.destination =
         IF row = "ToClientWaypoint" \/ row = "Passthrough"
            \/ (row = "ToServerWaypoint" /\ l.us.vip)
         THEN t ELSE <<l.us.wl.ip, l.us.port>>
    /\ row # "Direct" => r.gateway[1] = SpecHop(l, t)

(* Routing (spec.md 4.4): every request build_request makes has the type, *)
(* the protocol, the CONNECT authority and the next hop the table gives:  *)
(* waypoints are never bypassed, a VIP is kept only on the way to a       *)
(* server waypoint, and only unknown destinations go out untunnelled.     *)
RoutedPerSpec ==
    \A c \in Conns : oreq[c] \in Requests => RoutedPerTable(lookup[c], oreq[c], target[c])

(* spec.md 4.4 (table) and S5: a flow sent to a waypoint is tunnelled to  *)
(* the waypoint's overlay port, 15008, as S5's literal values say.        *)
WaypointGatewayIsOverlayPort ==
    \A c \in Conns :
      oreq[c] \in Requests /\ oreq[c].request_type \in {"ToClientWaypoint", "ToServerWaypoint"}
        => oreq[c].gateway[2] = 15008

(* spec.md 8 inv. 4: a TCP request is a Passthrough, and a DirectLocal    *)
(* request goes to the loopback address.                                  *)
RequestWellFormed ==
    \A c \in Conns : oreq[c] \in Requests =>
      /\ oreq[c].protocol = "TCP" => oreq[c].request_type = "Passthrough"
      /\ oreq[c].request_type = "DirectLocal" => oreq[c].gateway[1] = Loopback

(* spec.md 4.4 Dispatch and 7: a CONNECT answered with a non-2xx status is *)
(* a failure, so proxy() only reports success for a tunnel it got.        *)
NoSuccessWithoutTunnel ==
    \A c \in Conns :
      ophase[c] = "ok" /\ oreq[c].protocol = "HBONE" => code[c] = 200

=============================================================================
