--------------------------- MODULE OutboundProofs ---------------------------
(***************************************************************************)
(* Proofs about the Outbound model, for every value of its constants: the  *)
(* requests build_request makes are well typed and follow the routing     *)
(* table of spec.md 4.4.                                                   *)
(***************************************************************************)
EXTENDS Outbound, TLAPS

(* The lookups build_request got past its expect()s for destination t. *)
GoodLookup(l, t) ==
    /\ l.src \in [remote_proxy : IPs \cup {None}]
    /\ l.us \in UpstreamResults(t)
    /\ ~PlanPanics(l.src, l.us)

(* The strengthening of OTypeOK and RoutedPerSpec: a planned request is   *)
(* what build_request returns for the lookups recorded beside it.         *)
ConnInv(c) ==
    /\ ophase[c] \in {"idle", "accepted"} => oreq[c] = None
    /\ ophase[c] # "idle" => target[c] \in IPs \X Ports
    /\ oreq[c] # None =>
         /\ target[c] \in IPs \X Ports
         /\ GoodLookup(lookup[c], target[c])
         /\ oreq[c] = BuildRequest(lookup[c].src, lookup[c].us, target[c])

OInv == OTypeOK /\ DOMAIN lookup = Conns /\ \A c \in Conns : ConnInv(c)

-----------------------------------------------------------------------------
(* The two kinds of find_upstream result: a named workload, or the        *)
(* nameless TCP workload standing for the destination t itself.           *)
NamedUpstream == [wl : {w \in Workloads : w.named}, port : Ports, vip : BOOLEAN]

UnknownUpstream(t) ==
    [wl |-> [protocol |-> "TCP", ip |-> t[1], gateway |-> t,
             remote_proxy |-> None, node |-> EmptyName, named |-> FALSE],
     port |-> t[2], vip |-> FALSE]

LEMMA UpstreamCases ==
    ASSUME NEW t, NEW us \in UpstreamResults(t)
    PROVE  us \in NamedUpstream \/ us = UnknownUpstream(t)
BY DEF UpstreamResults, NamedUpstream, UnknownUpstream

(* A Request is a record of its five fields. *)
LEMMA MkRequestIn ==
    ASSUME NEW pr \in {"HBONE", "TCP"}, NEW dir \in {"Inbound", "Outbound"},
           NEW dst \in Addrs, NEW gw \in Addrs, NEW ty \in RequestTypes
    PROVE  MkRequest(pr, dir, dst, gw, ty) \in Requests
BY DEF MkRequest, Requests

(* build_request returns a Request. *)
LEMMA BuildRequestTyped ==
    ASSUME NEW t \in IPs \X Ports, NEW l, GoodLookup(l, t)
    PROVE  BuildRequest(l.src, l.us, t) \in Requests
<1> DEFINE src == l.src  us == l.us  w == l.us.wl
<1>0. Addrs = (IPs \cup {Loopback}) \X (Ports \cup {15001, 15006, 15008})
  BY DEF Addrs
<1>1. t \in Addrs /\ <<Loopback, 15008>> \in Addrs
  BY <1>0
<1>2. /\ src.remote_proxy \in IPs \cup {None}
      /\ w.protocol \in {"HBONE", "TCP"} /\ w.remote_proxy \in IPs \cup {None}
      /\ w.gateway \in Addrs /\ <<w.ip, us.port>> \in Addrs
  <2>1. CASE us \in NamedUpstream
    <3>1. w \in Workloads /\ us.port \in Ports
      BY <2>1 DEF NamedUpstream
    <3>2. QED
      BY <3>1 DEF GoodLookup, PlanPanics, Workloads, Addrs
  <2>2. CASE us = UnknownUpstream(t)
    BY <1>1, <2>2 DEF GoodLookup, UnknownUpstream
  <2>3. QED
    BY <2>1, <2>2, UpstreamCases DEF GoodLookup
<1>3. "ToClientWaypoint" \in RequestTypes /\ "ToServerWaypoint" \in RequestTypes
      /\ "DirectLocal" \in RequestTypes /\ "Passthrough" \in RequestTypes
      /\ "Direct" \in RequestTypes
  BY DEF RequestTypes
<1>4. CASE src.remote_proxy # None
  <2>0. src.remote_proxy \in IPs
    BY <1>2, <1>4
  <2>1. <<src.remote_proxy, 15001>> \in Addrs
    BY <1>0, <2>0
  <2>2. BuildRequest(src, us, t) =
          MkRequest("HBONE", "Outbound", t, <<src.remote_proxy, 15001>>, "ToClientWaypoint")
    BY <1>4 DEF BuildRequest
  <2>3. QED
    BY <1>1, <1>3, <2>1, <2>2, MkRequestIn
<1>5. CASE src.remote_proxy = None /\ w.remote_proxy # None
  <2>0. w.remote_proxy \in IPs
    BY <1>2, <1>5
  <2>1. <<w.remote_proxy, 15006>> \in Addrs /\ (IF us.vip THEN t ELSE <<w.ip, us.port>>) \in Addrs
    BY <1>0, <1>1, <1>2, <2>0
  <2>2. BuildRequest(src, us, t) =
          MkRequest("HBONE", "Inbound", IF us.vip THEN t ELSE <<w.ip, us.port>>,
                    <<w.remote_proxy, 15006>>, "ToServerWaypoint")
    BY <1>5 DEF BuildRequest
  <2>3. QED
    BY <1>3, <2>1, <2>2, MkRequestIn
<1>6. CASE src.remote_proxy = None /\ w.remote_proxy = None
  <2>1. BuildRequest(src, us, t) =
          IF IsLocal(w)
          THEN MkRequest(w.protocol, "Outbound", <<w.ip, us.port>>, <<Loopback, 15008>>, "DirectLocal")
          ELSE IF ~w.named
          THEN MkRequest(w.protocol, "Outbound", <<w.ip, us.port>>, w.gateway, "Passthrough")
          ELSE MkRequest(w.protocol, "Outbound", <<w.ip, us.port>>, w.gateway, "Direct")
    BY <1>6 DEF BuildRequest
  <2>2. QED
    BY <1>1, <1>2, <1>3, <2>1, MkRequestIn
<1>7. QED
  BY <1>4, <1>5, <1>6

(* Config's local_node: the DirectLocal test of build_request is the      *)
(* table's "same node" test.                                              *)
LEMMA IsLocalSpec ==
    ASSUME NEW w, w.node \in Nodes \cup {EmptyName}
    PROVE  IsLocal(w) <=> (NodeName # EmptyName /\ w.node = NodeName /\ w.protocol = "HBONE")
BY OutboundAssumption DEF IsLocal, LocalNode

(* The upstream workload's fields the table reads. *)
LEMMA UpstreamFields ==
    ASSUME NEW t \in IPs \X Ports, NEW l, GoodLookup(l, t)
    PROVE  /\ l.us.wl.node \in Nodes \cup {EmptyName}
           /\ l.us.wl.remote_proxy \in IPs \cup {None}
           /\ l.src.remote_proxy \in IPs \cup {None}
           /\ ~l.us.wl.named => <<l.us.wl.ip, l.us.port>> = t /\ l.us.wl.gateway = t
<1>1. CASE l.us \in NamedUpstream
  <2>1. l.us.wl \in Workloads /\ l.us.wl.named
    BY <1>1 DEF NamedUpstream
  <2>2. QED
    BY <2>1 DEF GoodLookup, Workloads
<1>2. CASE l.us = UnknownUpstream(t)
  BY <1>2 DEF GoodLookup, UnknownUpstream
<1>3. QED
  BY <1>1, <1>2, UpstreamCases DEF GoodLookup

(* build_request follows the routing table of spec.md 4.4 for every      *)
(* lookup result it does not panic on.                                   *)
LEMMA BuildRequestRouted ==
    ASSUME NEW t \in IPs \X Ports, NEW l, GoodLookup(l, t)
    PROVE  RoutedPerTable(l, BuildRequest(l.src, l.us, t), t)
<1> DEFINE src == l.src  us == l.us  w == l.us.wl  r == BuildRequest(l.src, l.us, t)
<1>1. /\ w.node \in Nodes \cup {EmptyName}
      /\ w.remote_proxy \in IPs \cup {None} /\ src.remote_proxy \in IPs \cup {None}
      /\ ~w.named => <<w.ip, us.port>> = t /\ w.gateway = t
  BY UpstreamFields
<1>2. None \notin IPs
  BY OutboundAssumption
<1>3. CASE src.remote_proxy # None
  <2>1. SpecRow(l) = "ToClientWaypoint"
    BY <1>1, <1>3 DEF SpecRow
  <2>2. r = MkRequest("HBONE", "Outbound", t, <<src.remote_proxy, 15001>>, "ToClientWaypoint")
    BY <1>3 DEF BuildRequest
  <2>3. QED
    BY <2>1, <2>2 DEF RoutedPerTable, SpecHop, MkRequest
<1>4. CASE src.remote_proxy = None /\ w.remote_proxy # None
  <2>1. SpecRow(l) = "ToServerWaypoint"
    BY <1>1, <1>2, <1>4 DEF SpecRow
  <2>2. r = MkRequest("HBONE", "Inbound", IF us.vip THEN t ELSE <<w.ip, us.port>>,
                      <<w.remote_proxy, 15006>>, "ToServerWaypoint")
    BY <1>4 DEF BuildRequest
  <2>3. QED
    BY <2>1, <2>2 DEF RoutedPerTable, SpecHop, MkRequest
<1>5. CASE src.remote_proxy = None /\ w.remote_proxy = None /\ IsLocal(w)
  <2>1. SpecRow(l) = "DirectLocal" /\ w.protocol = "HBONE"
    BY <1>1, <1>2, <1>5, IsLocalSpec DEF SpecRow
  <2>2. r = MkRequest(w.protocol, "Outbound", <<w.ip, us.port>>, <<Loopback, 15008>>, "DirectLocal")
    BY <1>5 DEF BuildRequest
  <2>3. QED
    BY <2>1, <2>2 DEF RoutedPerTable, SpecHop, MkRequest
<1>6. CASE src.remote_proxy = None /\ w.remote_proxy = None /\ ~IsLocal(w) /\ ~w.named
  <2>1. SpecRow(l) = "Passthrough"
    BY <1>1, <1>2, <1>6, IsLocalSpec DEF SpecRow
  <2>2. r = MkRequest(w.protocol, "Outbound", <<w.ip, us.port>>, w.gateway, "Passthrough")
    BY <1>6 DEF BuildRequest
  <2>3. <<w.ip, us.port>> = t /\ w.gateway = t
    BY <1>1, <1>6
  <2>4. QED
    BY <2>1, <2>2, <2>3 DEF RoutedPerTable, SpecHop, MkRequest
<1>7. CASE src.remote_proxy = None /\ w.remote_proxy = None /\ ~IsLocal(w) /\ w.named
  <2>1. SpecRow(l) = "Direct"
    BY <1>1, <1>2, <1>7, IsLocalSpec DEF SpecRow
  <2>2. r = MkRequest(w.protocol, "Outbound", <<w.ip, us.port>>, w.gateway, "Direct")
    BY <1>7 DEF BuildRequest
  <2>3. QED
    BY <2>1, <2>2 DEF RoutedPerTable, MkRequest
<1>8. QED
  BY <1>3, <1>4, <1>5, <1>6, <1>7

-----------------------------------------------------------------------------
(* The strengthened invariant holds in every reachable state. *)
THEOREM OInvariant == OSpec => []OInv
<1>1. OInit => OInv
  BY DEF OInit, OInv, OTypeOK, ConnInv, OPhases
<1>2. OInv /\ [ONext]_ovars => OInv'
  <2> SUFFICES ASSUME OInv, [ONext]_ovars PROVE OInv'
    OBVIOUS
  <2>1. ASSUME NEW c \in Conns, Accept(c) PROVE OInv'
    <3>1. PICK t \in IPs \X Ports : target' = [target EXCEPT ![c] = t]
      BY <2>1, Zenon DEF Accept
    <3>2. oreq[c] = None
      BY <2>1 DEF Accept, OInv, ConnInv
    <3>3. OTypeOK'
      BY <2>1, <3>1, <3>2 DEF Accept, OInv, OTypeOK, OPhases
    <3>4. ASSUME NEW d \in Conns PROVE ConnInv(d)'
      <4>1. CASE d = c
        BY <2>1, <3>1, <3>2, <4>1 DEF Accept, OInv, OTypeOK, ConnInv
      <4>2. CASE d # c
        BY <2>1, <3>1, <4>2 DEF Accept, OInv, OTypeOK, ConnInv
      <4>3. QED
        BY <4>1, <4>2
    <3>5. DOMAIN lookup' = Conns
      BY <2>1 DEF Accept, OInv
    <3>6. QED
      BY <3>3, <3>4, <3>5 DEF OInv
  <2>2. ASSUME NEW c \in Conns, Plan(c) PROVE OInv'
    <3>1. oreq[c] = None /\ target[c] \in IPs \X Ports
      BY <2>2 DEF Plan, OInv, ConnInv
    <3>2. CASE ophase' = [ophase EXCEPT ![c] = "panic"] /\ UNCHANGED <<lookup, oreq>>
      <4>1. OTypeOK'
        BY <2>2, <3>2 DEF Plan, OInv, OTypeOK, OPhases
      <4>2. ASSUME NEW d \in Conns PROVE ConnInv(d)'
        BY <2>2, <3>1, <3>2 DEF Plan, OInv, ConnInv
      <4>3. DOMAIN lookup' = Conns
        BY <3>2 DEF OInv
      <4>4. QED
        BY <4>1, <4>2, <4>3 DEF OInv
    <3>3. CASE \E src \in SourceResults, us \in UpstreamResults(target[c]) :
                 /\ lookup' = [lookup EXCEPT ![c] = [src |-> src, us |-> us]]
                 /\ IF PlanPanics(src, us)
                    THEN /\ ophase' = [ophase EXCEPT ![c] = "panic"]
                         /\ UNCHANGED oreq
                    ELSE /\ oreq' = [oreq EXCEPT ![c] = BuildRequest(src, us, target[c])]
                         /\ ophase' = [ophase EXCEPT ![c] = "planned"]
      <4>1. PICK src \in SourceResults, us \in UpstreamResults(target[c]) :
                 /\ lookup' = [lookup EXCEPT ![c] = [src |-> src, us |-> us]]
                 /\ IF PlanPanics(src, us)
                    THEN /\ ophase' = [ophase EXCEPT ![c] = "panic"]
                         /\ UNCHANGED oreq
                    ELSE /\ oreq' = [oreq EXCEPT ![c] = BuildRequest(src, us, target[c])]
                         /\ ophase' = [ophase EXCEPT ![c] = "planned"]
        BY <3>3, Zenon
      <4>2. UNCHANGED <<target, code>>
        BY <2>2 DEF Plan
      <4>0. DOMAIN lookup' = Conns
        BY <4>1 DEF OInv
      <4>3. CASE PlanPanics(src, us)
        <5>1. OTypeOK'
          BY <4>1, <4>2, <4>3 DEF OInv, OTypeOK, OPhases
        <5>2. ASSUME NEW d \in Conns PROVE ConnInv(d)'
          <6>1. CASE d = c
            BY <3>1, <4>1, <4>2, <4>3, <6>1 DEF OInv, OTypeOK, ConnInv
          <6>2. CASE d # c
            BY <4>1, <4>2, <4>3, <6>2 DEF OInv, OTypeOK, ConnInv
          <6>3. QED
            BY <6>1, <6>2
        <5>3. QED
          BY <4>0, <5>1, <5>2 DEF OInv
      <4>4. CASE ~PlanPanics(src, us)
        <5> DEFINE l == [src |-> src, us |-> us]
        <5>1. GoodLookup(l, target[c])
          BY <4>4 DEF GoodLookup, SourceResults, PlanPanics
        <5>2. BuildRequest(src, us, target[c]) \in Requests
          BY <3>1, <5>1, BuildRequestTyped
        <5>3. OTypeOK'
          BY <4>1, <4>2, <4>4, <5>2 DEF OInv, OTypeOK, OPhases
        <5>4. ASSUME NEW d \in Conns PROVE ConnInv(d)'
          <6>1. CASE d = c
            <7>1. lookup'[c] = l /\ oreq'[c] = BuildRequest(src, us, target[c])
              BY <4>1, <4>4 DEF OInv, OTypeOK
            <7>2. target'[c] = target[c] /\ ophase'[c] = "planned"
              BY <4>1, <4>2, <4>4 DEF OInv, OTypeOK
            <7>3. QED
              BY <3>1, <5>1, <6>1, <7>1, <7>2 DEF ConnInv
          <6>2. CASE d # c
            BY <4>1, <4>2, <4>4, <6>2 DEF OInv, OTypeOK, ConnInv
          <6>3. QED
            BY <6>1, <6>2
        <5>5. QED
          BY <4>0, <5>3, <5>4 DEF OInv
      <4>5. QED
        BY <4>3, <4>4
    <3>4. QED
      BY <2>2, <3>2, <3>3 DEF Plan
  <2>3. ASSUME NEW c \in Conns, OpenTunnel(c) \/ Upgrade(c) \/ OpenTcp(c) \/ CopyEnd(c)
        PROVE  OInv'
    <3>1. /\ UNCHANGED <<target, lookup, oreq>>
          /\ ophase[c] \in {"planned", "sent", "copying"}
          /\ ophase' = [ophase EXCEPT ![c] = ophase'[c]]
          /\ ophase'[c] \in OPhases \ {"idle", "accepted", "panic"} \/ ophase'[c] = "panic"
          /\ code' \in [Conns -> {0, 200, 403, 503}]
      BY <2>3 DEF OpenTunnel, Upgrade, OpenTcp, CopyEnd, OInv, OTypeOK, OPhases
    <3>2. oreq[c] \in Requests
      BY <3>1 DEF OInv, OTypeOK
    <3>3. OTypeOK'
      BY <3>1, <3>2 DEF OInv, OTypeOK, OPhases
    <3>4. ASSUME NEW d \in Conns PROVE ConnInv(d)'
      <4>1. CASE d = c
        BY <3>1, <4>1 DEF OInv, OTypeOK, ConnInv
      <4>2. CASE d # c
        BY <3>1, <4>2 DEF OInv, OTypeOK, ConnInv
      <4>3. QED
        BY <4>1, <4>2
    <3>5. DOMAIN lookup' = Conns
      BY <3>1 DEF OInv
    <3>6. QED
      BY <3>3, <3>4, <3>5 DEF OInv
  <2>4. CASE UNCHANGED ovars
    BY <2>4 DEF OInv, OTypeOK, ConnInv, GoodLookup, ovars
  <2>5. QED
    BY <2>1, <2>2, <2>3, <2>4 DEF ONext
<1>3. QED
  BY <1>1, <1>2, PTL DEF OSpec

(* spec.md 4.4: every request build_request makes is well typed; a task  *)
(* past build_request always holds one.                                  *)
THEOREM OTypeCorrect == OSpec => []OTypeOK
BY OInvariant, PTL DEF OInv

(* spec.md 4.4 (routing table): every request the outbound proxy makes   *)
(* has the type, protocol, authority and next hop the table gives, for   *)
(* every store content, node name and set of addresses.                  *)
THEOREM RoutingCorrect == OSpec => []RoutedPerSpec
<1>1. OInv => RoutedPerSpec
  <2> SUFFICES ASSUME OInv, NEW c \in Conns, oreq[c] \in Requests
               PROVE  RoutedPerTable(lookup[c], oreq[c], target[c])
    BY DEF RoutedPerSpec
  <2>1. oreq[c] # None
    BY NoneIsNoRequest
  <2>2. target[c] \in IPs \X Ports /\ GoodLookup(lookup[c], target[c])
        /\ oreq[c] = BuildRequest(lookup[c].src, lookup[c].us, target[c])
    BY <2>1 DEF OInv, ConnInv
  <2>3. QED
    BY <2>2, BuildRequestRouted
<1>2. QED
  BY <1>1, OInvariant, PTL
=============================================================================
