----------------------------- MODULE MC_Inbound -----------------------------
(***************************************************************************)
(* A small node for TLC.  Local workloads a (which declares a waypoint     *)
(* whose identity is wid) and b (a registered waypoint of c, so CONNECTs   *)
(* to c arriving at b are sandwich flows).  Peer p1 is a's waypoint, p2 a  *)
(* client of b, p3 a client trying to reach a around its waypoint.         *)
(***************************************************************************)
EXTENDS Inbound, TLC

CONSTANTS s1, s2, p1, p2, p3, a, b, c, wid, cid

MCStreams == {s1, s2}
MCPeers == {p1, p2, p3}
MCIPs == {a, b, c}
MCIds == {wid, cid}
MCPorts == {80, 81}
MCKeys == MCPeers \X MCPorts
MCPeerId == (p1 :> wid) @@ (p2 :> cid) @@ (p3 :> cid)
MCPeerDst == (p1 :> a) @@ (p2 :> b) @@ (p3 :> a)
MCWaypointed == {a}
MCWaypointIds == (a :> {wid}) @@ (b :> {}) @@ (c :> {})
MCSandwichRel == {<<c, b>>}
(* The sandwiched waypoint b itself declares a waypoint too. *)
MCWaypointedBoth == {a, b}

(* Every stream targets its own port: no two streams share a key. *)
MCPortOfDistinct == (s1 :> 80) @@ (s2 :> 81)
(* All streams target one port: streams of one peer share their key. *)
MCPortOfShared == [s \in MCStreams |-> 80]

(* p2 may reach b on port 80 at first; everything else is denied. *)
MCInitPolicy == {<<p2, 80>>, <<p3, 81>>}

MCProxyTunnel == {b}
MCNoProxyTunnel == {}
=============================================================================
