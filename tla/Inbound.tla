------------------------------ MODULE Inbound ------------------------------
(***************************************************************************)
(* The inbound HBONE server of src/proxy/inbound.rs: per CONNECT stream,   *)
(* Inbound::serve_connect (admission), Inbound::handle_inbound (upstream   *)
(* dial and the spawned copy task), composed with the ConnectionManager    *)
(* and its policy watcher.                                                 *)
(*                                                                         *)
(* Data abstraction.  A peer is one accepted mTLS connection: its TLS      *)
(* identity (PeerId) and its original destination IP (PeerDst) are fixed   *)
(* for its lifetime; its streams share them.  A stream's CONNECT authority *)
(* is an IP of IPs; its port is PortOf[s].  Whether the admitted          *)
(* destination is the authority or (sandwich) the TCP destination, its IP  *)
(* is PeerDst[peer], so the Connection key registered for a stream is      *)
(* <<peer, port>>.  Store lookups that do not change while a stream is     *)
(* served (workload waypoints, their identities, sandwich relations,       *)
(* native tunnels) are constants; the authorization policy changes.        *)
(***************************************************************************)
EXTENDS ConnectionManager

CONSTANTS
    Streams,      \* HTTP/2 CONNECT streams
    Peers,        \* accepted mTLS connections from peer proxies
    IPs,          \* workload IPs
    Ids,          \* workload identities
    Ports,        \* CONNECT authority ports
    PeerId,       \* PeerId[p]: identity in p's client certificate
    PeerDst,      \* PeerDst[p]: IP of p's original destination (a local workload)
    PortOf,       \* PortOf[s]: authority port of stream s
    Waypointed,   \* IPs whose workload declares a waypoint
    WaypointIds,  \* WaypointIds[ip]: identities the waypoint address of ip resolves to
    SandwichRel,  \* <<target, w>>: w is a registered waypoint of target
    ProxyTunnel,  \* IPs whose workload declares a PROXY native tunnel
    NoReq         \* req[s] of a stream not yet received

ASSUME InboundAssumption ==
    /\ IsFiniteSet(Streams)
    /\ PeerId \in [Peers -> Ids]
    /\ PeerDst \in [Peers -> IPs]
    /\ PortOf \in [Streams -> Ports]
    /\ Waypointed \subseteq IPs
    /\ WaypointIds \in [IPs -> SUBSET Ids]
    /\ SandwichRel \subseteq IPs \X IPs
    /\ ProxyTunnel \subseteq IPs
    /\ Keys = Peers \X Ports
    /\ NoReq \notin [peer : Peers, auth : IPs]

Phases == {"idle", "registered", "admitted", "spawned", "copying", "closing", "done"}

Status == {0, 200, 400, 401, 404, 503}

VARIABLES
    phase,   \* where each stream's serve_connect / copy task is
    req,     \* req[s]: the peer and authority IP of s, once received
    handle,  \* handle[s]: the close-signal handle s obtained from track
    resp,    \* resp[s]: the status serve_connect answered s with (0: none yet)
    drainPhase \* Inbound::run: serving, draining, stopped (watcher told to stop), drained

DrainPhases == {"serving", "draining", "stopped", "drained"}

streamVars == <<phase, req, handle, resp, drainPhase>>
vars == <<cmVars, streamVars>>

(* The registered Connection of stream s. *)
Key(s) == <<req[s].peer, PortOf[s]>>

(* Mutant: any IP mismatch is taken for a sandwich (lookup dropped). *)
ToSandwichedWaypointNoLookup(r) == r.auth # PeerDst[r.peer]

(* Inbound::check_sandwich: the TCP destination is a waypoint of the authority. *)
ToSandwichedWaypoint(r) ==
    /\ r.auth # PeerDst[r.peer]
    /\ <<r.auth, PeerDst[r.peer]>> \in SandwichRel

(* Inbound::check_waypoint: the peer identity is one of the destination's waypoint. *)
FromWaypoint(r) == PeerId[r.peer] \in WaypointIds[PeerDst[r.peer]]

HasWaypoint(r) == PeerDst[r.peer] \in Waypointed

(* The RBAC step of serve_connect lets r through. *)
RbacAllows(r, k) == FromWaypoint(r) \/ ToSandwichedWaypoint(r) \/ k \in policy

-----------------------------------------------------------------------------
Init ==
    /\ CMInit
    /\ phase = [s \in Streams |-> "idle"]
    /\ req = [s \in Streams |-> NoReq]
    /\ handle = [s \in Streams |-> 0]
    /\ resp = [s \in Streams |-> 0]
    /\ drainPhase = "serving"

Finish(s, code) ==
    /\ phase' = [phase EXCEPT ![s] = "done"]
    /\ resp' = [resp EXCEPT ![s] = code]

(* serve_connect's early returns before any lookup: a method other than   *)
(* CONNECT (404) or an authority that is not host:port (400).             *)
RejectMalformed(s) ==
    /\ phase[s] = "idle"
    /\ drainPhase \in {"serving", "draining"}
    /\ \E code \in {404, 400} : Finish(s, code)
    /\ UNCHANGED <<cmVars, req, handle, drainPhase>>

(* serve_connect up to connection_manager.register: the sandwich check,   *)
(* the 400 on an IP mismatch, the destination lookup, whose 404 answers a *)
(* destination the store no longer holds (workloads come and go while a   *)
(* peer's connection is open), and the waypoint lookups.                  *)
ServeConnect(s) ==
    /\ phase[s] = "idle"
    /\ drainPhase \in {"serving", "draining"}
    /\ \E p \in Peers, a \in IPs :
         LET r == [peer |-> p, auth |-> a]
             ipOK == ToSandwichedWaypoint(r) \/ a = PeerDst[p]
         IN
         /\ req' = [req EXCEPT ![s] = r]
         /\ \/ /\ \/ ~ipOK /\ Finish(s, 400)
                  \/ ipOK /\ Finish(s, 404)
               /\ UNCHANGED <<registry, gen>>
            \/ /\ ipOK
               /\ Register(<<p, PortOf[s]>>)
               /\ phase' = [phase EXCEPT ![s] = "registered"]
               /\ UNCHANGED resp
    /\ UNCHANGED <<policy, version, wseen, wtodo, handle, drainPhase>>

(* Mutant: a rejection answers 401 without releasing the registration.   *)
AssertRbacNoRelease(s) ==
    /\ phase[s] = "registered"
    /\ LET r == req[s] IN
       \/ /\ ~RbacAllows(r, Key(s)) \/ (HasWaypoint(r) /\ ~FromWaypoint(r))
          /\ UNCHANGED <<registry, gen>>
          /\ Finish(s, 401)
       \/ /\ RbacAllows(r, Key(s))
          /\ ~(HasWaypoint(r) /\ ~FromWaypoint(r))
          /\ phase' = [phase EXCEPT ![s] = "admitted"]
          /\ UNCHANGED <<registry, gen, resp>>
    /\ UNCHANGED <<policy, version, wseen, wtodo, req, handle, drainPhase>>

(* The RBAC assertion and the waypoint-bypass check; a rejection releases *)
(* the registration and answers 401.                                      *)
AssertRbac(s) ==
    /\ phase[s] = "registered"
    /\ LET r == req[s] IN
       \/ /\ ~RbacAllows(r, Key(s)) \/ (HasWaypoint(r) /\ ~FromWaypoint(r))
          /\ Release(Key(s))
          /\ Finish(s, 401)
       \/ /\ RbacAllows(r, Key(s))
          /\ ~(HasWaypoint(r) /\ ~FromWaypoint(r))
          /\ phase' = [phase EXCEPT ![s] = "admitted"]
          /\ UNCHANGED <<registry, gen, resp>>
    /\ UNCHANGED <<policy, version, wseen, wtodo, req, handle, drainPhase>>

(* handle_inbound: freebind_connect to the destination.  On success the   *)
(* copy task is spawned and 200 is answered; on failure 503 is answered   *)
(* and nothing is released.                                               *)
Dial(s) ==
    /\ phase[s] = "admitted"
    /\ \/ /\ phase' = [phase EXCEPT ![s] = "spawned"]
          /\ resp' = [resp EXCEPT ![s] = 200]
       \/ Finish(s, 503)
    /\ UNCHANGED <<cmVars, req, handle, drainPhase>>

(* The copy task's connection_manager.track: None ends the task at once. *)
TrackConn(s) ==
    /\ phase[s] = "spawned"
    /\ IF Track(Key(s)) = 0
       THEN /\ phase' = [phase EXCEPT ![s] = "done"]
            /\ UNCHANGED handle
       ELSE /\ handle' = [handle EXCEPT ![s] = Track(Key(s))]
            /\ phase' = [phase EXCEPT ![s] = "copying"]
    /\ UNCHANGED <<cmVars, req, resp, drainPhase>>

(* The copy ends by itself: EOF on both sides, an I/O error, a failed     *)
(* upgrade, or a failed proxy-protocol header write.                      *)
CopyDone(s) ==
    /\ phase[s] = "copying"
    /\ phase' = [phase EXCEPT ![s] = "closing"]
    /\ UNCHANGED <<cmVars, req, handle, resp, drainPhase>>

(* Mutant: the Hbone branch, too, copies without selecting on the signal. *)
CopyClosedNoSelect(s) == phase[s] = "copying" /\ FALSE /\ UNCHANGED vars

(* The Hbone branch selects on close.signaled(); the ProxyProtocol branch *)
(* does not wait on the close signal at all.                              *)
CopyClosed(s) ==
    /\ phase[s] = "copying"
    /\ ~Quiet(Key(s), handle[s])
    /\ PeerDst[req[s].peer] \notin ProxyTunnel
    /\ phase' = [phase EXCEPT ![s] = "closing"]
    /\ UNCHANGED <<cmVars, req, handle, resp, drainPhase>>

(* The copy task's final connection_manager.release. *)
ReleaseConn(s) ==
    /\ phase[s] = "closing"
    /\ Release(Key(s))
    /\ phase' = [phase EXCEPT ![s] = "done"]
    /\ UNCHANGED <<policy, version, wseen, wtodo, req, handle, resp, drainPhase>>

(***************************************************************************)
(* Drain (Inbound::run).  The drain watch ends the accept loop; the        *)
(* connections already accepted keep serving new streams.  The run loop   *)
(* then, with no await in between, tells the policy watcher to stop,      *)
(* drops its own sub_drain handle and signals sub_drain, whose clones the *)
(* connection tasks select on: each starts an HTTP/2 graceful shutdown    *)
(* (no new stream) and awaits its server, which runs until every stream   *)
(* of the connection has ended, the upgraded CONNECT streams the copy     *)
(* tasks hold included.  sub_drain_signal.drain() resolves when every     *)
(* connection task has dropped its handle.                                *)
(***************************************************************************)
DrainSignal ==
    /\ drainPhase = "serving"
    /\ drainPhase' = "draining"
    /\ UNCHANGED <<cmVars, phase, req, handle, resp>>

(* stop_tx.send_replace(()), drop(sub_drain), and the signal of           *)
(* sub_drain_signal.drain() that starts the graceful shutdowns.            *)
StopWatcher ==
    /\ drainPhase = "draining"
    /\ drainPhase' = "stopped"
    /\ UNCHANGED <<cmVars, phase, req, handle, resp>>

(* Stream s keeps its connection's server running: its request is being  *)
(* served, or the copy task holds its upgraded stream (dropped when the   *)
(* copy ends, before the release).                                        *)
StreamOpen(s) == phase[s] \in {"registered", "admitted", "spawned", "copying"}

(* Mutant: sub_drain is not dropped, so the wait never resolves. *)
DrainDoneKeptHandle == drainPhase = "stopped" /\ FALSE /\ UNCHANGED vars

(* sub_drain_signal.drain().await resolves: every connection task's       *)
(* server.await has returned.                                             *)
DrainDone ==
    /\ drainPhase = "stopped"
    /\ \A s \in Streams : ~StreamOpen(s)
    /\ drainPhase' = "drained"
    /\ UNCHANGED <<cmVars, phase, req, handle, resp>>

(* Mutant: the stop request ends the watcher in the middle of a snapshot. *)
RunWatcherStopAnywhere ==
    /\ drainPhase \in {"serving", "draining"}
    /\ Watcher
    /\ UNCHANGED streamVars

(* The policy watcher: stop_tx is looked at between two change            *)
(* notifications, so a snapshot taken before the stop is checked to its   *)
(* end (spec.md 4.2: every connection denied at an observed version is    *)
(* signalled), and no new version is observed after it.                   *)
RunWatcher ==
    /\ drainPhase \in {"serving", "draining"} \/ wtodo # {}
    /\ Watcher
    /\ UNCHANGED streamVars

StreamStep(s) ==
    \/ RejectMalformed(s) \/ ServeConnect(s) \/ AssertRbac(s) \/ Dial(s)
    \/ TrackConn(s) \/ CopyDone(s) \/ CopyClosed(s) \/ ReleaseConn(s)

Next ==
    \/ \E s \in Streams : StreamStep(s)
    \/ StoreUpdate /\ UNCHANGED streamVars
    \/ RunWatcher
    \/ DrainSignal \/ StopWatcher \/ DrainDone

Spec == Init /\ [][Next]_vars

(* The runtime keeps polling every task that can proceed without a peer:  *)
(* the watcher, the run loop once drain is signalled, serve_connect past  *)
(* its request (the store lookup and the dial resolve or fail), every     *)
(* copy task whose close signal fired, and a finished copy task's         *)
(* release.  Clients, the store, the drain signal and the natural end of  *)
(* a copy are not assumed to happen.                                      *)
Fairness ==
    /\ WF_vars(RunWatcher)
    /\ WF_vars(StopWatcher) /\ WF_vars(DrainDone)
    /\ \A s \in Streams :
         /\ WF_vars(AssertRbac(s)) /\ WF_vars(Dial(s)) /\ WF_vars(TrackConn(s))
         /\ WF_vars(CopyClosed(s)) /\ WF_vars(ReleaseConn(s))

FairSpec == Spec /\ Fairness

-----------------------------------------------------------------------------
TypeOK ==
    /\ CMTypeOK
    /\ phase \in [Streams -> Phases]
    /\ req \in [Streams -> [peer : Peers, auth : IPs] \cup {NoReq}]
    /\ handle \in [Streams -> Nat]
    /\ resp \in [Streams -> Status]
    /\ drainPhase \in DrainPhases
    /\ \A s \in Streams : phase[s] \notin {"idle", "done"} => req[s] # NoReq

(* spec.md 4.3 step 5, stated apart from the model's operators: RBAC is   *)
(* skipped exactly for flows from the destination's waypoint and for      *)
(* flows to a sandwiched waypoint.                                        *)
RbacSkipped(s) ==
    LET p == req[s].peer IN
    \/ PeerId[p] \in WaypointIds[PeerDst[p]]
    \/ req[s].auth # PeerDst[p] /\ <<req[s].auth, PeerDst[p]>> \in SandwichRel

(* Policy revocation ordering (spec.md 4.2, 8.2): once the watcher has    *)
(* processed the store's latest version, no stream that is copying bytes  *)
(* with a quiet close signal is one that RBAC governs and now denies.     *)
(* It rests on serve_connect registering before assert_rbac and on the    *)
(* copy task treating a None from track as a revocation.                  *)
PolicyEnforced ==
    CaughtUp =>
      \A s \in Streams :
        (phase[s] = "copying" /\ Quiet(Key(s), handle[s]) /\ ~RbacSkipped(s))
          => Key(s) \in policy

(* spec.md 4.3 steps 5 and 6: a flow to a sandwiched waypoint skips RBAC *)
(* and is exempt from the waypoint-bypass check, so it is never answered  *)
(* 401.                                                                   *)
SandwichNeverUnauthorized ==
    \A s \in Streams :
      resp[s] = 401 =>
        ~(req[s].auth # PeerDst[req[s].peer] /\ <<req[s].auth, PeerDst[req[s].peer]>> \in SandwichRel)

(* spec.md 3 inv. 1 / 8 inv. 1: every manager entry belongs to a stream   *)
(* whose task has not finished (the task releases before it exits).       *)
NoLeakedEntry ==
    \A k \in Keys :
      Registered(k) =>
        \E s \in Streams : phase[s] \notin {"idle", "done"} /\ Key(s) = k

(* What the code does guarantee of spec.md 3 inv. 1: every manager entry  *)
(* belongs to a stream whose task is still running, or to one that ended  *)
(* with the 503 of a failed dial.  So the early return of handle_inbound  *)
(* is the only way to leak an entry: the 400/401/404 answers, a None from *)
(* track, the copy task's release and the watcher all leave none behind, *)
(* even when streams share a Connection.                                  *)
EntriesOwned ==
    \A k \in Keys :
      Registered(k) =>
        \E s \in Streams :
          /\ req[s] # NoReq
          /\ Key(s) = k
          /\ phase[s] \notin {"idle", "done"} \/ resp[s] = 503

(* spec.md 8 inv. 2: the copy loop of a flow that RBAC governs and the    *)
(* current policy denies exits, unless the policy allows it again or the *)
(* policy watcher has been stopped by a drain and observes no more.       *)
RevokedFlowsTerminate ==
    \A s \in Streams :
      (phase[s] = "copying" /\ ~RbacSkipped(s) /\ Key(s) \notin policy)
        ~> (phase[s] # "copying" \/ Key(s) \in policy
              \/ drainPhase \in {"stopped", "drained"})

(* spec.md 8 inv. 2: once the policy watcher has observed a version at  *)
(* which a copying flow's connection is denied (the connection is in the *)
(* snapshot it is checking), the flow's copy exits unless the policy      *)
(* allows it again, even when a drain stops the watcher meanwhile.        *)
ObservedRevocationEnforced ==
    \A s \in Streams :
      (phase[s] = "copying" /\ Key(s) \in wtodo /\ Key(s) \notin policy)
        ~> (phase[s] # "copying" \/ Key(s) \in policy)

(* spec.md 4.3 Drain: Inbound::run gets to the end of its wait for the    *)
(* connection tasks once the drain watch fires, provided no CONNECT copy  *)
(* runs for ever: the graceful shutdowns wait for the upgraded streams,   *)
(* and nothing bounds a copy whose close signal stays quiet.              *)
DrainTerminates ==
    (<>[](\A s \in Streams : phase[s] # "copying"))
      => (drainPhase = "draining" ~> drainPhase = "drained")

=============================================================================
