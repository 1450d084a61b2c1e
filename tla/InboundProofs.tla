--------------------------- MODULE InboundProofs ---------------------------
(***************************************************************************)
(* Proofs about the Inbound model, for every value of its constants.       *)
(***************************************************************************)
EXTENDS Inbound, TLAPS

(* Distinct streams register distinct Connections: the precondition of    *)
(* the policy argument (without it, see the shared-key runs).             *)
DistinctKeys == \A s, t \in Streams : s # t => PortOf[s] # PortOf[t]

(* A stream whose registration is still in force past its RBAC step.      *)
Alive(s) ==
    \/ phase[s] \in {"admitted", "spawned"} /\ Registered(Key(s))
    \/ phase[s] = "copying" /\ Quiet(Key(s), handle[s])

(* The strengthening of PolicyEnforced: a live flow that RBAC governs is   *)
(* allowed, or the watcher still has to check it, or has not yet seen the *)
(* latest version.                                                        *)
PolicyInv ==
    \A s \in Streams :
      Alive(s) /\ ~RbacSkipped(s) =>
        \/ Key(s) \in policy
        \/ Key(s) \in wtodo
        \/ wseen < version

IInv == TypeOK /\ PolicyInv

-----------------------------------------------------------------------------

ReqRecords == [peer : Peers, auth : IPs]

(* The registered Connection of a stream being served is a key. *)
LEMMA KeyInKeys ==
    ASSUME TypeOK, NEW s \in Streams, phase[s] \notin {"idle", "done"}
    PROVE  Key(s) \in Keys /\ req[s] \in ReqRecords
BY InboundAssumption DEF TypeOK, Key, ReqRecords

(* The type invariant. *)
THEOREM TypeCorrect == Spec => []TypeOK
<1>1. Init => TypeOK
  BY InboundAssumption, ConnectionManagerAssumption
  DEF Init, CMInit, TypeOK, CMTypeOK, Phases, Status, DrainPhases
<1>2. TypeOK /\ [Next]_vars => TypeOK'
  <2> SUFFICES ASSUME TypeOK, [Next]_vars PROVE TypeOK'
    OBVIOUS
  <2> DEFINE ReqOK(f, ph) == \A t \in Streams : ph[t] \notin {"idle", "done"} => f[t] # NoReq
  <2>0. ReqOK(req, phase)
    BY DEF TypeOK
  <2>D. drainPhase' \in DrainPhases
    <3>1. CASE \E s \in Streams : StreamStep(s)
      BY <3>1 DEF StreamStep, RejectMalformed, ServeConnect, AssertRbac, Dial, TrackConn,
                  CopyDone, CopyClosed, ReleaseConn, TypeOK
    <3>2. CASE DrainSignal \/ StopWatcher \/ DrainDone
      BY <3>2 DEF DrainSignal, StopWatcher, DrainDone, DrainPhases
    <3>3. QED
      BY <3>1, <3>2 DEF Next, RunWatcher, streamVars, vars, TypeOK
  <2>1. ASSUME NEW s \in Streams, RejectMalformed(s) PROVE TypeOK'
    <3>1. CMTypeOK' /\ req' = req /\ handle' = handle
      BY <2>1 DEF RejectMalformed, cmVars, TypeOK, CMTypeOK
    <3>2. phase' \in [Streams -> Phases] /\ resp' \in [Streams -> Status]
      BY <2>1 DEF RejectMalformed, Finish, TypeOK, Phases, Status
    <3>3. ReqOK(req', phase')
      BY <2>0, <2>1 DEF RejectMalformed, Finish, TypeOK
    <3>4. QED
      BY <3>1, <3>2, <3>3, <2>D DEF TypeOK
  <2>2. ASSUME NEW s \in Streams, ServeConnect(s) PROVE TypeOK'
    <3>1. PICK p \in Peers, a \in IPs :
            /\ req' = [req EXCEPT ![s] = [peer |-> p, auth |-> a]]
            /\ \/ /\ Finish(s, 400) \/ Finish(s, 404)
                  /\ UNCHANGED <<registry, gen>>
               \/ /\ Register(<<p, PortOf[s]>>)
                  /\ phase' = [phase EXCEPT ![s] = "registered"]
                  /\ UNCHANGED resp
      BY <2>2, Zenon DEF ServeConnect
    <3>2. UNCHANGED <<policy, version, wseen, wtodo, handle>>
      BY <2>2, Zenon DEF ServeConnect
    <3>3. <<p, PortOf[s]>> \in Keys
      BY InboundAssumption
    <3>4. req' \in [Streams -> [peer : Peers, auth : IPs] \cup {NoReq}]
      BY <3>1 DEF TypeOK
    <3>5. \A t \in Streams : req'[t] # NoReq \/ req'[t] = req[t]
      BY <3>1, InboundAssumption DEF TypeOK
    <3>6. CASE (Finish(s, 400) \/ Finish(s, 404)) /\ UNCHANGED <<registry, gen>>
      <4>1. CMTypeOK'
        BY <3>2, <3>6 DEF TypeOK, CMTypeOK
      <4>2. phase' \in [Streams -> Phases] /\ resp' \in [Streams -> Status]
        BY <3>6 DEF Finish, TypeOK, Phases, Status
      <4>3. ReqOK(req', phase')
        BY <2>0, <3>5, <3>6 DEF Finish, TypeOK
      <4>4. QED
        BY <3>2, <3>4, <4>1, <4>2, <4>3, <2>D DEF TypeOK
    <3>7. CASE Register(<<p, PortOf[s]>>) /\ phase' = [phase EXCEPT ![s] = "registered"]
               /\ UNCHANGED resp
      <4>1. CMTypeOK'
        <5>1. CASE Registered(<<p, PortOf[s]>>)
          BY <3>2, <3>7, <5>1 DEF TypeOK, CMTypeOK, Register
        <5>2. CASE ~Registered(<<p, PortOf[s]>>)
          <6>1. /\ gen' = [gen EXCEPT ![<<p, PortOf[s]>>] = @ + 1]
                /\ registry' = [registry EXCEPT ![<<p, PortOf[s]>>] = gen[<<p, PortOf[s]>>] + 1]
            BY <3>7, <5>2 DEF Register
          <6>2. QED
            BY <3>2, <3>3, <6>1 DEF TypeOK, CMTypeOK
        <5>3. QED
          BY <5>1, <5>2
      <4>2. phase' \in [Streams -> Phases]
        BY <3>7 DEF TypeOK, Phases
      <4>3. ReqOK(req', phase')
        BY <2>0, <3>1, <3>5, <3>7, InboundAssumption DEF TypeOK
      <4>4. QED
        BY <3>2, <3>4, <3>7, <4>1, <4>2, <4>3, <2>D DEF TypeOK
    <3>8. QED
      BY <3>1, <3>6, <3>7
  <2>3. ASSUME NEW s \in Streams, AssertRbac(s) PROVE TypeOK'
    <3>1. Key(s) \in Keys
      BY <2>3, KeyInKeys DEF AssertRbac
    <3>2. UNCHANGED <<policy, version, wseen, wtodo, req, handle>>
      BY <2>3 DEF AssertRbac
    <3>3. CASE Release(Key(s)) /\ Finish(s, 401)
      <4>1. CMTypeOK'
        BY <3>1, <3>2, <3>3 DEF TypeOK, CMTypeOK, Release
      <4>2. phase' \in [Streams -> Phases] /\ resp' \in [Streams -> Status]
        BY <3>3 DEF Finish, TypeOK, Phases, Status
      <4>3. ReqOK(req', phase')
        BY <2>0, <3>2, <3>3 DEF Finish
      <4>4. QED
        BY <3>2, <4>1, <4>2, <4>3, <2>D DEF TypeOK
    <3>4. CASE phase' = [phase EXCEPT ![s] = "admitted"] /\ UNCHANGED <<registry, gen, resp>>
      <4>1. CMTypeOK'
        BY <3>2, <3>4 DEF TypeOK, CMTypeOK
      <4>2. phase' \in [Streams -> Phases]
        BY <3>4 DEF TypeOK, Phases
      <4>3. ReqOK(req', phase')
        BY <2>0, <2>3, <3>2, <3>4 DEF AssertRbac
      <4>4. QED
        BY <3>2, <3>4, <4>1, <4>2, <4>3, <2>D DEF TypeOK
    <3>5. QED
      BY <2>3, <3>3, <3>4 DEF AssertRbac
  <2>4. ASSUME NEW s \in Streams, Dial(s) PROVE TypeOK'
    <3>1. CMTypeOK'
      BY <2>4 DEF Dial, cmVars, TypeOK, CMTypeOK
    <3>2. phase' \in [Streams -> Phases] /\ resp' \in [Streams -> Status]
      BY <2>4 DEF Dial, Finish, TypeOK, Phases, Status
    <3>3. ReqOK(req', phase')
      BY <2>0, <2>4 DEF Dial, Finish, TypeOK
    <3>4. QED
      BY <2>4, <3>1, <3>2, <3>3, <2>D DEF Dial, TypeOK
  <2>5. ASSUME NEW s \in Streams, TrackConn(s) PROVE TypeOK'
    <3>1. Key(s) \in Keys
      BY <2>5, KeyInKeys DEF TrackConn
    <3>2. Track(Key(s)) \in Nat
      BY <3>1 DEF Track, TypeOK, CMTypeOK
    <3>3. handle' \in [Streams -> Nat]
      BY <2>5, <3>2 DEF TrackConn, TypeOK
    <3>4. phase' \in [Streams -> Phases]
      BY <2>5 DEF TrackConn, TypeOK, Phases
    <3>5. ReqOK(req', phase')
      BY <2>0, <2>5 DEF TrackConn, TypeOK
    <3>6. QED
      BY <2>5, <3>3, <3>4, <3>5, <2>D DEF TrackConn, TypeOK, CMTypeOK, cmVars
  <2>6. ASSUME NEW s \in Streams, CopyDone(s) \/ CopyClosed(s) PROVE TypeOK'
    <3>1. phase' = [phase EXCEPT ![s] = "closing"] /\ phase[s] = "copying"
          /\ UNCHANGED <<cmVars, req, handle, resp>>
      BY <2>6 DEF CopyDone, CopyClosed
    <3>2. phase' \in [Streams -> Phases]
      BY <3>1 DEF TypeOK, Phases
    <3>3. ReqOK(req', phase')
      BY <2>0, <3>1
    <3>4. QED
      BY <3>1, <3>2, <3>3, <2>D DEF TypeOK, CMTypeOK, cmVars
  <2>7. ASSUME NEW s \in Streams, ReleaseConn(s) PROVE TypeOK'
    <3>1. Key(s) \in Keys
      BY <2>7, KeyInKeys DEF ReleaseConn
    <3>2. CMTypeOK'
      BY <2>7, <3>1 DEF ReleaseConn, Release, TypeOK, CMTypeOK
    <3>3. phase' \in [Streams -> Phases]
      BY <2>7 DEF ReleaseConn, TypeOK, Phases
    <3>4. ReqOK(req', phase')
      BY <2>0, <2>7 DEF ReleaseConn
    <3>5. QED
      BY <2>7, <3>2, <3>3, <3>4, <2>D DEF ReleaseConn, TypeOK
  <2>8. CASE StoreUpdate /\ UNCHANGED streamVars
    <3>1. PICK k \in Keys : policy' \in {policy \cup {k}, policy \ {k}}
      BY <2>8 DEF StoreUpdate
    <3>2. version' \in 0..MaxVersion /\ wseen' \in 0..version'
      BY <2>8, ConnectionManagerAssumption DEF StoreUpdate, TypeOK, CMTypeOK
    <3>3. CMTypeOK'
      BY <2>8, <3>1, <3>2 DEF StoreUpdate, TypeOK, CMTypeOK
    <3>4. QED
      BY <2>8, <3>3, <2>D DEF streamVars, TypeOK
  <2>9. CASE RunWatcher
    <3>1. CMTypeOK'
      BY <2>9 DEF RunWatcher, Watcher, WatcherWake, WatcherCheck, Registered, TypeOK, CMTypeOK
    <3>2. QED
      BY <2>9, <3>1 DEF RunWatcher, streamVars, TypeOK
  <2>10. CASE UNCHANGED vars
    BY <2>10 DEF vars, cmVars, streamVars, TypeOK, CMTypeOK
  <2>11. CASE DrainSignal \/ StopWatcher \/ DrainDone
    BY <2>11, <2>D DEF DrainSignal, StopWatcher, DrainDone, cmVars, TypeOK, CMTypeOK
  <2>12. QED
    BY <2>1, <2>2, <2>3, <2>4, <2>5, <2>6, <2>7, <2>8, <2>9, <2>10, <2>11 DEF Next, StreamStep
<1>3. QED
  BY <1>1, <1>2, PTL DEF Spec

-----------------------------------------------------------------------------
(* A step that leaves stream t, the policy and the watcher alone, and at  *)
(* most removes t's registration, keeps PolicyInv true of t.              *)
Unaffected(t) ==
    /\ phase'[t] = phase[t] /\ req'[t] = req[t] /\ handle'[t] = handle[t]
    /\ phase[t] \notin {"idle", "done"} => registry'[Key(t)] \in {registry[Key(t)], 0}
    /\ UNCHANGED <<policy, wtodo, wseen, version>>

PolicyInvOf(t) ==
    Alive(t) /\ ~RbacSkipped(t) =>
      \/ Key(t) \in policy
      \/ Key(t) \in wtodo
      \/ wseen < version

LEMMA UnaffectedKeeps ==
    ASSUME NEW t \in Streams, PolicyInvOf(t), Unaffected(t)
    PROVE  PolicyInvOf(t)'
<1>1. Key(t)' = Key(t) /\ (RbacSkipped(t)' <=> RbacSkipped(t))
  BY DEF Unaffected, Key, RbacSkipped
<1>2. Alive(t)' => phase[t] \notin {"idle", "done"}
  BY <1>1 DEF Unaffected, Alive
<1>3. Alive(t)' => Alive(t)
  BY <1>1, <1>2 DEF Unaffected, Alive, Registered, Quiet
<1>4. QED
  BY <1>1, <1>3 DEF PolicyInvOf, Unaffected

(* Another stream's step: its Connection differs from t's. *)
LEMMA OtherStreamStep ==
    ASSUME TypeOK, DistinctKeys, NEW s \in Streams, NEW t \in Streams, s # t,
           StreamStep(s)
    PROVE  Unaffected(t)
<1>1. Key(s) # Key(t)
  BY DEF DistinctKeys, Key
<1>2. phase'[t] = phase[t] /\ req'[t] = req[t] /\ handle'[t] = handle[t]
  <2>1. CASE RejectMalformed(s) \/ AssertRbac(s) \/ Dial(s) \/ CopyDone(s) \/ CopyClosed(s)
             \/ ReleaseConn(s)
    BY <2>1 DEF RejectMalformed, AssertRbac, Dial, CopyDone, CopyClosed, ReleaseConn,
                Finish, TypeOK
  <2>2. CASE ServeConnect(s)
    <3>1. PICK p \in Peers, a \in IPs :
            /\ req' = [req EXCEPT ![s] = [peer |-> p, auth |-> a]]
            /\ \/ Finish(s, 400) \/ Finish(s, 404)
               \/ phase' = [phase EXCEPT ![s] = "registered"]
      BY <2>2, Zenon DEF ServeConnect
    <3>2. QED
      BY <2>2, <3>1 DEF ServeConnect, Finish, TypeOK
  <2>3. CASE TrackConn(s)
    BY <2>3 DEF TrackConn, TypeOK
  <2>4. QED
    BY <2>1, <2>2, <2>3 DEF StreamStep
<1>3. UNCHANGED <<policy, wtodo, wseen, version>>
  BY DEF StreamStep, RejectMalformed, ServeConnect, AssertRbac, Dial, TrackConn,
         CopyDone, CopyClosed, ReleaseConn, cmVars
<1>4. ASSUME phase[t] \notin {"idle", "done"}
      PROVE  registry'[Key(t)] \in {registry[Key(t)], 0}
  <2>0. Key(t) \in Keys
    BY <1>4, KeyInKeys
  <2>1. CASE RejectMalformed(s) \/ Dial(s) \/ TrackConn(s) \/ CopyDone(s) \/ CopyClosed(s)
    BY <2>1 DEF RejectMalformed, Dial, TrackConn, CopyDone, CopyClosed, cmVars
  <2>2. CASE AssertRbac(s) \/ ReleaseConn(s)
    <3>1. registry' = registry \/ registry' = [registry EXCEPT ![Key(s)] = 0]
      BY <2>2 DEF AssertRbac, ReleaseConn, Release
    <3>2. QED
      BY <1>1, <2>0, <3>1 DEF TypeOK, CMTypeOK
  <2>3. CASE ServeConnect(s)
    <3>1. PICK p \in Peers, a \in IPs :
            \/ UNCHANGED registry
            \/ Register(<<p, PortOf[s]>>)
      BY <2>3, Zenon DEF ServeConnect
    <3>2. <<p, PortOf[s]>> # Key(t)
      BY DEF DistinctKeys, Key
    <3>3. QED
      BY <2>0, <3>1, <3>2 DEF Register, TypeOK, CMTypeOK
  <2>4. QED
    BY <2>1, <2>2, <2>3 DEF StreamStep
<1>5. QED
  BY <1>2, <1>3, <1>4 DEF Unaffected

(* The invariant of PolicyEnforced. *)
THEOREM PolicyInvariant == DistinctKeys => (Spec => []PolicyInv)
<1> SUFFICES ASSUME DistinctKeys PROVE Spec => []PolicyInv
  OBVIOUS
<1>1. Init => PolicyInv
  BY DEF Init, PolicyInv, Alive
<1>2. TypeOK /\ PolicyInv /\ [Next]_vars => PolicyInv'
  <2> SUFFICES ASSUME TypeOK, PolicyInv, [Next]_vars, NEW t \in Streams
               PROVE  PolicyInvOf(t)'
    BY DEF PolicyInv, PolicyInvOf
  <2>0. PolicyInvOf(t)
    BY DEF PolicyInv, PolicyInvOf
  <2>1. ASSUME NEW s \in Streams, s # t, StreamStep(s) PROVE PolicyInvOf(t)'
    BY <2>0, <2>1, OtherStreamStep, UnaffectedKeeps
  <2>2. CASE RejectMalformed(t) \/ ServeConnect(t) \/ CopyDone(t) \/ CopyClosed(t)
              \/ ReleaseConn(t)
    <3>1. phase'[t] \in {"done", "registered", "closing"}
      BY <2>2, Zenon DEF RejectMalformed, ServeConnect, CopyDone, CopyClosed, ReleaseConn,
                         Finish, TypeOK
    <3>2. QED
      BY <3>1 DEF PolicyInvOf, Alive
  <2>3. CASE AssertRbac(t)
    <3>1. CASE phase'[t] = "done"
      BY <3>1 DEF PolicyInvOf, Alive
    <3>2. CASE phase'[t] # "done"
      <4>1. RbacAllows(req[t], Key(t)) /\ UNCHANGED <<policy, req>>
        BY <2>3, <3>2 DEF AssertRbac, Finish, TypeOK
      <4>2. ~RbacSkipped(t)' => Key(t)' \in policy'
        BY <4>1 DEF RbacAllows, RbacSkipped, FromWaypoint, ToSandwichedWaypoint, Key
      <4>3. QED
        BY <4>2 DEF PolicyInvOf
    <3>3. QED
      BY <3>1, <3>2
  <2>4. CASE Dial(t) \/ TrackConn(t)
    <3>1. UNCHANGED <<cmVars, req>> /\ phase[t] \in {"admitted", "spawned"}
      BY <2>4 DEF Dial, TrackConn
    <3>2. Key(t)' = Key(t) /\ (RbacSkipped(t)' <=> RbacSkipped(t))
      BY <3>1 DEF Key, RbacSkipped
    <3>3. Alive(t)' => Registered(Key(t))
      <4>1. CASE Dial(t)
        BY <3>1, <3>2, <4>1 DEF Dial, Finish, Alive, Registered, TypeOK, cmVars
      <4>2. CASE TrackConn(t)
        <5>1. phase'[t] = "copying" => handle'[t] = registry[Key(t)]
          BY <4>2 DEF TrackConn, Track, TypeOK
        <5>2. phase'[t] \in {"spawned", "admitted"} => FALSE
          BY <4>2 DEF TrackConn, TypeOK
        <5>3. QED
          BY <3>1, <3>2, <5>1, <5>2 DEF Alive, Registered, Quiet
      <4>3. QED
        BY <2>4, <4>1, <4>2
    <3>4. Alive(t)' => Alive(t)
      BY <3>1, <3>3 DEF Alive
    <3>5. QED
      BY <2>0, <3>1, <3>2, <3>4 DEF PolicyInvOf, cmVars
  <2>5. CASE StoreUpdate /\ UNCHANGED streamVars
    <3>1. wseen' < version'
      BY <2>5 DEF StoreUpdate, TypeOK, CMTypeOK
    <3>2. QED
      BY <3>1 DEF PolicyInvOf
  <2>6. CASE WatcherWake /\ UNCHANGED streamVars
    <3>1. Alive(t)' => Alive(t)
      BY <2>6 DEF WatcherWake, streamVars, Alive, Registered, Quiet, Key
    <3>2. Alive(t) => Key(t) \in Keys /\ Registered(Key(t))
      BY KeyInKeys DEF Alive, Quiet, Registered
    <3>3. Alive(t) => Key(t)' \in wtodo'
      BY <2>6, <3>2 DEF WatcherWake, streamVars, Key
    <3>4. QED
      BY <3>1, <3>3 DEF PolicyInvOf
  <2>7. ASSUME NEW k \in Keys, WatcherCheck(k), UNCHANGED streamVars
        PROVE PolicyInvOf(t)'
    <3>1. Key(t)' = Key(t) /\ (RbacSkipped(t)' <=> RbacSkipped(t)) /\ UNCHANGED <<phase, handle>>
      BY <2>7 DEF streamVars, Key, RbacSkipped
    <3>2. CASE k \in policy
      <4>1. UNCHANGED <<registry, policy, wseen, version>> /\ wtodo' = wtodo \ {k}
        BY <2>7, <3>2 DEF WatcherCheck
      <4>2. Alive(t)' => Alive(t)
        BY <3>1, <4>1 DEF Alive, Registered, Quiet
      <4>3. QED
        BY <2>0, <3>1, <4>1, <4>2, <3>2 DEF PolicyInvOf
    <3>3. CASE k \notin policy
      <4>1. registry' = [registry EXCEPT ![k] = 0] /\ wtodo' = wtodo \ {k}
            /\ UNCHANGED <<policy, wseen, version>>
        BY <2>7, <3>3 DEF WatcherCheck
      <4>2. CASE Key(t) = k
        <5>1. ~Alive(t)'
          BY <3>1, <4>1, <4>2 DEF Alive, Registered, Quiet, TypeOK, CMTypeOK
        <5>2. QED
          BY <5>1 DEF PolicyInvOf
      <4>3. CASE Key(t) # k
        <5>1. registry'[Key(t)] = registry[Key(t)]
          BY <4>1, <4>3
        <5>2. Alive(t)' => Alive(t)
          BY <3>1, <5>1 DEF Alive, Registered, Quiet
        <5>3. QED
          BY <2>0, <3>1, <4>1, <4>3, <5>2 DEF PolicyInvOf
      <4>4. QED
        BY <4>2, <4>3
    <3>4. QED
      BY <3>2, <3>3
  <2>8. CASE UNCHANGED vars
    <3>1. Unaffected(t)
      BY <2>8 DEF vars, cmVars, streamVars, Unaffected
    <3>2. QED
      BY <2>0, <3>1, UnaffectedKeeps
  <2>9. CASE DrainSignal \/ StopWatcher \/ DrainDone
    <3>1. Unaffected(t)
      BY <2>9 DEF DrainSignal, StopWatcher, DrainDone, cmVars, Unaffected
    <3>2. QED
      BY <2>0, <3>1, UnaffectedKeeps
  <2>10. QED
    BY <2>1, <2>2, <2>3, <2>4, <2>5, <2>6, <2>7, <2>8, <2>9
    DEF Next, StreamStep, RunWatcher, Watcher
<1>3. QED
  BY <1>1, <1>2, TypeCorrect, PTL DEF Spec

(* Policy revocation ordering, for every configuration in which distinct *)
(* streams register distinct Connections.                                *)
THEOREM PolicyEnforcedHolds == DistinctKeys => (Spec => []PolicyEnforced)
<1>1. TypeOK /\ PolicyInv => PolicyEnforced
  BY DEF TypeOK, CMTypeOK, PolicyInv, PolicyEnforced, Alive, CaughtUp
<1>2. QED
  BY <1>1, PolicyInvariant, TypeCorrect, PTL
=============================================================================
