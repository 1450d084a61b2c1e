------------------------- MODULE InboundStepProofs -------------------------
(***************************************************************************)
(* What a step of the inbound proxy may do to the ConnectionManager's map: *)
(* every entry is owned by a running task or by a failed dial.             *)
(***************************************************************************)
EXTENDS InboundProofs

(* A stream that has not been served has not been answered.  Needed       *)
(* because an owner that answered 503 must not be mistaken for a fresh    *)
(* stream whose request, and so whose Connection, is still to come.       *)
IdleFresh == \A s \in Streams : phase[s] = "idle" => resp[s] = 0

(* s owns k: the witness EntriesOwned asks for. *)
Owner(s, k) ==
    /\ req[s] # NoReq
    /\ Key(s) = k
    /\ phase[s] \notin {"idle", "done"} \/ resp[s] = 503

(* The inductive invariant of EntriesOwned (TLC checked it on the        *)
(* inbound instance with shared Connections before it was proved).       *)
OwnInv == TypeOK /\ IdleFresh /\ EntriesOwned

(* A step that leaves s's request, phase and answer alone keeps s the    *)
(* owner of what it owns.                                                 *)
LEMMA OwnerFrame ==
    ASSUME NEW s \in Streams, NEW k, Owner(s, k),
           req'[s] = req[s], phase'[s] = phase[s], resp'[s] = resp[s]
    PROVE  Owner(s, k)'
BY DEF Owner, Key

(* Another stream's step leaves s's request, phase and answer alone. *)
LEMMA OtherStreamFrame ==
    ASSUME TypeOK, NEW s \in Streams, NEW t \in Streams, s # t, StreamStep(t)
    PROVE  req'[s] = req[s] /\ phase'[s] = phase[s] /\ resp'[s] = resp[s]
<1>1. CASE ServeConnect(t)
  <2>1. PICK p \in Peers, a \in IPs :
          /\ req' = [req EXCEPT ![t] = [peer |-> p, auth |-> a]]
          /\ \/ Finish(t, 400) \/ Finish(t, 404)
             \/ phase' = [phase EXCEPT ![t] = "registered"] /\ UNCHANGED resp
    BY <1>1, Zenon DEF ServeConnect
  <2>2. QED
    BY <2>1 DEF Finish, TypeOK
<1>2. CASE RejectMalformed(t) \/ AssertRbac(t) \/ Dial(t) \/ TrackConn(t) \/ CopyDone(t)
           \/ CopyClosed(t) \/ ReleaseConn(t)
  BY <1>2 DEF RejectMalformed, AssertRbac, Dial, TrackConn, CopyDone, CopyClosed,
              ReleaseConn, Finish, TypeOK
<1>3. QED
  BY <1>1, <1>2 DEF StreamStep

(* No step makes a stream idle again or answers an idle one. *)
LEMMA IdleFreshStep ==
    ASSUME TypeOK, IdleFresh, [Next]_vars
    PROVE  IdleFresh'
<1> SUFFICES ASSUME NEW s \in Streams, phase'[s] = "idle" PROVE resp'[s] = 0
  BY DEF IdleFresh
<1>1. CASE \E t \in Streams : t # s /\ StreamStep(t)
  BY <1>1, OtherStreamFrame DEF IdleFresh
<1>2. CASE StreamStep(s)
  <2>1. CASE ServeConnect(s)
    <3>1. phase'[s] \in {"done", "registered"}
      BY <2>1, Zenon DEF ServeConnect, Finish, TypeOK
    <3>2. QED
      BY <3>1
  <2>2. CASE RejectMalformed(s) \/ AssertRbac(s) \/ Dial(s) \/ TrackConn(s) \/ CopyDone(s)
             \/ CopyClosed(s) \/ ReleaseConn(s)
    BY <2>2 DEF RejectMalformed, AssertRbac, Dial, TrackConn, CopyDone, CopyClosed,
                ReleaseConn, Finish, TypeOK
  <2>3. QED
    BY <1>2, <2>1, <2>2 DEF StreamStep
<1>3. CASE UNCHANGED <<phase, resp>>
  BY <1>3 DEF IdleFresh
<1>4. CASE \E t \in Streams : StreamStep(t)
  BY <1>1, <1>2, <1>4
<1>5. QED
  BY <1>3, <1>4
  DEF Next, RunWatcher, StoreUpdate, DrainSignal, StopWatcher, DrainDone, vars, streamVars

(* The step of stream s itself keeps s the owner of a key it owns, or    *)
(* removes that key's entry.                                              *)
LEMMA OwnStep ==
    ASSUME TypeOK, IdleFresh, NEW s \in Streams, NEW k \in Keys, Owner(s, k),
           StreamStep(s), registry'[k] # 0
    PROVE  Owner(s, k)'
<1>0. phase[s] # "idle"
  BY DEF Owner, IdleFresh
<1>1. Key(s) = k /\ req[s] # NoReq
  BY DEF Owner
<1>2. CASE RejectMalformed(s) \/ ServeConnect(s)
  BY <1>0, <1>2 DEF RejectMalformed, ServeConnect
<1>3. CASE AssertRbac(s)
  <2>1. CASE Release(Key(s))
    BY <1>1, <2>1 DEF Release, TypeOK, CMTypeOK
  <2>2. CASE phase' = [phase EXCEPT ![s] = "admitted"] /\ UNCHANGED resp
    BY <1>1, <1>3, <2>2 DEF AssertRbac, Owner, Key, TypeOK
  <2>3. QED
    BY <1>3, <2>1, <2>2 DEF AssertRbac
<1>4. CASE Dial(s)
  BY <1>1, <1>4 DEF Dial, Finish, Owner, Key, TypeOK
<1>5. CASE TrackConn(s)
  <2>1. Track(Key(s)) # 0
    BY <1>1, <1>5 DEF TrackConn, Track, cmVars
  <2>2. QED
    BY <1>1, <1>5, <2>1 DEF TrackConn, Owner, Key, TypeOK
<1>6. CASE CopyDone(s) \/ CopyClosed(s)
  BY <1>1, <1>6 DEF CopyDone, CopyClosed, Owner, Key, TypeOK
<1>7. CASE ReleaseConn(s)
  BY <1>1, <1>7 DEF ReleaseConn, Release, TypeOK, CMTypeOK
<1>8. QED
  BY <1>2, <1>3, <1>4, <1>5, <1>6, <1>7 DEF StreamStep

(* The step of a stream t that creates the entry of k makes t its owner. *)
LEMMA NewEntryStep ==
    ASSUME TypeOK, NEW t \in Streams, NEW k \in Keys, StreamStep(t),
           registry[k] = 0, registry'[k] # 0
    PROVE  Owner(t, k)'
<1>1. CASE ServeConnect(t)
  <2>1. PICK p \in Peers, a \in IPs :
          /\ req' = [req EXCEPT ![t] = [peer |-> p, auth |-> a]]
          /\ \/ UNCHANGED registry
             \/ Register(<<p, PortOf[t]>>) /\ phase' = [phase EXCEPT ![t] = "registered"]
    BY <1>1, Zenon DEF ServeConnect
  <2>2. Register(<<p, PortOf[t]>>) /\ phase' = [phase EXCEPT ![t] = "registered"]
    BY <2>1
  <2>3. k = <<p, PortOf[t]>>
    BY <2>2 DEF Register, Registered, TypeOK, CMTypeOK
  <2>4. req'[t] = [peer |-> p, auth |-> a] /\ phase'[t] = "registered"
    BY <2>1, <2>2 DEF TypeOK
  <2>5. QED
    BY <2>3, <2>4, InboundAssumption DEF Owner, Key
<1>2. CASE AssertRbac(t) \/ ReleaseConn(t)
  <2>1. registry' = registry \/ \E j : registry' = [registry EXCEPT ![j] = 0]
    BY <1>2 DEF AssertRbac, ReleaseConn, Release
  <2>2. QED
    BY <2>1 DEF TypeOK, CMTypeOK
<1>3. CASE RejectMalformed(t) \/ Dial(t) \/ TrackConn(t) \/ CopyDone(t) \/ CopyClosed(t)
  BY <1>3 DEF RejectMalformed, Dial, TrackConn, CopyDone, CopyClosed, cmVars
<1>4. QED
  BY <1>1, <1>2, <1>3 DEF StreamStep

(* spec.md 3 inv. 1 as far as the code meets it, whether or not streams   *)
(* share Connections: every entry of the ConnectionManager belongs to a   *)
(* stream still being served or copied, or to one that answered the 503   *)
(* of a failed dial.  No other path of serve_connect, handle_inbound or   *)
(* the policy watcher leaves an entry behind.                             *)
THEOREM EntriesOwnedHolds == Spec => []EntriesOwned
<1>1. Init => IdleFresh /\ EntriesOwned
  BY DEF Init, CMInit, IdleFresh, EntriesOwned, Registered
<1>2. TypeOK /\ IdleFresh /\ EntriesOwned /\ [Next]_vars => IdleFresh' /\ EntriesOwned'
  <2> SUFFICES ASSUME TypeOK, IdleFresh, EntriesOwned, [Next]_vars
               PROVE  IdleFresh' /\ EntriesOwned'
    OBVIOUS
  <2>1. IdleFresh'
    BY IdleFreshStep
  <2>2. ASSUME NEW k \in Keys, registry'[k] # 0
        PROVE  \E s \in Streams : Owner(s, k)'
    <3>1. CASE registry[k] # 0
      <4>1. PICK s \in Streams : Owner(s, k)
        BY <3>1 DEF EntriesOwned, Owner, Registered
      <4>2. CASE \E t \in Streams : StreamStep(t)
        <5>1. PICK t \in Streams : StreamStep(t)
          BY <4>2
        <5>2. CASE t = s
          BY <2>2, <4>1, <5>1, <5>2, OwnStep
        <5>3. CASE t # s
          BY <4>1, <5>1, <5>3, OtherStreamFrame, OwnerFrame
        <5>4. QED
          BY <5>2, <5>3
      <4>3. CASE UNCHANGED <<req, phase, resp>>
        BY <4>1, <4>3, OwnerFrame
      <4>4. QED
        BY <4>2, <4>3
        DEF Next, RunWatcher, StoreUpdate, DrainSignal, StopWatcher, DrainDone, vars,
            streamVars
    <3>2. CASE registry[k] = 0
      <4>1. ~(\E t \in Streams : StreamStep(t)) => registry'[k] = 0
        BY <3>2
        DEF Next, RunWatcher, Watcher, WatcherWake, WatcherCheck, StoreUpdate, DrainSignal,
            StopWatcher, DrainDone, vars, cmVars, TypeOK, CMTypeOK
      <4>2. PICK t \in Streams : StreamStep(t)
        BY <2>2, <4>1
      <4>3. QED
        BY <2>2, <3>2, <4>2, NewEntryStep
    <3>3. QED
      BY <3>1, <3>2
  <2>3. QED
    BY <2>1, <2>2 DEF EntriesOwned, Owner, Registered
<1>3. QED
  BY <1>1, <1>2, TypeCorrect, PTL DEF Spec
=============================================================================
