------------------------- MODULE ConnectionManager -------------------------
(***************************************************************************)
(* The inbound ConnectionManager and its policy watcher (spec.md 4.2).     *)
(* The Rust code of this component (proxy/connection_manager.rs) is not    *)
(* part of src/; every definition here is modelled from the spec.          *)
(*                                                                         *)
(* The manager is a map from a Connection (the key: source address and     *)
(* identity, destination) to a single-shot close signal.  A close signal   *)
(* is represented by the generation of the map entry that owns it: a       *)
(* handle h obtained by track(k) is still quiet exactly while the entry of *)
(* k is the one of generation h.  Removing the entry (release, or a        *)
(* revocation by the watcher) drops the signal and so raises it for every  *)
(* tracker.                                                                *)
(*                                                                         *)
(* The state store's authorization policy is abstracted to the set of     *)
(* keys that assert_rbac currently allows, and its version counter, which  *)
(* the store bumps on every update (the watch channel the watcher waits    *)
(* on).                                                                    *)
(***************************************************************************)
EXTENDS Naturals, FiniteSets

CONSTANTS
    Keys,        \* the Connection values the manager can be asked about
    InitPolicy,  \* the keys assert_rbac allows in the store's first version
    MaxVersion   \* bound on the number of state-store updates

ASSUME ConnectionManagerAssumption ==
    /\ IsFiniteSet(Keys)
    /\ InitPolicy \subseteq Keys
    /\ MaxVersion \in Nat

VARIABLES
    registry,  \* registry[k] = 0: no entry; otherwise the generation of k's entry
    gen,       \* gen[k]: number of entries ever inserted for k
    policy,    \* the keys assert_rbac allows at the current store version
    version,   \* the state store's version
    wseen,     \* the last version the watcher took a snapshot for
    wtodo      \* the keys of that snapshot the watcher has not checked yet

cmVars == <<registry, gen, policy, version, wseen, wtodo>>

Registered(k) == registry[k] # 0

(* A handle h of key k: its close signal has not been raised. *)
Quiet(k, h) == h # 0 /\ registry[k] = h

(* The watcher has checked every connection against the latest version. *)
CaughtUp == wseen = version /\ wtodo = {}

CMInit ==
    /\ registry = [k \in Keys |-> 0]
    /\ gen = [k \in Keys |-> 0]
    /\ policy = InitPolicy
    /\ version = 0
    /\ wseen = 0
    /\ wtodo = {}

(***************************************************************************)
(* Operations called by the inbound proxy: they are parts of its actions   *)
(* and constrain only registry and gen.                                    *)
(***************************************************************************)

(* Mutant: a fresh entry is inserted without counting its generation. *)
RegisterNoCount(k) ==
    IF Registered(k)
    THEN UNCHANGED <<registry, gen>>
    ELSE /\ UNCHANGED gen
         /\ registry' = [registry EXCEPT ![k] = gen[k] + 1]

(* register(conn): idempotently insert an entry with a fresh close signal. *)
Register(k) ==
    IF Registered(k)
    THEN UNCHANGED <<registry, gen>>
    ELSE /\ gen' = [gen EXCEPT ![k] = @ + 1]
         /\ registry' = [registry EXCEPT ![k] = gen[k] + 1]

(* track(conn): the handle of k's entry, 0 standing for None. *)
Track(k) == registry[k]

(* release(conn): remove the entry, dropping (raising) its close signal. *)
Release(k) ==
    /\ registry' = [registry EXCEPT ![k] = 0]
    /\ UNCHANGED gen

(***************************************************************************)
(* Environment: the state store publishes a new version in which the       *)
(* authorization of one connection changed.                                *)
(***************************************************************************)
StoreUpdate ==
    /\ version < MaxVersion
    /\ version' = version + 1
    /\ \E k \in Keys : policy' \in {policy \cup {k}, policy \ {k}}
    /\ UNCHANGED <<registry, gen, wseen, wtodo>>

(***************************************************************************)
(* policy_watcher: on a change notification, snapshot the current          *)
(* connections (the lock is held only for the snapshot), then re-assert    *)
(* policy for each of them, one await at a time; a denied one has its     *)
(* close signal raised and its entry removed.                              *)
(***************************************************************************)
WatcherWake ==
    /\ wtodo = {}
    /\ wseen < version
    /\ wseen' = version
    /\ wtodo' = {k \in Keys : Registered(k)}
    /\ UNCHANGED <<registry, gen, policy, version>>

WatcherCheck(k) ==
    /\ k \in wtodo
    /\ wtodo' = wtodo \ {k}
    /\ IF k \in policy
       THEN UNCHANGED registry
       ELSE registry' = [registry EXCEPT ![k] = 0]
    /\ UNCHANGED <<gen, policy, version, wseen>>

Watcher == WatcherWake \/ \E k \in Keys : WatcherCheck(k)

CMTypeOK ==
    /\ gen \in [Keys -> Nat]
    /\ registry \in [Keys -> Nat]
    /\ \A k \in Keys : registry[k] <= gen[k]
    /\ policy \in SUBSET Keys
    /\ version \in 0..MaxVersion
    /\ wseen \in 0..version
    /\ wtodo \in SUBSET Keys
=============================================================================
