-------------------------------- MODULE Diff --------------------------------
(***************************************************************************)
(* The canonical desired configuration of one interface and its            *)
(* comparison: internal/reconcile/model.go and diff.go.  Pure operators;   *)
(* the coordinator decides on their result and the executor applies it.    *)
(*                                                                         *)
(* Lists that the code keeps sorted and free of duplicates (peers by       *)
(* public key, AllowedIPs of a peer) are functions and sets here.          *)
(***************************************************************************)
EXTENDS FiniteSets

CONSTANTS
    PublicKeys,     \* peer identities
    Prefixes,       \* inner prefixes a peer may own
    Interfaces,     \* everything of [Interface] and [Transport], as one value
    AutoTable,      \* the members of Interfaces whose Table is "auto"
    Families,       \* address families
    DefaultRoute,   \* DefaultRoute[f]: the zero-length prefixes of family f
    Endpoints,      \* Endpoint texts; NoEndpoint when the line is absent
    NoEndpoint,
    Keepalives,
    FECPolicies,
    PresharedKeys,  \* NoKey when the line is absent
    NoKey

ASSUME DiffAssumption ==
    /\ AutoTable \subseteq Interfaces
    /\ DefaultRoute \in [Families -> SUBSET Prefixes]
    /\ NoEndpoint \in Endpoints
    /\ NoKey \in PresharedKeys

Peer == [AllowedIPs : SUBSET Prefixes, Endpoint : Endpoints,
         PersistentKeepalive : Keepalives, FECPolicy : FECPolicies,
         PresharedKey : PresharedKeys]

PeerMaps == UNION {[ks -> Peer] : ks \in SUBSET PublicKeys}

Config == [Interface : Interfaces, Peers : PeerMaps]

\* A prefix has one owner: the check on prefixOwners in canonicalizePeers.
Canonical(cfg) ==
    \A k1, k2 \in DOMAIN cfg.Peers :
        k1 # k2 => cfg.Peers[k1].AllowedIPs \cap cfg.Peers[k2].AllowedIPs = {}

\* FromConfig of a file that passed Canonical: an omitted preshared key of an
\* active peer keeps the active key.
FromConfig(cfg, active) ==
    [cfg EXCEPT !.Peers =
        [k \in DOMAIN @ |->
            IF @[k].PresharedKey = NoKey /\ k \in DOMAIN active.Peers
            THEN [@[k] EXCEPT !.PresharedKey = active.Peers[k].PresharedKey]
            ELSE @[k]]]

-----------------------------------------------------------------------------
changedPeerFields(before, peer) ==
    {f \in {"AllowedIPs", "Endpoint", "PersistentKeepalive", "FECPolicy"} :
        before[f] # peer[f]}

\* The prefixes that some peer owns: the key set of prefixOwners, which is
\* also the set of inner host routes the configuration asks for.
OwnedPrefixes(peers) == UNION {peers[k].AllowedIPs : k \in DOMAIN peers}

prefixOwners(peers) ==
    [p \in OwnedPrefixes(peers) |->
        CHOOSE k \in DOMAIN peers : p \in peers[k].AllowedIPs]

hasDefaultRoute(cfg, family) ==
    OwnedPrefixes(cfg.Peers) \cap DefaultRoute[family] # {}

RestartReasons(current, desired) ==
    LET both == DOMAIN current.Peers \cap DOMAIN desired.Peers
    IN  (IF current.Interface # desired.Interface
         THEN {<<"interface", "changed">>} ELSE {})
        \cup {<<"preshared key", k>> :
                k \in {k \in both : current.Peers[k].PresharedKey
                                       # desired.Peers[k].PresharedKey}}
        \cup (IF {current.Interface, desired.Interface} \subseteq AutoTable
              THEN {<<"full tunnel", f>> :
                      f \in {f \in Families :
                               hasDefaultRoute(current, f)
                                  # hasDefaultRoute(desired, f)}}
              ELSE {})

Compare(current, desired) ==
    LET from == prefixOwners(current.Peers)
        to   == prefixOwners(desired.Peers)
    IN  [Added   |-> DOMAIN desired.Peers \ DOMAIN current.Peers,
         Updated |-> {k \in DOMAIN current.Peers \cap DOMAIN desired.Peers :
                        changedPeerFields(current.Peers[k],
                                          desired.Peers[k]) # {}},
         Removed |-> DOMAIN current.Peers \ DOMAIN desired.Peers,
         RouteAdditions |-> DOMAIN to \ DOMAIN from,
         RouteRemovals  |-> DOMAIN from \ DOMAIN to,
         OwnershipMoves |-> {p \in DOMAIN from \cap DOMAIN to :
                               from[p] # to[p]},
         RestartReasons |-> RestartReasons(current, desired)]

\* Mutant: additions are overlooked.
ChangedWithoutAdded(diff) == diff.Updated # {} \/ diff.Removed # {}

Changed(diff) ==
    diff.Added # {} \/ diff.Updated # {} \/ diff.Removed # {}

RestartRequired(diff) == diff.RestartReasons # {}
=============================================================================
