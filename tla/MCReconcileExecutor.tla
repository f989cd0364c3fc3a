------------------------ MODULE MCReconcileExecutor -------------------------
(* Small instances of ReconcileExecutor: peer a with a host name, peer b    *)
(* added or without Endpoint.                                               *)
EXTENDS ReconcileExecutor, TLC

CONSTANTS a, b, n1, n2, n3, e1, e2, e3

MCDefaultRoute == [x \in Families |-> {}]
MCDNS == ("name" :> {e1, e2}) @@ ("other" :> {e3}) @@ ("third" :> {e2})

Peer1(prefixes, endpoint, policy) ==
    [AllowedIPs |-> prefixes, Endpoint |-> endpoint,
     PersistentKeepalive |-> 0, FECPolicy |-> policy, PresharedKey |-> "nokey"]

Wanted(peers) == [Interface |-> "auto", Peers |-> peers]

OldA == Peer1({n1}, "name", "balanced")

MCInitialConfig == Wanted(a :> OldA)
MCInitialAddress == a :> e1

AddB == Wanted(a :> OldA @@ b :> Peer1({n2}, "other", "balanced"))
AddTwo == Wanted(a :> OldA @@ b :> Peer1({n2, n3}, "other", "balanced"))
RemoveA == Wanted(b :> Peer1({n2}, "none", "balanced"))
MoveA == Wanted(a :> Peer1({n2}, "other", "balanced"))
ClearA == Wanted(a :> Peer1({n1}, "none", "balanced"))
MovePolicyAddB ==
    Wanted(a :> Peer1({n1}, "other", "latency") @@ b :> Peer1({n2}, "third", "balanced"))

MCFaulty == {AddTwo, MoveA, RemoveA, ClearA, MCInitialConfig}
MCMigrating == {AddB, MoveA, MCInitialConfig}
MCBoth == {MovePolicyAddB}
=============================================================================
