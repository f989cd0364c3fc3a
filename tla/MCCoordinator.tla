--------------------------- MODULE MCCoordinator ----------------------------
(* A small instance of Coordinator for TLC. *)
EXTENDS Coordinator, TLC

CONSTANTS a, b, c, c1, c2, k1, k2, p1, p2

MCPeer(prefixes) ==
    [AllowedIPs |-> prefixes, Endpoint |-> "none", PersistentKeepalive |-> 0,
     FECPolicy |-> "balanced", PresharedKey |-> "none"]

MCInitial == [Interface |-> "if1", Peers |-> (k1 :> MCPeer({p1}))]
MCAdded == [Interface |-> "if1",
            Peers |-> (k1 :> MCPeer({p1}) @@ k2 :> MCPeer({p2}))]
MCMoved == [Interface |-> "if1", Peers |-> (k2 :> MCPeer({p1}))]
MCOther == [Interface |-> "if2", Peers |-> (k2 :> MCPeer({p1}))]

MCRequest(id, epoch, gen, desired) ==
    [id |-> id, epoch |-> epoch, generation |-> gen, desired |-> desired]

\* Two IDs with competing changes from the same generation, one of them also
\* reused with other content for a follow-up, a restart-required change and a
\* request of an earlier epoch.
MCRequests ==
    {MCRequest(a, Epoch, 1, MCAdded),
     MCRequest(b, Epoch, 1, MCMoved),
     MCRequest(b, Epoch, 2, MCInitial),
     MCRequest(c, Epoch, 1, MCOther),
     MCRequest(c, "other", 1, MCAdded)}

\* Competing changes, a no-op and a follow-up, for the runs about the cache.
MCCacheRequests ==
    {MCRequest(a, Epoch, 1, MCAdded),
     MCRequest(b, Epoch, 1, MCMoved),
     MCRequest(b, Epoch, 2, MCAdded)}

MCSymmetry == Permutations(Clients)

MCDefaultRoute == [f \in Families |-> {}]
=============================================================================
