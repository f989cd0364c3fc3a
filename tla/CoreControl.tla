---------------------------- MODULE CoreControl -----------------------------
(***************************************************************************)
(* The core behind its control socket.  Any client may call any handler    *)
(* with any arguments, in any order and as often as it likes (a retry      *)
(* after a lost response is just another call), with one exception: like   *)
(* the supervisor, no client commits or finalizes a peer-set transaction   *)
(* that it has asked to roll back.  The transport delivers authenticated   *)
(* packets and reports restored sessions at any time.                      *)
(***************************************************************************)
EXTENDS CoreInstance

CONSTANTS
    InitialPeers,       \* the peers the core is started with
    InitialAddresses,   \* addresses of those with a numeric Endpoint
    MutationSets,       \* the requests PreparePeerSet is called with
    MaxGeneration,      \* bound: endpoint generations
    MaxInstalls,        \* bound: endpoint selections of all peers together
    Reconnects,         \* the endpoints whose sessions are lost and restored
    MaxPackets          \* bound: packets received

VARIABLES
    core,
    packets,    \* received packets that WireGuard has not yet processed
    restoring,  \* peers a restored session is about to be probed for
    abandoned,  \* transactions a client asked to roll back
    installs,   \* history: selections made for a key
    witness,    \* history: installs[k] when the packet that last
                \* authenticated k was received
    closed

vars == <<core, packets, restoring, abandoned, installs, witness, closed>>
history == <<installs, witness>>

Init ==
    /\ core = newInstance(InitialPeers, InitialAddresses)
    /\ packets = {}
    /\ restoring = {}
    /\ abandoned = {}
    /\ installs = [k \in PublicKeys |-> 0]
    /\ witness = [k \in PublicKeys |-> 0]
    /\ closed = FALSE

-----------------------------------------------------------------------------
(* Control operations *)

\* A handler that takes peerTransactionMu ran to its end.
Transaction(result) ==
    /\ core.committing = NoTx
    /\ ~closed
    /\ core' = result.core
    /\ UNCHANGED <<packets, restoring, history, closed>>

PreparePeerSet(id, muts) ==
    /\ Transaction(preparePeerSet(core, id, muts))
    /\ abandoned' = IF core.txs[id].state = "unknown" THEN abandoned \ {id}
                    ELSE abandoned

CommitPeerSet(id) ==
    /\ id \notin abandoned
    /\ Transaction(commitPeerSet(core, id))
    /\ UNCHANGED abandoned

CommitDevice ==
    /\ core.committing # NoTx
    /\ core' = commitDevice(core, core.committing).core
    /\ UNCHANGED <<packets, restoring, abandoned, history, closed>>

RollbackPeerSet(id) ==
    /\ Transaction(rollbackPeerSet(core, id))
    /\ abandoned' = abandoned \cup {id}

FinalizePeerSet(id) ==
    /\ id \notin abandoned
    /\ Transaction(finalizePeerSet(core, id))
    /\ UNCHANGED abandoned

SetPeerEndpoint(k, e, g) ==
    /\ ~closed
    /\ MapThenSumSet(LAMBDA x : installs[x], PublicKeys) < MaxInstalls
    /\ core' = setPeerEndpoint(core, k, e, g).core
    /\ installs' = IF core' = core THEN installs
                   ELSE [installs EXCEPT ![k] = @ + 1]
    /\ UNCHANGED <<packets, restoring, abandoned, witness, closed>>

FinalizePeerEndpoint(k, g) ==
    /\ ~closed
    /\ core' = finalizePeerEndpoint(core, k, g).core
    /\ UNCHANGED <<packets, restoring, abandoned, history, closed>>

Close ==
    /\ ~closed
    /\ core.committing = NoTx
    /\ core' = closeInstance(core)
    /\ closed' = TRUE
    /\ UNCHANGED <<packets, restoring, abandoned, history>>

-----------------------------------------------------------------------------
(* The data path *)

\* The bind numbers a packet when it arrives; WireGuard authenticates it later.
ReceivePacket(k, e) ==
    /\ ~closed
    /\ core.sequence < MaxPackets
    /\ core' = [core EXCEPT !.sequence = @ + 1]
    /\ packets' = packets \cup {[key |-> k, from |-> e,
                                 sequence |-> core.sequence + 1,
                                 installs |-> installs[k]]}
    /\ UNCHANGED <<restoring, abandoned, history, closed>>

\* WireGuard learns the packet's source as the peer's endpoint and reports it.
AuthenticatedReceive(p) ==
    LET heard == recordAuthenticatedReceive(core, p.key, p.from, p.sequence)
    IN  /\ ~closed
        /\ p.key \in DOMAIN core.device
        /\ core' = [heard EXCEPT !.wire[p.key] = p.from]
        /\ packets' = packets \ {p}
        /\ witness' = IF heard = core THEN witness
                      ELSE [witness EXCEPT ![p.key] = p.installs]
        /\ UNCHANGED <<restoring, abandoned, installs, closed>>

\* restorePeersAfterTransportReconnect: the peers are collected under the lock
\* and pointed back at the endpoint after it was released.
RestoreCollect(e) ==
    /\ ~closed
    /\ restoring = {}
    /\ restoring' = {[key |-> k, endpoint |-> e] :
                        k \in {k \in DOMAIN core.peers :
                                 core.peers[k].selected = e}}
    /\ UNCHANGED <<core, packets, abandoned, history, closed>>

RestoreApply(r) ==
    /\ ~closed
    /\ core' = IF r.key \in DOMAIN core.device
               THEN [core EXCEPT !.wire[r.key] = r.endpoint] ELSE core
    /\ restoring' = restoring \ {r}
    /\ UNCHANGED <<packets, abandoned, history, closed>>

Next ==
    \/ \E id \in TransactionIDs :
         \/ \E muts \in MutationSets : PreparePeerSet(id, muts)
         \/ CommitPeerSet(id)
         \/ RollbackPeerSet(id)
         \/ FinalizePeerSet(id)
    \/ CommitDevice
    \/ \E k \in PublicKeys :
         \/ \E e \in AddrPorts \cup {NoAddr}, g \in 0 .. MaxGeneration :
              SetPeerEndpoint(k, e, g)
         \/ \E g \in 0 .. MaxGeneration : FinalizePeerEndpoint(k, g)
         \/ \E e \in AddrPorts : ReceivePacket(k, e)
    \/ \E p \in packets : AuthenticatedReceive(p)
    \/ \E e \in Reconnects : RestoreCollect(e)
    \/ \E r \in restoring : RestoreApply(r)
    \/ Close

Spec == Init /\ [][Next]_vars

-----------------------------------------------------------------------------
(* Properties *)

\* The leases that live release closures hold on endpoint e under a policy.
Held(e, policy) ==
    MapThenSumSet(LAMBDA k :
                    core.peers[k].obsolete[<<e, policy>>]
                    + IF /\ core.peers[k].selected = e
                         /\ core.peers[k].lease = policy THEN 1 ELSE 0,
                  DOMAIN core.peers)

\* No lease leaks and none is released early: the bind counts exactly the FEC
\* leases that runtimes can still release, and all of one endpoint agree on
\* the policy (endpoint_policy.go counts references, instance.go keeps the
\* release closures of selected and obsolete endpoints).
LeaseAccounting ==
    ~closed => \A e \in AddrPorts, policy \in FECPolicies :
        Held(e, policy) = IF core.fec[e].tag = policy THEN core.fec[e].refs
                          ELSE 0

\* The packets sent to a peer's selected endpoint are encoded with the peer's
\* own policy: the lease of the selected endpoint always carries the policy of
\* the runtime, through migrations, commits and rollbacks.
SelectedPolicy ==
    \A k \in DOMAIN core.peers :
        core.peers[k].selected # NoAddr =>
            /\ core.peers[k].lease = core.peers[k].fecPolicy
            /\ core.fec[core.peers[k].selected].tag = core.peers[k].fecPolicy

\* An obfuscation receive key is held once for every peer of the device and
\* for every addition of a prepared transaction, and for nobody else; closing
\* the core gives back all of them.
ReceiveKeyAccounting ==
    LET added == UNION {Of(core.txs[id].mutations, Add) :
                          id \in {id \in TransactionIDs :
                                    core.txs[id].state = "prepared"}}
        entitled == IF closed THEN {} ELSE DOMAIN core.device \cup added
    IN  Obfs => core.receiveKeys =
                    [k \in DOMAIN core.receiveKeys |-> IF k \in entitled THEN 1 ELSE 0]

\* The device is always at a state the transaction log explains: the
\* configured peers, or the committed projection of the only unfinished
\* transaction.  Refused, repeated and half-failed calls leave nothing behind.
DeviceExplained ==
    LET unfinished == {id \in TransactionIDs :
                         core.txs[id].state \in Unfinished}
        configured == [k \in DOMAIN core.cfg |-> Projected(core.cfg[k])]
    IN  ~closed =>
        /\ unfinished = {core.active} \ {NoTx}
        /\ SingleOwners(core.device)
        /\ core.device =
             IF \E id \in unfinished : core.txs[id].state = "committed"
             THEN CommittedProjection(configured,
                                      core.txs[core.active].mutations)
             ELSE configured
        /\ DOMAIN core.peers = DOMAIN core.device

\* Once no transaction is open, every peer runs the FEC policy that the
\* configuration gives it: a rolled-back transaction left no policy changed and
\* a finalized one left none unchanged.
PolicySettled ==
    core.active = NoTx /\ ~closed =>
        \A k \in DOMAIN core.peers :
            core.peers[k].fecPolicy = core.cfg[k].FECPolicy

\* Readiness is proved by a packet that was received after the present
\* endpoint selection: packets that were already in flight when the endpoint
\* was selected (or selected again) do not count.
FreshAuthentication ==
    \A k \in DOMAIN core.peers :
        core.peers[k].authenticated # 0 =>
            /\ core.peers[k].authenticated = core.peers[k].generation
            /\ witness[k] = installs[k]

=============================================================================
