---------------------------- MODULE CoreInstance ----------------------------
(***************************************************************************)
(* The control handlers of the wg-quic core: internal/core/instance.go and *)
(* peer_transaction.go, with the parts of the bind (endpoint_policy.go)    *)
(* and of the WireGuard device (device/peer_transaction.go) they change.   *)
(*                                                                         *)
(* The whole core is one record, and a handler is an operator that maps    *)
(* the record and the request to [ok, core], so that the supervisor's      *)
(* modules can call it.  core.fec and core.assoc are the bind's tables of  *)
(* FEC-policy and obfuscation-key leases by endpoint.  A release closure   *)
(* is represented by the policy it was made for: peer.lease for the        *)
(* selected endpoint, peer.obsolete[<<e, p>>] for the number retained for  *)
(* endpoint e under policy p.                                              *)
(***************************************************************************)
EXTENDS Diff, FiniteSetsExt, Sequences

CONSTANTS
    AddrPorts,              \* numeric endpoints
    NoAddr,
    TransactionIDs,
    NoTx,                   \* the empty string held by activePeerTransaction
    MaxPeers,               \* the device's limit
    Obfs,                   \* obfuscation is on, so peers have keys
    RetainedTransactions    \* retainedTransactions of the trim

ASSUME CoreAssumption ==
    /\ 0 \in Keepalives
    /\ NoAddr \notin AddrPorts
    /\ NoTx \notin TransactionIDs
    /\ MaxPeers \in Nat
    /\ Obfs \in BOOLEAN
    /\ RetainedTransactions \in Nat \ {0}

Empty == [k \in {} |-> k]

Refused(c) == [ok |-> FALSE, core |-> c]
Done(c) == [ok |-> TRUE, core |-> c]

-----------------------------------------------------------------------------
(* The bind's lease tables: a tag (policy or key owner) and its references *)

NoTag == "none"
NoLease == [tag |-> NoTag, refs |-> 0]

CanAcquire(table, e, tag) == table[e].refs = 0 \/ table[e].tag = tag

Acquire(table, e, tag) ==
    [table EXCEPT ![e] = [tag |-> tag, refs |-> @.refs + 1]]

\* n release closures for e and tag are called: those of another tag do
\* nothing, and the entry is deleted with its last reference.
Release(table, e, tag, n) ==
    IF table[e].tag # tag THEN table
    ELSE [table EXCEPT ![e] = IF @.refs <= n THEN NoLease
                              ELSE [@ EXCEPT !.refs = @ - n]]

\* ReplaceEndpointFECPolicy accepts the sole lease of the expected policy.
Replaceable(table, e, old) == table[e] = [tag |-> old, refs |-> 1]

Leases == AddrPorts \X FECPolicies
NoObsolete == [l \in Leases |-> 0]

\* The retained references of one peer to endpoint e, whatever the policy.
Retained(p, e) ==
    MapThenSumSet(LAMBDA policy : p.obsolete[<<e, policy>>], FECPolicies)

\* Every obsoleteEndpoints resource of peer k is released.
ReleaseObsolete(c, k) ==
    LET p == c.peers[k]
    IN  [c EXCEPT
          !.fec = [e \in AddrPorts |->
                     IF @[e].refs = 0 THEN @[e]
                     ELSE Release(@, e, @[e].tag, p.obsolete[<<e, @[e].tag>>])[e]],
          !.assoc = IF Obfs
                    THEN [e \in AddrPorts |-> Release(@, e, k, Retained(p, e))[e]]
                    ELSE @,
          !.peers[k].obsolete = NoObsolete]

\* AcquireReceiveKey and its release, for the keys of some peers.
AcquireReceiveKeys(held, ks) ==
    [k \in PublicKeys |-> IF Obfs /\ k \in ks THEN held[k] + 1 ELSE held[k]]

ReleaseReceiveKeys(held, ks) ==
    [k \in PublicKeys |-> IF Obfs /\ k \in ks THEN held[k] - 1 ELSE held[k]]

-----------------------------------------------------------------------------
(* Peer endpoints *)

\* A peerRuntime.  authenticated is AuthenticatedGeneration; the endpoint it
\* refers to is always the selected one.
NewRuntime(policy) ==
    [fecPolicy |-> policy, selected |-> NoAddr, lease |-> NoTag,
     generation |-> 0, authenticated |-> 0, activation |-> 0,
     obsolete |-> NoObsolete]

\* retainPeerEndpointResourcesLocked.
retain(p) ==
    IF p.selected = NoAddr THEN p.obsolete
    ELSE [p.obsolete EXCEPT ![<<p.selected, p.lease>>] = @ + 1]

\* The common end of install and clear: the new selection takes effect and
\* readiness starts over at the current receive sequence.
Select(c, k, e, lease, g) ==
    [c EXCEPT !.peers[k] =
                 [@ EXCEPT !.obsolete = retain(c.peers[k]), !.selected = e,
                           !.lease = lease, !.generation = g,
                           !.authenticated = 0, !.activation = c.sequence],
              !.wire[k] = e]

Stale(c, k, g) == g < c.peers[k].generation

clearPeerEndpoint(c, k, g) ==
    IF g = 0 \/ k \notin DOMAIN c.peers THEN Refused(c)
    ELSE IF Stale(c, k, g) THEN Refused(c)
    ELSE IF g = c.peers[k].generation
    THEN [ok |-> c.peers[k].selected = NoAddr, core |-> c]
    ELSE Done(Select(c, k, NoAddr, NoTag, g))

\* Mutant: the old endpoint's leases are forgotten instead of retained.
installForgetting(c, k, e, g) ==
    IF g = 0 \/ k \notin DOMAIN c.peers THEN Refused(c)
    ELSE IF Stale(c, k, g) THEN Refused(c)
    ELSE IF g = c.peers[k].generation
    THEN [ok |-> c.peers[k].selected = e, core |-> c]
    ELSE Done([Select([c EXCEPT !.fec = Acquire(@, e, c.peers[k].fecPolicy)],
                      k, e, c.peers[k].fecPolicy, g)
               EXCEPT !.peers[k].obsolete = c.peers[k].obsolete])

installPeerEndpoint(c, k, e, g) ==
    IF g = 0 \/ k \notin DOMAIN c.peers THEN Refused(c)
    ELSE IF Stale(c, k, g) THEN Refused(c)
    ELSE IF g = c.peers[k].generation
    THEN [ok |-> c.peers[k].selected = e, core |-> c]
    ELSE LET policy == c.peers[k].fecPolicy
         IN  IF \/ ~CanAcquire(c.fec, e, policy)
                \/ Obfs /\ ~CanAcquire(c.assoc, e, k)
             THEN Refused(c)
             ELSE Done(Select([c EXCEPT !.fec = Acquire(@, e, policy),
                                        !.assoc = IF Obfs THEN Acquire(@, e, k)
                                                  ELSE @],
                              k, e, policy, g))

setPeerEndpoint(c, k, e, g) ==
    IF e = NoAddr THEN clearPeerEndpoint(c, k, g)
    ELSE installPeerEndpoint(c, k, e, g)

finalizePeerEndpoint(c, k, g) ==
    IF g = 0 \/ k \notin DOMAIN c.peers THEN Refused(c)
    ELSE IF c.peers[k].generation # g THEN Refused(c)
    ELSE Done(ReleaseObsolete(c, k))

\* Mutant: the receive sequence of the packet is not compared.
recordAnyReceive(c, k, e, sequence) ==
    IF /\ k \in DOMAIN c.peers
       /\ c.peers[k].generation # 0
       /\ c.peers[k].selected = e
    THEN [c EXCEPT !.peers[k].authenticated = c.peers[k].generation]
    ELSE c

\* A packet of peer k from address e, numbered when it was received, has been
\* authenticated.
recordAuthenticatedReceive(c, k, e, sequence) ==
    IF /\ k \in DOMAIN c.peers
       /\ c.peers[k].generation # 0
       /\ c.peers[k].selected = e
       /\ sequence > c.peers[k].activation
    THEN [c EXCEPT !.peers[k].authenticated = c.peers[k].generation]
    ELSE c

\* releasePeerRuntimeLocked, and the peer leaves i.peers.
DropRuntime(c, k) ==
    LET p == c.peers[k]
        r == ReleaseObsolete(c, k)
    IN  [r EXCEPT
          !.fec = IF p.selected = NoAddr THEN @
                  ELSE Release(@, p.selected, p.lease, 1),
          !.assoc = IF p.selected = NoAddr \/ ~Obfs THEN @
                    ELSE Release(@, p.selected, k, 1),
          !.receiveKeys = ReleaseReceiveKeys(@, {k}),
          !.wire[k] = NoAddr,
          !.peers = [x \in DOMAIN @ \ {k} |-> @[x]]]

DropRuntimes(c, ks) ==
    FoldSet(LAMBDA k, d : DropRuntime(d, k), c, ks \cap DOMAIN c.peers)

-----------------------------------------------------------------------------
(* The device's peer projection and its prepared change *)

Add == "add"
Update == "update"
Remove == "remove"

Mutation == [op : {Add, Update, Remove}, peer : Peer]
Of(muts, op) == {k \in DOMAIN muts : muts[k].op = op}

Projected(peer) ==
    [AllowedIPs |-> peer.AllowedIPs,
     PersistentKeepalive |-> peer.PersistentKeepalive,
     PresharedKey |-> peer.PresharedKey]

\* The projection between Commit and Finalize: a removed peer is still there,
\* without traffic.
CommittedProjection(before, muts) ==
    [k \in DOMAIN before \cup DOMAIN muts |->
        IF k \notin DOMAIN muts THEN before[k]
        ELSE IF muts[k].op = Remove
        THEN [before[k] EXCEPT !.AllowedIPs = {}, !.PersistentKeepalive = 0]
        ELSE Projected(muts[k].peer)]

applyPeerProjection(before, muts) ==
    [k \in (DOMAIN before \cup DOMAIN muts) \ Of(muts, Remove) |->
        CommittedProjection(before, muts)[k]]

\* validateAllowedIPOwnership.
SingleOwners(projection) ==
    \A k1, k2 \in DOMAIN projection :
        k1 # k2 => projection[k1].AllowedIPs \cap projection[k2].AllowedIPs = {}

\* The checks of the device's PreparePeerSet.
Preparable(device, muts) ==
    /\ DOMAIN muts # {}
    /\ Of(muts, Add) \cap DOMAIN device = {}
    /\ Of(muts, Update) \cup Of(muts, Remove) \subseteq DOMAIN device
    /\ \A k \in Of(muts, Update) :
         muts[k].peer.PresharedKey = device[k].PresharedKey
    /\ Cardinality(DOMAIN applyPeerProjection(device, muts)) <= MaxPeers
    /\ SingleOwners(applyPeerProjection(device, muts))

\* Commit creates the added peers while the removed ones still exist.
Committable(device, tx) ==
    /\ device = tx.before
    /\ Cardinality(DOMAIN device \cup Of(tx.mutations, Add)) <= MaxPeers

-----------------------------------------------------------------------------
(* Peer-set transactions.  before is the device's snapshot; fecChanges maps *)
(* an updated peer to its old and new policy.                              *)

NoTransaction ==
    [state |-> "unknown", mutations |-> Empty, before |-> Empty,
     fecChanges |-> Empty, fecApplied |-> FALSE]

Unfinished == {"prepared", "committed"}

\* A finished transaction keeps its state and its fingerprint.
Finished(tx, state) ==
    [NoTransaction EXCEPT !.state = state, !.mutations = tx.mutations]

\* trimPeerTransactionsLocked drops the oldest records beyond the limit, up to
\* the first unfinished one.
trimPeerTransactionsLocked(c) ==
    LET excess == {i \in 1 .. Len(c.order) - RetainedTransactions :
                     \A j \in 1 .. i : c.txs[c.order[j]].state \notin Unfinished}
        n == Cardinality(excess)
        dropped == {c.order[i] : i \in 1 .. n}
    IN  [c EXCEPT !.order = SubSeq(@, n + 1, Len(@)),
                  !.txs = [id \in TransactionIDs |->
                             IF id \in dropped THEN NoTransaction ELSE @[id]]]

\* Mutant: a second transaction may be prepared while one is active.
preparePeerSetBusy(c, id, muts) ==
    IF c.txs[id].state # "unknown" \/ ~Preparable(c.device, muts)
    THEN Refused(c)
    ELSE Done([c EXCEPT !.txs[id] =
                          [NoTransaction EXCEPT !.state = "prepared",
                             !.mutations = muts, !.before = c.device],
                        !.order = Append(@, id), !.active = id,
                        !.receiveKeys = AcquireReceiveKeys(@, Of(muts, Add))])

preparePeerSet(c, id, muts) ==
    IF c.txs[id].state # "unknown"
    THEN [ok |-> c.txs[id].mutations = muts, core |-> c]
    ELSE IF c.active # NoTx \/ ~Preparable(c.device, muts)
    THEN Refused(c)
    ELSE LET changed == {k \in Of(muts, Update) \cap DOMAIN c.peers :
                           c.peers[k].fecPolicy # muts[k].peer.FECPolicy}
             tx == [state |-> "prepared", mutations |-> muts,
                    before |-> c.device,
                    fecChanges |->
                       [k \in changed |-> [before |-> c.peers[k].fecPolicy,
                                           after |-> muts[k].peer.FECPolicy]],
                    fecApplied |-> FALSE]
         IN  Done(trimPeerTransactionsLocked(
                    [c EXCEPT !.txs[id] = tx, !.order = Append(@, id),
                              !.active = id,
                              !.receiveKeys =
                                 AcquireReceiveKeys(@, Of(muts, Add))]))

\* The FEC policy of peer k can be moved from one policy to another: the
\* runtime is at the first, and its selected endpoint's lease, if any, is the
\* only one there.
PolicyMovable(c, k, from) ==
    /\ k \in DOMAIN c.peers
    /\ c.peers[k].fecPolicy = from
    /\ \/ c.peers[k].selected = NoAddr
       \/ Replaceable(c.fec, c.peers[k].selected, from)

Policies(changes, when) == [k \in DOMAIN changes |-> changes[k][when]]

MovePolicies(c, ks, to) ==
    LET at == {k \in ks : c.peers[k].selected # NoAddr}
        mover(e) == {k \in at : c.peers[k].selected = e}
    IN  [c EXCEPT
          !.fec = [e \in AddrPorts |->
                     IF mover(e) = {} THEN @[e]
                     ELSE [@[e] EXCEPT !.tag = to[CHOOSE k \in mover(e) : TRUE]]],
          !.peers = [k \in DOMAIN @ |->
                       IF k \notin ks THEN @[k]
                       ELSE [@[k] EXCEPT !.fecPolicy = to[k],
                                         !.lease = IF k \in at THEN to[k]
                                                   ELSE @]]]

\* Mutant: the policy changes in name only, the lease of the selected endpoint
\* is not replaced.
applyFECInName(c, id) ==
    LET changes == c.txs[id].fecChanges
    IN  Done([c EXCEPT !.txs[id].fecApplied = TRUE,
                       !.peers = [k \in DOMAIN @ |->
                          IF k \notin DOMAIN changes THEN @[k]
                          ELSE [@[k] EXCEPT !.fecPolicy = changes[k].after]]])

\* applyPeerFECChanges stops at the first change it cannot make and undoes the
\* ones before it.  The changes touch different leases (two peers at one
\* endpoint hold two references, which refuses both), so it is all or nothing.
applyPeerFECChanges(c, id) ==
    LET tx == c.txs[id]
        changes == tx.fecChanges
    IN  IF tx.fecApplied THEN Done(c)
        ELSE IF \A k \in DOMAIN changes : PolicyMovable(c, k, changes[k].before)
        THEN Done([MovePolicies(c, DOMAIN changes, Policies(changes, "after"))
                   EXCEPT !.txs[id].fecApplied = TRUE])
        ELSE Refused(c)

\* Mutant: a policy that cannot be restored is passed over.
rollbackFECPassing(c, id) ==
    LET changes == c.txs[id].fecChanges
        movable == {k \in DOMAIN changes : PolicyMovable(c, k, changes[k].after)}
    IN  Done([MovePolicies(c, movable, Policies(changes, "before"))
              EXCEPT !.txs[id].fecApplied = FALSE])

\* rollbackPeerFECChanges restores what it can; fecApplied is reset only when
\* that was everything.
rollbackPeerFECChanges(c, id) ==
    LET changes == c.txs[id].fecChanges
        movable == {k \in DOMAIN changes : PolicyMovable(c, k, changes[k].after)}
        moved == MovePolicies(c, movable, Policies(changes, "before"))
    IN  IF ~c.txs[id].fecApplied THEN Done(c)
        ELSE IF movable = DOMAIN changes
        THEN Done([moved EXCEPT !.txs[id].fecApplied = FALSE])
        ELSE Refused(moved)

\* commitPeerSet holds peerTransactionMu throughout and endpointMu only while
\* it applies the FEC changes, so an endpoint handler may run in between:
\* committing names the transaction whose commit has not returned.
commitPeerSet(c, id) ==
    LET tx == c.txs[id]
        fec == applyPeerFECChanges(c, id)
    IN  IF tx.state # "prepared"
        THEN [ok |-> tx.state \in {"committed", "finalized"}, core |-> c]
        ELSE IF ~fec.ok THEN Refused(c)
        ELSE Done([fec.core EXCEPT !.committing = id])

\* The second half: the device commits and the added peers get runtimes, or
\* the device refuses and the FEC changes are undone.
commitDevice(c, id) ==
    LET tx == c.txs[id]
        added == Of(tx.mutations, Add)
    IN  IF Committable(c.device, tx)
        THEN Done([c EXCEPT
               !.committing = NoTx,
               !.txs[id].state = "committed",
               !.device = CommittedProjection(@, tx.mutations),
               !.peers = [k \in DOMAIN @ \cup added |->
                            IF k \in added
                            THEN NewRuntime(tx.mutations[k].peer.FECPolicy)
                            ELSE @[k]]])
        ELSE Refused([rollbackPeerFECChanges(c, id).core
                      EXCEPT !.committing = NoTx])

\* Mutant: the receive keys of prepared additions are not released.
ReleaseAdditionsNever(c, tx) == c

\* releasePreparedAdditions.
ReleasePreparedAdditions(c, tx) ==
    [c EXCEPT !.receiveKeys = ReleaseReceiveKeys(@, Of(tx.mutations, Add))]

rollbackPeerSet(c, id) ==
    LET tx == c.txs[id]
        fec == rollbackPeerFECChanges(c, id)
        restored ==
            IF tx.state = "prepared" THEN ReleasePreparedAdditions(fec.core, tx)
            ELSE DropRuntimes([fec.core EXCEPT !.device = tx.before],
                              Of(tx.mutations, Add))
    IN  IF tx.state \notin Unfinished
        THEN [ok |-> tx.state = "rolled_back", core |-> c]
        ELSE IF ~fec.ok THEN fec
        ELSE IF /\ tx.state = "committed"
                /\ c.device # CommittedProjection(tx.before, tx.mutations)
        THEN Refused(fec.core)
        ELSE Done([restored EXCEPT !.txs[id] = Finished(tx, "rolled_back"),
                                   !.active = IF @ = id THEN NoTx ELSE @])

applyCommittedPeerConfig(cfg, muts) ==
    [k \in (DOMAIN cfg \cup DOMAIN muts) \ Of(muts, Remove) |->
        IF k \in DOMAIN muts THEN muts[k].peer ELSE cfg[k]]

finalizePeerSet(c, id) ==
    LET tx == c.txs[id]
        removed == Of(tx.mutations, Remove)
    IN  IF tx.state # "committed"
        THEN [ok |-> tx.state = "finalized", core |-> c]
        ELSE IF c.device # CommittedProjection(tx.before, tx.mutations)
        THEN Refused(c)
        ELSE Done([DropRuntimes([c EXCEPT !.device =
                                    [k \in DOMAIN @ \ removed |-> @[k]]],
                                removed)
                   EXCEPT !.cfg = applyCommittedPeerConfig(@, tx.mutations),
                          !.txs[id] = Finished(tx, "finalized"),
                          !.active = IF @ = id THEN NoTx ELSE @])

-----------------------------------------------------------------------------
(* Construction and shutdown *)

\* newInstance for the peers of a configuration; numeric gives the address of
\* the peers whose Endpoint is installed at once (none under the supervisor,
\* which strips them).
newInstance(peers, numeric) ==
    FoldSet(LAMBDA k, c : installPeerEndpoint(c, k, numeric[k], 1).core,
            [peers |-> [k \in DOMAIN peers |-> NewRuntime(peers[k].FECPolicy)],
             device |-> [k \in DOMAIN peers |-> Projected(peers[k])],
             cfg |-> peers,
             wire |-> [k \in PublicKeys |-> NoAddr],
             fec |-> [e \in AddrPorts |-> NoLease],
             assoc |-> [e \in AddrPorts |-> NoLease],
             receiveKeys |->
                AcquireReceiveKeys([k \in PublicKeys |-> 0], DOMAIN peers),
             sequence |-> 0,
             txs |-> [id \in TransactionIDs |-> NoTransaction],
             order |-> << >>, active |-> NoTx, committing |-> NoTx],
            DOMAIN numeric)

\* Close: prepared transactions are rolled back and every runtime released.
closeInstance(c) ==
    LET open == {id \in TransactionIDs : c.txs[id].state = "prepared"}
        rolled == FoldSet(LAMBDA id, d :
                            [ReleasePreparedAdditions(d, c.txs[id])
                             EXCEPT !.txs[id] = Finished(@, "rolled_back")],
                          c, open)
    IN  DropRuntimes(rolled, DOMAIN c.peers)
=============================================================================
