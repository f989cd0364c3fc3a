------------------------- MODULE EndpointSupervisor -------------------------
(***************************************************************************)
(* internal/endpoint: the supervisor that resolves peer endpoints, pins an *)
(* outer route before it uses one, migrates peers between candidates       *)
(* (supervisor.go) and changes the supervised set as one participant of a  *)
(* reconciliation (peer_transaction.go).                                   *)
(*                                                                         *)
(* An operation holds opMu from its first step to its last, so op is the   *)
(* program counter and the locals of the one operation in progress.  Every *)
(* call to the core is a step of its own: the core also serves the         *)
(* reconciliation executor and the data path in between.                   *)
(*                                                                         *)
(* A peer's route lease always pins its active address, so the model keeps *)
(* the address only.  outer counts the leases the platform has granted.    *)
(***************************************************************************)
EXTENDS CoreInstance

CONSTANTS
    DNS,                \* DNS[text]: the addresses an Endpoint may resolve to
    Dynamic,            \* the Endpoint texts that are host names
    MaxPendingLeases,   \* maxPendingMigrationLeases
    ResponseMayBeLost,  \* a control call may fail after or before it is served
    RouteMayFail,       \* an outer-route command may fail
    DeadlineMayPass,    \* a transaction's context may expire between its calls
    MaxRefreshes        \* bound: DNS refreshes

ASSUME SupervisorAssumption ==
    /\ DNS \in [Endpoints \ {NoEndpoint} -> SUBSET AddrPorts \ {{}}]
    /\ Dynamic \subseteq Endpoints \ {NoEndpoint}
    /\ MaxPendingLeases \in Nat
    /\ MaxRefreshes \in Nat
    /\ {ResponseMayBeLost, RouteMayFail, DeadlineMayPass} \subseteq BOOLEAN

VARIABLES
    core,       \* the core, reached through its control socket
    sup,        \* peers, retired and extra leases, reservations
    outer,      \* outer[e]: leases granted for address e
    op,         \* the operation that holds opMu
    set,        \* the prepared peer set
    refreshes   \* refreshes begun

-----------------------------------------------------------------------------
(* Calls and leases *)

\* What a control call may look like to the caller: served and answered; or
\* failed, although it was served or before it was.
Call(result) ==
    {result} \cup IF ResponseMayBeLost
                  THEN {Refused(result.core), Refused(core)} ELSE {}

\* The call is not made because the context is done.
CallUnder(result) ==
    Call(result) \cup IF DeadlineMayPass THEN {Refused(core)} ELSE {}

None == [e \in AddrPorts |-> 0]
Grant(leases, e) == [leases EXCEPT ![e] = @ + 1]
Drop(leases, e) == [leases EXCEPT ![e] = @ - 1]
Total(leases) == MapThenSumSet(LAMBDA e : leases[e], AddrPorts)

\* retireLease: a lease that cannot be released is kept for a later attempt.
retireLease(s, o, e) ==
    {[sup |-> s, outer |-> Drop(o, e)]}
    \cup IF RouteMayFail
         THEN {[sup |-> [s EXCEPT !.retired = Grant(@, e)], outer |-> o]}
         ELSE {}

\* releaseRetiredLeases tries each one again.
releaseRetiredLeases(s, o) ==
    {[sup |-> [s EXCEPT !.retired = left],
      outer |-> [e \in AddrPorts |-> o[e] - (s.retired[e] - left[e])]] :
        left \in IF RouteMayFail
                 THEN {l \in [AddrPorts -> 0 .. Total(s.retired)] :
                         \A e \in AddrPorts : l[e] <= s.retired[e]}
                 ELSE {None}}

\* A set of leases is released one by one; those that fail are kept.
ReleaseSome(leases) == IF RouteMayFail THEN SUBSET leases ELSE {leases}

\* The peer was authenticated at this endpoint and generation: the condition
\* that WaitPeerReady polls for.
PeerReady(k, e, g) ==
    /\ k \in DOMAIN core.peers
    /\ core.peers[k].generation = g
    /\ core.peers[k].selected = e
    /\ core.peers[k].authenticated = g

PeerState(text) == [endpoint |-> text, active |-> NoAddr, generation |-> 0]

Idle == [pc |-> "idle", key |-> NoTx, todo |-> {}, cand |-> NoAddr,
         old |-> NoAddr, then |-> "none", failed |-> FALSE]

NoSet == [state |-> "none", id |-> NoTx, affected |-> {}, before |-> Empty,
          after |-> Empty, tr |-> Empty, keep |-> {}]

-----------------------------------------------------------------------------
(* Migration: refreshPeer and switchPeer *)

\* The part of refreshPeer up to its candidate loop.  A resolver error, or an answer
\* that still holds the active address, ends the refresh; a rotation goes on.
RefreshPeer(k, rotate) ==
    /\ op.pc = "idle"
    /\ refreshes < MaxRefreshes
    /\ k \in DOMAIN sup.peers \ sup.reserved
    /\ sup.peers[k].endpoint \in Dynamic
    /\ refreshes' = refreshes + 1
    /\ \E r \in releaseRetiredLeases(sup, outer) :
         sup' = r.sup /\ outer' = r.outer
    /\ \E found \in SUBSET DNS[sup.peers[k].endpoint] :
         op' = IF found = {} \/ (~rotate /\ sup.peers[k].active \in found)
               THEN Idle
               ELSE [Idle EXCEPT !.pc = "try", !.key = k, !.todo = found]
    /\ UNCHANGED <<core, set>>

\* The candidate loop ends: none is left, or the rest are backed off.
RefreshEnd ==
    /\ op.pc = "try"
    /\ op' = Idle
    /\ UNCHANGED <<core, sup, outer, set, refreshes>>

\* The next candidate's turn in the loop of refreshPeer.
NextCandidate == [op EXCEPT !.pc = "try", !.cand = NoAddr, !.old = NoAddr]

\* switchPeer up to SetPeerEndpoint, for an address that is not the active one now:
\* a failed switch may have adopted another.
Switch(e) ==
    LET k == op.key
        g == sup.peers[k].generation + 1
    IN  /\ op.pc = "try"
        /\ e \in op.todo /\ e # sup.peers[k].active
        /\ UNCHANGED <<set, refreshes>>
        /\ \/ /\ Total(sup.retired) + Total(sup.extra) >= MaxPendingLeases
              /\ op' = Idle
              /\ UNCHANGED <<core, sup, outer>>
           \/ /\ Total(sup.retired) + Total(sup.extra) < MaxPendingLeases
              /\ \E r \in Call(setPeerEndpoint(core, k, e, g)) :
                   /\ core' = r.core
                   /\ IF r.ok
                      THEN /\ outer' = Grant(outer, e)
                           /\ op' = [op EXCEPT !.pc = "wait", !.cand = e,
                                               !.todo = @ \ {e}]
                           /\ UNCHANGED sup
                      ELSE /\ \E l \in retireLease(sup, Grant(outer, e), e) :
                                sup' = l.sup /\ outer' = l.outer
                           /\ op' = [NextCandidate EXCEPT !.todo = @ \ {e}]
           \/ /\ RouteMayFail      \* AcquireEndpointRoute failed
              /\ op' = [op EXCEPT !.todo = @ \ {e}]
              /\ UNCHANGED <<core, sup, outer>>

\* WaitPeerReady succeeded: the candidate is adopted.
SwitchReady ==
    LET k == op.key
        g == sup.peers[k].generation + 1
    IN  /\ op.pc = "wait"
        /\ PeerReady(k, op.cand, g)
        /\ op' = [op EXCEPT !.pc = "finalize_new", !.old = sup.peers[k].active]
        /\ sup' = [sup EXCEPT !.peers[k].active = op.cand,
                              !.peers[k].generation = g]
        /\ UNCHANGED <<core, outer, set, refreshes>>

\* WaitPeerReady gave up, at any time: it races the authentication.
SwitchTimeout ==
    /\ op.pc = "wait"
    /\ op' = [op EXCEPT !.pc = "restore"]
    /\ UNCHANGED <<core, sup, outer, set, refreshes>>

\* An adopted candidate is finalized and the old route lease retired; if the
\* core does not confirm, the old lease is kept and the loop goes on.
SwitchFinalize ==
    LET k == op.key
    IN  /\ op.pc = "finalize_new"
        /\ UNCHANGED <<set, refreshes>>
        /\ \E r \in Call(finalizePeerEndpoint(core, k, sup.peers[k].generation)) :
             /\ core' = r.core
             /\ op' = IF r.ok THEN Idle ELSE NextCandidate
             /\ IF op.old = NoAddr THEN UNCHANGED <<sup, outer>>
                ELSE IF r.ok
                THEN \E l \in retireLease(sup, outer, op.old) :
                        sup' = l.sup /\ outer' = l.outer
                ELSE /\ sup' = [sup EXCEPT !.extra = Grant(@, op.old)]
                     /\ UNCHANGED outer

\* The candidate failed: the old endpoint is restored under a newer
\* generation.  If the core refuses, both leases are kept and the candidate is
\* adopted.
SwitchRestore ==
    LET k == op.key
        g == sup.peers[k].generation + 1
        old == sup.peers[k].active
    IN  /\ op.pc = "restore"
        /\ UNCHANGED <<outer, set, refreshes>>
        /\ \E r \in Call(IF old = NoAddr THEN Refused(core)
                        ELSE setPeerEndpoint(core, k, old, g + 1)) :
             /\ core' = r.core
             /\ IF r.ok
                THEN /\ sup' = [sup EXCEPT !.peers[k].generation = g + 1]
                     /\ op' = [op EXCEPT !.pc = "finalize_old"]
                ELSE /\ sup' = [sup EXCEPT
                                  !.extra = IF old = NoAddr THEN @
                                            ELSE Grant(@, old),
                                  !.peers[k].active = op.cand,
                                  !.peers[k].generation = g]
                     /\ op' = NextCandidate

SwitchFinalizeRestored ==
    LET k == op.key
    IN  /\ op.pc = "finalize_old"
        /\ UNCHANGED <<set, refreshes>>
        /\ \E r \in Call(finalizePeerEndpoint(core, k, sup.peers[k].generation)) :
             /\ core' = r.core
             /\ op' = NextCandidate
             /\ IF r.ok
                THEN \E l \in retireLease(sup, outer, op.cand) :
                        sup' = l.sup /\ outer' = l.outer
                ELSE /\ sup' = [sup EXCEPT !.extra = Grant(@, op.cand)]
                     /\ UNCHANGED outer

\* RefreshRoutes: retired leases are tried again.  Re-evaluating a lease's path
\* and redialling over it leave the endpoint and the lease as they are.
RefreshRoutes ==
    /\ op.pc = "idle"
    /\ sup.retired # None
    /\ \E r \in releaseRetiredLeases(sup, outer) :
         sup' = r.sup /\ outer' = r.outer
    /\ UNCHANGED <<core, op, set, refreshes>>

Migration ==
    \/ RefreshRoutes
    \/ \E k \in PublicKeys, rotate \in BOOLEAN : RefreshPeer(k, rotate)
    \/ RefreshEnd
    \/ \E e \in AddrPorts : Switch(e)
    \/ SwitchReady
    \/ SwitchTimeout
    \/ SwitchFinalize
    \/ SwitchRestore
    \/ SwitchFinalizeRestored

-----------------------------------------------------------------------------
(* The peer set as a transaction *)

\* preparedEndpointTransition.  cands are the candidates whose lease is held,
\* tried those the install loop has been through, chosen the active candidate.
NewTransition(g) ==
    [cands |-> {}, tried |-> {}, chosen |-> NoAddr, generation |-> g,
     installed |-> FALSE, restored |-> FALSE, finalized |-> FALSE]

changedEndpointPeerKeys(current, texts) ==
    {k \in DOMAIN texts : k \notin DOMAIN current
                          \/ current[k].endpoint # texts[k]}
    \cup (DOMAIN current \ DOMAIN texts)

\* PreparePeerSet reserves the affected peers and then prepares one after the
\* other.  texts gives the Endpoint of every desired peer.
PreparePeerEndpoints(id, texts) ==
    LET affected == changedEndpointPeerKeys(sup.peers, texts)
        old == affected \cap DOMAIN sup.peers
    IN  /\ op.pc = "idle"
        /\ UNCHANGED <<core, outer, refreshes>>
        /\ IF sup.activeSet # NoTx \/ affected \cap sup.reserved # {}
           THEN /\ op' = [Idle EXCEPT !.pc = "done", !.failed = TRUE,
                                      !.then = "refused"]
                /\ UNCHANGED <<sup, set>>
           ELSE /\ op' = [Idle EXCEPT !.pc = "prepare", !.todo = affected]
                /\ sup' = [sup EXCEPT !.activeSet = id,
                                      !.reserved = @ \cup affected]
                /\ set' = [state |-> "prepared", id |-> id,
                           affected |-> affected,
                           before |-> [k \in old |-> sup.peers[k]],
                           after |-> [k \in affected \cap DOMAIN texts |->
                                        PeerState(texts[k])],
                           tr |-> [k \in affected |->
                                     NewTransition(IF k \in old
                                                   THEN sup.peers[k].generation
                                                   ELSE 0)],
                           keep |-> DOMAIN texts \ affected]

Returned(failed) == [Idle EXCEPT !.pc = "done", !.failed = failed]

\* The next affected peer: nothing to do for a removed one or an addition
\* without Endpoint; a dropped Endpoint is cleared in the core; a new one is
\* resolved and its candidates' routes are pinned.
PrepareKey(k) ==
    LET rest == [op EXCEPT !.todo = @ \ {k}]
        new == IF k \in DOMAIN set.after THEN set.after[k].endpoint ELSE NoEndpoint
        g == set.tr[k].generation + 1
    IN  /\ op.pc = "prepare"
        /\ k \in op.todo
        /\ UNCHANGED <<sup, refreshes>>
        /\ \/ /\ new = NoEndpoint
              /\ k \notin DOMAIN set.after \/ k \notin DOMAIN set.before
              /\ op' = rest
              /\ UNCHANGED <<core, outer, set>>
           \/ /\ new = NoEndpoint
              /\ k \in DOMAIN set.after \cap DOMAIN set.before
              /\ \E r \in CallUnder(clearPeerEndpoint(core, k, g)) :
                   /\ core' = r.core
                   /\ op' = IF r.ok THEN rest ELSE Returned(TRUE)
                   /\ set' = IF r.ok
                             THEN [set EXCEPT !.tr[k].generation = g,
                                              !.tr[k].installed = TRUE,
                                              !.after[k].generation = g]
                             ELSE set
              /\ UNCHANGED outer
           \/ /\ new # NoEndpoint
              /\ \E pinned \in SUBSET DNS[new] :
                   /\ outer' = [e \in AddrPorts |->
                                  IF e \in pinned THEN outer[e] + 1 ELSE outer[e]]
                   /\ set' = [set EXCEPT !.tr[k].cands = pinned]
                   /\ op' = IF pinned = {} THEN Returned(TRUE)
                            ELSE IF k \in DOMAIN set.before
                            THEN [rest EXCEPT !.pc = "install", !.key = k,
                                              !.then = "prepare"]
                            ELSE rest
              /\ UNCHANGED core

PrepareEnd ==
    /\ op.pc = "prepare"
    /\ op.todo = {}
    /\ op' = Returned(FALSE)
    /\ UNCHANGED <<core, sup, outer, set, refreshes>>

\* installReadyCandidate: SetPeerEndpoint for the next candidate.
InstallCandidate(e) ==
    LET k == op.key
        g == set.tr[k].generation + 1
    IN  /\ op.pc = "install"
        /\ e \in set.tr[k].cands \ set.tr[k].tried
        /\ \E r \in CallUnder(setPeerEndpoint(core, k, e, g)) :
             /\ core' = r.core
             /\ op' = IF r.ok THEN [op EXCEPT !.pc = "install_wait", !.cand = e]
                      ELSE op
             /\ set' = IF r.ok
                       THEN [set EXCEPT !.tr[k].generation = g,
                                        !.tr[k].installed = TRUE,
                                        !.tr[k].tried = @ \cup {e}]
                       ELSE [set EXCEPT !.tr[k].tried = @ \cup {e}]
        /\ UNCHANGED <<sup, outer, refreshes>>

InstallExhausted ==
    /\ op.pc = "install"
    /\ set.tr[op.key].cands \subseteq set.tr[op.key].tried
    /\ op' = Returned(TRUE)
    /\ UNCHANGED <<core, sup, outer, set, refreshes>>

\* Mutant: the candidate is chosen without waiting for authentication.
InstallReadyAtOnce ==
    LET k == op.key
    IN  /\ op.pc = "install_wait"
        /\ set' = [set EXCEPT !.tr[k].chosen = op.cand,
                              !.after[k].active = op.cand,
                              !.after[k].generation = set.tr[k].generation]
        /\ op' = [op EXCEPT !.pc = op.then, !.key = NoTx, !.cand = NoAddr]
        /\ UNCHANGED <<core, sup, outer, refreshes>>

InstallReady ==
    LET k == op.key
    IN  /\ op.pc = "install_wait"
        /\ PeerReady(k, op.cand, set.tr[k].generation)
        /\ set' = [set EXCEPT !.tr[k].chosen = op.cand,
                              !.after[k].active = op.cand,
                              !.after[k].generation = set.tr[k].generation]
        /\ op' = [op EXCEPT !.pc = op.then, !.key = NoTx, !.cand = NoAddr]
        /\ UNCHANGED <<core, sup, outer, refreshes>>

\* Mutant: the wait for readiness has no timeout.
InstallTimeoutNever ==
    /\ op.pc = "install_wait"
    /\ op.key \notin set.affected
    /\ UNCHANGED <<core, sup, outer, op, set, refreshes>>

InstallTimeout ==
    /\ op.pc = "install_wait"
    /\ op' = [op EXCEPT !.pc = "install_restore"]
    /\ UNCHANGED <<core, sup, outer, set, refreshes>>

\* restoreBefore: the endpoint the peer had, or none, under a newer generation.
restoreBefore(k, g) ==
    setPeerEndpoint(core, k, IF k \in DOMAIN set.before THEN set.before[k].active
                             ELSE NoAddr, g)

\* Mutant: the restored generation is not recorded.
SetRestoredStale(k, g) == [set EXCEPT !.tr[k].generation = g]

SetRestored(k, g) ==
    IF k \in DOMAIN set.before
    THEN [set EXCEPT !.tr[k].generation = g, !.before[k].generation = g]
    ELSE [set EXCEPT !.tr[k].generation = g]

\* Between two candidates the old endpoint is restored ...
InstallRestore ==
    LET k == op.key
        g == set.tr[k].generation + 1
    IN  /\ op.pc = "install_restore"
        /\ \E r \in CallUnder(restoreBefore(k, g)) :
             /\ core' = r.core
             /\ set' = IF r.ok THEN SetRestored(k, g) ELSE set
             /\ op' = IF r.ok THEN [op EXCEPT !.pc = "install_finalize"]
                      ELSE Returned(TRUE)
        /\ UNCHANGED <<sup, outer, refreshes>>

\* ... and confirmed before the failed candidate's route is released.
InstallFinalize ==
    LET k == op.key
    IN  /\ op.pc = "install_finalize"
        /\ UNCHANGED <<sup, refreshes>>
        /\ \E r \in CallUnder(finalizePeerEndpoint(core, k, set.tr[k].generation)) :
             /\ core' = r.core
             /\ \/ /\ r.ok
                   /\ outer' = Drop(outer, op.cand)
                   /\ set' = [set EXCEPT !.tr[k].cands = @ \ {op.cand},
                                         !.tr[k].installed = FALSE]
                   /\ op' = [op EXCEPT !.pc = "install", !.cand = NoAddr]
                \/ /\ ~r.ok \/ RouteMayFail
                   /\ op' = Returned(TRUE)
                   /\ UNCHANGED <<outer, set>>

\* Commit installs the added peers' candidates and then publishes the set.
CommitPeerEndpoints ==
    /\ op.pc = "idle"
    /\ op' = [Idle EXCEPT !.pc = "commit",
                          !.todo = {k \in DOMAIN set.after \ DOMAIN set.before :
                                      set.after[k].endpoint # NoEndpoint}]
    /\ UNCHANGED <<core, sup, outer, set, refreshes>>

CommitKey(k) ==
    /\ op.pc = "commit"
    /\ k \in op.todo
    /\ op' = [op EXCEPT !.pc = "install", !.key = k, !.then = "commit",
                        !.todo = @ \ {k}]
    /\ UNCHANGED <<core, sup, outer, set, refreshes>>

\* Mutant: the unaffected peers are published without their generation.
PublishReset(projection, kept) ==
    [k \in DOMAIN projection \cup kept |->
        IF k \in DOMAIN projection THEN projection[k]
        ELSE [sup.peers[k] EXCEPT !.generation = 0]]

\* The supervised peers become the affected ones of a projection and the
\* unaffected ones as they are now: the code shares their live state.
Publish(projection, kept) ==
    [k \in DOMAIN projection \cup kept |->
        IF k \in DOMAIN projection THEN projection[k] ELSE sup.peers[k]]

CommitEnd ==
    /\ op.pc = "commit"
    /\ op.todo = {}
    /\ sup' = [sup EXCEPT !.peers = Publish(set.after, set.keep)]
    /\ set' = [set EXCEPT !.state = "committed"]
    /\ op' = Returned(FALSE)
    /\ UNCHANGED <<core, outer, refreshes>>

Installed == {k \in set.affected : set.tr[k].installed}

RollbackPeerEndpoints ==
    /\ op.pc = "idle"
    /\ op' = [Idle EXCEPT !.pc = "rollback", !.todo = Installed]
    /\ UNCHANGED <<core, sup, outer, set, refreshes>>

\* Each installed peer gets its old endpoint back; a failure is noted and the
\* next peer is tried.
RollbackRestore(k) ==
    LET g == set.tr[k].generation + 1
    IN  /\ op.pc = "rollback"
        /\ k \in op.todo
        /\ ~set.tr[k].restored
        /\ \E r \in Call(restoreBefore(k, g)) :
             /\ core' = r.core
             /\ set' = IF r.ok THEN [SetRestored(k, g) EXCEPT !.tr[k].restored = TRUE]
                       ELSE set
             /\ op' = IF r.ok THEN op
                      ELSE [op EXCEPT !.todo = @ \ {k}, !.failed = TRUE]
        /\ UNCHANGED <<sup, outer, refreshes>>

RollbackFinalize(k) ==
    /\ op.pc = "rollback"
    /\ k \in op.todo
    /\ set.tr[k].restored
    /\ \E r \in Call(finalizePeerEndpoint(core, k, set.tr[k].generation)) :
         /\ core' = r.core
         /\ set' = [set EXCEPT !.tr[k].finalized = @ \/ r.ok]
         /\ op' = [op EXCEPT !.todo = @ \ {k}, !.failed = @ \/ ~r.ok]
    /\ UNCHANGED <<sup, outer, refreshes>>

\* The candidate leases of the transaction: peer, address and kind.
CandidateLeases ==
    {<<k, e, "candidate">> : <<k, e>> \in {l \in set.affected \X AddrPorts :
                                             l[2] \in set.tr[l[1]].cands}}

\* Mutant: a released candidate's lease stays on record.
WithoutCandidatesKept(gone) == set

WithoutCandidates(gone) ==
    [set EXCEPT !.tr = [k \in DOMAIN @ |->
        [@[k] EXCEPT !.cands = {e \in @ : <<k, e, "candidate">> \notin gone}]]]

OuterWithout(gone) ==
    [e \in AddrPorts |-> outer[e] - Cardinality({l \in gone : l[2] = e})]

\* Mutant: activePeerSet is not reset.
UnreservedActive(s) == [s EXCEPT !.reserved = @ \ set.affected]

\* releaseReservations.
Unreserved(s) ==
    [s EXCEPT !.reserved = @ \ set.affected,
              !.activeSet = IF @ = set.id THEN NoTx ELSE @]

RollbackPublish == Publish(set.before, set.keep)

\* When all are restored the old set is published again and the candidates'
\* leases are released.
RollbackEnd ==
    /\ op.pc = "rollback"
    /\ op.todo = {}
    /\ UNCHANGED <<core, refreshes>>
    /\ IF op.failed
       THEN op' = Returned(TRUE) /\ UNCHANGED <<sup, outer, set>>
       ELSE \E gone \in ReleaseSome(CandidateLeases) :
              LET all == gone = CandidateLeases
                  s == [sup EXCEPT !.peers = RollbackPublish]
              IN  /\ outer' = OuterWithout(gone)
                  /\ set' = [WithoutCandidates(gone) EXCEPT
                               !.state = IF all THEN "rolled_back" ELSE @]
                  /\ sup' = IF all THEN Unreserved(s) ELSE s
                  /\ op' = Returned(~all)

PeerSetSteps ==
    \/ \E k \in op.todo : \/ PrepareKey(k)
                          \/ CommitKey(k)
                          \/ RollbackRestore(k)
                          \/ RollbackFinalize(k)
    \/ \E e \in AddrPorts : InstallCandidate(e)
    \/ PrepareEnd \/ InstallExhausted \/ InstallReady \/ InstallTimeout
    \/ InstallRestore \/ InstallFinalize \/ CommitEnd \/ RollbackEnd

-----------------------------------------------------------------------------
(* Finalize of the peer set does not take opMu: its steps belong to the     *)
(* caller, which passes the peers it has not finalized yet.                 *)

FinalizeKey(k, r) ==
    /\ r \in Call(finalizePeerEndpoint(core, k, set.tr[k].generation))
    /\ core' = r.core
    /\ set' = [set EXCEPT !.tr[k].finalized = @ \/ r.ok]
    /\ UNCHANGED <<sup, outer, op, refreshes>>

\* Mutant: the chosen candidate's lease is taken for obsolete too.
ObsoleteChosenToo ==
    CandidateLeases
    \cup {<<k, set.before[k].active, "old">> :
            k \in {k \in DOMAIN set.before : set.before[k].active # NoAddr}}

\* The leases of the previous endpoints, and all candidates but the chosen.
ObsoleteLeases ==
    {l \in CandidateLeases : set.tr[l[1]].chosen # l[2]}
    \cup {<<k, set.before[k].active, "old">> :
            k \in {k \in DOMAIN set.before : set.before[k].active # NoAddr}}

FinalizeLeases(gone) ==
    LET all == gone = ObsoleteLeases
    IN  /\ gone \in ReleaseSome(ObsoleteLeases)
        /\ outer' = OuterWithout(gone)
        /\ set' = [WithoutCandidates(gone) EXCEPT
                     !.before = [k \in DOMAIN @ |->
                        IF <<k, @[k].active, "old">> \in gone
                        THEN [@[k] EXCEPT !.active = NoAddr] ELSE @[k]],
                     !.state = IF all THEN "finalized" ELSE @]
        /\ sup' = IF all THEN Unreserved(sup) ELSE sup
        /\ UNCHANGED <<core, op, refreshes>>

-----------------------------------------------------------------------------
(* The data path and the start *)

\* A packet of peer k arrives from its selected endpoint and is authenticated.
\* Packets that were in flight before the selection are CoreControl's subject.
Authenticate(k) ==
    /\ k \in DOMAIN core.peers
    /\ core.peers[k].selected # NoAddr
    /\ core.peers[k].authenticated # core.peers[k].generation
    /\ core' = recordAuthenticatedReceive(core, k, core.peers[k].selected, 1)
    /\ UNCHANGED <<sup, outer, op, set, refreshes>>

\* After Initialize and Activate: every configured endpoint is installed at
\* generation 1 behind a route lease.
InitSupervisor(peers, address) ==
    /\ core = newInstance(peers, address)
    /\ sup = [peers |-> [k \in DOMAIN peers |->
                 [endpoint |-> peers[k].Endpoint,
                  active |-> IF k \in DOMAIN address THEN address[k] ELSE NoAddr,
                  generation |-> IF k \in DOMAIN address THEN 1 ELSE 0]],
              retired |-> None, extra |-> None, reserved |-> {},
              activeSet |-> NoTx]
    /\ outer = [e \in AddrPorts |->
                  Cardinality({k \in DOMAIN address : address[k] = e})]
    /\ op = Idle
    /\ set = NoSet
    /\ refreshes = 0
=============================================================================
