------------------------- MODULE ReconcileExecutor --------------------------
(***************************************************************************)
(* internal/quick/reconcile_executor.go: a reconciliation as a transaction *)
(* over three participants, the inner host routes (PeerRoutes), the core's *)
(* peer set (CoreInstance) and the supervised endpoints                    *)
(* (EndpointSupervisor), while peers authenticate and migrate.             *)
(*                                                                         *)
(* Of the coordinator, a module of its own, only admission and publication *)
(* are kept: one transaction at a time, from the published configuration   *)
(* to another.                                                             *)
(***************************************************************************)
EXTENDS EndpointSupervisor, PeerRoutes

CONSTANTS
    InitialConfig,      \* what the interface was started with
    InitialAddress,     \* the numeric endpoints Initialize selected
    Desireds,           \* the configurations that are submitted
    CommandMayFail,     \* an inner-route command may fail
    MaxTransactions     \* bound: transactions accepted

ASSUME ExecutorAssumption ==
    /\ InitialConfig \in Config
    /\ Desireds \subseteq Config
    /\ CommandMayFail \in BOOLEAN
    /\ MaxTransactions \in Nat

VARIABLES
    ex,     \* the program counter and locals of Execute
    job,    \* the cleanup job: run by Execute first, then by cleanupLoop
    inner,  \* the inner routes installed on the host
    coord   \* the coordinator: current, last result, IDs seen, transactions

vars == <<core, sup, outer, op, set, refreshes, ex, job, inner, coord>>
supervisor == <<sup, outer, op, set, refreshes>>

NoExecution == [pc |-> "idle", id |-> NoTx, desired |-> InitialConfig,
                lease |-> NoRoutes, committed |-> FALSE,
                failed |-> FALSE]

NoJob == [pc |-> "none", id |-> NoTx, todo |-> {}, failed |-> FALSE,
          lease |-> NoRoutes, endpointsDone |-> FALSE, coreDone |-> FALSE,
          routesDone |-> FALSE]

Init ==
    /\ InitSupervisor(InitialConfig.Peers, InitialAddress)
    /\ ex = NoExecution
    /\ job = NoJob
    /\ inner = OwnedPrefixes(InitialConfig.Peers)
    /\ coord = [current |-> InitialConfig, last |-> "none", submitted |-> {},
                accepted |-> 0, degraded |-> FALSE]

At(pc) == ex.pc = pc
Goto(pc) == ex' = [ex EXCEPT !.pc = pc]

\* Execute returns: the coordinator publishes a committed configuration.
Result(state) ==
    /\ ex' = NoExecution
    /\ coord' = [coord EXCEPT !.last = state,
                              !.current = IF state = "committed" THEN ex.desired
                                          ELSE @,
                              !.degraded = @ \/ state = "degraded"]

rollbackResult(failed) == Result(IF failed THEN "degraded" ELSE "rolled_back")

controlPeerMutations(current, desired) ==
    LET diff == Compare(current, desired)
        mutation(k) ==
            IF k \in diff.Removed THEN [op |-> Remove, peer |-> current.Peers[k]]
            ELSE [op |-> IF k \in diff.Added THEN Add ELSE Update,
                  peer |-> desired.Peers[k]]
    IN  [k \in diff.Added \cup diff.Updated \cup diff.Removed |-> mutation(k)]

EndpointTexts(cfg) == [k \in DOMAIN cfg.Peers |-> cfg.Peers[k].Endpoint]

-----------------------------------------------------------------------------
(* Execute *)

\* A request is admitted and the routes are prepared, which runs no command.  Its
\* ID was not used before: the core remembers IDs longer than the coordinator may.
Execute(id, desired) ==
    LET diff == Compare(coord.current, desired)
        routes == PrepareRoutes(coord.current.Interface, diff.RouteAdditions,
                                diff.RouteRemovals)
    IN  /\ At("idle")
        /\ coord.accepted < MaxTransactions
        /\ id \notin coord.submitted
        /\ Changed(diff)
        /\ ~RestartRequired(diff)
        /\ coord' = [coord EXCEPT !.accepted = @ + 1,
                                  !.submitted = @ \cup {id},
                                  !.last = IF routes.ok THEN @ ELSE "rolled_back"]
        /\ ex' = IF routes.ok
                 THEN [NoExecution EXCEPT !.pc = "prepare_core", !.id = id,
                                          !.desired = desired,
                                          !.lease = routes.lease]
                 ELSE NoExecution
        /\ UNCHANGED <<core, supervisor, job, inner>>

PrepareCore ==
    /\ At("prepare_core")
    /\ core.committing = NoTx
    /\ \E r \in Call(preparePeerSet(core, ex.id,
                        controlPeerMutations(coord.current, ex.desired))) :
         /\ core' = r.core
         /\ Goto(IF r.ok THEN "prepare_endpoints" ELSE "undo_removals")
    /\ UNCHANGED <<supervisor, job, inner, coord>>

PrepareEndpoints ==
    /\ At("prepare_endpoints")
    /\ PreparePeerEndpoints(ex.id, EndpointTexts(ex.desired))
    /\ Goto("preparing_endpoints")
    /\ UNCHANGED <<job, inner, coord>>

\* An operation of the supervisor returned to Execute.
OperationReturned(pc) ==
    /\ At(pc)
    /\ op.pc = "done"
    /\ op' = Idle
    /\ UNCHANGED <<core, sup, outer, set, refreshes, job, inner, coord>>

\* Only a refused operation returns no lease to roll back.
EndpointsPrepared ==
    /\ OperationReturned("preparing_endpoints")
    /\ Goto(IF ~op.failed THEN "removals"
            ELSE IF op.then = "refused" THEN "undo_core"
            ELSE "undo_endpoints")

\* A step that runs route commands.
RouteStep(pc, outcomes, ok, failed) ==
    /\ At(pc)
    /\ \E r \in outcomes :
         /\ inner' = r.inner
         /\ ex' = [ex EXCEPT !.lease = r.lease, !.pc = IF r.ok THEN ok ELSE failed]
    /\ UNCHANGED <<core, supervisor, job, coord>>

CommitMayFail == CommandMayFail \/ DeadlineMayPass

WithdrawRoutes ==
    RouteStep("removals", CommitRemovals(ex.lease, inner, CommitMayFail),
              "commit_core", "undo_endpoints")

\* CommitPeerSet, in the two halves the core serves it in.
CommitCore ==
    LET begun == commitPeerSet(core, ex.id)
    IN  /\ At("commit_core")
        /\ core.committing = NoTx
        /\ \/ /\ begun.core.committing = ex.id
              /\ core' = begun.core
              /\ Goto("committing_core")
           \/ /\ begun.core.committing # ex.id \/ ResponseMayBeLost
              /\ \E r \in IF begun.core.committing = ex.id THEN {Refused(core)}
                          ELSE Call(begun) :
                   /\ core' = r.core
                   /\ Goto(IF r.ok THEN "commit_endpoints"
                           ELSE "undo_endpoints")
        /\ UNCHANGED <<supervisor, job, inner, coord>>

CoreCommitted ==
    LET done == commitDevice(core, ex.id)
    IN  /\ At("committing_core")
        /\ \E r \in {done} \cup IF ResponseMayBeLost THEN {Refused(done.core)}
                                ELSE {} :
             /\ core' = r.core
             /\ Goto(IF r.ok THEN "commit_endpoints"
                     ELSE "undo_endpoints")
        /\ UNCHANGED <<supervisor, job, inner, coord>>

CommitEndpoints ==
    /\ At("commit_endpoints")
    /\ CommitPeerEndpoints
    /\ Goto("committing_endpoints")
    /\ UNCHANGED <<job, inner, coord>>

EndpointsCommitted ==
    /\ OperationReturned("committing_endpoints")
    /\ Goto(IF op.failed THEN "undo_additions" ELSE "additions")

ExposeRoutes ==
    RouteStep("additions", CommitAdditions(ex.lease, inner, CommitMayFail),
              "finalize", "undo_additions")

\* The job is created and run at once.
Finalize ==
    /\ At("finalize")
    /\ job.pc = "none"
    /\ job' = [NoJob EXCEPT !.pc = "endpoints", !.id = ex.id, !.lease = ex.lease,
                            !.todo = {k \in Installed : ~set.tr[k].finalized}]
    /\ Goto("finalizing")
    /\ UNCHANGED <<core, supervisor, inner, coord>>

-----------------------------------------------------------------------------
(* rollbackPrepared and rollbackCommitted.  ex.failed: rollbackErrors is not *)
(* empty; ex.committed: it is rollbackCommitted that runs.                   *)

\* Mutant: the rollback goes on although a new route could not be withdrawn.
UndoAdditionsPressingOn ==
    /\ At("undo_additions")
    /\ \E r \in RollbackAdditions(ex.lease, inner, CommandMayFail) :
         /\ inner' = r.inner
         /\ ex' = [ex EXCEPT !.lease = r.lease, !.committed = TRUE,
                             !.pc = "undo_endpoints", !.failed = ~r.ok]
    /\ UNCHANGED <<core, supervisor, job, coord>>

\* rollbackCommitted withdraws the new routes first and gives up if it cannot.
UndoAdditions ==
    /\ At("undo_additions")
    /\ \E r \in RollbackAdditions(ex.lease, inner, CommandMayFail) :
         /\ inner' = r.inner
         /\ IF r.ok
            THEN /\ ex' = [ex EXCEPT !.lease = r.lease, !.committed = TRUE,
                                     !.pc = "undo_endpoints"]
                 /\ UNCHANGED coord
            ELSE rollbackResult(TRUE)
    /\ UNCHANGED <<core, supervisor, job>>

UndoEndpoints ==
    /\ At("undo_endpoints")
    /\ RollbackPeerEndpoints
    /\ Goto("undoing_endpoints")
    /\ UNCHANGED <<job, inner, coord>>

EndpointsUndone ==
    /\ OperationReturned("undoing_endpoints")
    /\ ex' = [ex EXCEPT !.pc = "undo_core", !.failed = @ \/ op.failed]

\* After rollbackCommitted met an error the removed routes stay withdrawn.
UndoCore ==
    /\ At("undo_core")
    /\ core.committing = NoTx
    /\ \E r \in Call(rollbackPeerSet(core, ex.id)) :
         LET failed == ex.failed \/ ~r.ok
         IN  /\ core' = r.core
             /\ IF ex.committed /\ failed THEN rollbackResult(TRUE)
                ELSE /\ ex' = [ex EXCEPT !.pc = "undo_removals", !.failed = failed]
                     /\ UNCHANGED coord
    /\ UNCHANGED <<supervisor, job, inner>>

UndoRemovals ==
    /\ At("undo_removals")
    /\ \E r \in RollbackRemovals(ex.lease, inner, CommandMayFail) :
         /\ inner' = r.inner
         /\ rollbackResult(ex.failed \/ ~r.ok)
    /\ UNCHANGED <<core, supervisor, job>>

ExecuteSteps ==
    \/ PrepareCore \/ PrepareEndpoints \/ EndpointsPrepared \/ WithdrawRoutes
    \/ CommitCore \/ CoreCommitted \/ CommitEndpoints \/ EndpointsCommitted
    \/ ExposeRoutes \/ Finalize
    \/ UndoAdditions \/ UndoEndpoints \/ EndpointsUndone \/ UndoCore
    \/ UndoRemovals

-----------------------------------------------------------------------------
(* finalizeCleanupJob: the three participants one after the other, each one  *)
(* once more until it has succeeded.                                         *)

JobEndpoint(k) ==
    /\ job.pc = "endpoints"
    /\ k \in job.todo
    /\ \E r \in Call(finalizePeerEndpoint(core, k, set.tr[k].generation)) :
         /\ FinalizeKey(k, r)
         /\ job' = [job EXCEPT !.todo = @ \ {k}, !.failed = @ \/ ~r.ok]
    /\ UNCHANGED <<ex, inner, coord>>

JobLeases ==
    /\ job.pc = "endpoints"
    /\ job.todo = {}
    /\ IF job.failed \/ job.endpointsDone
       THEN /\ job' = [job EXCEPT !.pc = "core"]
            /\ UNCHANGED <<core, supervisor>>
       ELSE \E gone \in SUBSET ObsoleteLeases :
              /\ FinalizeLeases(gone)
              /\ job' = [job EXCEPT !.pc = "core",
                                    !.endpointsDone = gone = ObsoleteLeases]
    /\ UNCHANGED <<ex, inner, coord>>

JobCore ==
    /\ job.pc = "core"
    /\ core.committing = NoTx
    /\ IF job.coreDone
       THEN job' = [job EXCEPT !.pc = "routes"] /\ UNCHANGED core
       ELSE \E r \in Call(finalizePeerSet(core, job.id)) :
              /\ core' = r.core
              /\ job' = [job EXCEPT !.pc = "routes", !.coreDone = r.ok]
    /\ UNCHANGED <<supervisor, ex, inner, coord>>

\* The end of a run of the job.  The first one is Execute's, which returns; a
\* job with work left waits for the next retry.
JobRoutes ==
    LET r == FinalizeRoutes(job.lease)
        done == job.endpointsDone /\ job.coreDone /\ r.ok
    IN  /\ job.pc = "routes"
        /\ job' = IF done THEN NoJob
                  ELSE [job EXCEPT !.pc = "waiting", !.lease = r.lease,
                                   !.routesDone = r.ok]
        /\ IF At("finalizing") /\ ex.id = job.id THEN Result("committed")
           ELSE UNCHANGED <<ex, coord>>
        /\ UNCHANGED <<core, supervisor, inner>>

\* retryCleanup.
JobRetry ==
    /\ job.pc = "waiting"
    /\ job' = [job EXCEPT !.pc = "endpoints", !.failed = FALSE,
                          !.todo = IF job.endpointsDone THEN {}
                                   ELSE {k \in Installed : ~set.tr[k].finalized}]
    /\ UNCHANGED <<core, supervisor, ex, inner, coord>>

JobSteps ==
    \/ \E k \in job.todo : JobEndpoint(k)
    \/ JobLeases \/ JobCore \/ JobRoutes \/ JobRetry

-----------------------------------------------------------------------------
executor == <<ex, job, inner, coord>>

SupervisorSteps == PeerSetSteps /\ UNCHANGED executor
MigrationSteps == Migration /\ UNCHANGED executor
Authenticated == \E k \in PublicKeys : Authenticate(k) /\ UNCHANGED executor

Next ==
    \/ \E id \in TransactionIDs, desired \in Desireds : Execute(id, desired)
    \/ ExecuteSteps
    \/ JobSteps
    \/ SupervisorSteps
    \/ MigrationSteps
    \/ Authenticated

Spec == Init /\ [][Next]_vars

\* The goroutines of the coordinator, the executor and the supervisor go on, and
\* every wait has a timeout.  Nothing is assumed of peers, DNS or submitters.
Fairness ==
    /\ WF_vars(ExecuteSteps)
    /\ WF_vars(JobSteps)
    /\ WF_vars(SupervisorSteps)
    /\ WF_vars(MigrationSteps)

FairSpec == Spec /\ Fairness

-----------------------------------------------------------------------------
(* Properties *)

Open == set.state \in {"prepared", "committed"}

\* Once a transaction has ended, with its cleanup, and none has been reported
\* degraded, the device, the FEC policies, the supervised endpoints and the host
\* routes are those of the published configuration, whichever step failed on the
\* way, and nothing stays locked: rollbackPrepared, rollbackCommitted and
\* finalizeCleanupJob leave no participant behind.
Consistent ==
    LET peers == coord.current.Peers
    IN  (At("idle") /\ job.pc = "none" /\ ~coord.degraded) =>
            /\ core.device = [k \in DOMAIN peers |-> Projected(peers[k])]
            /\ core.cfg = peers
            /\ DOMAIN core.peers = DOMAIN peers
            /\ \A k \in DOMAIN peers : core.peers[k].fecPolicy = peers[k].FECPolicy
            /\ [k \in DOMAIN sup.peers |-> sup.peers[k].endpoint]
                 = EndpointTexts(coord.current)
            /\ inner = OwnedPrefixes(peers)
            /\ core.active = NoTx
            /\ sup.activeSet = NoTx
            /\ sup.reserved = {}

\* The host never routes a prefix into the interface that no peer of the device
\* owns: removals before the core's commit, additions after it, and the
\* reverse on the way back ("A route into the TUN is restored only after the
\* old core AllowedIP projection is active again", rollbackCommitted).
RouteHasOwner == inner \subseteq OwnedPrefixes(core.device)

\* The core never sends to an address whose outer route is not pinned, except
\* for a peer that is being removed: leases are acquired before SetPeerEndpoint
\* and released after the core has confirmed that it moved away (the design's
\* "until the core is known not to use it").
EndpointPinned ==
    \A k \in DOMAIN core.peers :
        (core.peers[k].selected # NoAddr /\ k \in DOMAIN sup.peers)
            => outer[core.peers[k].selected] > 0

\* The peers whose leases the supervisor's own state holds; those of an open
\* peer set's affected peers are held by its before states and candidates.
Holders == IF Open THEN DOMAIN sup.peers \ set.affected ELSE DOMAIN sup.peers

OpenLeases ==
    IF ~Open THEN {}
    ELSE CandidateLeases
         \cup {<<k, set.before[k].active, "old">> : k \in DOMAIN set.before}

\* Every outer-route lease has exactly one holder: a supervised peer, the open
\* peer set, the migration in progress, or a list of leases to release later.
\* None is lost and none is released twice, and whatever the core and the host
\* refuse, no more of them wait for their release than the limit allows
\* (maxPendingMigrationLeases), though it is looked at before each switch only.
OuterLeaseAccounting ==
    /\ Total(sup.retired) + Total(sup.extra) <= MaxPendingLeases
    /\ \A e \in AddrPorts :
          outer[e] = Cardinality({k \in Holders : sup.peers[k].active = e})
                     + Cardinality({l \in OpenLeases : l[2] = e})
                     + sup.retired[e] + sup.extra[e]
                     + (IF op.pc \in {"wait", "restore", "finalize_old"}
                           /\ op.cand = e THEN 1 ELSE 0)
                     + (IF op.pc = "finalize_new" /\ op.old = e THEN 1 ELSE 0)

\* Between two operations the supervisor and the core agree on the selected
\* endpoint and generation of every peer no transaction holds: a later
\* SetPeerEndpoint is not refused as stale, and no lease pins the wrong address.
SupervisorFollowsCore ==
    op.pc = "idle" =>
        \A k \in (DOMAIN sup.peers \cap DOMAIN core.peers) \ sup.reserved :
            /\ core.peers[k].selected = sup.peers[k].active
            /\ core.peers[k].generation = sup.peers[k].generation

\* A transaction leaves the supervised state of the peers it does not affect
\* alone: an unrelated migration that ended before its commit or rollback is
\* not rewound by publishing the prepared projection.
UnaffectedKept ==
    [][\A k \in DOMAIN sup.peers :
         (op.key # k /\ (set.state = "none" \/ k \notin set.affected))
            => k \in DOMAIN sup'.peers /\ sup'.peers[k] = sup.peers[k]]_vars

\* A supervised endpoint is adopted only after the peer authenticated at it, or
\* when the one before could not be restored: WaitPeerReady.
AdoptsOnlyReady ==
    [][\A k \in DOMAIN sup.peers \cap DOMAIN sup'.peers :
         (sup'.peers[k].active \notin {sup.peers[k].active, NoAddr}
            /\ op.pc # "restore" /\ op.pc # "rollback")
            => core.peers[k].authenticated = sup'.peers[k].generation]_vars

\* Every accepted transaction ends, whatever fails: Execute returns a result.
TransactionsEnd == ex.pc # "idle" ~> ex.pc = "idle"

-----------------------------------------------------------------------------
(* What the documentation or a comment says and the code does not do *)

\* docs/RUNTIME-PEER-RECONCILIATION.md, acceptance 6: a failed prepared
\* transaction restores the prior state.  Where no command and no call fails,
\* rollbackCommitted would never report degraded.
FailedRestoresPrior == coord.last # "degraded"

\* "quick rolls back every prepared lease": after rolled_back the core holds no
\* transaction and accepts the next one.
RolledBackReleasesCore ==
    (At("idle") /\ coord.last = "rolled_back") => core.active = NoTx

=============================================================================
