------------------------------ MODULE QuickRun ------------------------------
(***************************************************************************)
(* A quick process from start to shutdown (internal/quick/run.go), and the *)
(* routes into the tunnel it installs on Windows: the initial ones when it *)
(* configures the network, later ones in journalled transactions           *)
(* (internal/platform/journaled_peer_routes.go, peer_routes_windows.go).   *)
(* The process may die between any two durable effects; the next one       *)
(* recovers from the journal.                                              *)
(*                                                                         *)
(* A route is named by its prefix; it lies on the tunnel's interface, whose *)
(* LUID is luid.  Host commands run in any order instead of sorted order.  *)
(***************************************************************************)
EXTENDS Integers, FiniteSets

CONSTANTS
    Prefixes,
    MaxStarts, MaxTransactions, MaxFaults, MaxForeign, MaxLuid   \* bounds

VARIABLES
    route,      \* who made the route: "none", "ours" or "foreign"
    luid,       \* the identity of the tunnel's interface
    journal,    \* the journal file
    quick,      \* the process
    tx,         \* the route transaction the executor drives
    orphans,    \* routes of ours that were left behind on purpose, or by a
                \* process that died before it had a journal
    used        \* what has happened, against the bounds

vars == <<route, luid, journal, quick, tx, orphans, used>>

NoJournal == [status |-> "missing", phase |-> "active", before |-> {}, after |-> {},
              removed |-> FALSE, added |-> FALSE, luid |-> 0]

NoTx == [pc |-> "idle", before |-> {}, after |-> {}, removed |-> {}, added |-> {},
         removalsApplied |-> FALSE, additionsApplied |-> FALSE]

Down == [pc |-> "down", canonical |-> {}, core |-> FALSE, pins |-> FALSE,
         armed |-> FALSE, undo |-> {}, current |-> {}, inFlight |-> FALSE,
         cancelled |-> FALSE, failed |-> FALSE, closing |-> FALSE, busy |-> FALSE,
         stopped |-> TRUE]

Init ==
    /\ route = [p \in Prefixes |-> "none"]
    /\ luid = 1
    /\ journal = NoJournal
    /\ quick = Down
    /\ tx = NoTx
    /\ orphans = {}
    /\ used = [starts |-> 0, transactions |-> 0, faults |-> 0, foreign |-> 0]

Ours == {p \in Prefixes : route[p] = "ours"}
present(p) == route[p] # "none"
mayFault == used.faults < MaxFaults
fault(yes) == used' = [used EXCEPT !.faults = @ + (IF yes THEN 1 ELSE 0)]

\* A step that may fail: at the cost of a fault, or free of charge when the
\* context it runs under has been cancelled.
outcome(ok, isCancelled) ==
    \/ (ok \/ isCancelled) /\ UNCHANGED used
    \/ ~ok /\ ~isCancelled /\ mayFault /\ fault(TRUE)

-----------------------------------------------------------------------------
(* The journal.  A write that reports an error may have reached the disk.    *)

entry(phase, t) ==
    [status |-> "ok", phase |-> phase, before |-> t.before, after |-> t.after,
     removed |-> t.removalsApplied, added |-> t.additionsApplied, luid |-> luid]

activeEntry(prefixes) ==
    [NoJournal EXCEPT !.status = "ok", !.before = prefixes, !.after = prefixes,
                      !.luid = luid]

save(record, ok, isCancelled) ==
    /\ outcome(ok, isCancelled)
    /\ journal' \in {record} \cup (IF ok THEN {} ELSE {journal})

\* What the journal cannot tell, and what it proves to be ours.
ambiguous(canonical, force) ==
    IF journal.added \/ journal.phase = "committed" \/ force THEN {}
    ELSE (journal.after \ journal.before) \ canonical

proven(canonical, force) ==
    (journal.before \cup journal.after) \ ambiguous(canonical, force)

removeLocked == NoJournal

\* A journal that is corrupt, or of another interface, is moved away.
quarantineLocked == NoJournal

\* Mutant: a route that cannot be deleted does not stop the recovery.
forgetfulRecover(canonical, force, next, failed) ==
    /\ journal' = NoJournal /\ quick' = next
    /\ \E gone \in SUBSET proven(canonical, force) :
         route' = [p \in Prefixes |-> IF p \in gone THEN "none" ELSE route[p]]
    /\ UNCHANGED <<orphans, used>>

\* One route after the other; the journal goes when they are all gone.
recoverLocked(canonical, force, next, failed) ==
    LET mine == {p \in proven(canonical, force) : present(p)}
    IN  CASE journal.status = "missing" ->
               quick' = next /\ UNCHANGED <<route, journal, orphans, used>>
          [] journal.status = "corrupt" ->
               /\ quick' = failed
               /\ journal' = quarantineLocked
               /\ UNCHANGED <<route, orphans, used>>
          [] journal.status = "ok" /\ journal.luid # luid ->
               /\ quick' = next
               /\ journal' = quarantineLocked
               /\ UNCHANGED <<route, orphans, used>>
          [] OTHER ->
               \/ \E p \in mine :
                    /\ route' = [route EXCEPT ![p] = "none"]
                    /\ orphans' = orphans \ {p}
                    /\ UNCHANGED <<journal, quick, used>>
               \/ /\ mayFault /\ fault(TRUE)
                  /\ quick' = failed
                  /\ UNCHANGED <<route, journal, orphans>>
               \/ /\ mine = {}
                  /\ journal' = removeLocked /\ quick' = next
                  /\ orphans' = orphans \cup (ambiguous(canonical, force) \cap Ours)
                  /\ UNCHANGED <<route, used>>

-----------------------------------------------------------------------------
(* Starting *)

toCleanup(q) == [q EXCEPT !.pc = "cleanup", !.failed = TRUE]

\* The configuration is read and the core prepares the tunnel's interface.
Launch ==
    /\ quick.pc = "down" /\ used.starts < MaxStarts
    /\ used' = [used EXCEPT !.starts = @ + 1]
    /\ \E c \in SUBSET Prefixes :
         quick' = [Down EXCEPT !.pc = "core", !.core = TRUE, !.canonical = c]
    /\ UNCHANGED <<route, luid, journal, tx, orphans>>

\* The supervisor resolves the endpoints and pins their routes.
Initialize ==
    /\ quick.pc = "core"
    /\ \E ok \in BOOLEAN :
         /\ outcome(ok, FALSE)
         /\ quick' = IF ok THEN [quick EXCEPT !.pins = TRUE, !.pc = "recover"]
                     ELSE toCleanup(quick)
    /\ UNCHANGED <<route, luid, journal, tx, orphans>>

newPeerRouteManager ==
    /\ quick.pc = "recover"
    /\ recoverLocked(quick.canonical, FALSE,
                     [quick EXCEPT !.pc = "network", !.armed = TRUE,
                                   !.current = quick.canonical],
                     toCleanup(quick))
    /\ UNCHANGED <<luid, tx>>

\* A route that exists cannot be created.
ConfigureNetwork ==
    /\ quick.pc = "network"
    /\ IF quick.undo = quick.canonical
       THEN quick' = [quick EXCEPT !.pc = "activate"] /\ UNCHANGED <<route, used>>
       ELSE \E p \in quick.canonical \ quick.undo, ok \in BOOLEAN :
              /\ outcome(ok, present(p)) /\ (ok => ~present(p))
              /\ route' = IF ok THEN [route EXCEPT ![p] = "ours"] ELSE route
              /\ quick' = IF ok THEN [quick EXCEPT !.undo = @ \cup {p}]
                          ELSE toCleanup(quick)
    /\ UNCHANGED <<luid, journal, tx, orphans>>

\* supervisor.Activate, the hooks, the executor and the management endpoint.
Activate ==
    /\ quick.pc = "activate"
    /\ \E ok \in BOOLEAN :
         /\ outcome(ok, FALSE)
         /\ quick' = IF ok THEN [quick EXCEPT !.pc = "running"] ELSE toCleanup(quick)
    /\ UNCHANGED <<route, luid, journal, tx, orphans>>

-----------------------------------------------------------------------------
(* Transactions, as the executor drives them.  Its steps run under the       *)
(* coordinator's context, a rollback and a finalizer under one of their own. *)

executing == quick.pc \in {"running", "closing"}
to(t, pc) == [t EXCEPT !.pc = pc]

Mark(phase, t, isCancelled, next, failed) ==
    /\ \E ok \in BOOLEAN :
         /\ save(entry(phase, t), ok, isCancelled)
         /\ tx' = to(t, IF ok THEN next ELSE failed)
    /\ UNCHANGED <<route, luid, quick, orphans>>

\* One host command, on route p.
command(p, made, isCancelled, next, failed) ==
    /\ \E ok \in BOOLEAN :
         /\ outcome(ok, isCancelled \/ (made = "ours" /\ present(p)))
         /\ ok => ~(made = "ours" /\ present(p))
         /\ route' = IF ok THEN [route EXCEPT ![p] = made] ELSE route
         /\ tx' = IF ok THEN next ELSE to(tx, failed)
    /\ UNCHANGED <<luid, journal, quick, orphans>>

fails(isCancelled, next) ==
    /\ outcome(FALSE, isCancelled)
    /\ tx' = to(tx, next)
    /\ UNCHANGED <<route, luid, journal, quick, orphans>>

Prepare ==
    /\ quick.pc = "running" /\ tx.pc = "idle" /\ ~quick.inFlight
    /\ used.transactions < MaxTransactions
    /\ \E after \in SUBSET Prefixes, ok \in BOOLEAN :
         LET t == [NoTx EXCEPT !.pc = "prepared", !.before = quick.current,
                               !.after = after]
         IN  /\ ok \/ mayFault
             /\ used' = [used EXCEPT !.transactions = @ + 1,
                                     !.faults = @ + (IF ok THEN 0 ELSE 1)]
             /\ journal' \in {entry("prepared", t)} \cup (IF ok THEN {} ELSE {journal})
             /\ tx' = IF ok THEN t ELSE NoTx
             /\ quick' = [quick EXCEPT !.inFlight = ok]
    /\ UNCHANGED <<route, luid, orphans>>

CommitRemovals ==
    /\ executing
    /\ \/ /\ tx.pc = "prepared"   \* or the core or the endpoints cannot prepare
          /\ \/ Mark("removing", tx, quick.closing, "removing", "rollback-removals")
             \/ fails(quick.closing, "rollback-removals")
       \/ /\ tx.pc = "removing"
          /\ \/ \E p \in (tx.before \ tx.after) \ tx.removed :
                  command(p, "none", quick.closing,
                          [tx EXCEPT !.removed = @ \cup {p}], "rollback-removals")
             \/ /\ tx.removed = tx.before \ tx.after
                /\ Mark("removed", [tx EXCEPT !.removalsApplied = TRUE],
                        quick.closing, "commit", "rollback-removals")

CommitAdditions ==
    /\ executing
    /\ \/ /\ tx.pc = "commit"     \* or the core or the endpoints cannot commit
          /\ \/ Mark("adding", tx, quick.closing, "adding", "rollback-additions")
             \/ fails(quick.closing, "rollback-removals")
             \/ fails(quick.closing, "rollback-additions")
       \/ /\ tx.pc = "adding"
          /\ \/ \E p \in (tx.after \ tx.before) \ tx.added :
                  command(p, "ours", quick.closing,
                          [tx EXCEPT !.added = @ \cup {p}], "rollback-additions")
             \/ /\ tx.added = tx.after \ tx.before
                /\ Mark("committed", [tx EXCEPT !.additionsApplied = TRUE],
                        quick.closing, "finalize", "rollback-additions")

\* The journal's Active entry ends the transaction.
complete(projection, failed) ==
    /\ \E ok \in BOOLEAN :
         /\ save(activeEntry(projection), ok, FALSE)
         /\ tx' = IF ok THEN NoTx ELSE to(tx, failed)
         /\ quick' = IF ok THEN [quick EXCEPT !.current = projection, !.inFlight = FALSE]
                     ELSE quick
    /\ UNCHANGED <<route, luid, orphans>>

\* A finalizer that failed is retried by the executor's cleanup loop, which
\* ends with quick's context and not with the coordinator.
Finalize ==
    /\ \/ executing /\ tx.pc = "finalize"
       \/ /\ tx.pc = "pending" /\ ~quick.cancelled
          /\ quick.pc \notin {"down", "cleanup"}
    /\ complete(tx.after, "pending")

RollbackAdditions ==
    /\ executing
    /\ \/ /\ tx.pc = "rollback-additions"
          /\ Mark("rollback-additions", tx, FALSE, "unadd", "degraded")
       \/ /\ tx.pc = "unadd"
          /\ \/ \E p \in tx.added :
                  command(p, "none", FALSE, [tx EXCEPT !.added = @ \ {p}], "degraded")
             \/ /\ tx.added = {}
                /\ Mark("rollback-removals", [tx EXCEPT !.additionsApplied = FALSE],
                        FALSE, "rollback-removals", "degraded")

\* Mutant: a rollback that restores no route.
idleRollback ==
    /\ executing
    /\ \/ /\ tx.pc = "rollback-removals"
          /\ Mark("rollback-removals", tx, FALSE, "unremove", "degraded")
       \/ tx.pc = "unremove" /\ complete(tx.before, "degraded")

RollbackRemovals ==
    /\ executing
    /\ \/ /\ tx.pc = "rollback-removals"
          /\ Mark("rollback-removals", tx, FALSE, "unremove", "degraded")
       \/ /\ tx.pc = "unremove"
          /\ \/ \E p \in tx.removed :
                  command(p, "ours", FALSE, [tx EXCEPT !.removed = @ \ {p}], "degraded")
             \/ tx.removed = {} /\ complete(tx.before, "degraded")

-----------------------------------------------------------------------------
(* Shutdown *)

settled == tx.pc \in {"idle", "degraded", "pending"}

\* quick's context is cancelled, or the core exits and takes the tunnel along.
Shutdown ==
    /\ quick.pc = "running"
    /\ \E coreExits \in BOOLEAN :
         /\ quick' = [quick EXCEPT !.pc = "closing", !.closing = TRUE,
                                   !.busy = ~settled, !.core = ~coreExits,
                                   !.cancelled = ~coreExits, !.failed = coreExits]
         /\ route' = IF coreExits THEN [p \in Prefixes |-> "none"] ELSE route
         /\ orphans' = IF coreExits THEN {} ELSE orphans
    /\ UNCHANGED <<luid, journal, tx, used>>

\* Mutant: the supervisor is closed where it is only to stop.
closingEarly ==
    /\ quick.pc = "closing" /\ settled
    /\ quick' = [quick EXCEPT !.pc = "cleanup", !.pins = FALSE]
    /\ UNCHANGED <<route, luid, journal, tx, orphans, used>>

\* managementRuntime.Close, then supervisor.StopContext.
CloseManagement ==
    /\ quick.pc = "closing" /\ settled
    /\ \E ok \in BOOLEAN :
         /\ outcome(ok, FALSE)
         /\ quick' = [quick EXCEPT
              !.pc = "cleanup", !.stopped = ok,
              !.failed = @ \/ ~ok \/ (quick.busy /\ tx.pc = "degraded")]
    /\ UNCHANGED <<route, luid, journal, tx, orphans>>

CleanupRoutes ==
    /\ quick.pc = "cleanup"
    /\ IF quick.armed
       THEN recoverLocked({}, FALSE, [quick EXCEPT !.pc = "undo"],
                          [quick EXCEPT !.pc = "undo", !.failed = TRUE])
       ELSE /\ quick' = [quick EXCEPT !.pc = "endpoints"]
            /\ UNCHANGED <<route, journal, orphans, used>>
    /\ UNCHANGED <<luid, tx>>

\* The platform's cleanup goes on after an error.
UndoNetwork ==
    /\ quick.pc = "undo"
    /\ IF quick.undo = {}
       THEN quick' = [quick EXCEPT !.pc = "endpoints"] /\ UNCHANGED <<route, orphans, used>>
       ELSE \E p \in quick.undo, ok \in BOOLEAN :
              /\ outcome(ok, FALSE)
              /\ route' = IF ok THEN [route EXCEPT ![p] = "none"] ELSE route
              /\ orphans' = IF ok THEN orphans \ {p} ELSE orphans \cup ({p} \cap Ours)
              /\ quick' = [quick EXCEPT !.undo = @ \ {p}, !.failed = @ \/ ~ok]
    /\ UNCHANGED <<luid, journal, tx>>

CloseEndpoints ==
    /\ quick.pc = "endpoints"
    /\ \E ok \in BOOLEAN :
         /\ outcome(ok, ~quick.stopped) /\ (ok => quick.stopped)
         /\ quick' = [quick EXCEPT !.pc = "stop", !.pins = @ /\ ~ok, !.failed = @ \/ ~ok]
    /\ UNCHANGED <<route, luid, journal, tx, orphans>>

\* The process ends.  The interface goes with the core, and its routes with the
\* interface; the next one may have the same LUID.  When the core survives the
\* routes stay.
gone ==
    /\ quick' = Down /\ tx' = NoTx
    /\ \/ /\ route' = [p \in Prefixes |-> "none"]
          /\ luid' \in {luid, luid + 1} \cap (1 .. MaxLuid)
          /\ orphans' = {}
          /\ UNCHANGED used
       \/ /\ mayFault /\ fault(TRUE)
          /\ orphans' = IF journal.status = "missing" THEN Ours ELSE orphans
          /\ UNCHANGED <<route, luid>>
    /\ UNCHANGED journal

StopCore == quick.pc = "stop" /\ gone

Crash == quick.pc \notin {"down", "stop"} /\ gone

-----------------------------------------------------------------------------
(* Around the process *)

\* down --repair.
RepairWindows ==
    /\ quick.pc = "down"
    /\ recoverLocked({}, TRUE, Down, Down)
    /\ UNCHANGED <<luid, tx>>

CorruptJournal ==
    /\ quick.pc = "down" /\ journal.status = "ok" /\ mayFault
    /\ fault(TRUE)
    /\ journal' = [NoJournal EXCEPT !.status = "corrupt"]
    /\ orphans' = Ours
    /\ UNCHANGED <<route, luid, quick, tx>>

\* Nobody else installs a route that is, or was, quick's own: it could not be
\* told from quick's.
Foreign ==
    /\ used.foreign < MaxForeign
    /\ used' = [used EXCEPT !.foreign = @ + 1]
    /\ \E p \in Prefixes \ (proven({}, FALSE) \cup quick.undo) :
         ~present(p) /\ route' = [route EXCEPT ![p] = "foreign"]
    /\ UNCHANGED <<luid, journal, quick, tx, orphans>>

Next ==
    \/ Launch \/ Initialize \/ newPeerRouteManager \/ ConfigureNetwork \/ Activate
    \/ Prepare \/ CommitRemovals \/ CommitAdditions \/ Finalize
    \/ RollbackAdditions \/ RollbackRemovals
    \/ Shutdown \/ CloseManagement \/ CleanupRoutes \/ UndoNetwork \/ CloseEndpoints
    \/ StopCore \/ Crash \/ RepairWindows \/ CorruptJournal \/ Foreign

Spec == Init /\ [][Next]_vars

-----------------------------------------------------------------------------
(* Properties *)

\* Whenever quick dies, each route it has made is named by the journal or, before
\* the first transaction, on its list of changes to undo: no sequence of failed
\* commits, rollbacks, finalizers and recoveries loses one, except those that
\* recovery leaves on purpose and reports.
JournalCovers ==
    Ours \ orphans \subseteq
      quick.undo \cup (IF journal.status = "ok" THEN journal.before \cup journal.after
                       ELSE {})

\* While quick runs with a live tunnel, the routes into the tunnel are exactly those
\* the journalled manager takes to be there: between transactions the projection it
\* plans the next one from; within one, and after a rollback that failed at any
\* step, what the transaction found, less what it removed, with what it added.
ProjectionInstalled ==
    executing /\ quick.core =>
      Ours \ orphans = IF tx.pc = "idle" THEN quick.current
                       ELSE (tx.before \ tx.removed) \cup tx.added

\* As long as routes lead into a live tunnel, the tunnel's own endpoints are
\* pinned outside it: start pins before it routes (and before it removes the
\* routes of its predecessor), shutdown unroutes before it unpins, unless an
\* error has been reported.
PinnedWhileRouted ==
    quick.core /\ quick.pc # "core" /\ Ours \ orphans # {} =>
      quick.pins \/ quick.failed
=============================================================================
