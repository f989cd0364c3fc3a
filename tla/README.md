# A TLA+ verification of wg-quic

wg-quic carries WireGuard packets over QUIC. Its control plane changes the peers
of a running interface without a restart, which is a distributed transaction over
parts that live in two processes and on the host; its data path adds sessions,
budgets, forward error correction and telemetry to WireGuard's bind. This project
models both, checks them with TLC on small instances, and proves some of the
properties with TLAPS for every instance. Paths below are relative to the
repository; `PROJECT.json` maps every definition to its lines and lists the
hazards each property is about.

## 1. The system

| part | source | state | modules |
|---|---|---|---|
| reconciliation coordinator | `internal/reconcile/coordinator.go` | generation, published configuration, request cache, active transaction, workers | `Coordinator`, `DesiredState` |
| desired state and diff | `internal/reconcile/{model,diff}.go` | none | `Diff` |
| reconciliation executor | `internal/quick/reconcile_executor.go` | steps of a transaction, cleanup jobs | `ReconcileExecutor` |
| inner peer routes | `internal/platform/peer_routes.go` | removed and added prefixes of a lease | `PeerRoutes` |
| core: peer sets, endpoints | `internal/core` | transaction log, selected endpoints, readiness, leases, keys | `CoreInstance`, `CoreControl` |
| device peer transaction | `third_party/wireguard-go/device/peer_transaction.go` | peers and AllowedIPs | `CoreInstance` |
| endpoint supervisor | `internal/endpoint` | active address and route lease per peer, retired leases, reservations | `EndpointSupervisor` |
| control socket | `internal/control` | none | the calls of `EndpointSupervisor` |
| bind sessions | `internal/bind/{session,reconnect,admission,telemetry}.go` | sessions, endpoints, reconnect workers, admission counters, history | `BindSessions` |
| send path | `internal/bind/{session_send,send_budget,priority_send,endpoint_policy}.go` | queues, byte budget, wake-up token, policy channel | `SendPath` |
| receive path | `internal/bind/{framing,session_receive,admission}.go` | reassembly table, reservations, receive queue | `Receive` |
| FEC code and controller | `internal/transport/fec` | groups on both ends, feedback, protection | `FEC`, `FECController` |
| event log and collector | `internal/bind/event_log.go`, `internal/observe` | ring of events, final observations, cursor, bundle | `Collector` |
| Windows endpoint routes | `internal/platform/windows_route_*.go`, `repair_windows.go` | shared ledger, owner leases, host routes | `WindowsRoutes` |
| Windows route changes | `windows_route_notify_windows.go`, watcher, `routeChangeLoop` | bounded table, wake-ups | `RouteNotifier` |
| FreeBSD endpoint routes | `internal/platform/endpoint_routes_freebsd.go`, `endpoint_route_ledger.go` | ledger per interface, host routes | `FreeBSDRoutes` |
| quick's life and route journal | `internal/quick/run.go`, `internal/platform/{journaled_peer_routes,peer_routes_windows}.go` | process, journal, tunnel routes | `QuickRun` |

How they interact. `wg-quic` (the core) owns the WireGuard device and the QUIC
bind. `wg-quic-quick` (the supervisor process) owns host routes and endpoint
selection and drives the core over a control socket. A client submits a complete
desired configuration with the generation it was computed against. The coordinator
admits at most one transaction; the executor then prepares the routes, the core and
the endpoints, withdraws routes, commits the core, commits the endpoints, exposes
routes and finalizes, or undoes the steps in reverse. Meanwhile peers authenticate,
DNS answers change and the supervisor migrates peers the transaction does not hold.
Below that, WireGuard hands packets to the bind, which queues them under a byte
budget, frames and protects them, and reassembles what arrives; an observer samples
what happens. On the host, ledgers and a journal say which routes wg-quic made, so
that the next process can clean up after one that died.

What makes it hard: locks are dropped between the halves of a commit; calls over the
socket may be served although their answer is lost; every step may fail, the undoing
ones too; a packet received before an endpoint change is authenticated after it; the
request cache and the event log forget; places, bytes, leases and references are
counted by several holders; a process may die before any durable effect.

## 2. The modules

`Diff`, `DesiredState` (abstract: a compare-and-swap register over configurations),
`PeerRoutes` and `CoreInstance` (the core's handlers as operators on one record) hold
operators. `Coordinator`, `CoreControl`, `BindSessions`, `SendPath`, `Receive`,
`FEC`, `FECController`, `Collector`, `WindowsRoutes`, `RouteNotifier`,
`FreeBSDRoutes` and `QuickRun` are specifications of their own. `ReconcileExecutor`
composes `PeerRoutes`, `CoreInstance` and `EndpointSupervisor`. The `MC…` modules
are the instances; `MCDataPath` and `MCHostRoutes` hold several specifications side
by side, which share no state, and a variable that never changes (`part`, `host`)
says which of them a behaviour is about. The `…Proofs` modules and
`CoordinatorRefinement` hold the theorems.

Conventions:

* Names are the source's where TLA+ allows. Values that the code only compares
  (keys, prefixes, addresses, texts, payloads) are model values, strings or numbers.
  Sorted lists without duplicates are sets and functions.
* An action is one critical section, or the code between two calls to another part,
  or, in the modules about the host, the part of a call up to its next durable
  effect. Locks appear as guards: `core.committing` stands for a commit that holds
  `peerTransactionMu` but has released `endpointMu`; `op` for the one operation that
  holds the supervisor's `opMu`, or the lock of the Windows ledger.
* A handler of the core returns `[ok, core]`. A call to it is
  `\E r \in Call(result)`: answered, or, with `ResponseMayBeLost`, failed after or
  before it was served.
* The coordinator's `heap` holds every request entry ever made, because clients and
  workers keep pointers to entries the cache has evicted.
* A definition introduced by "Mutant:" is a deliberately wrong version of the one
  after it and is used by nothing.

Deliberate abstractions:

* `Coordinator`: the stages an executor reports are one state, `executing`; failure
  payloads, `c.last` and the cleanup flag carry no decision and are left out. A clock
  reading may be any earlier one, since it is taken before the lock.
* `CoreInstance`: the peer's static key check against the device's own key, ports and
  errors of a closed device are left out.
* `CoreControl`: a client does not commit or finalize a transaction that it asked to
  roll back, as the executor never does.
* `EndpointSupervisor`: `Initialize` is the initial state, timers are nondeterminism,
  redial requests and path re-evaluation within `RefreshRoutes` are left out.
* `ReconcileExecutor`: one cleanup job at a time (a second transaction waits in
  `Finalize` for the first job); a route command either takes effect or fails without
  effect; a planner's own errors are left out; a request ID is not used twice, since
  the core remembers IDs longer than the coordinator may.
* `BindSessions`: endpoint objects for one configured address; delays are
  nondeterminism; a cancelled reconnect worker does nothing but end and is removed.
  `ParseEndpoint`, `RetireEndpoint` and `RedialEndpoint` are steps of one caller, as
  the core's `endpointMu` makes them.
* `SendPath`: a timer may fire at any moment once started. What the send loop does
  with frames is `FEC`'s subject.
* `Receive`: the network delivers the fragments its peers made, in any order, some
  not at all, some twice. A payload is its length. Each step of `deliverFrame` that
  another session or WireGuard's reader can come between is an action: counting a
  reservation, taking one over the limit back, and enqueueing or disposing.
* `FEC`: a shard is its group and index, and any k shards of a group yield all of
  them, as Reed-Solomon codes do. The controller's targets are free.
* `FECController`: the loss estimate is floating point; the parity it asks for is any
  that `parityForLossThreshold` may return. Counters stop at the thresholds they are
  compared with.
* `Collector`: a session's counters are one number. A restart replaces both
  processes.
* `WindowsRoutes`: one endpoint; metric, interface index and source address of a
  route are left out. `QuickRun`: host commands run in any order.
  `FreeBSDRoutes`: what `route get` prints is an interface, or a gateway and the
  interface behind it.

## 3. What is checked

Every property has a comment with its meaning and the code it is about.

| run | bounds | what holds |
|---|---|---|
| `coordinator` | 2 clients, 3 request IDs, 5 requests (competing, reused ID, restart-required, other epoch), 3 entries, cache of 1 | no lost update, dense history, results that stay true and never change, and refinement of `DesiredState` |
| `coordinator_live` | 2 entries, cache of 1, TTL of 1 tick, readings that lag; fair | transactions end, waiting clients are answered, Close returns |
| `core_control` | two scenarios: 3 peers, 2 addresses, 2 transactions, log of 1, 2 selections, MaxPeers 2; and 1 peer removed and added again, 2 packets, reconnects | FEC leases and receive keys are counted exactly, policies agree with leases and configuration, the device is explained by the log; only a packet received after the selection proves readiness |
| `reconcile` | 2 transactions out of five configurations, 2 DNS refreshes, failing host commands, outer routes and deadlines | participants agree unless degraded was reported; no ownerless route, no unpinned endpoint, no lost lease, and never more leases waiting for their release than the limit; unaffected peers are never rewound |
| `reconcile_lost` | 1 transaction, 1 refresh, lost answers and every other failure; fair | every transaction returns |
| `bind_sessions` | 3 sessions, 2 endpoint objects, 1 inbound and 1 pending place, history of 1, one retire or redial | admission counters are exact, the replacement history has no loose end, a configured endpoint is never forgotten |
| `host_routes` | Windows: 2 ways, 2 processes, 4 calls, 1 fault, 1 foreign change; quick: 2 starts, 2 transactions, 2 prefixes; FreeBSD: 2 starts, 4 calls, 2 faults; notifier: 2 notifiers, 3 changes, table of 1 | references cover leases, the journal and the ledger name every route made, routes are those the next transaction is planned from, or that an open or failed one has recorded, endpoints are pinned while the tunnel has routes, no network change is lost |
| `data_path` | FEC: 4 frames, parity 2, interleave 2, 2 faults; send: 2 senders, 2 policy callers, 3 packets; receive: 2 sessions, 5 arrivals, table of 1; collector: 2 sessions, 2 samples, log of 2 | frames are delivered as soon as enough shards came and feedback is true; bytes and reservations are exact, also when a packet is refused or its session ends on the way to the queue; nobody waits at an empty queue; the newest policy wins; reassembly takes what fragmentation makes; a COMPLETE bundle lacks no event and no final row; protection is given up only when calm |

Why the bounds are enough. A lost update, a reuse and an eviction need two competing
requests and a third entry; the cache limit is reached by the second terminal entry.
In the core a policy conflict needs two peers on one address or one peer with a
selected and an obsolete lease, both within two selections; a trim needs a second
transaction. In the composition the second transaction starts from whatever the
first left, including its pending cleanup, and a migration of each kind fits into two
refreshes. A session, its replacement and a third that competes for the place are
three; an object and its successor after retirement are two. Every limit of the data
path (queue, budget, table, log, history) is reached with these numbers, and every
step of theirs can be interleaved with one of each other actor. On the host each
process can die after any durable effect and a second one recover; for the
Windows ledger the second process may be alive meanwhile. Every mutant in
`PROJECT.json`, a plausible mistake in one definition, is found within them.

`CHECK_DEADLOCK FALSE` is set in the core, reconciliation, host and data-path runs:
they stop when their bounds are used up, or the core, session or process is closed.
The coordinator and session runs check for deadlock.

Fairness. A worker goroutine finishes: the executor works under the operation
deadline and rolls back under a bounded cleanup context. A goroutine whose channel
is closed or whose WaitGroup is empty is scheduled. The supervisor's waits have
timeouts, so its operations go on. Weak fairness of these steps is all that is
assumed; nothing is assumed of peers, DNS, clients or host commands. The modules of
the data path and the host state safety only: what must eventually happen there
(a reconnect, a wake-up, a refresh) is stated as "somebody is on the way to it".

### Disagreements

Four runs state what the documentation says and show a behaviour of the code that
does otherwise:

| run | what happens |
|---|---|
| `windows_foreign` | a migration meets a route of somebody else on the new way and notes so in a record that the last save has replaced; the last release deletes the route |
| `freebsd_recovery` | the process dies between `route delete` and the removal of the record; at the next start the default route answers for the address, "matches", cannot be deleted, and every start fails |
| `reconcile_both_changed` | endpoint and policy of a peer change together; rollback restores the endpoint first and is refused |
| `reconcile_prepare_lost` | PreparePeerSet served, answer lost: reported rolled back, yet the core stays locked |

Further behaviours met while modelling, for which no run is kept. Reconciliation:

* The peers of a restored transport are collected under `endpointMu` and written
  after it is released (`core/instance.go:727`); a SetPeerEndpoint in between is
  overwritten in WireGuard with the endpoint before.
* A migration that overlaps the commit of a new FEC policy for its peer cannot
  restore the old endpoint, whose retained lease has the old policy
  (`endpoint/supervisor.go:514`).
* A request ID used again after the coordinator forgot it, with the same mutations,
  passes the core as a repetition and is published without being applied
  (`core/peer_transaction.go:62`).
* With the cache at its limit the transaction that was active at Close may be evicted
  before Close looks it up by ID (`coordinator.go:227`), and a degraded rollback is
  then not reported.
* A rollback of two FEC policies that restored one and failed on the other is refused
  for ever (`core/peer_transaction.go:311`).
* When SetPeerEndpoint is served and its answer lost, `switchPeer` releases the route
  of the endpoint the core now uses (`endpoint/supervisor.go:477`): `EndpointPinned`
  fails with `ResponseMayBeLost`. When the answer to CommitPeerSet is lost and the
  core's rollback fails, `rollbackPrepared` restores routes that have no owner
  (`quick/reconcile_executor.go:329`): `RouteHasOwner` fails. Both are checked without
  lost answers and hold there for every other failure.

The bind:

* `RedialEndpoint` clears the session and notes its replacement in two critical
  sections (`reconnect.go:60-68`); a session created in between, or by a Send between
  `session.go:340` and `:370`, has no link to the one before.
* A token consumed by a waiter whose packet still does not fit is not passed on
  (`send_budget.go:47-60`): a smaller packet may wait although it would fit, until the
  next release. `EmptyQueueWakes` says that it never waits at an empty queue.
* The decoder reports a group it knows nothing of as one unrecovered shard "so the
  controller still reacts" (`decoder.go:242`), with a total of 0, which the controller
  ignores (`controller.go:97`). An error of `Handle` drops the feedback of the groups
  that expired in the same call (`session_receive.go:193`).
* At parity 0 a loss does not reset the healthy frames of the interleave
  (`controller.go:106-112`).
* A collector that began at an empty log does not notice a gap
  (`collector.go:772`), which `EventsWhole` excepts; events of a replacement session
  drained before it was selected are skipped; a session that comes and goes between
  samples leaves no row.

The host:

* Windows: a process that dies during a migration leaves a record that reconciliation
  marks for deletion with its previous route still set
  (`windows_route_manager.go:759-767`), which the ledger's validation then refuses in
  every later call. A Release that failed and is retried after a later Acquire gives
  up the new reference; so does a save that was durable but reported as failed.
  `LeaseRecorded` excepts these (`torn`).
* Windows: a migration that succeeds loses its new key in the same way as in
  `windows_foreign`: after the save at `windows_route_manager.go:399` has replaced the
  ledger (`windows_route_store_windows.go:296`), lines 452-458 and 482-484 write to the
  old copy. The ledger keeps the old key, pending-migrate-remove; the next
  reconciliation makes the old route again (lines 794-805), and the new one is in no
  record. The model does the same. `LeaseRecorded` counts references, not keys, and
  holds throughout.
* Windows: a change on a managed key, even somebody's removal of our own pin, is taken
  for the manager's own (`windows_route_manager.go:646-678`); `ChangeOnItsWay` is about
  the others.
* FreeBSD: with a gateway in the default route both fields of a record are filled
  (`host_freebsd.go:119-145`), which the ledger refuses
  (`endpoint_route_ledger.go:105-107`), so no lease is granted. Acquire on an entry
  whose route was deleted but whose record was not grants a lease without a route.
* quick: a transaction that ended degraded before shutdown does not keep the journal,
  and the exit status is zero. Until then `ProjectionInstalled` says what a failed
  rollback leaves: the routes the transaction found, less the removals and with the
  additions it still has on its lists (`peer_routes.go:122-215`).

## 4. What is proved

Type assumptions on the constants are the only ones: `DiffAssumption` and
`CoordinatorAssumption`, `ControllerConstants`, and that the change naming no route
is not itself a pinned route.

**Coordinator** (`CoordinatorProofs`, `CoordinatorRefinement`), for any clients,
requests, configurations, cache size, lifetime and bounds: `TypeCorrect`,
`OneTransaction`, `NoLostUpdate`, `History`, `TrueAnswers`, `ResultsAreFinal`,
`AtomicPublication`, `OwnTransaction`, `CloseLeavesNothing`, and
`Refinement`: `Spec => ImplementsDesiredState`. The inductive invariant is `IInv`;
none of the properties is inductive alone. That a commit advances exactly the
client's generation depends on `ActiveBase`: the running entry was admitted against
the generation and configuration that are still published. That in turn depends on
`SingleActive`: nobody else can have published since, because the entries without a
result are exactly the one `active` names, and it is cached. `SingleActive` is kept
through eviction because `evictLocked` touches completed entries only, and through
the worker's end because `CacheConsistent` files an entry under its own ID, so that
clearing `active` clears the right one. `SettledStates` separates results from
progress. `GenerationHistory` and `ResultsAreTrue` then follow entry by entry. For
the refinement a committing `execute` is `Apply` of the entry's request and every
other step stutters.

**FEC controller** (`FECControllerProofs`): `NeverHasty`, `Spec => LessOnlyWhenCalm`,
for any limits and thresholds. The property needs to know that as long as fewer than
`DecreaseGroups` calm groups came in a row, neither of the controller's two counters
has counted more (`IInv`); every operation resets them or counts along.
`StepMoves` describes a step by what it does to parity, interleave and the counters;
`MovesKeep` shows that such a step keeps the invariant.

**Policy channel** (`SendPathProofs`): `NewestPolicy`,
`Spec => []NewestPolicyWins`, for any number of callers and senders. A channel of one
that is filled, drained and refilled without a lock keeps the newest request because
in every state (`OnItsWay`) some call is still about to offer or drain, or the channel
holds a request that is not superseded, or it is empty and either a call will offer
again or the loop has applied such a request.

**Route changes** (`RouteNotifierProofs`): `NoChangeLost`,
`Spec => []ChangeOnItsWay`, for any notifiers, keys and table size. The invariant
follows a change through the table or its overflow mark, the watcher's hands and the
announcement to the supervisor's debounce, and says that whoever holds it has been
woken; and that an open notifier has all three subscriptions, since one at a time
registers or cancels.

Only model-checked: liveness, and everything about the core, the supervisor, the
executor, sessions, reassembly, the FEC code, the collector, the ledgers and the
journal, whose invariants count elements of sets and sequences; and the violations.

## 5. Not modelled

* Host set-up on Linux, FreeBSD and Windows (`host_*.go`, `network_*_windows.go`): a
  list of commands that is run, and undone in reverse when one fails, without
  concurrency or state of its own.
* Management (`quick/runtime_management.go`, `internal/management`): dispatch to the
  coordinator, whose clients `Coordinator` has, and status documents.
* Windows services, access control and secure paths (`internal/quick/*_windows.go`),
  the command line, the desktop client and the OPNsense plugin: system calls and text.
* The parser (`internal/config`): conversion of text without state.
* Galois-field arithmetic, obfuscation and the QUIC carrier: cryptography and I/O,
  used through what they promise. QUIC and WireGuard themselves are vendored.
* The supervisor's start (`Initialize`) and the schedule of its periodic loops; the
  start of the bind; the byte formats and atomic replacement of ledgers and journals.
