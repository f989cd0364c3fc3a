---------------------------- MODULE Coordinator -----------------------------
(***************************************************************************)
(* internal/reconcile/coordinator.go: admission of reconciliation          *)
(* requests, the request-ID cache, the single worker that executes an      *)
(* accepted transaction, and graceful shutdown.                            *)
(*                                                                         *)
(* A requestEntry is shared by pointer between the cache, the worker and   *)
(* the clients that wait for it, and outlives its eviction from the cache. *)
(* heap holds every entry ever created; entries maps a request ID to the   *)
(* index of its cached entry (0 when it is not cached).                    *)
(*                                                                         *)
(* The executor is any implementation of the Executor interface: it may    *)
(* report progress and returns any ApplyResult.  ReconcileExecutor.tla     *)
(* models the one the supervisor uses.                                     *)
(***************************************************************************)
EXTENDS Diff, Integers, Sequences

CONSTANTS
    RequestIDs,
    NoID,           \* the empty string held by active and shutdownID
    Clients,        \* concurrent callers of Submit
    Requests,       \* the requests clients may submit
    Epoch, Initial,
    CacheEntries, CacheTTL,
    MaxEntries,     \* bound: entries ever registered
    MaxTime         \* bound: ticks of the wall clock

ASSUME CoordinatorAssumption ==
    /\ NoID \notin RequestIDs
    /\ Requests \subseteq [id : RequestIDs, epoch : {Epoch, "other"},
                           generation : Nat \ {0}, desired : Config]
    /\ Initial \in Config
    /\ Epoch # "other"
    /\ CacheEntries \in Nat \ {0}
    /\ CacheTTL \in Nat \ {0}
    /\ MaxEntries \in Nat
    /\ MaxTime \in Nat

VARIABLES
    generation,     \* c.generation
    current,        \* c.current
    entries,        \* c.entries
    heap,           \* the requestEntry objects
    active,         \* c.active
    workers,        \* entries whose execute goroutine has not exited
    closing,        \* progress of Close
    shutdownID,     \* c.shutdownID
    closeErr,       \* Close returned an error
    waiting,        \* waiting[c]: what client c submitted and the entry it
                    \* waits for, or NotWaiting
    clock           \* wall clock

vars == <<generation, current, entries, heap, active, workers, closing,
          shutdownID, closeErr, waiting, clock>>

store == <<generation, current, active, workers>>
shutdown == <<closing, shutdownID, closeErr>>

\* The non-terminal states.  No decision of the coordinator tells the stages
\* an executor reports through SetState apart: "executing" stands for them.
progressState == {"accepted", "executing"}
terminalExecutionState == {"committed", "rolled_back", "degraded"}
States == progressState \cup terminalExecutionState \cup {"no_op", "rejected"}

Codes == {"none", "stale_epoch", "stale_generation",
          "transaction_in_progress", "restart_required",
          "request_id_conflict"}

Running == -1   \* completedAt.IsZero()
NotWaiting == [request |-> {}, entry |-> 0]

Completed(e) == e.completedAt # Running

-----------------------------------------------------------------------------
(* The cache *)

Terminal(ents, h) ==
    {id \in RequestIDs : ents[id] # 0 /\ Completed(h[ents[id]])}

\* evictLocked drops every terminal entry older than the TTL, and then the
\* oldest ones beyond CacheEntries.  Entries with equal stamps are sorted in
\* any order, so the result is a set of possible caches.
evictLocked(ents, h, now) ==
    LET terminal == Terminal(ents, h)
        stamp(id) == h[ents[id]].completedAt
        expired == {id \in terminal : now - stamp(id) >= CacheTTL}
        fresh == terminal \ expired
        excess == IF Cardinality(fresh) <= CacheEntries
                  THEN 0 ELSE Cardinality(fresh) - CacheEntries
        oldest == {d \in SUBSET fresh :
                     /\ Cardinality(d) = excess
                     /\ \A x \in d, y \in fresh \ d : stamp(x) <= stamp(y)}
    IN  {[id \in RequestIDs |-> IF id \in expired \cup d THEN 0 ELSE ents[id]] :
            d \in oldest}

\* completedAt is stored without its monotonic part and now is read before
\* the lock is taken, so a critical section may see any earlier reading.
Readings == 0 .. clock

-----------------------------------------------------------------------------
(* Submit *)

NewEntry(r, state, code, at) ==
    [id |-> r.id, request |-> r, state |-> state, code |-> code,
     generation |-> generation, completedAt |-> at]

\* Register an entry that is already terminal: finishRejectedLocked, or the
\* no_op branch, both of which end in finishLocked and its eviction.
RegisterSettled(r, state, code, cached, now) ==
    LET e == NewEntry(r, state, code, now)
        i == Len(heap) + 1
    IN  /\ Len(heap) < MaxEntries
        /\ heap' = Append(heap, e)
        /\ entries' \in evictLocked([cached EXCEPT ![r.id] = i], heap', now)
        /\ UNCHANGED <<generation, current, active, workers, shutdown,
                       waiting, clock>>

\* Mutants: one check of the admission sequence is missing.
AdmissionCodeNoGeneration(r) ==
    IF r.epoch # Epoch THEN "stale_epoch"
    ELSE IF active # NoID THEN "transaction_in_progress"
    ELSE IF RestartRequired(Compare(current, r.desired)) THEN "restart_required"
    ELSE "none"

AdmissionCodeNoRestart(r) ==
    IF r.epoch # Epoch THEN "stale_epoch"
    ELSE IF r.generation # generation THEN "stale_generation"
    ELSE IF active # NoID THEN "transaction_in_progress"
    ELSE "none"

\* The checks of Submit on a new request ID, in the order of the code.
AdmissionCode(r) ==
    IF r.epoch # Epoch THEN "stale_epoch"
    ELSE IF r.generation # generation THEN "stale_generation"
    ELSE IF active # NoID THEN "transaction_in_progress"
    ELSE IF RestartRequired(Compare(current, r.desired)) THEN "restart_required"
    ELSE "none"

Join(c, r, i) == waiting' = [waiting EXCEPT ![c] = [request |-> {r}, entry |-> i]]

\* A known request ID with the same content joins the original transaction,
\* with other content is refused; both also on a closed coordinator.
SubmitKnown(c, r) ==
    \E now \in Readings : \E cached \in evictLocked(entries, heap, now) :
        /\ waiting[c] = NotWaiting
        /\ cached[r.id] # 0
        /\ entries' = cached
        /\ IF heap[cached[r.id]].request = r
           THEN Join(c, r, cached[r.id])
           ELSE UNCHANGED waiting
        /\ UNCHANGED <<store, heap, shutdown, clock>>

\* A new request ID on a closed coordinator is an error.
SubmitClosed(c, r) ==
    \E now \in Readings : \E cached \in evictLocked(entries, heap, now) :
        /\ waiting[c] = NotWaiting
        /\ cached[r.id] = 0
        /\ closing # "open"
        /\ entries' = cached
        /\ UNCHANGED <<store, heap, shutdown, waiting, clock>>

SubmitRejected(c, r) ==
    \E now \in Readings : \E cached \in evictLocked(entries, heap, now) :
        /\ waiting[c] = NotWaiting
        /\ cached[r.id] = 0
        /\ closing = "open"
        /\ AdmissionCode(r) # "none"
        /\ RegisterSettled(r, "rejected", AdmissionCode(r), cached, now)

SubmitNoOp(c, r) ==
    \E now \in Readings : \E cached \in evictLocked(entries, heap, now) :
        /\ waiting[c] = NotWaiting
        /\ cached[r.id] = 0
        /\ closing = "open"
        /\ AdmissionCode(r) = "none"
        /\ ~Changed(Compare(current, r.desired))
        /\ RegisterSettled(r, "no_op", "none", cached, now)

\* The transaction is registered and its worker started under one lock; the
\* caller then waits for the entry.
SubmitAccepted(c, r) ==
    \E now \in Readings : \E cached \in evictLocked(entries, heap, now) :
        /\ waiting[c] = NotWaiting
        /\ cached[r.id] = 0
        /\ closing = "open"
        /\ AdmissionCode(r) = "none"
        /\ Changed(Compare(current, r.desired))
        /\ Len(heap) < MaxEntries
        /\ heap' = Append(heap, NewEntry(r, "accepted", "none", Running))
        /\ entries' = [cached EXCEPT ![r.id] = Len(heap) + 1]
        /\ active' = r.id
        /\ workers' = workers \cup {Len(heap) + 1}
        /\ Join(c, r, Len(heap) + 1)
        /\ UNCHANGED <<generation, current, shutdown, clock>>

\* Mutant: the waiter looks its entry up by request ID again.
WaitDoneByID(c) ==
    /\ waiting[c] # NotWaiting
    /\ Completed(heap[waiting[c].entry])
    /\ entries[heap[waiting[c].entry].id] = waiting[c].entry
    /\ waiting' = [waiting EXCEPT ![c] = NotWaiting]
    /\ UNCHANGED <<store, entries, heap, shutdown, clock>>

\* waitForEntry: the entry is done, or the caller's context ends first and
\* the caller gets a snapshot.  Neither touches the transaction.
WaitDone(c) ==
    /\ waiting[c] # NotWaiting
    /\ Completed(heap[waiting[c].entry])
    /\ waiting' = [waiting EXCEPT ![c] = NotWaiting]
    /\ UNCHANGED <<store, entries, heap, shutdown, clock>>

WaitCancelled(c) ==
    /\ waiting[c] # NotWaiting
    /\ ~Completed(heap[waiting[c].entry])
    /\ waiting' = [waiting EXCEPT ![c] = NotWaiting]
    /\ UNCHANGED <<store, entries, heap, shutdown, clock>>

\* TransactionStatus and Status change nothing but the cache.
Query ==
    \E now \in Readings :
        /\ entries' \in evictLocked(entries, heap, now)
        /\ UNCHANGED <<store, heap, shutdown, waiting, clock>>

-----------------------------------------------------------------------------
(* The worker of an accepted transaction *)

\* Mutant: late progress overwrites the result of a rolled-back transaction.
setProgressLate(i) ==
    /\ i \in workers
    /\ heap[i].state # "committed"
    /\ heap' = [heap EXCEPT ![i].state = "executing"]
    /\ UNCHANGED <<store, entries, shutdown, waiting, clock>>

\* execute reports StatePreparing before it calls the executor, which reports
\* its further stages; a completed entry no longer changes.
setProgress(i) ==
    /\ i \in workers
    /\ ~Completed(heap[i])
    /\ heap' = [heap EXCEPT ![i].state = "executing"]
    /\ UNCHANGED <<store, entries, shutdown, waiting, clock>>

\* What execute makes of the executor's ApplyResult.
ApplyResults == [state : {""} \cup States, failure : BOOLEAN]

Normalise(apply) ==
    LET state == IF apply.state # "" THEN apply.state
                 ELSE IF apply.failure THEN "rolled_back" ELSE "committed"
    IN  IF state \in terminalExecutionState THEN state ELSE "degraded"

\* Mutant: the generation advances without the configuration.
executeKeepsConfig(i, state) ==
    \E now \in Readings :
        LET next == IF state = "committed"
                    THEN heap[i].generation + 1 ELSE generation
        IN  /\ i \in workers
            /\ heap[i].state = "executing"
            /\ heap' = [heap EXCEPT ![i] =
                  [@ EXCEPT !.state = state, !.generation = next,
                            !.completedAt = now]]
            /\ generation' = next
            /\ entries' \in evictLocked(entries, heap', now)
            /\ active' = IF active = heap[i].id THEN NoID ELSE active
            /\ UNCHANGED <<current, workers, shutdown, waiting, clock>>

execute(i, state) ==
    \E now \in Readings :
        LET next == IF state = "committed"
                    THEN heap[i].generation + 1 ELSE generation
        IN  /\ i \in workers
            /\ heap[i].state = "executing"
            /\ heap' = [heap EXCEPT ![i] =
                  [@ EXCEPT !.state = state, !.generation = next,
                            !.completedAt = now]]
            /\ generation' = next
            /\ current' = IF state = "committed"
                          THEN heap[i].request.desired ELSE current
            /\ entries' \in evictLocked(entries, heap', now)
            /\ active' = IF active = heap[i].id THEN NoID ELSE active
            /\ UNCHANGED <<workers, shutdown, waiting, clock>>

\* Mutant: the WaitGroup is released only on the successful path.
WorkerDoneIfCommitted(i) ==
    /\ i \in workers
    /\ heap[i].state = "committed"
    /\ workers' = workers \ {i}
    /\ UNCHANGED <<generation, current, active, entries, heap, shutdown,
                   waiting, clock>>

\* The deferred workers.Done, after the lock has been released.
WorkerDone(i) ==
    /\ i \in workers
    /\ Completed(heap[i])
    /\ workers' = workers \ {i}
    /\ UNCHANGED <<generation, current, active, entries, heap, shutdown,
                   waiting, clock>>

-----------------------------------------------------------------------------
(* Close *)

CloseBegin ==
    /\ closing = "open"
    /\ closing' = "waiting"
    /\ shutdownID' = active
    /\ UNCHANGED <<store, entries, heap, closeErr, waiting, clock>>

CloseReturn ==
    /\ closing = "waiting"
    /\ workers = {}
    /\ closing' = "returned"
    /\ closeErr' = /\ shutdownID # NoID
                   /\ entries[shutdownID] # 0
                   /\ heap[entries[shutdownID]].state = "degraded"
    /\ UNCHANGED <<store, entries, heap, shutdownID, waiting, clock>>

Tick ==
    /\ clock < MaxTime
    /\ clock' = clock + 1
    /\ UNCHANGED <<store, entries, heap, shutdown, waiting>>

-----------------------------------------------------------------------------
Init ==
    /\ generation = 1
    /\ current = Initial
    /\ entries = [id \in RequestIDs |-> 0]
    /\ heap = <<>>
    /\ active = NoID
    /\ workers = {}
    /\ closing = "open"
    /\ shutdownID = NoID
    /\ closeErr = FALSE
    /\ waiting = [c \in Clients |-> NotWaiting]
    /\ clock = 0

Submit(c, r) ==
    \/ SubmitKnown(c, r)
    \/ SubmitClosed(c, r)
    \/ SubmitRejected(c, r)
    \/ SubmitNoOp(c, r)
    \/ SubmitAccepted(c, r)

Worker(i) ==
    \/ setProgress(i)
    \/ \E state \in {Normalise(apply) : apply \in ApplyResults} :
          execute(i, state)
    \/ WorkerDone(i)

Next ==
    \/ \E c \in Clients, r \in Requests : Submit(c, r)
    \/ \E c \in Clients : WaitDone(c) \/ WaitCancelled(c)
    \/ Query
    \/ \E i \in workers : Worker(i)
    \/ CloseBegin
    \/ CloseReturn
    \/ Tick

Spec == Init /\ [][Next]_vars

-----------------------------------------------------------------------------
(* Properties *)

Entry == [id : RequestIDs, request : Requests, state : States, code : Codes,
          generation : Nat, completedAt : Int]

\* Type correctness of the coordinator's fields, of the entries it has created
\* and of the client side of Submit.
TypeOK ==
    /\ generation \in Nat
    /\ current \in {Initial} \cup {r.desired : r \in Requests}
    /\ heap \in Seq(Entry)
    /\ entries \in [RequestIDs -> 0 .. Len(heap)]
    /\ active \in RequestIDs \cup {NoID}
    /\ workers \subseteq 1 .. Len(heap)
    /\ closing \in {"open", "waiting", "returned"}
    /\ shutdownID \in RequestIDs \cup {NoID}
    /\ closeErr \in BOOLEAN
    /\ waiting \in [Clients -> {NotWaiting} \cup
                               [request : {{r} : r \in Requests},
                                entry : 1 .. Len(heap)]]
    /\ clock \in 0 .. MaxTime

Indices == 1 .. Len(heap)
Committed == {i \in Indices : heap[i].state = "committed" /\ Completed(heap[i])}

\* The entries without a terminal result are exactly the active transaction,
\* which is still in the cache: a retry of its request ID finds it whatever
\* evictions happened since, and no second worker can be mutating the host
\* (Submit, execute, evictLocked).
SingleActive ==
    /\ active # NoID => entries[active] # 0
    /\ \A i \in Indices :
          ~Completed(heap[i]) <=> active # NoID /\ entries[active] = i

\* Every committed transaction replaced exactly the generation its client had
\* compared against, and no other one committed from the same generation: no
\* lost update, and a request whose entry was evicted and is submitted again
\* cannot commit twice (Submit's CAS and execute's NextGeneration).
CommittedFromItsBase ==
    /\ \A i \in Committed :
          /\ heap[i].request.epoch = Epoch
          /\ heap[i].generation = heap[i].request.generation + 1
          /\ heap[i].generation <= generation
    /\ \A i, j \in Committed : heap[i].generation = heap[j].generation => i = j

\* Configuration d was published as generation g, by the transactions that
\* committed.
PublishedAt(g, d) ==
    \/ g = 1 /\ d = Initial
    \/ \E i \in Committed : heap[i].generation = g /\ heap[i].request.desired = d

\* Generations are dense and the published configuration is the one of the
\* latest commit: every successful change increases the generation exactly
\* once, and nothing else does (execute).
GenerationHistory ==
    /\ \A g \in 2 .. generation : \E i \in Committed : heap[i].generation = g
    /\ PublishedAt(generation, current)

\* What clients are told stays true: a committed or no_op result names a
\* generation whose configuration is the requested one, and no result names a
\* generation that does not exist (Submit, execute, finishLocked).
ResultsAreTrue ==
    \A i \in Indices :
        /\ heap[i].state \in {"committed", "no_op"} =>
              PublishedAt(heap[i].generation, heap[i].request.desired)
        /\ heap[i].generation <= generation

\* A waiting client waits for an entry made from exactly what it submitted,
\* under its own request ID, and that entry is terminal or has a live worker:
\* a retry never adopts another request's transaction and never waits for one
\* that nobody executes (Submit, waitForEntry).
WaitsForItsOwn ==
    \A c \in Clients :
        LET i == waiting[c].entry
        IN  waiting[c] # NotWaiting =>
              /\ waiting[c].request = {heap[i].request}
              /\ heap[i].id = heap[i].request.id
              /\ Completed(heap[i]) \/ i \in workers

\* When Close has returned no worker runs and every entry is terminal, so host
\* teardown cannot race a transaction or its rollback; and the error is
\* reported only for a transaction that ended degraded (Close).
QuiescentAfterClose ==
    closing = "returned" =>
        /\ workers = {}
        /\ active = NoID
        /\ \A i \in Indices : Completed(heap[i])
        /\ closeErr => \E i \in Indices : /\ heap[i].id = shutdownID
                                          /\ heap[i].state = "degraded"

\* A terminal result never changes: clients that joined, clients that
\* reconnect and the status query all see the first one (finishLocked closes
\* entry.done once, setProgress ignores completed entries).
TerminalIsFinal ==
    [][\A i \in Indices : Completed(heap[i]) => heap'[i] = heap[i]]_vars

\* The configuration changes only together with a step of the generation by
\* one, and never once Close has returned.
PublishedAtomically ==
    [][/\ generation' \in {generation, generation + 1}
       /\ current' # current => generation' = generation + 1
       /\ closing = "returned" => UNCHANGED <<generation, current>>]_vars

-----------------------------------------------------------------------------
(* The inductive invariant behind the safety properties. *)

\* A cached entry is filed under its own request ID, which is the ID of the
\* request it was made from.
CacheConsistent ==
    /\ \A id \in RequestIDs : entries[id] # 0 => heap[entries[id]].id = id
    /\ \A i \in Indices : heap[i].id = heap[i].request.id

\* The entry of a running transaction was admitted against the configuration
\* and the generation that are still published, and a worker executes it.
ActiveBase ==
    \A i \in Indices :
        ~Completed(heap[i]) =>
            /\ i \in workers
            /\ heap[i].state \in progressState
            /\ heap[i].generation = generation
            /\ heap[i].request.generation = generation
            /\ heap[i].request.epoch = Epoch
            /\ Changed(Compare(current, heap[i].request.desired))
            /\ ~RestartRequired(Compare(current, heap[i].request.desired))

\* A completed entry carries a terminal state.
SettledStates ==
    \A i \in Indices : Completed(heap[i]) => heap[i].state \notin progressState

IInv ==
    /\ TypeOK
    /\ CacheConsistent
    /\ SingleActive
    /\ ActiveBase
    /\ SettledStates
    /\ CommittedFromItsBase
    /\ GenerationHistory
    /\ ResultsAreTrue

-----------------------------------------------------------------------------
(* Fairness.  The execute goroutine always finishes: the executor works      *)
(* under the operation deadline and its rollback under a bounded cleanup     *)
(* context.  A goroutine blocked on a closed channel or on the WaitGroup is  *)
(* eventually scheduled.  Clients and shutdown requests owe nothing.         *)

Fairness ==
    /\ \A i \in 1 .. MaxEntries : WF_vars(Worker(i))
    /\ \A c \in Clients : WF_vars(WaitDone(c))
    /\ WF_vars(CloseReturn)

FairSpec == Spec /\ Fairness

\* An accepted transaction reaches a terminal result even if every client
\* disconnects, and a client that keeps waiting is answered.
EveryTransactionEnds ==
    /\ \A i \in 1 .. MaxEntries :
          i \in workers ~> i \in Indices \ workers /\ Completed(heap[i])
    /\ \A c \in Clients : waiting[c] # NotWaiting ~> waiting[c] = NotWaiting

\* Graceful shutdown ends: Close waits only for workers that end.
CloseEnds == closing = "waiting" ~> closing = "returned"

-----------------------------------------------------------------------------
\* The coordinator implements the compare-and-swap register: the requests that
\* have taken effect are those of the committed entries.
Register == INSTANCE DesiredState WITH
    applied <- {heap[i].request : i \in Committed}

ImplementsDesiredState == Register!Spec
=============================================================================
