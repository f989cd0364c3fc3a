----------------------- MODULE CoordinatorRefinement ------------------------
(***************************************************************************)
(* What follows from the inductive invariant of Coordinator: results are   *)
(* final, clients wait for their own transaction, Close leaves nothing     *)
(* running, and the coordinator implements DesiredState.                   *)
(***************************************************************************)
EXTENDS CoordinatorProofs

\* How one step treats the entries that exist: none disappears, none changes
\* its request, and a completed one does not change at all.
LEMMA HeapGrows ==
    ASSUME IInv, [Next]_vars
    PROVE  /\ Indices \subseteq Indices'
           /\ \A i \in Indices : /\ heap'[i].id = heap[i].id
                                 /\ heap'[i].request = heap[i].request
                                 /\ Completed(heap[i]) => heap'[i] = heap[i]
  <1> USE DEF store, shutdown
  <1> DEFINE Goal == /\ Indices \subseteq Indices'
                     /\ \A i \in Indices :
                           /\ heap'[i].id = heap[i].id
                           /\ heap'[i].request = heap[i].request
                           /\ Completed(heap[i]) => heap'[i] = heap[i]
  <1>1. CASE heap' = heap
    BY <1>1 DEF Indices
  <1>2. ASSUME NEW e \in Entry, heap' = Append(heap, e) PROVE Goal
    BY <1>2, AppendKeeps DEF IInv
  <1>3. ASSUME NEW i \in workers, NEW e \in Entry, heap' = [heap EXCEPT ![i] = e],
               ~Completed(heap[i]), e.id = heap[i].id, e.request = heap[i].request
        PROVE  Goal
    <2>1. i \in Indices
      BY DEF IInv, TypeOK, Indices
    <2> QED
      BY <1>3, <2>1, HeapUpdate DEF IInv
  <1>4. \A i \in workers : heap[i] \in Entry /\ i \in Indices
    BY ElementOfSeq DEF IInv, TypeOK, Indices
  <1>5. ASSUME NEW r \in Requests, NEW now \in Readings, NEW cached,
               NEW state \in {"rejected", "no_op"}, NEW code \in Codes,
               RegisterSettled(r, state, code, cached, now)
        PROVE  Goal
    <2> DEFINE e == NewEntry(r, state, code, now)
    <2>1. e \in Entry
      BY CoordinatorAssumption DEF NewEntry, Entry, IInv, TypeOK, Readings, States
    <2>2. heap' = Append(heap, e)
      BY <1>5 DEF RegisterSettled
    <2> HIDE DEF e, Goal
    <2> QED
      BY <1>2, <2>1, <2>2
  <1>6. ASSUME NEW c \in Clients, NEW r \in Requests, Submit(c, r) PROVE Goal
    <2>1. CASE SubmitKnown(c, r) \/ SubmitClosed(c, r)
      BY <1>1, <2>1 DEF SubmitKnown, SubmitClosed
    <2>2. CASE SubmitRejected(c, r)
      <3>1. AdmissionCode(r) \in Codes
        BY DEF AdmissionCode, Codes
      <3> HIDE DEF Goal
      <3> QED
        BY <1>5, <2>2, <3>1 DEF SubmitRejected
    <2>3. CASE SubmitNoOp(c, r)
      <3>1. "none" \in Codes
        BY DEF Codes
      <3> HIDE DEF Goal
      <3> QED
        BY <1>5, <2>3, <3>1 DEF SubmitNoOp
    <2>4. CASE SubmitAccepted(c, r)
      <3> DEFINE e == NewEntry(r, "accepted", "none", Running)
      <3>1. e \in Entry
        BY CoordinatorAssumption
        DEF NewEntry, Entry, IInv, TypeOK, States, progressState, Codes, Running
      <3>2. heap' = Append(heap, e)
        BY <2>4 DEF SubmitAccepted
      <3> HIDE DEF e, Goal
      <3> QED
        BY <1>2, <3>1, <3>2
    <2> QED
      BY <1>6, <2>1, <2>2, <2>3, <2>4 DEF Submit
  <1>7. ASSUME NEW i \in workers, setProgress(i) PROVE Goal
    <2> DEFINE e == [heap[i] EXCEPT !.state = "executing"]
    <2>1. e \in Entry /\ e.id = heap[i].id /\ e.request = heap[i].request
      BY <1>4 DEF Entry, States, progressState
    <2>2. heap' = [heap EXCEPT ![i] = e] /\ ~Completed(heap[i])
      BY <1>7 DEF setProgress
    <2> HIDE DEF e, Goal
    <2> QED
      BY <1>3, <2>1, <2>2
  <1>8. ASSUME NEW i \in workers, NEW state \in terminalExecutionState,
               execute(i, state)
        PROVE  Goal
    <2> DEFINE next == IF state = "committed" THEN heap[i].generation + 1
                                              ELSE generation
    <2>1. PICK now \in Readings :
             heap' = [heap EXCEPT ![i] =
                [@ EXCEPT !.state = state, !.generation = next, !.completedAt = now]]
      BY <1>8 DEF execute
    <2>2. next \in Nat
      BY <1>4 DEF IInv, TypeOK, Entry
    <2> DEFINE e == [heap[i] EXCEPT !.state = state, !.generation = next,
                                    !.completedAt = now]
    <2> HIDE DEF next
    <2>3. state \in States /\ now \in Int /\ heap[i] \in Entry
      BY <1>4 DEF States, Readings, IInv, TypeOK
    <2>4. e \in Entry /\ e.id = heap[i].id /\ e.request = heap[i].request
      BY <2>2, <2>3 DEF Entry
    <2>5. heap' = [heap EXCEPT ![i] = e]
      BY <2>1
    <2>6. ~Completed(heap[i])
      BY <1>4, <1>8 DEF execute, IInv, SettledStates, progressState
    <2> HIDE DEF e, Goal
    <2> QED
      BY <1>3, <2>4, <2>5, <2>6
  <1>9. \A apply \in ApplyResults : Normalise(apply) \in terminalExecutionState
    BY DEF Normalise, terminalExecutionState
  <1>10. ASSUME NEW i \in workers, Worker(i) PROVE Goal
    <2>1. CASE WorkerDone(i)
      BY <1>1, <2>1 DEF WorkerDone
    <2> HIDE DEF Goal
    <2> QED
      BY <1>7, <1>8, <1>9, <1>10, <2>1 DEF Worker
  <1>11. CASE \/ \E c \in Clients : WaitDone(c) \/ WaitCancelled(c)
              \/ Query \/ CloseBegin \/ CloseReturn \/ Tick \/ UNCHANGED vars
    BY <1>1, <1>11
    DEF WaitDone, WaitCancelled, Query, CloseBegin, CloseReturn, Tick, vars
  <1> QED
    BY <1>6, <1>10, <1>11 DEF Next

\* A terminal result never changes (finishLocked, setProgress).
THEOREM ResultsAreFinal == Spec => TerminalIsFinal
  <1>1. IInv /\ [Next]_vars =>
           [\A i \in Indices : Completed(heap[i]) => heap'[i] = heap[i]]_vars
    BY HeapGrows
  <1> QED
    BY <1>1, Invariant, PTL DEF Spec, TerminalIsFinal

-----------------------------------------------------------------------------
(* Waiting clients *)

WaitedRequest ==
    \A c \in Clients :
        waiting[c] # NotWaiting =>
            waiting[c].request = {heap[waiting[c].entry].request}

LEMMA WaitedRequestStep ==
    ASSUME IInv, WaitedRequest, [Next]_vars
    PROVE  WaitedRequest'
  <1> USE DEF store, shutdown
  <1>1. \A c \in Clients : waiting[c] # NotWaiting => waiting[c].entry \in Indices
    BY DEF IInv, TypeOK, Indices
  <1>2. \A i \in Indices : heap'[i].request = heap[i].request
    BY HeapGrows
  <1>3. ASSUME NEW c \in Clients, NEW r \in Requests, NEW i,
               heap'[i].request = r, Join(c, r, i)
        PROVE  WaitedRequest'
    <2> SUFFICES ASSUME NEW d \in Clients, waiting'[d] # NotWaiting
                 PROVE  waiting'[d].request = {heap'[waiting'[d].entry].request}
      BY DEF WaitedRequest
    <2>1. DOMAIN waiting = Clients
      BY DEF IInv, TypeOK
    <2>2. CASE d = c
      BY <1>3, <2>1, <2>2 DEF Join
    <2>3. CASE d # c
      <3>1. waiting'[d] = waiting[d]
        BY <1>3, <2>1, <2>3 DEF Join
      <3> QED
        BY <1>1, <1>2, <3>1 DEF WaitedRequest
    <2> QED
      BY <2>2, <2>3
  <1>4. ASSUME \A c \in Clients : waiting'[c] \in {waiting[c], NotWaiting}
        PROVE  WaitedRequest'
    BY <1>1, <1>2, <1>4 DEF WaitedRequest
  <1>5. ASSUME NEW c \in Clients, NEW r \in Requests, SubmitKnown(c, r)
        PROVE  WaitedRequest'
    <2>1. heap' = heap
      BY <1>5 DEF SubmitKnown
    <2> QED
      BY <1>3, <1>4, <1>5, <2>1 DEF SubmitKnown
  <1>6. ASSUME NEW c \in Clients, NEW r \in Requests, SubmitAccepted(c, r)
        PROVE  WaitedRequest'
    <2> DEFINE e == NewEntry(r, "accepted", "none", Running)
    <2>1. e \in Entry /\ e.request = r
      BY CoordinatorAssumption
      DEF NewEntry, Entry, IInv, TypeOK, States, progressState, Codes, Running
    <2>2. heap' = Append(heap, e) /\ Join(c, r, Len(heap) + 1)
      BY <1>6 DEF SubmitAccepted
    <2> HIDE DEF e
    <2>3. heap'[Len(heap) + 1].request = r
      BY <2>1, <2>2, AppendKeeps DEF IInv
    <2> QED
      BY <1>3, <2>2, <2>3
  <1>7. ASSUME NEW c \in Clients, WaitDone(c) \/ WaitCancelled(c)
        PROVE  WaitedRequest'
    <2>1. DOMAIN waiting = Clients
      BY DEF IInv, TypeOK
    <2> QED
      BY <1>4, <1>7, <2>1 DEF WaitDone, WaitCancelled
  <1>8. CASE waiting' = waiting
    BY <1>4, <1>8
  <1>9. ASSUME NEW c \in Clients, NEW r \in Requests, Submit(c, r)
        PROVE  WaitedRequest'
    BY <1>5, <1>6, <1>8, <1>9
    DEF Submit, SubmitClosed, SubmitRejected, SubmitNoOp, RegisterSettled
  <1>10. ASSUME NEW i \in workers, Worker(i) PROVE waiting' = waiting
    BY <1>10 DEF Worker, setProgress, execute, WorkerDone
  <1> QED
    BY <1>7, <1>8, <1>9, <1>10
    DEF Next, Query, CloseBegin, CloseReturn, Tick, vars

\* A client waits for the transaction it asked for, and that transaction is
\* finished or has a worker.
THEOREM OwnTransaction == Spec => []WaitsForItsOwn
  <1>1. Init => WaitedRequest
    BY DEF Init, WaitedRequest
  <1>2. IInv /\ WaitedRequest /\ [Next]_vars => WaitedRequest'
    BY WaitedRequestStep
  <1>3. IInv /\ WaitedRequest => WaitsForItsOwn
    <2> SUFFICES ASSUME IInv, WaitedRequest, NEW c \in Clients,
                        waiting[c] # NotWaiting
                 PROVE  LET i == waiting[c].entry
                        IN  /\ waiting[c].request = {heap[i].request}
                            /\ heap[i].id = heap[i].request.id
                            /\ Completed(heap[i]) \/ i \in workers
      BY DEF WaitsForItsOwn
    <2>1. waiting[c].entry \in Indices
      BY DEF IInv, TypeOK, Indices
    <2> QED
      BY <2>1 DEF IInv, CacheConsistent, ActiveBase, WaitedRequest
  <1> QED
    BY <1>1, <1>2, <1>3, Invariant, PTL DEF Spec

-----------------------------------------------------------------------------
(* Close *)

ClosedQuietly ==
    closing = "returned" =>
        /\ workers = {}
        /\ closeErr => \E i \in Indices : /\ heap[i].id = shutdownID
                                          /\ heap[i].state = "degraded"

LEMMA ClosedQuietlyStep ==
    ASSUME IInv, ClosedQuietly, [Next]_vars
    PROVE  ClosedQuietly'
  <1> USE DEF store, shutdown
  <1>1. ASSUME UNCHANGED shutdown, closing = "returned" => workers' = {}
        PROVE  ClosedQuietly'
    <2> SUFFICES ASSUME closing = "returned", closeErr
                 PROVE  \E i \in Indices' : /\ heap'[i].id = shutdownID
                                            /\ heap'[i].state = "degraded"
      BY <1>1 DEF ClosedQuietly
    <2>1. PICK i \in Indices : heap[i].id = shutdownID /\ heap[i].state = "degraded"
      BY DEF ClosedQuietly
    <2>2. Completed(heap[i])
      BY <2>1 DEF IInv, ActiveBase, progressState
    <2>3. i \in Indices' /\ heap'[i] = heap[i]
      BY <2>2, HeapGrows
    <2> QED
      BY <2>1, <2>3
  <1>2. CASE CloseBegin
    BY <1>2 DEF CloseBegin, ClosedQuietly
  <1>3. CASE CloseReturn
    <2>1. workers' = {} /\ heap' = heap /\ shutdownID' = shutdownID
      BY <1>3 DEF CloseReturn
    <2>2. closeErr' => /\ shutdownID # NoID
                       /\ entries[shutdownID] # 0
                       /\ heap[entries[shutdownID]].state = "degraded"
      BY <1>3 DEF CloseReturn
    <2>3. closeErr' => /\ entries[shutdownID] \in Indices
                       /\ heap[entries[shutdownID]].id = shutdownID
      BY <2>2 DEF IInv, TypeOK, CacheConsistent, Indices
    <2> QED
      BY <2>1, <2>2, <2>3 DEF ClosedQuietly, Indices
  <1>4. ASSUME NEW c \in Clients, NEW r \in Requests, Submit(c, r)
        PROVE  ClosedQuietly'
    BY <1>1, <1>4
    DEF Submit, SubmitKnown, SubmitClosed, SubmitRejected, SubmitNoOp,
        SubmitAccepted, RegisterSettled, ClosedQuietly
  <1>5. ASSUME NEW i \in workers, Worker(i) PROVE ClosedQuietly'
    BY <1>1, <1>5 DEF Worker, setProgress, execute, WorkerDone, ClosedQuietly
  <1>6. CASE \/ \E c \in Clients : WaitDone(c) \/ WaitCancelled(c)
             \/ Query \/ Tick \/ UNCHANGED vars
    BY <1>1, <1>6 DEF WaitDone, WaitCancelled, Query, Tick, vars, ClosedQuietly
  <1> QED
    BY <1>2, <1>3, <1>4, <1>5, <1>6 DEF Next

LEMMA ClosedQuietlyAlways == Spec => []ClosedQuietly
  <1>1. Init => ClosedQuietly
    BY DEF Init, ClosedQuietly
  <1>2. IInv /\ ClosedQuietly /\ [Next]_vars => ClosedQuietly'
    BY ClosedQuietlyStep
  <1> QED
    BY <1>1, <1>2, Invariant, PTL DEF Spec

\* When Close has returned nothing runs and every entry has its result.
THEOREM CloseLeavesNothing == Spec => []QuiescentAfterClose
  <1>1. IInv /\ ClosedQuietly => QuiescentAfterClose
    <2> SUFFICES ASSUME IInv, ClosedQuietly, closing = "returned"
                 PROVE  /\ active = NoID
                        /\ \A i \in Indices : Completed(heap[i])
      BY DEF ClosedQuietly, QuiescentAfterClose
    <2>1. \A i \in Indices : Completed(heap[i])
      BY DEF ClosedQuietly, IInv, ActiveBase
    <2>2. active # NoID => entries[active] \in Indices
      BY DEF IInv, SingleActive, TypeOK, Indices
    <2> QED
      BY <2>1, <2>2 DEF IInv, SingleActive
  <1> QED
    BY <1>1, Invariant, ClosedQuietlyAlways, PTL

-----------------------------------------------------------------------------
(* The compare-and-swap register *)

Applied == {heap[i].request : i \in Committed}

\* DesiredState and Coordinator compare configurations alike.
LEMMA SameComparison ==
    ASSUME NEW before, NEW after
    PROVE  /\ Register!Changed(Register!Compare(before, after))
                 = Changed(Compare(before, after))
           /\ Register!RestartRequired(Register!Compare(before, after))
                 = RestartRequired(Compare(before, after))
  BY DEF Register!Changed, Register!Compare, Register!RestartRequired,
         Register!RestartReasons, Register!changedPeerFields,
         Register!prefixOwners, Register!OwnedPrefixes,
         Register!hasDefaultRoute, Changed, Compare, RestartRequired,
         RestartReasons, changedPeerFields, prefixOwners, OwnedPrefixes,
         hasDefaultRoute

\* A step either publishes nothing, or it is the execute of a transaction
\* that commits on top of the generation it was admitted against.
LEMMA PublishingStep ==
    ASSUME IInv, [Next]_vars
    PROVE  \/ UNCHANGED <<generation, current>> /\ Applied' = Applied
           \/ /\ workers # {}
              /\ \E r \in Requests : Register!Apply(r)
  <1> USE DEF store, shutdown
  <1>1. /\ Indices \subseteq Indices'
        /\ \A i \in Indices : /\ heap'[i].request = heap[i].request
                              /\ Completed(heap[i]) => heap'[i] = heap[i]
    BY HeapGrows
  <1>2. Committed \subseteq Committed' /\ \A i \in Committed : heap'[i] = heap[i]
    BY <1>1 DEF Committed, Completed
  <1>3. Committed \subseteq Indices
    BY DEF Committed
  <1>4. ASSUME Committed' \subseteq Committed PROVE Applied' = Applied
    BY <1>2, <1>4 DEF Applied
  <1>5. ASSUME NEW e \in Entry, heap' = Append(heap, e), e.state # "committed"
        PROVE  Committed' \subseteq Committed
    BY <1>5, AppendKeeps DEF IInv, Committed, Completed
  <1>6. CASE heap' = heap /\ UNCHANGED <<generation, current>>
    BY <1>4, <1>6 DEF Committed, Indices
  <1>7. ASSUME NEW r \in Requests, NEW now \in Readings, NEW cached,
               NEW state \in {"rejected", "no_op"}, NEW code \in Codes,
               RegisterSettled(r, state, code, cached, now)
        PROVE  UNCHANGED <<generation, current>> /\ Applied' = Applied
    <2> DEFINE e == NewEntry(r, state, code, now)
    <2>1. e \in Entry /\ e.state # "committed"
      BY CoordinatorAssumption DEF NewEntry, Entry, IInv, TypeOK, Readings, States
    <2>2. heap' = Append(heap, e) /\ UNCHANGED <<generation, current>>
      BY <1>7 DEF RegisterSettled
    <2> HIDE DEF e
    <2> QED
      BY <1>4, <1>5, <2>1, <2>2
  <1>8. ASSUME NEW c \in Clients, NEW r \in Requests, Submit(c, r)
        PROVE  UNCHANGED <<generation, current>> /\ Applied' = Applied
    <2>1. CASE SubmitKnown(c, r) \/ SubmitClosed(c, r)
      <3>1. heap' = heap /\ UNCHANGED <<generation, current>>
        BY <2>1 DEF SubmitKnown, SubmitClosed
      <3> QED
        BY <1>4, <3>1 DEF Committed, Indices
    <2>2. CASE SubmitRejected(c, r)
      <3>1. AdmissionCode(r) \in Codes
        BY DEF AdmissionCode, Codes
      <3> QED
        BY <1>7, <2>2, <3>1 DEF SubmitRejected
    <2>3. CASE SubmitNoOp(c, r)
      <3>1. "none" \in Codes
        BY DEF Codes
      <3> QED
        BY <1>7, <2>3, <3>1 DEF SubmitNoOp
    <2>4. CASE SubmitAccepted(c, r)
      <3> DEFINE e == NewEntry(r, "accepted", "none", Running)
      <3>1. e \in Entry /\ e.state # "committed"
        BY CoordinatorAssumption
        DEF NewEntry, Entry, IInv, TypeOK, States, progressState, Codes, Running
      <3>2. heap' = Append(heap, e) /\ UNCHANGED <<generation, current>>
        BY <2>4 DEF SubmitAccepted
      <3> HIDE DEF e
      <3> QED
        BY <1>4, <1>5, <3>1, <3>2
    <2> QED
      BY <1>8, <2>1, <2>2, <2>3, <2>4 DEF Submit
  <1>9. ASSUME NEW i \in workers, setProgress(i)
        PROVE  UNCHANGED <<generation, current>> /\ Applied' = Applied
    <2>1. IInv' /\ i \in Indices
      BY InvariantStep DEF IInv, TypeOK, Indices
    <2>2. heap' = [heap EXCEPT ![i] = [heap[i] EXCEPT !.state = "executing"]]
      BY <1>9 DEF setProgress
    <2>3. [heap[i] EXCEPT !.state = "executing"] \in Entry
      <3>1. heap[i] \in Entry
        BY <2>1, ElementOfSeq DEF IInv, TypeOK, Indices
      <3> QED
        BY <3>1 DEF Entry, States, progressState
    <2>4. /\ Indices' = Indices
          /\ \A j \in Indices : j # i => heap'[j] = heap[j]
          /\ heap'[i] = [heap[i] EXCEPT !.state = "executing"]
      BY <2>1, <2>2, <2>3, HeapUpdate DEF IInv
    <2>5. heap'[i].state # "committed"
      BY <2>1, <2>4, ElementOfSeq DEF IInv, TypeOK, Indices, Entry
    <2>6. Committed' \subseteq Committed
      BY <2>4, <2>5 DEF Committed, Completed
    <2> QED
      BY <1>4, <1>9, <2>6 DEF setProgress
  <1>10. ASSUME NEW i \in workers, NEW state \in terminalExecutionState,
                execute(i, state)
         PROVE  \/ UNCHANGED <<generation, current>> /\ Applied' = Applied
                \/ \E r \in Requests : Register!Apply(r)
    <2> DEFINE next == IF state = "committed" THEN heap[i].generation + 1
                                              ELSE generation
    <2>1. PICK now \in Readings :
             /\ heap[i].state = "executing"
             /\ heap' = [heap EXCEPT ![i] =
                  [@ EXCEPT !.state = state, !.generation = next, !.completedAt = now]]
             /\ generation' = next
             /\ current' = IF state = "committed"
                           THEN heap[i].request.desired ELSE current
      BY <1>10 DEF execute
    <2>2. i \in Indices /\ heap[i] \in Entry /\ now \in Nat
      BY ElementOfSeq DEF IInv, TypeOK, Indices, Readings
    <2>3. ~Completed(heap[i])
      BY <2>1, <2>2 DEF IInv, SettledStates, progressState
    <2>4. /\ heap[i].generation = generation
          /\ heap[i].request.generation = generation
          /\ heap[i].request.epoch = Epoch
          /\ Changed(Compare(current, heap[i].request.desired))
          /\ ~RestartRequired(Compare(current, heap[i].request.desired))
      BY <2>2, <2>3 DEF IInv, ActiveBase
    <2>5. generation \in Nat /\ next \in Nat
      <3>1. generation \in Nat
        BY Times DEF IInv
      <3>2. next = generation \/ next = generation + 1
        BY <2>4
      <3> HIDE DEF next
      <3> QED
        BY ONLY <3>1, <3>2
    <2> DEFINE e == [heap[i] EXCEPT !.state = state, !.generation = next,
                                    !.completedAt = now]
    <2> HIDE DEF next
    <2>6. state \in States /\ now \in Int
      BY <2>2 DEF States
    <2>7. e \in Entry /\ e.state = state /\ e.request = heap[i].request
          /\ e.completedAt = now
      BY <2>2, <2>5, <2>6 DEF Entry
    <2>8. heap' = [heap EXCEPT ![i] = e]
      BY <2>1
    <2> HIDE DEF e
    <2>9. /\ Indices' = Indices
          /\ \A j \in Indices : j # i => heap'[j] = heap[j]
          /\ heap'[i] = e
      BY <2>2, <2>7, <2>8, HeapUpdate DEF IInv
    <2>10. CASE state # "committed"
      <3>1. Committed' \subseteq Committed
        BY <2>7, <2>9, <2>10 DEF Committed, Completed
      <3> QED
        BY <1>4, <2>1, <2>10, <3>1 DEF next
    <2>11. CASE state = "committed"
      <3> DEFINE r == heap[i].request
      <3>1. r \in Requests
        BY <2>2 DEF Entry
      <3>2. now # Running
        BY <2>2 DEF Running
      <3>3. Committed' = Committed \cup {i}
        <4>1. i \in Committed'
          BY <2>2, <2>7, <2>9, <2>11, <3>2 DEF Committed, Completed
        <4>2. \A j \in Committed' : j # i => j \in Committed
          BY <2>9 DEF Committed, Completed
        <4> QED
          BY <1>2, <4>1, <4>2
      <3>4. Applied' = Applied \cup {r}
        BY <1>2, <2>7, <2>9, <3>3 DEF Applied
      <3>5. r \notin Applied
        <4> SUFFICES ASSUME NEW j \in Committed PROVE heap[j].request # r
          BY DEF Applied
        <4>1. heap[j].generation = heap[j].request.generation + 1
              /\ heap[j].generation <= generation
          BY DEF IInv, CommittedFromItsBase
        <4>2. heap[j].request.generation \in Nat
          <5>1. heap[j] \in Entry
            BY <1>3, ElementOfSeq DEF IInv, TypeOK, Indices
          <5>2. heap[j].request \in Requests
            BY <5>1 DEF Entry
          <5> QED
            BY <5>2, CoordinatorAssumption
        <4> QED
          BY <2>4, <2>5, <4>1, <4>2
      <3>6. generation' = generation + 1 /\ current' = r.desired
        BY <2>1, <2>4, <2>11 DEF next
      <3> HIDE DEF r
      <3>8. /\ Register!Changed(Register!Compare(current, r.desired))
            /\ ~Register!RestartRequired(Register!Compare(current, r.desired))
        BY <2>4, SameComparison DEF r
      <3>7. Register!Apply(r)
        BY <2>4, <3>4, <3>5, <3>6, <3>8 DEF Register!Apply, Applied, r
      <3> QED
        BY <3>1, <3>7 DEF Register!Apply
    <2> QED
      BY <2>10, <2>11
  <1>11. \A apply \in ApplyResults : Normalise(apply) \in terminalExecutionState
    BY DEF Normalise, terminalExecutionState
  <1>12. ASSUME NEW i \in workers, Worker(i)
         PROVE  \/ UNCHANGED <<generation, current>> /\ Applied' = Applied
                \/ \E r \in Requests : Register!Apply(r)
    <2>1. CASE WorkerDone(i)
      <3>1. heap' = heap /\ UNCHANGED <<generation, current>>
        BY <2>1 DEF WorkerDone
      <3> QED
        BY <1>4, <3>1 DEF Committed, Indices
    <2> QED
      BY <1>9, <1>10, <1>11, <1>12, <2>1 DEF Worker
  <1>13. CASE \/ \E c \in Clients : WaitDone(c) \/ WaitCancelled(c)
              \/ Query \/ CloseBegin \/ CloseReturn \/ Tick \/ UNCHANGED vars
    <2>1. heap' = heap /\ UNCHANGED <<generation, current>>
      BY <1>13
      DEF WaitDone, WaitCancelled, Query, CloseBegin, CloseReturn, Tick, vars
    <2> QED
      BY <1>6, <2>1
  <1>14. CASE \E i \in workers : Worker(i)
    BY <1>12, <1>14
  <1> QED
    BY <1>8, <1>13, <1>14 DEF Next

\* The coordinator implements the compare-and-swap register of DesiredState.
THEOREM Refinement == Spec => ImplementsDesiredState
  <1>1. Init => Register!Init
    <2>1. Init => Committed = {}
      BY DEF Init, Committed, Indices
    <2> QED
      BY <2>1 DEF Init, Register!Init
  <1>2. IInv /\ [Next]_vars => [Register!Next]_(Register!dsVars)
    BY PublishingStep DEF Register!Next, Register!dsVars, Applied
  <1> QED
    BY <1>1, <1>2, Invariant, PTL DEF Spec, ImplementsDesiredState, Register!Spec

\* The configuration changes only with the generation, by one, and not after
\* Close has returned.
THEOREM AtomicPublication == Spec => PublishedAtomically
  <1> DEFINE A == /\ generation' \in {generation, generation + 1}
                  /\ current' # current => generation' = generation + 1
                  /\ closing = "returned" => UNCHANGED <<generation, current>>
  <1>1. IInv /\ ClosedQuietly /\ [Next]_vars => [A]_vars
    BY PublishingStep DEF Register!Apply, ClosedQuietly
  <1> QED
    BY <1>1, Invariant, ClosedQuietlyAlways, PTL DEF Spec, PublishedAtomically
=============================================================================
