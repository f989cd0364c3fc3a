------------------------- MODULE CoordinatorProofs --------------------------
(***************************************************************************)
(* Proofs about Coordinator for every set of clients, requests and IDs,    *)
(* and every cache limit.                                                  *)
(***************************************************************************)
EXTENDS Coordinator, SequenceTheorems, TLAPS

-----------------------------------------------------------------------------
(* The cache *)

\* evictLocked only ever clears slots of completed entries.
LEMMA EvictionClearsCompleted ==
    ASSUME NEW ents, NEW h, NEW now, NEW e \in evictLocked(ents, h, now)
    PROVE  /\ DOMAIN e = RequestIDs
           /\ e = [id \in RequestIDs |-> e[id]]
           /\ \A id \in RequestIDs :
                 \/ e[id] = ents[id]
                 \/ e[id] = 0 /\ ents[id] # 0 /\ Completed(h[ents[id]])
  <1> DEFINE terminal == Terminal(ents, h)
             stamp(id) == h[ents[id]].completedAt
             expired == {id \in terminal : now - stamp(id) >= CacheTTL}
             fresh == terminal \ expired
             excess == IF Cardinality(fresh) <= CacheEntries
                       THEN 0 ELSE Cardinality(fresh) - CacheEntries
             oldest == {d \in SUBSET fresh :
                          /\ Cardinality(d) = excess
                          /\ \A x \in d, y \in fresh \ d : stamp(x) <= stamp(y)}
             cleared(d) == [id \in RequestIDs |->
                              IF id \in expired \cup d THEN 0 ELSE ents[id]]
  <1>1. e \in {cleared(d) : d \in oldest}
    BY DEF evictLocked
  <1>2. PICK d \in oldest : e = cleared(d)
    BY <1>1
  <1>3. expired \cup d \subseteq terminal
    OBVIOUS
  <1>4. \A id \in terminal : ents[id] # 0 /\ Completed(h[ents[id]])
    BY DEF Terminal
  <1> HIDE DEF expired, oldest, terminal
  <1> QED
    BY <1>2, <1>3, <1>4

LEMMA EvictionType ==
    ASSUME NEW h, NEW n \in Nat, NEW ents \in [RequestIDs -> 0 .. n], NEW now,
           NEW e \in evictLocked(ents, h, now)
    PROVE  e \in [RequestIDs -> 0 .. n]
  <1>1. \A id \in RequestIDs : e[id] \in 0 .. n
    BY EvictionClearsCompleted
  <1> QED
    BY <1>1, EvictionClearsCompleted

LEMMA StoreSlot ==
    ASSUME NEW n \in Nat, NEW f \in [RequestIDs -> 0 .. n], NEW id
    PROVE  [f EXCEPT ![id] = n + 1] \in [RequestIDs -> 0 .. n + 1]
  <1>1. 0 .. n \subseteq 0 .. n + 1 /\ n + 1 \in 0 .. n + 1
    OBVIOUS
  <1> QED
    BY <1>1

-----------------------------------------------------------------------------
(* Type correctness *)

LEMMA Times ==
    ASSUME TypeOK
    PROVE  generation \in Nat /\ Readings \subseteq Nat
  <1>1. generation \in Nat /\ clock \in 0 .. MaxTime
    BY DEF TypeOK
  <1> QED
    BY <1>1 DEF Readings

LEMMA NewEntryType ==
    ASSUME NEW r \in Requests, NEW state \in States, NEW code \in Codes,
           NEW at \in Int, generation \in Nat
    PROVE  NewEntry(r, state, code, at) \in Entry
  BY CoordinatorAssumption DEF NewEntry, Entry

LEMMA AcceptedEntryType ==
    ASSUME NEW r \in Requests, generation \in Nat
    PROVE  NewEntry(r, "accepted", "none", Running) \in Entry
  <1>1. "accepted" \in States /\ "none" \in Codes /\ Running \in Int
    BY DEF States, progressState, Codes, Running
  <1> QED
    BY <1>1, NewEntryType, Zenon

LEMMA RegisterSettledType ==
    ASSUME TypeOK, NEW r \in Requests, NEW now \in Readings,
           NEW state \in {"rejected", "no_op"}, NEW code \in Codes,
           NEW cached \in evictLocked(entries, heap, now),
           RegisterSettled(r, state, code, cached, now)
    PROVE  TypeOK'
  <1> DEFINE e == NewEntry(r, state, code, now)
             i == Len(heap) + 1
  <1>1. e \in Entry
    <2>1. now \in Int /\ state \in States /\ generation \in Nat
      BY Times DEF States
    <2> QED
      BY <2>1, NewEntryType, Zenon
  <1>2. heap' \in Seq(Entry) /\ Len(heap') = i
    BY <1>1 DEF RegisterSettled, TypeOK
  <1>0. Len(heap) \in Nat /\ i \in Nat
    BY LenProperties DEF TypeOK
  <1>3. cached \in [RequestIDs -> 0 .. Len(heap)]
    <2>1. entries \in [RequestIDs -> 0 .. Len(heap)]
      BY DEF TypeOK
    <2> QED
      BY <1>0, <2>1, EvictionType
  <1>4. [cached EXCEPT ![r.id] = i] \in [RequestIDs -> 0 .. i]
    BY <1>3, <1>0, StoreSlot
  <1>6. entries' \in evictLocked([cached EXCEPT ![r.id] = i], heap', now)
    BY DEF RegisterSettled
  <1> HIDE DEF i, e
  <1>5. entries' \in [RequestIDs -> 0 .. i]
    BY <1>0, <1>6, <1>4, EvictionType
  <1> QED
    BY <1>2, <1>5, <1>0 DEF RegisterSettled, TypeOK, shutdown, i

LEMMA TypeStep == TypeOK /\ [Next]_vars => TypeOK'
  <1> SUFFICES ASSUME TypeOK, [Next]_vars PROVE TypeOK'
    OBVIOUS
  <1> USE DEF store, shutdown
  <1>0. /\ Len(heap) \in Nat
        /\ \A now : \A e \in evictLocked(entries, heap, now) :
              e \in [RequestIDs -> 0 .. Len(heap)]
        /\ \A i \in workers : i \in 1 .. Len(heap) /\ heap[i] \in Entry
    <2>1. Len(heap) \in Nat
      BY LenProperties DEF TypeOK
    <2>2. entries \in [RequestIDs -> 0 .. Len(heap)]
      BY DEF TypeOK
    <2>3. \A i \in workers : i \in 1 .. Len(heap) /\ heap[i] \in Entry
      BY ElementOfSeq DEF TypeOK
    <2> QED
      BY <2>1, <2>2, <2>3, EvictionType
  <1>1. ASSUME NEW c \in Clients, NEW r \in Requests, SubmitKnown(c, r)
        PROVE  TypeOK'
    <2>1. PICK now \in Readings : \E cached \in evictLocked(entries, heap, now) :
              /\ cached[r.id] # 0
              /\ entries' = cached
              /\ IF heap[cached[r.id]].request = r
                 THEN Join(c, r, cached[r.id]) ELSE UNCHANGED waiting
      BY <1>1 DEF SubmitKnown
    <2>2. PICK cached \in evictLocked(entries, heap, now) :
              /\ cached[r.id] # 0
              /\ entries' = cached
              /\ IF heap[cached[r.id]].request = r
                 THEN Join(c, r, cached[r.id]) ELSE UNCHANGED waiting
      BY <2>1
    <2>3. cached \in [RequestIDs -> 0 .. Len(heap)]
      BY <1>0
    <2>4. r.id \in RequestIDs
      BY CoordinatorAssumption
    <2>6. cached[r.id] \in 1 .. Len(heap)
      BY <1>0, <2>2, <2>3, <2>4
    <2>7. [request |-> {r}, entry |-> cached[r.id]] \in
             [request : {{q} : q \in Requests}, entry : 1 .. Len(heap)]
      BY <2>6
    <2>5. waiting' \in [Clients -> {NotWaiting} \cup
                          [request : {{q} : q \in Requests}, entry : 1 .. Len(heap)]]
      BY <2>2, <2>7 DEF TypeOK, Join
    <2> QED
      BY <1>1, <2>2, <2>3, <2>5 DEF SubmitKnown, TypeOK
  <1>2. ASSUME NEW c \in Clients, NEW r \in Requests, SubmitClosed(c, r)
        PROVE  TypeOK'
    <2>1. entries' \in [RequestIDs -> 0 .. Len(heap)]
      BY <1>0, <1>2 DEF SubmitClosed
    <2> QED
      BY <1>2, <2>1 DEF SubmitClosed, TypeOK
  <1>3. ASSUME NEW c \in Clients, NEW r \in Requests, SubmitRejected(c, r)
        PROVE  TypeOK'
    <2>1. AdmissionCode(r) \in Codes
      BY DEF AdmissionCode, Codes
    <2> QED
      BY <1>3, <2>1, RegisterSettledType DEF SubmitRejected
  <1>4. ASSUME NEW c \in Clients, NEW r \in Requests, SubmitNoOp(c, r)
        PROVE  TypeOK'
    <2>1. "none" \in Codes
      BY DEF Codes
    <2> QED
      BY <1>4, <2>1, RegisterSettledType DEF SubmitNoOp
  <1>5. ASSUME NEW c \in Clients, NEW r \in Requests, SubmitAccepted(c, r)
        PROVE  TypeOK'
    <2> DEFINE e == NewEntry(r, "accepted", "none", Running)
               i == Len(heap) + 1
    <2>1. e \in Entry
      BY Times, AcceptedEntryType, Zenon
    <2>2. heap' \in Seq(Entry) /\ Len(heap') = i
      BY <1>5, <2>1 DEF SubmitAccepted, TypeOK
    <2>3. r.id \in RequestIDs
      BY CoordinatorAssumption
    <2>4. \A cached : (\E now \in Readings : cached \in evictLocked(entries, heap, now))
                         => cached \in [RequestIDs -> 0 .. Len(heap)]
      BY <1>0
    <2>5. entries' \in [RequestIDs -> 0 .. i]
      BY <1>0, <1>5, <2>3, <2>4 DEF SubmitAccepted
    <2>6. waiting' \in [Clients -> {NotWaiting} \cup
                          [request : {{q} : q \in Requests}, entry : 1 .. i]]
      BY <1>0, <1>5 DEF SubmitAccepted, TypeOK, Join
    <2>8. 1 .. Len(heap) \subseteq 1 .. i /\ i \in 1 .. i
      BY <1>0
    <2>9. workers' = workers \cup {i} /\ active' = r.id
      BY <1>5 DEF SubmitAccepted
    <2> HIDE DEF i
    <2>7. active' \in RequestIDs \cup {NoID} /\ workers' \subseteq 1 .. i
      BY <2>3, <2>8, <2>9 DEF TypeOK
    <2> USE DEF i
    <2> QED
      BY <1>5, <2>2, <2>5, <2>6, <2>7 DEF SubmitAccepted, TypeOK
  <1>6. ASSUME NEW c \in Clients, WaitDone(c) \/ WaitCancelled(c)
        PROVE  TypeOK'
    BY <1>6 DEF WaitDone, WaitCancelled, TypeOK
  <1>7. CASE Query
    <2>1. entries' \in [RequestIDs -> 0 .. Len(heap)]
      BY <1>0, <1>7 DEF Query
    <2> QED
      BY <1>7, <2>1 DEF Query, TypeOK
  <1>8. ASSUME NEW i \in workers, setProgress(i)
        PROVE  TypeOK'
    <2>2. heap' = [heap EXCEPT ![i] = [heap[i] EXCEPT !.state = "executing"]]
      BY <1>8 DEF setProgress
    <2>3. [heap[i] EXCEPT !.state = "executing"] \in Entry
      BY <1>0 DEF Entry, States, progressState
    <2>1. heap' \in Seq(Entry) /\ Len(heap') = Len(heap)
      BY <1>0, <2>2, <2>3, ExceptSeq DEF TypeOK
    <2> QED
      BY <1>8, <2>1 DEF setProgress, TypeOK
  <1>9. ASSUME NEW i \in workers, NEW state \in terminalExecutionState,
               execute(i, state)
        PROVE  TypeOK'
    <2>1. PICK now \in Readings :
             /\ heap' = [heap EXCEPT ![i] =
                   [@ EXCEPT !.state = state,
                             !.generation = IF state = "committed"
                                 THEN heap[i].generation + 1 ELSE generation,
                             !.completedAt = now]]
             /\ entries' \in evictLocked(entries, heap', now)
      BY <1>9 DEF execute
    <2> DEFINE e == [heap[i] EXCEPT !.state = state,
                       !.generation = IF state = "committed"
                           THEN heap[i].generation + 1 ELSE generation,
                       !.completedAt = now]
    <2>2. i \in 1 .. Len(heap) /\ heap[i] \in Entry
      BY <1>0
    <2>3. now \in Int
      BY DEF TypeOK, Readings
    <2>13. (IF state = "committed" THEN heap[i].generation + 1 ELSE generation) \in Nat
      BY <2>2 DEF TypeOK, Entry
    <2>7. e \in Entry
      BY <2>2, <2>3, <2>13 DEF Entry, States
    <2>8. heap' = [heap EXCEPT ![i] = e]
      BY <2>1
    <2> HIDE DEF e
    <2>4. heap' \in Seq(Entry) /\ Len(heap') = Len(heap)
      BY <2>2, <2>7, <2>8, ExceptSeq DEF TypeOK
    <2>9. entries \in [RequestIDs -> 0 .. Len(heap)]
      BY DEF TypeOK
    <2>5. entries' \in [RequestIDs -> 0 .. Len(heap)]
      BY <1>0, <2>1, <2>9, EvictionType
    <2>10. generation' \in Nat
      BY <1>9, <2>2 DEF execute, TypeOK, Entry
    <2>11. heap[i].request \in Requests
      BY <2>2 DEF Entry
    <2>12. /\ current' \in {Initial} \cup {r.desired : r \in Requests}
           /\ active' \in RequestIDs \cup {NoID}
      BY <1>9, <2>11 DEF execute, TypeOK
    <2>6. /\ generation' \in Nat
          /\ current' \in {Initial} \cup {r.desired : r \in Requests}
          /\ active' \in RequestIDs \cup {NoID}
      BY <2>10, <2>12
    <2> QED
      BY <1>9, <2>4, <2>5, <2>6 DEF execute, TypeOK
  <1>10. ASSUME NEW i \in workers, WorkerDone(i)
         PROVE  TypeOK'
    BY <1>10 DEF WorkerDone, TypeOK
  <1>11. CASE CloseBegin
    BY <1>11 DEF CloseBegin, TypeOK
  <1>12. CASE CloseReturn
    BY <1>12 DEF CloseReturn, TypeOK
  <1>13. CASE Tick
    BY <1>13, CoordinatorAssumption DEF Tick, TypeOK
  <1>14. CASE UNCHANGED vars
    BY <1>14 DEF vars, TypeOK
  <1>15. \A apply \in ApplyResults : Normalise(apply) \in terminalExecutionState
    BY DEF Normalise, terminalExecutionState
  <1> QED
    BY <1>1, <1>2, <1>3, <1>4, <1>5, <1>6, <1>7, <1>8, <1>9, <1>10, <1>11,
       <1>12, <1>13, <1>14, <1>15 DEF Next, Submit, Worker

LEMMA TypeInit == Init => TypeOK
  <1> SUFFICES ASSUME Init PROVE TypeOK
    OBVIOUS
  <1>1. heap \in Seq(Entry) /\ Len(heap) = 0
    BY DEF Init
  <1>2. entries \in [RequestIDs -> 0 .. 0]
    BY DEF Init
  <1>3. clock \in 0 .. MaxTime
    BY CoordinatorAssumption DEF Init
  <1> QED
    BY <1>1, <1>2, <1>3 DEF Init, TypeOK

\* Type correctness of the coordinator (the type invariant of every run).
THEOREM TypeCorrect == Spec => []TypeOK
  BY TypeInit, TypeStep, PTL DEF Spec

-----------------------------------------------------------------------------
(* The comparison *)

\* A desired configuration that Compare finds neither changed nor in need of
\* a restart is the current one.
LEMMA NoOpMeansEqual ==
    ASSUME NEW before \in Config, NEW after \in Config,
           ~Changed(Compare(before, after)),
           ~RestartRequired(Compare(before, after))
    PROVE  before = after
  <1> DEFINE P == before.Peers
             Q == after.Peers
  <1>1. /\ DOMAIN Q \ DOMAIN P = {}
        /\ DOMAIN P \ DOMAIN Q = {}
        /\ {k \in DOMAIN P \cap DOMAIN Q : changedPeerFields(P[k], Q[k]) # {}} = {}
        /\ RestartReasons(before, after) = {}
    BY DEF Changed, RestartRequired, Compare
  <1>2. before.Interface = after.Interface
    BY <1>1 DEF RestartReasons
  <1>3. \A k \in DOMAIN P \cap DOMAIN Q : P[k].PresharedKey = Q[k].PresharedKey
    <2> DEFINE both == DOMAIN P \cap DOMAIN Q
               keys == {k \in both : P[k].PresharedKey # Q[k].PresharedKey}
    <2>1. {<<"preshared key", k>> : k \in keys} \subseteq RestartReasons(before, after)
      BY DEF RestartReasons
    <2>2. keys = {}
      BY <1>1, <2>1
    <2> QED
      BY <2>2
  <1>4. /\ P \in PeerMaps
        /\ Q \in PeerMaps
    BY DEF Config
  <1>5. DOMAIN P = DOMAIN Q
    BY <1>1
  <1>6. \A k \in DOMAIN P : P[k] \in Peer /\ Q[k] \in Peer
    BY <1>4, <1>5 DEF PeerMaps
  <1>7. \A k \in DOMAIN P : P[k] = Q[k]
    <2> SUFFICES ASSUME NEW k \in DOMAIN P PROVE P[k] = Q[k]
      OBVIOUS
    <2>1. changedPeerFields(P[k], Q[k]) = {}
      BY <1>1, <1>5
    <2>2. /\ P[k].AllowedIPs = Q[k].AllowedIPs
          /\ P[k].Endpoint = Q[k].Endpoint
          /\ P[k].PersistentKeepalive = Q[k].PersistentKeepalive
          /\ P[k].FECPolicy = Q[k].FECPolicy
      BY <2>1 DEF changedPeerFields
    <2>3. P[k].PresharedKey = Q[k].PresharedKey
      BY <1>3, <1>5
    <2> QED
      BY <1>6, <2>2, <2>3 DEF Peer
  <1>8. P = Q
    BY <1>4, <1>5, <1>7 DEF PeerMaps
  <1> QED
    BY <1>2, <1>8 DEF Config

-----------------------------------------------------------------------------
(* The inductive invariant, one lemma for each way a step treats the heap *)

LEMMA CachedIndices ==
    ASSUME TypeOK
    PROVE  \A id \in RequestIDs : entries[id] # 0 => entries[id] \in Indices
  <1>1. Len(heap) \in Nat /\ entries \in [RequestIDs -> 0 .. Len(heap)]
    BY LenProperties DEF TypeOK
  <1> QED
    BY ONLY <1>1 DEF Indices

\* Steps that create and change no entry: evictions, clients, WorkerDone,
\* Close and the clock.
LEMMA CacheStep ==
    ASSUME IInv, TypeOK',
           UNCHANGED <<generation, current, heap, active>>,
           \A i \in workers : i \in workers' \/ Completed(heap[i]),
           \A id \in RequestIDs :
              \/ entries'[id] = entries[id]
              \/ entries'[id] = 0 /\ entries[id] # 0 /\ Completed(heap[entries[id]])
    PROVE  IInv'
  <1> USE DEF Indices
  <1>0. heap' = heap /\ generation' = generation /\ current' = current /\ active' = active
    OBVIOUS
  <1>1. CacheConsistent'
    BY <1>0 DEF IInv, CacheConsistent
  <1>2. SingleActive'
    <2>1. active # NoID => active \in RequestIDs /\ entries[active] \in Indices
      <3>1. /\ active \in RequestIDs \cup {NoID}
            /\ active # NoID => entries[active] # 0
        BY DEF IInv, TypeOK, SingleActive
      <3>2. \A id \in RequestIDs : entries[id] # 0 => entries[id] \in Indices
        BY CachedIndices DEF IInv
      <3> QED
        BY ONLY <3>1, <3>2
    <2>2. active # NoID => entries'[active] = entries[active]
      BY <2>1 DEF IInv, SingleActive
    <2>3. SingleActive
      BY DEF IInv
    <2> QED
      BY ONLY <1>0, <2>2, <2>3 DEF SingleActive, Completed, Indices
  <1>3. ActiveBase'
    BY <1>0 DEF IInv, ActiveBase, Completed
  <1>4. SettledStates' /\ CommittedFromItsBase' /\ GenerationHistory' /\ ResultsAreTrue'
    <2>1. SettledStates /\ CommittedFromItsBase /\ GenerationHistory /\ ResultsAreTrue
      BY DEF IInv
    <2>2. SettledStates'
      BY ONLY <1>0, <2>1 DEF SettledStates, Completed, Indices
    <2>3. Committed' = Committed
      BY ONLY <1>0 DEF Committed, Completed, Indices
    <2>4. CommittedFromItsBase' /\ GenerationHistory'
      BY ONLY <1>0, <2>1, <2>3 DEF CommittedFromItsBase, GenerationHistory, PublishedAt
    <2>5. ResultsAreTrue'
      BY ONLY <1>0, <2>1, <2>3 DEF ResultsAreTrue, PublishedAt, Indices
    <2> QED
      BY <2>2, <2>4, <2>5
  <1> QED
    BY <1>1, <1>2, <1>3, <1>4 DEF IInv

\* Committed entries stay committed when entries are only appended.
LEMMA AppendKeeps ==
    ASSUME TypeOK, NEW e \in Entry, heap' = Append(heap, e)
    PROVE  /\ Len(heap) \in Nat
           /\ Len(heap') = Len(heap) + 1
           /\ Indices' = Indices \cup {Len(heap) + 1}
           /\ Len(heap) + 1 \notin Indices
           /\ \A i \in Indices : heap'[i] = heap[i]
           /\ heap'[Len(heap) + 1] = e
  <1>1. heap \in Seq(Entry) /\ Len(heap) \in Nat
    BY LenProperties DEF TypeOK
  <1>2. /\ Len(heap') = Len(heap) + 1
        /\ \A i \in 1 .. Len(heap) : heap'[i] = heap[i]
        /\ heap'[Len(heap) + 1] = e
    BY <1>1, AppendProperties
  <1> QED
    BY ONLY <1>1, <1>2 DEF Indices

\* A step that publishes nothing and commits nothing keeps the history.
LEMMA HistoryKept ==
    ASSUME CommittedFromItsBase, GenerationHistory,
           generation' = generation, current' = current,
           Committed' = Committed, \A i \in Committed : heap'[i] = heap[i]
    PROVE  CommittedFromItsBase' /\ GenerationHistory'
  <1>1. CommittedFromItsBase'
    <2>1. ASSUME NEW i \in Committed'
          PROVE  /\ heap'[i].request.epoch = Epoch
                 /\ heap'[i].generation = heap'[i].request.generation + 1
                 /\ heap'[i].generation <= generation'
      BY <2>1 DEF CommittedFromItsBase
    <2>2. ASSUME NEW i \in Committed', NEW j \in Committed',
                 heap'[i].generation = heap'[j].generation
          PROVE  i = j
      BY <2>2 DEF CommittedFromItsBase
    <2> QED
      BY <2>1, <2>2 DEF CommittedFromItsBase
  <1>2. GenerationHistory'
    <2>1. \A g \in 2 .. generation' : \E i \in Committed' : heap'[i].generation = g
      BY DEF GenerationHistory
    <2>2. \/ generation' = 1 /\ current' = Initial
          \/ \E i \in Committed' : /\ heap'[i].generation = generation'
                                   /\ heap'[i].request.desired = current'
      BY DEF GenerationHistory, PublishedAt
    <2> QED
      BY <2>1, <2>2 DEF GenerationHistory, PublishedAt
  <1> QED
    BY <1>1, <1>2

\* Steps that register an entry with a terminal result.
LEMMA SettledStep ==
    ASSUME IInv, TypeOK', NEW e \in Entry,
           heap' = Append(heap, e),
           UNCHANGED <<generation, current, active, workers>>,
           Completed(e), e.state \in {"rejected", "no_op"},
           e.id = e.request.id, e.generation = generation,
           e.state = "no_op" => e.request.desired = current,
           \A id \in RequestIDs :
              \/ entries'[id] = entries[id]
              \/ /\ entries[id] = 0 \/ Completed(heap[entries[id]])
                 /\ \/ entries'[id] = 0
                    \/ entries'[id] = Len(heap) + 1 /\ id = e.id
    PROVE  IInv'
  <1> DEFINE n == Len(heap) + 1
  <1>0. /\ generation' = generation /\ current' = current
        /\ active' = active /\ workers' = workers
    OBVIOUS
  <1>1. /\ Len(heap) \in Nat
        /\ Indices' = Indices \cup {n}
        /\ n \notin Indices
        /\ \A i \in Indices : heap'[i] = heap[i]
        /\ heap'[n] = e
    BY AppendKeeps DEF IInv
  <1>2. \A id \in RequestIDs : entries[id] # 0 => entries[id] \in Indices
    BY CachedIndices DEF IInv
  <1> HIDE DEF n
  <1>3. CacheConsistent'
    <2>1. \A i \in Indices' : heap'[i].id = heap'[i].request.id
      BY <1>1 DEF IInv, CacheConsistent
    <2>2. \A id \in RequestIDs : entries'[id] # 0 => heap'[entries'[id]].id = id
      <3>1. \A id \in RequestIDs : entries[id] # 0 => heap[entries[id]].id = id
        BY DEF IInv, CacheConsistent
      <3>2. \A id \in RequestIDs : entries'[id] # 0 =>
               \/ entries'[id] = entries[id]
               \/ entries'[id] = n /\ id = e.id
        BY DEF n
      <3>3. ASSUME NEW id \in RequestIDs, entries'[id] # 0
            PROVE  heap'[entries'[id]].id = id
        <4>1. CASE entries'[id] = entries[id]
          BY <1>1, <1>2, <3>1, <3>3, <4>1
        <4>2. CASE entries'[id] = n /\ id = e.id
          BY <1>1, <4>2
        <4> QED
          BY <3>2, <3>3, <4>1, <4>2
      <3> QED
        BY <3>3
    <2> QED
      BY <2>1, <2>2 DEF CacheConsistent
  <1>4. SingleActive'
    <2>1. active # NoID => active \in RequestIDs /\ entries[active] \in Indices
      BY <1>2 DEF IInv, TypeOK, SingleActive
    <2>2. active # NoID => entries'[active] = entries[active]
      BY <2>1 DEF IInv, SingleActive, Indices
    <2>3. SingleActive /\ Completed(heap'[n])
      BY <1>1 DEF IInv
    <2> QED
      BY ONLY <1>0, <1>1, <2>1, <2>2, <2>3 DEF SingleActive, Completed
  <1>5. ActiveBase'
    <2>1. \A i \in Indices' : ~Completed(heap'[i]) => i \in Indices
      BY <1>1
    <2>2. ActiveBase
      BY DEF IInv
    <2>3. ASSUME NEW i \in Indices', ~Completed(heap'[i])
          PROVE  /\ i \in workers'
                 /\ heap'[i].state \in progressState
                 /\ heap'[i].generation = generation'
                 /\ heap'[i].request.generation = generation'
                 /\ heap'[i].request.epoch = Epoch
                 /\ Changed(Compare(current', heap'[i].request.desired))
                 /\ ~RestartRequired(Compare(current', heap'[i].request.desired))
      <3>1. i \in Indices /\ heap'[i] = heap[i] /\ ~Completed(heap[i])
        BY <1>1, <2>1, <2>3
      <3> QED
        BY <1>0, <2>2, <3>1 DEF ActiveBase
    <2> QED
      BY <2>3 DEF ActiveBase, Completed
  <1>6. SettledStates'
    BY <1>0, <1>1 DEF IInv, SettledStates, Completed, progressState
  <1>7. Committed' = Committed
    BY <1>1 DEF Committed, Completed
  <1>8. Committed \subseteq Indices
    BY DEF Committed
  <1>9. CommittedFromItsBase'
    BY <1>0, <1>1, <1>7, <1>8, HistoryKept DEF IInv
  <1> DEFINE Published(g, d) ==
               \/ g = 1 /\ d = Initial
               \/ \E i \in Committed' : /\ heap'[i].generation = g
                                        /\ heap'[i].request.desired = d
  <1>10. \A g, d : PublishedAt(g, d) => Published(g, d)
    BY <1>1, <1>7, <1>8 DEF PublishedAt
  <1> HIDE DEF Published
  <1>11. GenerationHistory'
    BY <1>0, <1>1, <1>7, <1>8, HistoryKept DEF IInv
  <1>12. ResultsAreTrue'
    <2>1. ASSUME NEW i \in Indices
          PROVE  /\ heap'[i].state \in {"committed", "no_op"} =>
                       Published(heap'[i].generation, heap'[i].request.desired)
                 /\ heap'[i].generation <= generation'
      BY <1>0, <1>1, <1>10 DEF IInv, ResultsAreTrue
    <2>2. generation <= generation /\ Published(generation, current)
      <3>1. generation \in Nat /\ PublishedAt(generation, current)
        BY Times DEF IInv, GenerationHistory
      <3>2. generation <= generation
        BY ONLY <3>1
      <3> QED
        BY <1>10, <3>1, <3>2, Zenon
    <2>3. /\ heap'[n].state \in {"committed", "no_op"} =>
                Published(heap'[n].generation, heap'[n].request.desired)
          /\ heap'[n].generation <= generation'
      BY <1>0, <1>1, <2>2
    <2>4. \A i \in Indices' :
             /\ heap'[i].state \in {"committed", "no_op"} =>
                   Published(heap'[i].generation, heap'[i].request.desired)
             /\ heap'[i].generation <= generation'
      BY <1>1, <2>1, <2>3
    <2> QED
      BY <2>4 DEF ResultsAreTrue, PublishedAt, Published
  <1> QED
    BY <1>3, <1>4, <1>5, <1>6, <1>9, <1>11, <1>12 DEF IInv

\* Steps that register an accepted transaction and start its worker.
LEMMA AcceptedStep ==
    ASSUME IInv, TypeOK', NEW e \in Entry,
           heap' = Append(heap, e),
           UNCHANGED <<generation, current>>,
           active = NoID, active' = e.id, workers' = workers \cup {Len(heap) + 1},
           ~Completed(e), e.state = "accepted",
           e.id = e.request.id, e.generation = generation,
           e.request.generation = generation, e.request.epoch = Epoch,
           Changed(Compare(current, e.request.desired)),
           ~RestartRequired(Compare(current, e.request.desired)),
           entries'[e.id] = Len(heap) + 1,
           \A id \in RequestIDs \ {e.id} :
              entries'[id] = entries[id] \/ entries'[id] = 0
    PROVE  IInv'
  <1> DEFINE n == Len(heap) + 1
  <1>0. generation' = generation /\ current' = current
    OBVIOUS
  <1>1. /\ Len(heap) \in Nat
        /\ Indices' = Indices \cup {n}
        /\ n \notin Indices
        /\ \A i \in Indices : heap'[i] = heap[i]
        /\ heap'[n] = e
    BY AppendKeeps DEF IInv
  <1>2. \A id \in RequestIDs : entries[id] # 0 => entries[id] \in Indices
    BY CachedIndices DEF IInv
  <1>3. e.id \in RequestIDs /\ e.id # NoID
    BY CoordinatorAssumption DEF Entry
  <1>13. \A i \in Indices : Completed(heap[i])
    BY DEF IInv, SingleActive
  <1>14. workers' = workers \cup {n} /\ entries'[e.id] = n /\ n # 0
    <2>1. n # 0
      BY ONLY <1>1
    <2> QED
      BY <2>1, Zenon
  <1> HIDE DEF n
  <1>4. CacheConsistent'
    <2>1. \A i \in Indices' : heap'[i].id = heap'[i].request.id
      BY <1>1 DEF IInv, CacheConsistent
    <2>2. \A id \in RequestIDs : entries'[id] # 0 => heap'[entries'[id]].id = id
      <3>1. \A id \in RequestIDs : entries[id] # 0 => heap[entries[id]].id = id
        BY DEF IInv, CacheConsistent
      <3>2. heap'[entries'[e.id]].id = e.id
        BY <1>1, <1>14
      <3>3. \A id \in RequestIDs \ {e.id} : entries'[id] # 0 =>
               entries'[id] = entries[id] /\ heap'[entries[id]] = heap[entries[id]]
        BY <1>1, <1>2
      <3> QED
        BY <3>1, <3>2, <3>3
    <2> QED
      BY <2>1, <2>2 DEF CacheConsistent
  <1>5. SingleActive'
    BY <1>1, <1>3, <1>13, <1>14 DEF SingleActive, Completed
  <1>6. ActiveBase'
    BY <1>0, <1>1, <1>13, <1>14 DEF ActiveBase, Completed, progressState
  <1>7. SettledStates'
    BY <1>1 DEF IInv, SettledStates, Completed
  <1>8. Committed' = Committed /\ Committed \subseteq Indices
    BY <1>1 DEF Committed, Completed
  <1>9. CommittedFromItsBase'
    BY <1>0, <1>1, <1>8, HistoryKept DEF IInv
  <1> DEFINE Published(g, d) ==
               \/ g = 1 /\ d = Initial
               \/ \E i \in Committed' : /\ heap'[i].generation = g
                                        /\ heap'[i].request.desired = d
  <1>10. \A g, d : PublishedAt(g, d) => Published(g, d)
    BY <1>1, <1>8 DEF PublishedAt
  <1> HIDE DEF Published
  <1>11. GenerationHistory'
    BY <1>0, <1>1, <1>8, HistoryKept DEF IInv
  <1>12. ResultsAreTrue'
    <2>1. ASSUME NEW i \in Indices
          PROVE  /\ heap'[i].state \in {"committed", "no_op"} =>
                       Published(heap'[i].generation, heap'[i].request.desired)
                 /\ heap'[i].generation <= generation'
      BY <1>0, <1>1, <1>10 DEF IInv, ResultsAreTrue
    <2>2. heap'[n].state = "accepted" /\ heap'[n].generation <= generation'
      <3>1. generation \in Nat
        BY Times DEF IInv
      <3>2. heap'[n].state = "accepted" /\ heap'[n].generation = generation
        BY <1>1, Zenon
      <3> QED
        BY ONLY <1>0, <3>1, <3>2
    <2> QED
      BY <1>1, <2>1, <2>2 DEF ResultsAreTrue, PublishedAt, Published
  <1> QED
    BY <1>4, <1>5, <1>6, <1>7, <1>9, <1>11, <1>12 DEF IInv

LEMMA HeapUpdate ==
    ASSUME TypeOK, NEW i \in Indices, NEW e \in Entry,
           heap' = [heap EXCEPT ![i] = e]
    PROVE  /\ Indices' = Indices
           /\ \A j \in Indices : heap[j] \in Entry
           /\ \A j \in Indices : j # i => heap'[j] = heap[j]
           /\ heap'[i] = e
  <1>1. heap \in Seq(Entry) /\ i \in 1 .. Len(heap)
    BY DEF TypeOK, Indices
  <1>2. Len(heap') = Len(heap)
    BY <1>1, ExceptSeq
  <1>3. \A j \in 1 .. Len(heap) : heap[j] \in Entry
    BY <1>1, ElementOfSeq
  <1>4. DOMAIN heap = 1 .. Len(heap)
    BY <1>1
  <1> QED
    BY <1>1, <1>2, <1>3, <1>4 DEF Indices

\* setProgress moves the running entry to "executing".
LEMMA ProgressStep ==
    ASSUME IInv, TypeOK', NEW i \in workers, setProgress(i)
    PROVE  IInv'
  <1> USE DEF store, shutdown
  <1>0. /\ generation' = generation /\ current' = current /\ active' = active
        /\ workers' = workers /\ entries' = entries /\ ~Completed(heap[i])
    BY DEF setProgress
  <1>1. /\ i \in Indices
        /\ Indices' = Indices
        /\ \A j \in Indices : heap[j] \in Entry
        /\ \A j \in Indices : j # i => heap'[j] = heap[j]
        /\ heap'[i] = [heap[i] EXCEPT !.state = "executing"]
    <2>1. i \in Indices /\ \A j \in Indices : heap[j] \in Entry
      BY ElementOfSeq DEF IInv, TypeOK, Indices
    <2>2. heap' = [heap EXCEPT ![i] = [heap[i] EXCEPT !.state = "executing"]]
      BY DEF setProgress
    <2>3. [heap[i] EXCEPT !.state = "executing"] \in Entry
      BY <2>1 DEF Entry, States, progressState
    <2> QED
      BY <2>1, <2>2, <2>3, HeapUpdate DEF IInv
  <1>2. \A j \in Indices :
           /\ heap'[j].id = heap[j].id /\ heap'[j].request = heap[j].request
           /\ heap'[j].generation = heap[j].generation
           /\ heap'[j].completedAt = heap[j].completedAt
           /\ heap'[j].state = IF j = i THEN "executing" ELSE heap[j].state
    BY <1>1 DEF Entry
  <1>3. \A id \in RequestIDs : entries[id] # 0 => entries[id] \in Indices
    BY CachedIndices DEF IInv
  <1>4. CacheConsistent'
    BY <1>0, <1>1, <1>2, <1>3 DEF IInv, CacheConsistent
  <1>5. SingleActive'
    BY <1>0, <1>1, <1>2 DEF IInv, SingleActive, Completed
  <1>6. ActiveBase'
    <2>1. ASSUME NEW j \in Indices', ~Completed(heap'[j])
          PROVE  /\ j \in workers'
                 /\ heap'[j].state \in progressState
                 /\ heap'[j].generation = generation'
                 /\ heap'[j].request.generation = generation'
                 /\ heap'[j].request.epoch = Epoch
                 /\ Changed(Compare(current', heap'[j].request.desired))
                 /\ ~RestartRequired(Compare(current', heap'[j].request.desired))
      <3>1. ~Completed(heap[j])
        BY <1>1, <1>2, <2>1 DEF Completed
      <3> QED
        BY <1>0, <1>1, <1>2, <3>1 DEF IInv, ActiveBase, progressState
    <2> QED
      BY <2>1 DEF ActiveBase, Completed
  <1>7. SettledStates'
    BY <1>0, <1>1, <1>2 DEF IInv, SettledStates, Completed
  <1>8. Committed' = Committed /\ i \notin Committed /\ Committed \subseteq Indices
    BY <1>0, <1>1, <1>2 DEF Committed, Completed
  <1>9. CommittedFromItsBase' /\ GenerationHistory'
    BY <1>0, <1>1, <1>8, HistoryKept DEF IInv
  <1>10. ResultsAreTrue'
    <2>1. ASSUME NEW j \in Indices'
          PROVE  /\ heap'[j].state \in {"committed", "no_op"} =>
                       \/ heap'[j].generation = 1 /\ heap'[j].request.desired = Initial
                       \/ \E k \in Committed' :
                             /\ heap'[k].generation = heap'[j].generation
                             /\ heap'[k].request.desired = heap'[j].request.desired
                 /\ heap'[j].generation <= generation'
      BY <1>0, <1>1, <1>2, <1>8 DEF IInv, ResultsAreTrue, PublishedAt
    <2> QED
      BY <2>1 DEF ResultsAreTrue, PublishedAt
  <1> QED
    BY <1>4, <1>5, <1>6, <1>7, <1>9, <1>10 DEF IInv

\* execute settles the running entry, and publishes when it has committed.
LEMMA ExecuteStep ==
    ASSUME IInv, TypeOK', NEW i \in workers, NEW state \in terminalExecutionState,
           execute(i, state)
    PROVE  IInv'
  <1> USE DEF store, shutdown
  <1> DEFINE next == IF state = "committed" THEN heap[i].generation + 1
                                            ELSE generation
  <1>1. PICK now \in Readings :
           /\ heap[i].state = "executing"
           /\ heap' = [heap EXCEPT ![i] =
                 [@ EXCEPT !.state = state, !.generation = next, !.completedAt = now]]
           /\ entries' \in evictLocked(entries, heap', now)
           /\ generation' = next
           /\ current' = IF state = "committed"
                         THEN heap[i].request.desired ELSE current
           /\ active' = IF active = heap[i].id THEN NoID ELSE active
           /\ workers' = workers
    BY DEF execute
  <1>2. now \in Nat /\ generation \in Nat
    BY Times DEF IInv
  <1>3. i \in Indices /\ \A j \in Indices : heap[j] \in Entry
    BY ElementOfSeq DEF IInv, TypeOK, Indices
  <1>4. /\ ~Completed(heap[i])
        /\ active # NoID /\ entries[active] = i /\ heap[i].id = active
        /\ active \in RequestIDs
    <2>1. ~Completed(heap[i])
      BY <1>1, <1>3 DEF IInv, SettledStates, progressState
    <2>2. active # NoID /\ entries[active] = i /\ active \in RequestIDs /\ i # 0
      BY <2>1, <1>3 DEF IInv, SingleActive, TypeOK, Indices
    <2> QED
      BY <2>1, <2>2 DEF IInv, CacheConsistent
  <1>5. /\ heap[i].generation = generation
        /\ heap[i].request.generation = generation
        /\ heap[i].request.epoch = Epoch
    BY <1>3, <1>4 DEF IInv, ActiveBase
  <1>6. next \in Nat
    <2>1. next = generation \/ next = generation + 1
      BY <1>5
    <2> HIDE DEF next
    <2> QED
      BY ONLY <1>2, <2>1
  <1> HIDE DEF next
  <1>7. \A j \in Indices : j # i => Completed(heap[j])
    BY <1>3, <1>4 DEF IInv, SingleActive
  <1>8. /\ Indices' = Indices
        /\ \A j \in Indices : j # i => heap'[j] = heap[j]
        /\ heap'[i] = [heap[i] EXCEPT !.state = state, !.generation = next,
                                      !.completedAt = now]
    <2> DEFINE e == [heap[i] EXCEPT !.state = state, !.generation = next,
                                    !.completedAt = now]
    <2>4. state \in States /\ now \in Int /\ heap[i] \in Entry
      BY <1>2, <1>3 DEF States
    <2>1. e \in Entry
      BY <2>4, <1>6 DEF Entry
    <2>2. heap' = [heap EXCEPT ![i] = e]
      BY <1>1
    <2> HIDE DEF e
    <2>3. heap'[i] = e /\ Indices' = Indices
          /\ \A j \in Indices : j # i => heap'[j] = heap[j]
      BY <1>3, <2>1, <2>2, HeapUpdate DEF IInv
    <2> QED
      BY <2>3 DEF e
  <1>9. /\ heap'[i].id = heap[i].id /\ heap'[i].request = heap[i].request
        /\ heap'[i].generation = next /\ heap'[i].state = state
        /\ heap'[i].completedAt = now
    BY <1>3, <1>8 DEF Entry
  <1>10. now # Running
    BY <1>2 DEF Running
  <1>11. \A j \in Indices' : Completed(heap'[j])
    BY <1>7, <1>8, <1>9, <1>10 DEF Completed
  <1>12. CacheConsistent'
    <2>1. \A id \in RequestIDs : entries'[id] = entries[id] \/ entries'[id] = 0
      BY <1>1, EvictionClearsCompleted
    <2>2. \A id \in RequestIDs : entries[id] # 0 => entries[id] \in Indices
      BY DEF IInv, TypeOK, Indices
    <2>3. \A j \in Indices : heap'[j].id = heap[j].id /\ heap'[j].request = heap[j].request
      BY <1>8, <1>9
    <2> QED
      BY <1>8, <2>1, <2>2, <2>3 DEF IInv, CacheConsistent
  <1>13. SingleActive' /\ ActiveBase'
    BY <1>1, <1>4, <1>11 DEF SingleActive, ActiveBase, Completed
  <1>14. SettledStates'
    BY <1>7, <1>8, <1>9 DEF IInv, SettledStates, Completed, progressState,
                           terminalExecutionState
  <1>15. /\ i \notin Committed /\ Committed \subseteq Indices
         /\ Committed' = IF state = "committed" THEN Committed \cup {i} ELSE Committed
    <2>1. i \notin Committed /\ Committed \subseteq Indices
      BY <1>4 DEF Committed
    <2>2. \A j \in Indices : j # i => (j \in Committed' <=> j \in Committed)
      BY <1>8 DEF Committed, Completed
    <2>3. i \in Committed' <=> state = "committed"
      BY <1>3, <1>8, <1>9, <1>11 DEF Committed, Completed
    <2>4. Committed' \subseteq Indices
      BY <1>8 DEF Committed
    <2> QED
      BY <1>3, <2>1, <2>2, <2>3, <2>4
  <1>16. \A j \in Committed : heap'[j] = heap[j]
    BY <1>8, <1>15
  <1>17. generation <= next /\ (state = "committed" => next = generation + 1)
    BY <1>2, <1>5 DEF next
  <1>18. /\ \A j \in Committed : heap[j].generation <= generation
         /\ \A j \in Committed : heap[j].generation \in Nat
    BY <1>3, <1>15 DEF IInv, CommittedFromItsBase, Entry
  <1>19. CommittedFromItsBase' /\ GenerationHistory'
    <2>1. CASE state # "committed"
      BY <1>1, <1>15, <1>16, <2>1, HistoryKept DEF IInv, next
    <2>2. CASE state = "committed"
      <3>1. ASSUME NEW j \in Committed'
            PROVE  /\ heap'[j].request.epoch = Epoch
                   /\ heap'[j].generation = heap'[j].request.generation + 1
                   /\ heap'[j].generation <= generation'
        <4>1. CASE j = i
          BY <1>1, <1>2, <1>5, <1>9, <1>17, <2>2, <4>1
        <4>2. CASE j \in Committed
          <5>1. /\ heap[j].request.epoch = Epoch
                /\ heap[j].generation = heap[j].request.generation + 1
            BY <4>2 DEF IInv, CommittedFromItsBase
          <5>2. heap[j].generation <= generation'
            BY <1>1, <1>2, <1>6, <1>17, <1>18, <4>2
          <5> QED
            BY <1>16, <4>2, <5>1, <5>2
        <4> QED
          BY <1>15, <2>2, <3>1, <4>1, <4>2
      <3>2. ASSUME NEW j \in Committed', NEW k \in Committed',
                   heap'[j].generation = heap'[k].generation
            PROVE  j = k
        <4>1. \A x \in Committed : heap'[x].generation # heap'[i].generation
          <5>1. heap'[i].generation = generation + 1
            BY <1>9, <1>17, <2>2
          <5>2. \A x \in Committed : /\ heap'[x].generation \in Nat
                                     /\ heap'[x].generation <= generation
            BY <1>16, <1>18
          <5> QED
            BY ONLY <1>2, <5>1, <5>2
        <4>2. \A x, y \in Committed :
                 heap'[x].generation = heap'[y].generation => x = y
          BY <1>16 DEF IInv, CommittedFromItsBase
        <4> QED
          BY <1>15, <2>2, <3>2, <4>1, <4>2
      <3>3. \A g \in 2 .. generation' : \E j \in Committed' : heap'[j].generation = g
        <4>1. \A g \in 2 .. generation' : g \in 2 .. generation \/ g = next
          BY <1>1, <1>2, <1>17, <2>2
        <4>2. \A g \in 2 .. generation : \E j \in Committed : heap'[j].generation = g
          BY <1>16 DEF IInv, GenerationHistory
        <4> QED
          BY <1>9, <1>15, <2>2, <4>1, <4>2
      <3>4. \E j \in Committed' : /\ heap'[j].generation = generation'
                                  /\ heap'[j].request.desired = current'
        BY <1>1, <1>9, <1>15, <2>2
      <3>5. CommittedFromItsBase'
        BY <3>1, <3>2 DEF CommittedFromItsBase
      <3> QED
        BY <3>3, <3>4, <3>5 DEF GenerationHistory, PublishedAt
    <2> QED
      BY <2>1, <2>2
  <1>20. ResultsAreTrue'
    <2> DEFINE Published(g, d) ==
               \/ g = 1 /\ d = Initial
               \/ \E k \in Committed' : /\ heap'[k].generation = g
                                        /\ heap'[k].request.desired = d
    <2>1. \A g, d : PublishedAt(g, d) => Published(g, d)
      BY <1>15, <1>16 DEF PublishedAt
    <2>2. state = "committed" =>
             Published(heap'[i].generation, heap'[i].request.desired)
      BY <1>15
    <2> HIDE DEF Published
    <2>3. ASSUME NEW j \in Indices, j # i
          PROVE  /\ heap'[j].state \in {"committed", "no_op"} =>
                       Published(heap'[j].generation, heap'[j].request.desired)
                 /\ heap'[j].generation <= generation'
      <3>1. heap[j].generation <= generation /\ heap[j].generation \in Nat
        BY <1>3 DEF IInv, ResultsAreTrue, Entry
      <3>2. heap[j].generation <= generation'
        BY <1>1, <1>2, <1>6, <1>17, <3>1
      <3> QED
        BY <1>8, <2>1, <2>3, <3>2 DEF IInv, ResultsAreTrue
    <2>4. heap'[i].generation <= generation' /\ state # "no_op"
      BY <1>1, <1>6, <1>9 DEF terminalExecutionState
    <2>5. \A j \in Indices' :
             /\ heap'[j].state \in {"committed", "no_op"} =>
                   Published(heap'[j].generation, heap'[j].request.desired)
             /\ heap'[j].generation <= generation'
      BY <1>8, <1>9, <2>2, <2>3, <2>4
    <2> QED
      BY <2>5 DEF ResultsAreTrue, PublishedAt, Published
  <1> QED
    BY <1>12, <1>13, <1>14, <1>19, <1>20 DEF IInv

LEMMA InvariantInit == Init => IInv
  <1> SUFFICES ASSUME Init PROVE IInv
    OBVIOUS
  <1>1. TypeOK
    BY TypeInit
  <1>2. Indices = {} /\ Committed = {} /\ 2 .. generation = {}
    BY DEF Init, Indices, Committed
  <1>3. CacheConsistent
    BY <1>2 DEF Init, CacheConsistent
  <1>4. SingleActive /\ ActiveBase /\ SettledStates /\ CommittedFromItsBase
    BY <1>2 DEF Init, SingleActive, ActiveBase, SettledStates, CommittedFromItsBase
  <1>5. GenerationHistory /\ ResultsAreTrue
    BY <1>2 DEF Init, GenerationHistory, ResultsAreTrue, PublishedAt
  <1> QED
    BY <1>1, <1>3, <1>4, <1>5 DEF IInv

\* Registering a settled entry, as SubmitRejected and SubmitNoOp do.
LEMMA RegisterSettledStep ==
    ASSUME IInv, TypeOK', NEW r \in Requests, NEW now \in Readings,
           NEW state \in {"rejected", "no_op"}, NEW code \in Codes,
           NEW cached \in evictLocked(entries, heap, now), cached[r.id] = 0,
           state = "no_op" => r.desired = current,
           RegisterSettled(r, state, code, cached, now)
    PROVE  IInv'
  <1> DEFINE e == NewEntry(r, state, code, now)
             n == Len(heap) + 1
             slots == [cached EXCEPT ![r.id] = n]
  <1>0. now \in Nat /\ generation \in Nat
    BY Times DEF IInv
  <1>1. e \in Entry
    <2>1. now \in Int /\ state \in States
      BY <1>0 DEF States
    <2> QED
      BY <1>0, <2>1, NewEntryType, Zenon
  <1>2. /\ e.id = r.id /\ e.request = r /\ e.state = state
        /\ e.generation = generation /\ e.completedAt = now
    BY DEF NewEntry
  <1>3. Completed(e)
    BY ONLY <1>0, <1>2 DEF Completed, Running
  <1>4. /\ heap' = Append(heap, e)
        /\ entries' \in evictLocked(slots, heap', now)
        /\ UNCHANGED <<generation, current, active, workers>>
    BY DEF RegisterSettled
  <1>5. \A id \in RequestIDs :
           \/ cached[id] = entries[id]
           \/ cached[id] = 0 /\ Completed(heap[entries[id]])
    BY EvictionClearsCompleted
  <1>6. r.id \in RequestIDs
    BY CoordinatorAssumption
  <1>7. cached \in [RequestIDs -> 0 .. Len(heap)]
    BY EvictionType, LenProperties DEF IInv, TypeOK
  <1>8. \A id \in RequestIDs : slots[id] = IF id = r.id THEN n ELSE cached[id]
    BY <1>7
  <1> HIDE DEF slots
  <1>9. \A id \in RequestIDs :
           \/ entries'[id] = slots[id]
           \/ entries'[id] = 0 /\ slots[id] # 0 /\ Completed(heap'[slots[id]])
    <2>1. entries' \in evictLocked(slots, heap', now)
      BY <1>4
    <2> QED
      BY ONLY <2>1, EvictionClearsCompleted
  <1>10. \A i \in Indices : heap'[i] = heap[i]
    BY <1>1, <1>4, AppendKeeps DEF IInv
  <1>11. \A id \in RequestIDs : entries[id] # 0 => entries[id] \in Indices
    BY CachedIndices DEF IInv
  <1> HIDE DEF e, n
  <1>12. ASSUME NEW id \in RequestIDs
         PROVE  \/ entries'[id] = entries[id]
                \/ /\ entries[id] = 0 \/ Completed(heap[entries[id]])
                   /\ \/ entries'[id] = 0
                      \/ entries'[id] = Len(heap) + 1 /\ id = e.id
    <2>1. CASE id = r.id
      BY <1>2, <1>5, <1>6, <1>8, <1>9, <2>1 DEF n
    <2>2. CASE id # r.id
      <3>1. slots[id] = cached[id]
        BY <1>8, <2>2
      <3>2. CASE entries'[id] = slots[id]
        BY <1>5, <3>1, <3>2
      <3>3. CASE entries'[id] = 0 /\ slots[id] # 0 /\ Completed(heap'[slots[id]])
        BY <1>5, <1>10, <1>11, <3>1, <3>3
      <3> QED
        BY <1>9, <3>2, <3>3
    <2> QED
      BY <2>1, <2>2
  <1>13. e.id = e.request.id
    BY <1>2
  <1> QED
    BY <1>1, <1>2, <1>3, <1>4, <1>12, SettledStep

LEMMA InvariantStep == IInv /\ [Next]_vars => IInv'
  <1> SUFFICES ASSUME IInv, [Next]_vars PROVE IInv'
    OBVIOUS
  <1> USE DEF store, shutdown
  <1>0. TypeOK'
    BY TypeStep DEF IInv
  <1>1. \A now : \A e \in evictLocked(entries, heap, now) : \A id \in RequestIDs :
           \/ e[id] = entries[id]
           \/ e[id] = 0 /\ entries[id] # 0 /\ Completed(heap[entries[id]])
    BY EvictionClearsCompleted
  <1>2. ASSUME NEW c \in Clients, NEW r \in Requests, SubmitKnown(c, r)
        PROVE  IInv'
    BY <1>0, <1>1, <1>2, CacheStep DEF SubmitKnown
  <1>3. ASSUME NEW c \in Clients, NEW r \in Requests, SubmitClosed(c, r)
        PROVE  IInv'
    BY <1>0, <1>1, <1>3, CacheStep DEF SubmitClosed
  <1>4. ASSUME NEW c \in Clients, NEW r \in Requests, SubmitRejected(c, r)
        PROVE  IInv'
    <2>1. AdmissionCode(r) \in Codes
      BY DEF AdmissionCode, Codes
    <2> QED
      BY <1>0, <1>4, <2>1, RegisterSettledStep DEF SubmitRejected
  <1>5. ASSUME NEW c \in Clients, NEW r \in Requests, SubmitNoOp(c, r)
        PROVE  IInv'
    <2>1. ~RestartRequired(Compare(current, r.desired))
      BY <1>5 DEF SubmitNoOp, AdmissionCode
    <2>2. current \in Config /\ r.desired \in Config
      BY CoordinatorAssumption DEF IInv, TypeOK
    <2>3. r.desired = current
      BY <1>5, <2>1, <2>2, NoOpMeansEqual DEF SubmitNoOp
    <2>4. "none" \in Codes
      BY DEF Codes
    <2> QED
      BY <1>0, <1>5, <2>3, <2>4, RegisterSettledStep DEF SubmitNoOp
  <1>6. ASSUME NEW c \in Clients, NEW r \in Requests, SubmitAccepted(c, r)
        PROVE  IInv'
    <2> DEFINE e == NewEntry(r, "accepted", "none", Running)
    <2>1. e \in Entry
      BY Times, AcceptedEntryType, Zenon DEF IInv
    <2>2. /\ e.id = r.id /\ e.request = r /\ e.state = "accepted"
          /\ e.generation = generation /\ ~Completed(e)
      BY DEF NewEntry, Completed
    <2>3. /\ active = NoID
          /\ r.epoch = Epoch
          /\ r.generation = generation
          /\ ~RestartRequired(Compare(current, r.desired))
      BY <1>6 DEF SubmitAccepted, AdmissionCode
    <2>9. PICK now \in Readings : \E cached \in evictLocked(entries, heap, now) :
             entries' = [cached EXCEPT ![r.id] = Len(heap) + 1]
      BY <1>6 DEF SubmitAccepted
    <2>4. PICK cached \in evictLocked(entries, heap, now) :
             entries' = [cached EXCEPT ![r.id] = Len(heap) + 1]
      BY <2>9
    <2>5. r.id \in RequestIDs
      BY CoordinatorAssumption
    <2>6. DOMAIN cached = RequestIDs
      BY EvictionClearsCompleted
    <2>7. /\ entries'[r.id] = Len(heap) + 1
          /\ \A id \in RequestIDs \ {r.id} :
                entries'[id] = entries[id] \/ entries'[id] = 0
      BY <1>1, <2>4, <2>5, <2>6
    <2>8. /\ heap' = Append(heap, e) /\ active' = e.id
          /\ workers' = workers \cup {Len(heap) + 1}
          /\ UNCHANGED <<generation, current>>
          /\ Changed(Compare(current, r.desired))
      BY <1>6, <2>2 DEF SubmitAccepted
    <2> HIDE DEF e
    <2> QED
      BY <1>0, <2>1, <2>2, <2>3, <2>7, <2>8, AcceptedStep
  <1>7. ASSUME NEW c \in Clients, WaitDone(c) \/ WaitCancelled(c)
        PROVE  IInv'
    BY <1>0, <1>7, CacheStep DEF WaitDone, WaitCancelled
  <1>8. CASE Query
    BY <1>0, <1>1, <1>8, CacheStep DEF Query
  <1>9. ASSUME NEW i \in workers, setProgress(i) PROVE IInv'
    BY <1>0, <1>9, ProgressStep
  <1>10. ASSUME NEW i \in workers, NEW state \in terminalExecutionState,
                execute(i, state)
         PROVE  IInv'
    BY <1>0, <1>10, ExecuteStep
  <1>11. ASSUME NEW i \in workers, WorkerDone(i) PROVE IInv'
    BY <1>0, <1>11, CacheStep DEF WorkerDone
  <1>12. CASE CloseBegin
    BY <1>0, <1>12, CacheStep DEF CloseBegin
  <1>13. CASE CloseReturn
    BY <1>0, <1>13, CacheStep DEF CloseReturn
  <1>14. CASE Tick
    BY <1>0, <1>14, CacheStep DEF Tick
  <1>15. CASE UNCHANGED vars
    BY <1>0, <1>15, CacheStep DEF vars
  <1>16. \A apply \in ApplyResults : Normalise(apply) \in terminalExecutionState
    BY DEF Normalise, terminalExecutionState
  <1> QED
    BY <1>2, <1>3, <1>4, <1>5, <1>6, <1>7, <1>8, <1>9, <1>10, <1>11, <1>12,
       <1>13, <1>14, <1>15, <1>16 DEF Next, Submit, Worker

\* The inductive invariant holds in every reachable state.
THEOREM Invariant == Spec => []IInv
  BY InvariantInit, InvariantStep, PTL DEF Spec

\* At most one transaction runs, and it is never evicted from the cache.
THEOREM OneTransaction == Spec => []SingleActive
  <1>1. IInv => SingleActive
    BY DEF IInv
  <1> QED
    BY <1>1, Invariant, PTL

\* No lost update and no second commit from one generation.
THEOREM NoLostUpdate == Spec => []CommittedFromItsBase
  <1>1. IInv => CommittedFromItsBase
    BY DEF IInv
  <1> QED
    BY <1>1, Invariant, PTL

\* The generations are exactly the committed changes, in order.
THEOREM History == Spec => []GenerationHistory
  <1>1. IInv => GenerationHistory
    BY DEF IInv
  <1> QED
    BY <1>1, Invariant, PTL

\* A committed or no_op answer names a generation at which the requested
\* configuration was published.
THEOREM TrueAnswers == Spec => []ResultsAreTrue
  <1>1. IInv => ResultsAreTrue
    BY DEF IInv
  <1> QED
    BY <1>1, Invariant, PTL
=============================================================================
