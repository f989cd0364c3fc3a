--------------------------- MODULE SendPathProofs ---------------------------
(***************************************************************************)
(* The newest FEC policy wins, for any number of concurrent callers of      *)
(* setFECPolicy.                                                            *)
(***************************************************************************)
EXTENDS SendPath, TLAPS

Counts(k) ==
    /\ k = [packets |-> k.packets, budgets |-> k.budgets, requests |-> k.requests]
    /\ k.requests \in Nat

Requests == 0 .. count.requests

\* Requests are numbered as they are made, and one that is being made is not stale.
PolicyType ==
    /\ Counts(count)
    /\ setter \in [Callers -> [pc : {"idle", "offer", "drain", "again"}, req : Nat]]
    /\ updates = <<>> \/ \E x \in Requests : updates = <<x>>
    /\ policy \in Requests
    /\ stale \subseteq Requests
    /\ \A c \in Callers : setter[c].pc # "idle" =>
           setter[c].req \in Requests \ stale

\* What keeps an old profile from staying in use: a call is about to offer or drain;
\* or the channel holds a request that is not stale; or it is empty, and either a
\* call that emptied it will offer again or the loop has applied a request that is
\* not stale.
OnItsWay ==
    \/ \E c \in Callers : setter[c].pc \in {"offer", "drain"}
    \/ updates # <<>> /\ Head(updates) \notin stale
    \/ updates = <<>> /\ \E c \in Callers : setter[c].pc = "again"
    \/ updates = <<>> /\ policy \notin stale

PolicyInv == PolicyType /\ (loop.pc # "ended" => OnItsWay)

\* A step that is not about the policy.
Quiet ==
    /\ UNCHANGED policyVars
    /\ Counts(count') /\ count'.requests = count.requests
    /\ loop.pc = "ended" => loop'.pc = "ended"

\* The senders and the loops leave the policy alone, and an ended loop stays ended.
LEMMA QuietSteps ==
    ASSUME \/ \E s \in Senders :
                \/ Send(s) \/ EnqueueData(s) \/ EnqueuePriority(s) \/ Refuse(s)
                \/ Reserve(s) \/ AwaitSpace(s) \/ Notify(s) \/ Enqueue(s)
                \/ AwaitQueue(s) \/ Closed(s) \/ AdmissionTimeout(s)
           \/ Ready \/ Dequeue \/ UpdateBudget \/ SendWGPacket \/ SendPacket
           \/ prioritySendLoop \/ CloseSession \/ LoopEnds
           \/ UNCHANGED vars,
           Counts(count)
    PROVE  Quiet
<1>1. ASSUME NEW s \in Senders, Send(s) PROVE Quiet
  <2>1. PICK n : count' = [count EXCEPT !.packets = count.packets + n]
    BY <1>1 DEF Send
  <2>2. Counts(count') /\ count'.requests = count.requests
    BY <2>1 DEF Counts
  <2>3. UNCHANGED policyVars /\ loop' = loop
    BY <1>1 DEF Send, budgetVars
  <2> QED
    BY <2>2, <2>3 DEF Quiet
<1>2. ASSUME NEW s \in Senders,
             \/ EnqueueData(s) \/ Refuse(s) \/ Closed(s) \/ AdmissionTimeout(s)
             \/ EnqueuePriority(s)
      PROVE  Quiet
  BY <1>2 DEF EnqueueData, Refuse, Closed, AdmissionTimeout, EnqueuePriority, Quiet, budgetVars
<1>3. ASSUME NEW s \in Senders,
             \/ Reserve(s) \/ AwaitSpace(s) \/ Notify(s) \/ Enqueue(s) \/ AwaitQueue(s)
      PROVE  Quiet
  BY <1>3 DEF Reserve, AwaitSpace, Notify, Enqueue, AwaitQueue, Quiet
<1>4. ASSUME Ready \/ Dequeue \/ SendWGPacket \/ SendPacket PROVE Quiet
  BY <1>4 DEF Ready, Dequeue, SendWGPacket, SendPacket, Quiet
<1>5. ASSUME UpdateBudget PROVE Quiet
  <2>1. UNCHANGED policyVars /\ loop.pc # "ended"
    BY <1>5 DEF UpdateBudget
  <2>2. Counts(count') /\ count'.requests = count.requests
    BY <1>5 DEF UpdateBudget, updateSendBudget, Counts
  <2> QED
    BY <2>1, <2>2 DEF Quiet
<1>6. ASSUME prioritySendLoop \/ CloseSession \/ LoopEnds PROVE Quiet
  BY <1>6 DEF prioritySendLoop, CloseSession, LoopEnds, Quiet
<1>7. ASSUME UNCHANGED vars PROVE Quiet
  BY <1>7 DEF vars, policyVars, Quiet
<1> QED
  BY <1>1, <1>2, <1>3, <1>4, <1>5, <1>6, <1>7

\* A quiet step keeps the invariant.
LEMMA QuietKeeps == PolicyInv /\ Quiet => PolicyInv'
<1> SUFFICES ASSUME PolicyInv, Quiet PROVE PolicyInv'
  OBVIOUS
<1>1. PolicyType'
  BY DEF PolicyInv, PolicyType, Quiet, policyVars, Requests
<1>2. (loop.pc # "ended" => OnItsWay)'
  BY DEF PolicyInv, OnItsWay, Quiet, policyVars
<1> QED
  BY <1>1, <1>2 DEF PolicyInv

\* A new request makes every request that is not under way stale, but not itself.
LEMMA RequestKeeps ==
    ASSUME PolicyInv, NEW c \in Callers, setFECPolicy(c)
    PROVE  PolicyInv'
<1> DEFINE n == count.requests + 1
           under == {setter[d].req : d \in {c1 \in Callers : setter[c1].pc # "idle"}}
<1>1. /\ count' = [count EXCEPT !.requests = n]
      /\ setter' = [setter EXCEPT ![c] = [pc |-> "offer", req |-> n]]
      /\ stale' = stale \cup ((0 .. count.requests) \ under)
      /\ UNCHANGED <<updates, policy>>
  BY DEF setFECPolicy
<1>2. n \in Nat /\ Counts(count') /\ count'.requests = n
  BY <1>1 DEF PolicyInv, PolicyType, Counts
<1>3. Requests \subseteq Requests' /\ n \in Requests' /\ n \notin Requests
  BY <1>2 DEF Requests, PolicyInv, PolicyType, Counts
<1>4. stale' \subseteq Requests /\ n \notin stale'
  BY <1>1, <1>3 DEF PolicyInv, PolicyType, Requests
<1>5. ASSUME NEW d \in Callers, setter'[d].pc # "idle"
      PROVE  setter'[d].req \in Requests' \ stale'
  <2>1. CASE d = c
    BY <1>1, <1>3, <1>4, <2>1 DEF PolicyInv, PolicyType
  <2>2. CASE d # c
    <3>1. setter'[d] = setter[d] /\ setter[d].pc # "idle"
      BY <1>1, <1>5, <2>2 DEF PolicyInv, PolicyType
    <3>2. setter[d].req \in under /\ setter[d].req \in Requests \ stale
      BY <3>1 DEF PolicyInv, PolicyType
    <3> QED
      BY <1>1, <1>3, <3>1, <3>2
  <2> QED
    BY <2>1, <2>2
<1>6. setter' \in [Callers -> [pc : {"idle", "offer", "drain", "again"}, req : Nat]]
  BY <1>1, <1>2 DEF PolicyInv, PolicyType
<1>7. PolicyType'
  BY <1>1, <1>2, <1>3, <1>4, <1>5, <1>6 DEF PolicyInv, PolicyType
<1>8. OnItsWay'
  BY <1>1 DEF OnItsWay, PolicyInv, PolicyType
<1> QED
  BY <1>7, <1>8 DEF PolicyInv

\* The non-blocking offers and the drain of one call.
LEMMA CallKeeps ==
    ASSUME PolicyInv, NEW c \in Callers, Offer(c) \/ Drain(c) \/ OfferAgain(c)
    PROVE  PolicyInv'
<1>1. /\ UNCHANGED <<policy, stale, count>> /\ loop' = loop /\ Requests' = Requests
  BY DEF Offer, Drain, OfferAgain, budgetVars, Requests
<1>2. setter[c].pc # "idle" /\ setter[c].req \in Requests \ stale
  BY DEF Offer, Drain, OfferAgain, PolicyInv, PolicyType
<1>3. /\ setter' \in [Callers -> [pc : {"idle", "offer", "drain", "again"}, req : Nat]]
      /\ \A d \in Callers \ {c} : setter'[d] = setter[d]
      /\ setter'[c].pc # "idle" => setter'[c].req = setter[c].req
  BY DEF Offer, Drain, OfferAgain, done, step, PolicyInv, PolicyType
<1>4. \/ updates' = updates \/ updates' = <<>> \/ updates' = <<setter[c].req>>
  BY DEF Offer, Drain, OfferAgain
<1>5. PolicyType'
  BY <1>1, <1>2, <1>3, <1>4 DEF PolicyInv, PolicyType
<1>6. ASSUME Offer(c), loop.pc # "ended" PROVE OnItsWay'
  <2>1. CASE updates = <<>>
    <3>1. updates' = <<setter[c].req>>
      BY <1>6, <2>1 DEF Offer
    <3> QED
      BY <1>1, <1>2, <3>1 DEF OnItsWay
  <2>2. CASE updates # <<>>
    <3>1. setter'[c].pc = "drain"
      BY <1>6, <2>2 DEF Offer, step, PolicyInv, PolicyType
    <3> QED
      BY <3>1 DEF OnItsWay
  <2> QED
    BY <2>1, <2>2
<1>7. ASSUME Drain(c), loop.pc # "ended" PROVE OnItsWay'
  <2>1. updates' = <<>> /\ setter'[c].pc = "again"
    BY <1>7 DEF Drain, step, PolicyInv, PolicyType
  <2> QED
    BY <2>1 DEF OnItsWay
<1>8. ASSUME OfferAgain(c), loop.pc # "ended" PROVE OnItsWay'
  <2>1. CASE updates = <<>>
    <3>1. updates' = <<setter[c].req>>
      BY <1>8, <2>1 DEF OfferAgain
    <3> QED
      BY <1>1, <1>2, <3>1 DEF OnItsWay
  <2>2. CASE updates # <<>>
    <3>1. updates' = updates /\ setter[c].pc = "again"
      BY <1>8, <2>2 DEF OfferAgain
    <3>2. OnItsWay
      BY <1>8 DEF PolicyInv
    <3>3. CASE \E d \in Callers : setter[d].pc \in {"offer", "drain"}
      <4>1. PICK d \in Callers : setter[d].pc \in {"offer", "drain"}
        BY <3>3
      <4>2. setter'[d] = setter[d]
        BY <1>3, <3>1, <4>1
      <4> QED
        BY <4>1, <4>2 DEF OnItsWay
    <3>4. CASE Head(updates) \notin stale
      BY <1>1, <2>2, <3>1, <3>4 DEF OnItsWay
    <3> QED
      BY <2>2, <3>2, <3>3, <3>4 DEF OnItsWay
  <2> QED
    BY <2>1, <2>2
<1>9. loop.pc # "ended" => OnItsWay'
  BY <1>6, <1>7, <1>8
<1> QED
  BY <1>1, <1>5, <1>9 DEF PolicyInv

\* The loop takes the request out of the channel and applies it, or ends.
LEMMA ApplyKeeps == PolicyInv /\ ApplyFECPolicy => PolicyInv'
<1> SUFFICES ASSUME PolicyInv, ApplyFECPolicy PROVE PolicyInv'
  OBVIOUS
<1>1. /\ UNCHANGED <<setter, stale, count>> /\ Requests' = Requests
      /\ updates # <<>> /\ updates' = <<>> /\ loop.pc = "select"
  BY DEF ApplyFECPolicy, Requests
<1>2. Head(updates) \in Requests
  BY <1>1 DEF PolicyInv, PolicyType
<1>3. policy' \in Requests
  BY <1>2 DEF ApplyFECPolicy, PolicyInv, PolicyType
<1>4. PolicyType'
  BY <1>1, <1>3 DEF PolicyInv, PolicyType
<1>5. loop'.pc # "ended" => policy' = Head(updates)
  BY DEF ApplyFECPolicy
<1>6. OnItsWay
  BY <1>1 DEF PolicyInv
<1>7. loop'.pc # "ended" => OnItsWay'
  BY <1>1, <1>5, <1>6 DEF OnItsWay
<1> QED
  BY <1>4, <1>7 DEF PolicyInv

\* The invariant of the policy's way from the callers to the loop.
THEOREM PolicyInvariant == Spec => []PolicyInv
<1>1. Init => PolicyInv
  BY DEF Init, PolicyInv, PolicyType, OnItsWay, Requests, Counts
<1>2. PolicyInv /\ [Next]_vars => PolicyInv'
  <2> SUFFICES ASSUME PolicyInv, [Next]_vars PROVE PolicyInv'
    OBVIOUS
  <2>1. ASSUME NEW c \in Callers, setFECPolicy(c) PROVE PolicyInv'
    BY <2>1, RequestKeeps
  <2>2. ASSUME NEW c \in Callers, Offer(c) \/ Drain(c) \/ OfferAgain(c) PROVE PolicyInv'
    BY <2>2, CallKeeps
  <2>3. CASE ApplyFECPolicy
    BY <2>3, ApplyKeeps
  <2>4. ASSUME Quiet PROVE PolicyInv'
    BY <2>4, QuietKeeps
  <2>5. Counts(count)
    BY DEF PolicyInv, PolicyType
  <2> QED
    BY <2>1, <2>2, <2>3, <2>4, <2>5, QuietSteps DEF Next
<1> QED
  BY <1>1, <1>2, PTL DEF Spec

\* NewestPolicyWins for any number of callers: when no call is under way and the
\* channel is empty, the profile in use is not a stale one.
THEOREM NewestPolicy == Spec => []NewestPolicyWins
<1>1. PolicyInv => NewestPolicyWins
  BY DEF PolicyInv, OnItsWay, NewestPolicyWins
<1> QED
  BY <1>1, PolicyInvariant, PTL
=============================================================================
