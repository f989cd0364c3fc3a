------------------------------ MODULE SendPath ------------------------------
(***************************************************************************)
(* The sending half of a session (internal/bind): concurrent Bind.Send      *)
(* calls that admit packets under a byte budget, the queue and the          *)
(* notification they wait for, the send loop that drains it, the priority   *)
(* queue and its loop, and the channel by which a FEC policy reaches the    *)
(* send loop.  What the loop does with frames and parity is FEC's subject.  *)
(*                                                                         *)
(* Time is a timer that may fire at any moment once it has been started.    *)
(***************************************************************************)
EXTENDS Integers, Sequences, FiniteSets, SequencesExt

CONSTANTS
    Senders,                    \* goroutines in Bind.Send
    Sizes,                      \* of WireGuard datagrams
    Budgets, Startup,           \* byte limits updateSendBudget may find; the first
    QueueSize, PrioritySize,
    Callers,                    \* goroutines in setFECPolicy
    MaxWork, MaxBudgets         \* packets and policy requests; budget updates

VARIABLES
    call,       \* per sender, its Send call
    sendBytes, sendBudget, sendSpace,
    queue, priority,
    loop,       \* the send loop
    alive,      \* the session's context is not done
    setter,     \* per caller, its setFECPolicy call
    updates,    \* fecPolicyUpdates: the requests it holds, at most one
    policy,     \* the request the send loop applied last; 0 is the first profile
    stale,      \* requests that had returned when a later one was made
    count

vars == <<call, sendBytes, sendBudget, sendSpace, queue, priority, loop, alive,
          setter, updates, policy, stale, count>>

budgetVars == <<sendBytes, sendBudget, sendSpace, queue, priority, loop, alive>>
policyVars == <<setter, updates, policy, stale>>

NoCall == [pc |-> "idle", size |-> 0, left |-> 0, waited |-> FALSE, timer |-> "none"]

Init ==
    /\ call = [s \in Senders |-> NoCall]
    /\ sendBytes = 0 /\ sendBudget = Startup /\ sendSpace = FALSE
    /\ queue = <<>> /\ priority = 0
    /\ loop = [pc |-> "starting", size |-> 0] /\ alive = TRUE
    /\ setter = [c \in Callers |-> [pc |-> "idle", req |-> 0]]
    /\ updates = <<>> /\ policy = 0 /\ stale = {}
    /\ count = [packets |-> 0, budgets |-> 0, requests |-> 0]

-----------------------------------------------------------------------------
(* Admission                                                                *)

notifySendSpace == sendSpace' = TRUE

fits(n, bytes, limit) == bytes = 0 \/ bytes + n <= limit

\* Mutant: the released bytes are not announced.
quietRelease(n) == sendBytes' = sendBytes - n /\ UNCHANGED sendSpace

releaseSendBytes(n) == sendBytes' = sendBytes - n /\ notifySendSpace

\* The batch goes on with its next packet; the admission timer is the batch's.
nextPacket(s) ==
    call' = [call EXCEPT ![s] = IF @.left = 0 THEN NoCall
                                ELSE [@ EXCEPT !.pc = "packet", !.waited = FALSE]]
return(s) == call' = [call EXCEPT ![s] = NoCall]

goto(s, pc) == call' = [call EXCEPT ![s].pc = pc]

\* The timer starts with the first wait of the batch.
await(s, pc) ==
    call' = [call EXCEPT ![s].pc = pc,
                         ![s].timer = IF @ = "none" THEN "running" ELSE @]

Send(s) ==
    /\ call[s].pc = "idle"
    /\ \E n \in 1 .. MaxWork - count.packets - count.requests :
         /\ call' = [call EXCEPT ![s] = [NoCall EXCEPT !.pc = "packet", !.left = n]]
         /\ count' = [count EXCEPT !.packets = @ + n]
    /\ UNCHANGED <<budgetVars, policyVars>>

\* enqueueData, up to its first wait.
EnqueueData(s) ==
    /\ call[s].pc = "packet"
    /\ \E n \in Sizes :
         call' = [call EXCEPT ![s].pc = IF alive THEN "reserve" ELSE "closed",
                              ![s].size = n, ![s].left = @ - 1]
    /\ UNCHANGED <<budgetVars, policyVars, count>>

\* Control messages have a queue of their own and never wait; a keepalive is sent
\* twice, unless the first copy found the queue full.
EnqueuePriority(s) ==
    /\ call[s].pc = "packet"
    /\ \E copies \in {1, 2} :
         priority' \in {Min({priority + copies, PrioritySize})} \cup
                       (IF alive THEN {} ELSE {priority})
    /\ LET sent == [call EXCEPT ![s].left = @ - 1]
       IN  \/ call' = [sent EXCEPT ![s] = IF @.left = 0 THEN NoCall ELSE @]
           \/ ~alive /\ return(s)
    /\ UNCHANGED <<sendBytes, sendBudget, sendSpace, queue, loop, alive, policyVars, count>>

\* A datagram of an impossible size is an error of the whole batch.
Refuse(s) ==
    /\ call[s].pc = "packet" /\ return(s)
    /\ UNCHANGED <<budgetVars, policyVars, count>>

Reserve(s) ==
    LET c == call[s]
    IN  /\ c.pc = "reserve"
        /\ \/ /\ fits(c.size, sendBytes, sendBudget)
              /\ sendBytes' = sendBytes + c.size
              /\ goto(s, IF c.waited THEN "notify" ELSE "enqueue")
           \/ /\ ~fits(c.size, sendBytes, sendBudget)
              /\ IF c.timer = "expired" THEN nextPacket(s) ELSE await(s, "space")
              /\ UNCHANGED sendBytes
        /\ UNCHANGED <<sendBudget, sendSpace, queue, priority, loop, alive, policyVars, count>>

AwaitSpace(s) ==
    /\ call[s].pc = "space"
    /\ \/ /\ sendSpace /\ sendSpace' = FALSE
          /\ call' = [call EXCEPT ![s].pc = "reserve", ![s].waited = TRUE]
       \/ /\ call[s].timer = "expired" /\ nextPacket(s) /\ UNCHANGED sendSpace
       \/ /\ ~alive /\ goto(s, "closed") /\ UNCHANGED sendSpace
    /\ UNCHANGED <<sendBytes, sendBudget, queue, priority, loop, alive, policyVars, count>>

Notify(s) ==
    /\ call[s].pc = "notify" /\ notifySendSpace /\ goto(s, "enqueue")
    /\ UNCHANGED <<sendBytes, sendBudget, queue, priority, loop, alive, policyVars, count>>

Enqueue(s) ==
    LET c == call[s]
    IN  /\ c.pc = "enqueue"
        /\ IF Len(queue) < QueueSize
           THEN /\ queue' = Append(queue, c.size) /\ nextPacket(s)
                /\ UNCHANGED <<sendBytes, sendSpace>>
           ELSE /\ UNCHANGED queue
                /\ IF c.timer = "expired"
                   THEN releaseSendBytes(c.size) /\ nextPacket(s)
                   ELSE await(s, "queue") /\ UNCHANGED <<sendBytes, sendSpace>>
        /\ UNCHANGED <<sendBudget, priority, loop, alive, policyVars, count>>

\* Mutant: the bytes of a packet that did not get into the queue stay reserved.
leakyAwaitQueue(s) ==
    /\ call[s].pc = "queue"
    /\ \/ /\ Len(queue) < QueueSize /\ queue' = Append(queue, call[s].size)
          /\ nextPacket(s)
       \/ /\ call[s].timer = "expired" /\ nextPacket(s) /\ UNCHANGED queue
       \/ /\ ~alive /\ goto(s, "closed") /\ UNCHANGED queue
    /\ UNCHANGED <<sendBytes, sendSpace, sendBudget, priority, loop, alive, policyVars, count>>

AwaitQueue(s) ==
    LET c == call[s]
    IN  /\ c.pc = "queue"
        /\ \/ /\ Len(queue) < QueueSize /\ queue' = Append(queue, c.size)
              /\ nextPacket(s) /\ UNCHANGED <<sendBytes, sendSpace>>
           \/ /\ c.timer = "expired" /\ releaseSendBytes(c.size) /\ nextPacket(s)
              /\ UNCHANGED queue
           \/ /\ ~alive /\ releaseSendBytes(c.size) /\ goto(s, "closed")
              /\ UNCHANGED queue
        /\ UNCHANGED <<sendBudget, priority, loop, alive, policyVars, count>>

\* net.ErrClosed ends the batch when the bind is closed; when only the session has
\* ended, the packet is dropped and the batch goes on.
Closed(s) ==
    /\ call[s].pc = "closed"
    /\ nextPacket(s) \/ return(s)
    /\ UNCHANGED <<budgetVars, policyVars, count>>

AdmissionTimeout(s) ==
    /\ call[s].timer = "running"
    /\ call' = [call EXCEPT ![s].timer = "expired"]
    /\ UNCHANGED <<budgetVars, policyVars, count>>

-----------------------------------------------------------------------------
(* The loops                                                                *)

senderVars == <<call, sendBytes, sendBudget, sendSpace, queue, priority>>

Ready ==
    /\ loop.pc = "starting"
    /\ loop' = [loop EXCEPT !.pc = "select"]
    /\ UNCHANGED <<senderVars, alive, policyVars, count>>

\* A pending policy goes first.
Dequeue ==
    /\ loop.pc = "select" /\ queue # <<>> /\ updates = <<>>
    /\ loop' = [pc |-> "budget", size |-> Head(queue)] /\ queue' = Tail(queue)
    /\ UNCHANGED <<call, sendBytes, sendBudget, sendSpace, priority, alive, policyVars, count>>

updateSendBudget ==
    /\ \/ UNCHANGED <<sendBudget, sendSpace, count>>
       \/ \E limit \in Budgets :
            /\ count.budgets < MaxBudgets
            /\ count' = [count EXCEPT !.budgets = @ + 1]
            /\ sendBudget' = limit
            /\ sendSpace' = (sendSpace \/ sendBudget < limit)
    /\ UNCHANGED sendBytes

UpdateBudget ==
    /\ loop.pc = "budget" /\ updateSendBudget
    /\ loop' = [loop EXCEPT !.pc = "release"]
    /\ UNCHANGED <<call, queue, priority, alive, policyVars>>

\* sendWGPacket: the bytes are released, and the packet is too old, or is handed to
\* the connection, which may hold it back.
SendWGPacket ==
    /\ loop.pc = "release"
    /\ releaseSendBytes(loop.size)
    /\ loop' \in {[pc |-> "select", size |-> 0], [pc |-> "sending", size |-> loop.size]}
    /\ UNCHANGED <<call, sendBudget, queue, priority, alive, policyVars, count>>

\* sendPacket: the connection takes the datagram, or fails and ends the loop;
\* runSession then closes the session.
SendPacket ==
    /\ loop.pc = "sending"
    /\ loop' \in {[pc |-> "select", size |-> 0], [pc |-> "ended", size |-> 0]}
    /\ UNCHANGED <<senderVars, alive, policyVars, count>>

prioritySendLoop ==
    /\ loop.pc # "starting" /\ priority > 0 /\ alive
    /\ \/ priority' = priority - 1 /\ UNCHANGED alive
       \/ priority' = priority - 1 /\ alive' = FALSE
    /\ UNCHANGED <<call, sendBytes, sendBudget, sendSpace, queue, loop, policyVars, count>>

\* The session is closed after a loop ended, by its peer, a timeout or the bind;
\* the loop sees it in its select, or when the connection gives up.
CloseSession ==
    /\ alive /\ alive' = FALSE
    /\ UNCHANGED <<senderVars, loop, policyVars, count>>

LoopEnds ==
    /\ ~alive /\ loop.pc \in {"starting", "select", "sending"}
    /\ loop' = [pc |-> "ended", size |-> 0]
    /\ UNCHANGED <<senderVars, alive, policyVars, count>>

-----------------------------------------------------------------------------
(* The FEC policy                                                           *)

setFECPolicy(c) ==
    /\ setter[c].pc = "idle" /\ alive
    /\ count.packets + count.requests < MaxWork
    /\ count' = [count EXCEPT !.requests = @ + 1]
    /\ setter' = [setter EXCEPT ![c] = [pc |-> "offer", req |-> count.requests + 1]]
    /\ stale' = stale \cup ((0 .. count.requests) \ {setter[d].req : d \in
                             {c1 \in Callers : setter[c1].pc # "idle"}})
    /\ UNCHANGED <<call, budgetVars, updates, policy>>

done(c) == setter' = [setter EXCEPT ![c] = [pc |-> "idle", req |-> 0]]
step(c, pc) == setter' = [setter EXCEPT ![c].pc = pc]

Offer(c) ==
    /\ setter[c].pc = "offer"
    /\ IF updates = <<>>
       THEN updates' = <<setter[c].req>> /\ done(c)
       ELSE step(c, "drain") /\ UNCHANGED updates
    /\ UNCHANGED <<call, budgetVars, policy, stale, count>>

\* Mutant: what the channel holds is left in it.
lazyDrain(c) ==
    /\ setter[c].pc = "drain" /\ step(c, "again")
    /\ UNCHANGED <<call, budgetVars, updates, policy, stale, count>>

Drain(c) ==
    /\ setter[c].pc = "drain" /\ step(c, "again") /\ updates' = <<>>
    /\ UNCHANGED <<call, budgetVars, policy, stale, count>>

OfferAgain(c) ==
    /\ setter[c].pc = "again" /\ done(c)
    /\ updates' = IF updates = <<>> THEN <<setter[c].req>> ELSE updates
    /\ UNCHANGED <<call, budgetVars, policy, stale, count>>

\* applyFECPolicy, with the flush of the old profile's groups.
ApplyFECPolicy ==
    /\ loop.pc = "select" /\ updates # <<>>
    /\ updates' = <<>>
    /\ \/ policy' = Head(updates) /\ UNCHANGED loop
       \/ loop' = [pc |-> "ended", size |-> 0] /\ UNCHANGED policy
    /\ UNCHANGED <<senderVars, alive, setter, stale, count>>

Next ==
    \/ \E s \in Senders :
         \/ Send(s) \/ EnqueueData(s) \/ EnqueuePriority(s) \/ Refuse(s) \/ Reserve(s)
         \/ AwaitSpace(s) \/ Notify(s) \/ Enqueue(s) \/ AwaitQueue(s)
         \/ Closed(s) \/ AdmissionTimeout(s)
    \/ \E c \in Callers : setFECPolicy(c) \/ Offer(c) \/ Drain(c) \/ OfferAgain(c)
    \/ Ready \/ Dequeue \/ UpdateBudget \/ SendWGPacket \/ SendPacket
    \/ prioritySendLoop \/ CloseSession \/ LoopEnds \/ ApplyFECPolicy

Spec == Init /\ [][Next]_vars

-----------------------------------------------------------------------------
(* Properties *)

total(sizes) == FoldSeq(LAMBDA a, b : a + b, 0, sizes)

\* The reserved bytes are those of the packets in the queue, in the loop's hands
\* before it sends them, and in those of the senders that have reserved, on every
\* path that gives a packet up (enqueueData, sendWGPacket): the budget neither
\* shrinks nor grows over the life of the session.
SendAccounting ==
    LET reserving == {s \in Senders : call[s].pc \in {"notify", "enqueue", "queue"}}
        held == IF loop.pc \in {"budget", "release"} THEN loop.size ELSE 0
    IN  sendBytes = total(queue) + held
                      + MapThenSumSet(LAMBDA s : call[s].size, reserving)

\* Nobody waits for an empty queue: when nothing is reserved and a sender waits for
\* space, the notification is there, or a sender that took it is on its way to
\* reserve, and will pass it on (enqueueData, releaseSendBytes).
EmptyQueueWakes ==
    sendBytes = 0 /\ (\E s \in Senders : call[s].pc = "space") =>
        sendSpace \/ \E s \in Senders : call[s].pc \in {"reserve", "notify"}

\* endpoint_policy.go: "Only the newest requested profile matters": when the calls
\* have returned and the send loop has taken what they left, the profile in use is
\* not one that was asked for before the call for another one began.
NewestPolicyWins ==
    loop.pc # "ended" /\ updates = <<>> /\ (\A c \in Callers : setter[c].pc = "idle") =>
        policy \notin stale
=============================================================================
