----------------------------- MODULE MCDataPath -----------------------------
(***************************************************************************)
(* Instances of the models of a session's data path and of what is observed *)
(* of it: the FEC code between two ends, the controller that adapts it, the *)
(* sending and the receiving half of a session, the event log and its       *)
(* collector.  They share no state; `part` says which of them a behaviour   *)
(* is about, the others stay as they are.                                   *)
(***************************************************************************)
EXTENDS FECController, Sequences, FiniteSets

CONSTANTS
    TTL,                                                                \* two of them
    FECParity, FECInterleave, ProbeFrames, MaxGroups, MaxCompleted, Grace,  \* FEC
    MaxFrames, MaxTime, MaxEvents,
    Senders, Sizes, Budgets, Startup, QueueSize, PrioritySize, Callers, \* SendPath
    MaxWork, MaxBudgets,
    Sessions, MaxFragments, MaxFragmentData, MaxDatagram,               \* Receive
    MaxReassemblies, ReceiveQueue, ReserveLimit, ControlSize, Batch,
    MaxArrivals, ReceiveTime,
    MaxSessionEvents, MaxRecent, EventPageSize, MaxEventPages,          \* Collector
    SessionIDs, MaxSessions, MaxSamples, MaxChanges, MaxFaults

VARIABLES
    target, enc, timer, wire, dec, heard, clock, arrived, tally,
    call, sendBytes, sendBudget, sendSpace, queue, priority, loop, alive,
    setter, updates, policy, stale, count,
    table, recv, pending, hand, authenticated, ended, control, now, arrivals, refused,
    core, run, bundle, changes, faults,
    part

fecVars == <<target, enc, timer, wire, dec, heard, clock, arrived, tally>>
sendVars == <<call, sendBytes, sendBudget, sendSpace, queue, priority, loop, alive,
              setter, updates, policy, stale, count>>
receiveVars == <<table, recv, pending, hand, authenticated, ended, control, now,
                 arrivals, refused>>
controllerVars == <<ctl, calm>>
collectorVars == <<core, run, bundle, changes, faults>>

MCInitial == [data |-> 2, interleave |-> 1]
MCProfiles == {MCInitial, [data |-> 4, interleave |-> 2]}

\* A packet of three frames, one of a single frame, and one in another session.
MCPackets ==
    LET one == CHOOSE s \in Sessions : TRUE
        two == CHOOSE s \in Sessions : s # one
    IN  {[session |-> one, id |-> 1, len |-> 5, data |-> 2],
         [session |-> one, id |-> 2, len |-> 1, data |-> 2],
         [session |-> two, id |-> 1, len |-> 2, data |-> 1]}

Code == INSTANCE FEC WITH Profiles <- MCProfiles, Initial <- MCInitial,
                          MaxParity <- FECParity, MaxInterleave <- FECInterleave
Sending == INSTANCE SendPath
Receiving == INSTANCE Receive WITH Packets <- MCPackets, QueueSize <- ReceiveQueue,
                                   MaxTime <- ReceiveTime, clock <- now
Collecting == INSTANCE Collector

DataPathInit ==
    /\ Code!Init /\ Sending!Init /\ Receiving!Init /\ Collecting!Init /\ Init
    /\ part \in {"fec", "send", "receive", "controller", "collector"}
    /\ part # "controller" => ctl = NewController(MaxShards)
    /\ part # "collector" => core.live = {} /\ run.sessionID = 0

DataPathNext ==
    /\ UNCHANGED part
    /\ \/ /\ part = "fec" /\ Code!Next
          /\ UNCHANGED <<sendVars, receiveVars, controllerVars, collectorVars>>
       \/ /\ part = "send" /\ Sending!Next
          /\ UNCHANGED <<fecVars, receiveVars, controllerVars, collectorVars>>
       \/ /\ part = "receive" /\ Receiving!Next
          /\ UNCHANGED <<fecVars, sendVars, controllerVars, collectorVars>>
       \/ /\ part = "controller" /\ Next
          /\ UNCHANGED <<fecVars, sendVars, receiveVars, collectorVars>>
       \/ /\ part = "collector" /\ Collecting!Next
          /\ UNCHANGED <<fecVars, sendVars, receiveVars, controllerVars>>

DataPath ==
    DataPathInit /\
    [][DataPathNext]_<<fecVars, sendVars, receiveVars, controllerVars, collectorVars, part>>

\* Every frame of a group has been delivered as soon as enough of its shards have
\* come, in whatever order (tryComplete).
RecoveredWhenPossible == part = "fec" => Code!RecoveredWhenPossible

\* Reordering and duplication are not reported as loss (handleLateShard).
FeedbackTruthful == part = "fec" => Code!FeedbackTruthful

\* The reserved bytes are those of the packets on their way (enqueueData).
SendAccounting == part = "send" => Sending!SendAccounting

\* Nobody waits for space in an empty queue without a notification (enqueueData).
EmptyQueueWakes == part = "send" => Sending!EmptyQueueWakes

\* An older request for a FEC policy does not outlast a newer one (setFECPolicy).
NewestPolicyWins == part = "send" => Sending!NewestPolicyWins

\* Reservations are those of the packets in the queue (deliverFrame, dispose).
ReservationAccounting == part = "receive" => Receiving!ReservationAccounting

\* Reassembly takes what fragmentation makes (fragmentPacketSized, add).
ReassemblyAccepts == part = "receive" => Receiving!ReassemblyAccepts

\* A COMPLETE bundle lacks no event of its series (drainEvents).
EventsWhole == part = "collector" => Collecting!EventsWhole

\* A COMPLETE bundle ends each series before the next (transition, writeFinalCSV).
SeriesClosed == part = "collector" => Collecting!SeriesClosed
=============================================================================
