------------------------------ MODULE Receive ------------------------------
(***************************************************************************)
(* The receiving half of the sessions of a bind (internal/bind): framing    *)
(* and reassembly in a table all sessions share, the reservations that      *)
(* bound what an unauthenticated session may put into the shared receive    *)
(* queue, and WireGuard's receive function that empties it.                 *)
(*                                                                         *)
(* The network delivers the fragments of the packets its peers sent in any  *)
(* order, some not at all and some more than once.  A payload is its length. *)
(***************************************************************************)
EXTENDS Integers, Sequences, FiniteSets, SequencesExt

CONSTANTS
    Sessions,
    Packets,            \* [session, id, len, data]: data bytes of it fit a frame
    MaxFragments, MaxFragmentData, MaxDatagram,
    MaxReassemblies, TTL,
    QueueSize, ReserveLimit, ControlSize, Batch,
    MaxArrivals, MaxTime

VARIABLES
    table,      \* reassembler.groups, by packet
    recv,       \* the shared receive queue
    pending,    \* per session, pendingReceive
    hand,       \* per session, how far its receive loop is with a packet
    authenticated,  \* sessions whose authentication is settled
    ended,      \* sessions whose context is done
    control,    \* per session, feedback waiting for the priority loop
    clock, arrivals,
    refused     \* packets of which a fragment was an error, and not for lack of room

\* The receive loop waits for a datagram ("none"), has reassembled a packet ("packet"),
\* has counted it within the limit ("reserved") or over it ("over"), need not count it
\* ("free"), has returned ("returned").

vars == <<table, recv, pending, hand, authenticated, ended, control, clock, arrivals, refused>>

Init ==
    /\ table = <<>> /\ recv = <<>>
    /\ pending = [s \in Sessions |-> 0]
    /\ hand = [s \in Sessions |-> "none"]
    /\ authenticated = {} /\ ended = {}
    /\ control = [s \in Sessions |-> 0]
    /\ clock = 0 /\ arrivals = 0
    /\ refused = {}

-----------------------------------------------------------------------------
(* Framing                                                                  *)

fragmentCount(p) == (p.len + p.data - 1) \div p.data

\* The frames of a packet: the payload from i * data on, at most data bytes of it.
fragmentPacketSized(p) ==
    {[index |-> i, count |-> fragmentCount(p), total |-> p.len,
      len |-> Min({p.data, p.len - i * p.data})] : i \in 0 .. fragmentCount(p) - 1}

fragmentable(p) ==
    /\ p.len \in 1 .. MaxDatagram /\ p.data \in 1 .. MaxFragmentData
    /\ fragmentCount(p) <= MaxFragments

parseFragment(f) ==
    /\ f.count \in 1 .. MaxFragments /\ f.index < f.count
    /\ f.total \in 1 .. MaxDatagram
    /\ f.len \in 1 .. MaxFragmentData

-----------------------------------------------------------------------------
(* Reassembly                                                               *)

without(t, gone) == [p \in DOMAIN t \ gone |-> t[p]]
with(t, p, g) == [q \in DOMAIN t \cup {p} |-> IF q = p THEN g ELSE t[q]]

expireLocked(t) == without(t, {p \in DOMAIN t : clock - t[p].created > TTL})

newGroup(f) == [created |-> clock, total |-> f.total, count |-> f.count, seen |-> {},
                bytes |-> 0]

\* Mutant: the fragment in hand is counted among those that are still to come.
strictRoom(g, f) == g.bytes + f.len + g.count - Cardinality(g.seen) <= g.total

\* Each fragment that is still to come has at least one byte.
room(g, f) == g.bytes + f.len + g.count - Cardinality(g.seen) - 1 <= g.total

result(t, is) == [table |-> t, is |-> is]

\* The table after a fragment, and what it made of its packet.
add(p, f) ==
    LET t == expireLocked(table)
        g == IF p \in DOMAIN t THEN t[p] ELSE newGroup(f)
        added == IF f.index \in g.seen THEN g
                 ELSE [g EXCEPT !.seen = @ \cup {f.index}, !.bytes = @ + f.len]
    IN  CASE f.count = 1 ->
               result(table, IF f.len = f.total THEN "whole" ELSE "error")
          [] f.count > 1 /\ p \notin DOMAIN t /\ Cardinality(DOMAIN t) >= MaxReassemblies ->
               result(t, "no room")
          [] OTHER ->
               IF \/ <<g.total, g.count>> # <<f.total, f.count>>
                  \/ f.index \notin g.seen /\ ~room(g, f)
               THEN result(without(t, {p}), "error")
               ELSE IF Cardinality(added.seen) # added.count
               THEN result(with(t, p, added), "incomplete")
               ELSE result(without(t, {p}),
                           IF added.bytes = added.total THEN "whole" ELSE "error")

-----------------------------------------------------------------------------
(* The receive loop of a session                                            *)

\* handleReceivedDatagram, and deliverFrame up to the reassembled packet.  A done
\* context does not keep the loop from serving what has already come.
HandleDatagram(s) ==
    /\ hand[s] = "none" /\ arrivals < MaxArrivals
    /\ arrivals' = arrivals + 1
    /\ \E p \in {q \in Packets : q.session = s /\ fragmentable(q)} :
         \E f \in fragmentPacketSized(p) :
           LET r == IF parseFragment(f) THEN add(p, f) ELSE result(table, "error")
           IN  /\ table' = r.table
               /\ refused' = refused \cup (IF r.is = "error" THEN {p} ELSE {})
               /\ hand' = [hand EXCEPT ![s] = IF r.is = "whole" THEN "packet" ELSE @]
    /\ UNCHANGED <<recv, pending, authenticated, ended, control, clock>>

\* deliverFrame goes on: a session that is not authenticated counts the packet
\* first and looks at its limit then.
ReserveUnauthenticatedReceive(s) ==
    LET reserves == s \notin authenticated
    IN  /\ hand[s] = "packet"
        /\ pending' = [pending EXCEPT ![s] = @ + (IF reserves THEN 1 ELSE 0)]
        /\ hand' = [hand EXCEPT ![s] = IF ~reserves THEN "free"
                                       ELSE IF pending[s] < ReserveLimit THEN "reserved"
                                       ELSE "over"]
        /\ UNCHANGED <<table, recv, authenticated, ended, control, clock, arrivals, refused>>

\* A count over the limit is taken back, and the packet dropped.
RefuseReservation(s) ==
    /\ hand[s] = "over" /\ hand' = [hand EXCEPT ![s] = "none"]
    /\ pending' = [pending EXCEPT ![s] = @ - 1]
    /\ UNCHANGED <<table, recv, authenticated, ended, control, clock, arrivals, refused>>

\* Mutant: a packet of a session that was authenticated since keeps its reservation.
forgetfulDispose(packets) ==
    pending' = [s \in Sessions |->
                  pending[s] - Cardinality({i \in DOMAIN packets :
                                 /\ packets[i].session = s /\ packets[i].reservation
                                 /\ s \notin authenticated})]

dispose(packets) ==
    pending' = [s \in Sessions |->
                  pending[s] - Cardinality({i \in DOMAIN packets :
                                 packets[i].session = s /\ packets[i].reservation})]

\* The rest of deliverFrame.  A packet in the queue keeps its reservation, whatever
\* becomes of the session; one that finds no place, or a done context, is disposed of.
DeliverFrame(s) ==
    LET rp == [session |-> s, reservation |-> hand[s] = "reserved"]
    IN  /\ hand[s] \in {"reserved", "free"} /\ hand' = [hand EXCEPT ![s] = "none"]
        /\ \/ /\ Len(recv) < QueueSize
              /\ recv' = Append(recv, rp) /\ UNCHANGED pending
           \/ /\ Len(recv) >= QueueSize \/ s \in ended
              /\ dispose(<<rp>>) /\ UNCHANGED recv
        /\ UNCHANGED <<table, authenticated, ended, control, clock, arrivals, refused>>

\* A group of shards is reported to the peer, unless the queue is full.
SendFECFeedback(s) ==
    /\ hand[s] = "none" /\ arrivals < MaxArrivals
    /\ arrivals' = arrivals + 1
    /\ control' = [control EXCEPT ![s] = Min({@ + 1, ControlSize})]
    /\ UNCHANGED <<table, recv, pending, hand, authenticated, ended, clock, refused>>

FeedbackSent(s) ==
    /\ s \notin ended /\ control[s] > 0
    /\ control' = [control EXCEPT ![s] = @ - 1]
    /\ UNCHANGED <<table, recv, pending, hand, authenticated, ended, clock, arrivals,
                   refused>>

\* The ticker of any receive loop serves the whole table.
Expire(s) ==
    /\ hand[s] = "none"
    /\ table' = expireLocked(table)
    /\ UNCHANGED <<recv, pending, hand, authenticated, ended, control, clock, arrivals,
                   refused>>

\* AssociateSessionPeer, called for a packet WireGuard has received.  The
\* deadline and close settle authentication, too, and for reservations alike; an
\* outbound session is one that was settled before its first packet.
Authenticate(s) ==
    /\ s \notin authenticated /\ authenticated' = authenticated \cup {s}
    /\ UNCHANGED <<table, recv, pending, hand, ended, control, clock, arrivals, refused>>

discardSession(s) == without(table, {p \in DOMAIN table : p.session = s})

\* The session is closed from elsewhere, at any moment.
Close(s) ==
    /\ s \notin ended /\ ended' = ended \cup {s}
    /\ UNCHANGED <<table, recv, pending, hand, authenticated, control, clock, arrivals,
                   refused>>

\* The loop ends when the session's context is done, or the connection fails.
ReceiveLoopEnds(s) ==
    /\ hand[s] = "none" /\ hand' = [hand EXCEPT ![s] = "returned"]
    /\ table' = discardSession(s)
    /\ ended' = ended \cup {s}
    /\ UNCHANGED <<recv, pending, authenticated, control, clock, arrivals, refused>>

-----------------------------------------------------------------------------
(* WireGuard's receive function                                             *)

\* As many packets as are there, up to the batch; a packet that does not fit its
\* buffer is disposed of, too.
receiveFunc ==
    LET n == Min({Batch, Len(recv)})
    IN  /\ n > 0
        /\ recv' = SubSeq(recv, n + 1, Len(recv))
        /\ dispose(SubSeq(recv, 1, n))
        /\ UNCHANGED <<table, hand, authenticated, ended, control, clock, arrivals, refused>>

Tick ==
    /\ clock < MaxTime /\ clock' = clock + 1
    /\ UNCHANGED <<table, recv, pending, hand, authenticated, ended, control, arrivals,
                   refused>>

Next ==
    \/ \E s \in Sessions :
         \/ HandleDatagram(s) \/ ReserveUnauthenticatedReceive(s) \/ RefuseReservation(s)
         \/ DeliverFrame(s) \/ SendFECFeedback(s) \/ FeedbackSent(s) \/ Expire(s)
         \/ Authenticate(s) \/ Close(s) \/ ReceiveLoopEnds(s)
    \/ receiveFunc \/ Tick

Spec == Init /\ [][Next]_vars

-----------------------------------------------------------------------------
(* Properties *)

\* A session's reservations are its packets that were not authenticated when they
\* came and are in the queue or on their way to it, also after the session was
\* authenticated or has ended: none is kept when the queue is full, the session ends
\* or the packet is read, none is returned twice, and those that are granted are
\* never more than their limit (reserveUnauthenticatedReceive, deliverFrame, dispose).
ReservationAccounting ==
    \A s \in Sessions :
      LET queued == Cardinality({i \in DOMAIN recv :
                                   recv[i].session = s /\ recv[i].reservation})
          granted == queued + (IF hand[s] = "reserved" THEN 1 ELSE 0)
      IN  /\ pending[s] = granted + (IF hand[s] = "over" THEN 1 ELSE 0)
          /\ granted <= ReserveLimit

\* What fragmentPacketSized made, reassembly puts together: no fragment is refused
\* for what it says, whichever of them came before, twice or not at all, and the
\* bytes counted are those of the fragments seen (fragmentPacketSized, add).
ReassemblyAccepts ==
    /\ refused = {}
    /\ \A p \in DOMAIN table :
         table[p].bytes = MapThenSumSet(LAMBDA f : f.len,
                            {f \in fragmentPacketSized(p) : f.index \in table[p].seen})
=============================================================================
