-------------------------------- MODULE FEC --------------------------------
(***************************************************************************)
(* Forward error correction for one direction of a session                 *)
(* (internal/transport/fec): the encoder that groups the frames of the      *)
(* send loop and adds parity, a network that loses, duplicates and          *)
(* reorders datagrams, and the decoder that delivers, reconstructs and      *)
(* reports losses.                                                         *)
(*                                                                         *)
(* A data shard is its group and index; any k of the k + r shards of a      *)
(* group yield all of them, as Reed-Solomon codes do.  What the controller  *)
(* chooses is free here: FECController models how it chooses.  Frames that  *)
(* bypass the code never meet the decoder's state and are left out of wire. *)
(***************************************************************************)
EXTENDS Integers, Sequences, FiniteSets, SequencesExt

CONSTANTS
    Profiles, Initial,                      \* of the FEC policies; the first one
    MaxParity, MaxInterleave,
    ProbeFrames,                            \* healthyProbeFrames
    MaxGroups, MaxCompleted, Grace, TTL,    \* of the decoder
    MaxFrames, MaxTime, MaxEvents           \* bounds

VARIABLES
    target,     \* the parity and the interleave the controller asks for
    enc, timer, \* the encoder; the send loop's flush timer is active
    wire,       \* datagrams on their way
    dec,        \* the decoder
    heard,      \* the epochs of the feedback on its way back
    clock,
    arrived,    \* the data shards that reached the decoder, as far as their
                \* group has not been forgotten since
    tally       \* frames sent; network faults, adaptations and policy changes

vars == <<target, enc, timer, wire, dec, heard, clock, arrived, tally>>

happens(n) == /\ tally.events + n <= MaxEvents
              /\ tally' = [tally EXCEPT !.events = @ + n]

emptyGroup == [id |-> 0, epoch |-> 0, parity |-> 0, n |-> 0]
initGroups(e, n) == [e EXCEPT !.interleave = n, !.current = 1,
                              !.groups = [lane \in 1 .. n |-> emptyGroup]]

NewEncoder(profile) ==
    initGroups([epoch |-> 1, nextGroupID |-> 0, maxData |-> profile.data,
                interleave |-> 1, minInterleave |-> profile.interleave, current |-> 1,
                groups |-> <<>>, lastParity |-> -1, unprotected |-> 0, out |-> <<>>],
               profile.interleave)

NewDecoder == [groups |-> <<>>, completed |-> <<>>, last |-> 0, nextExpiry |-> 0]

Init ==
    /\ target = [parity |-> 1, interleave |-> 1]
    /\ enc = NewEncoder(Initial)
    /\ timer = FALSE /\ wire = <<>> /\ dec = NewDecoder /\ heard = {}
    /\ clock = 1 /\ arrived = {}
    /\ tally = [frames |-> 0, events |-> 0]

-----------------------------------------------------------------------------
(* Encoder.  e.out collects the packets an operation returns.                *)

Packet(kind, g, index, k, r) ==
    [kind |-> kind, epoch |-> g.epoch, id |-> g.id, index |-> index, k |-> k, r |-> r]

\* What closes a group: its parity shards and the close packet.
flushGroup(g) ==
    LET r == Min({g.parity, Max({1, g.n \div 2}), MaxParity})
    IN  IF g.n = 0 THEN <<>>
        ELSE [i \in 1 .. r |-> Packet("parity", g, i - 1, g.n, r)]
               \o <<Packet("close", g, 0, g.n, r)>>

flushAll(e) ==
    [e EXCEPT !.out = @ \o FlattenSeq([l \in DOMAIN e.groups |-> flushGroup(e.groups[l])]),
              !.groups = [l \in DOMAIN @ |-> [@[l] EXCEPT !.n = 0]]]

setInterleave(e, n) == IF n = e.interleave THEN e ELSE initGroups(flushAll(e), n)

Reconfigure(e, profile) ==
    initGroups([flushAll(e) EXCEPT !.maxData = profile.data,
                                   !.minInterleave = profile.interleave],
               Max({profile.interleave, target.interleave}))

\* A change of parity closes every group and begins an epoch (16 bits, not 0).
setParity(e, parity) ==
    LET flushed == flushAll(e)
    IN  IF e.lastParity >= 0 /\ parity # e.lastParity
        THEN [flushed EXCEPT !.epoch = (@ % 65535) + 1, !.lastParity = parity]
        ELSE [e EXCEPT !.lastParity = parity]

addShard(e, parity) ==
    LET lane == e.current
        g == IF e.groups[lane].n > 0 THEN e.groups[lane]
             ELSE [id |-> e.nextGroupID, epoch |-> e.epoch, parity |-> parity, n |-> 0]
        added == [g EXCEPT !.n = @ + 1]
        full == added.n = e.maxData
    IN  [e EXCEPT
           !.nextGroupID = @ + (IF g.n = 0 THEN 1 ELSE 0),
           !.groups[lane] = IF full THEN [added EXCEPT !.n = 0] ELSE added,
           !.out = @ \o <<Packet("data", g, g.n, 0, 0)>>
                     \o (IF full THEN flushGroup(added) ELSE <<>>),
           !.current = (@ % e.interleave) + 1]

\* A frame passes unprotected on a healthy path, but for a probe now and then.
Add(e0) ==
    LET e == setInterleave(e0, Max({e0.minInterleave, target.interleave}))
    IN  IF target.parity = 0 /\ e.unprotected < ProbeFrames
        THEN [e EXCEPT !.unprotected = @ + 1]
        ELSE IF target.parity = 0
             THEN addShard([setParity(e, 0) EXCEPT !.unprotected = 0], 1)
             ELSE addShard(setParity(e, target.parity), target.parity)

Pending(e) == \E l \in DOMAIN e.groups : e.groups[l].n # 0

transmit(e) ==
    /\ wire' = wire \o e.out
    /\ enc' = [e EXCEPT !.out = <<>>]
    /\ UNCHANGED <<dec, heard, clock, arrived>>

sendFrame ==
    /\ tally.frames < MaxFrames
    /\ tally' = [tally EXCEPT !.frames = @ + 1]
    /\ LET e == Add(enc) IN transmit(e) /\ timer' = Pending(e)
    /\ UNCHANGED target

flushTimer ==
    /\ timer /\ timer' = FALSE
    /\ transmit(flushAll(enc))
    /\ UNCHANGED <<target, tally>>

applyFECPolicy ==
    /\ happens(1)
    /\ timer' = FALSE
    /\ \E p \in Profiles :
         /\ p # [data |-> enc.maxData, interleave |-> enc.minInterleave]
         /\ transmit(Reconfigure(enc, p))
    /\ UNCHANGED target

\* Observe, on feedback of the current epoch, and ObserveTransport, which only
\* asks for more.
Observe ==
    /\ happens(1)
    /\ \E up, deeper \in {-1, 0, 1} :
         /\ enc.epoch \notin heard => up = 1 /\ deeper = 0
         /\ target.parity + up \in 0 .. MaxParity
         /\ target' = [parity |-> target.parity + up,
                       interleave |-> CASE deeper = 0 -> target.interleave
                                        [] deeper = 1 ->
                                             Min({2 * target.interleave, MaxInterleave})
                                        [] OTHER -> Max({target.interleave \div 2, 1})]
    /\ UNCHANGED <<enc, timer, wire, dec, heard, clock, arrived>>

-----------------------------------------------------------------------------
(* Decoder.  d.heard collects the epochs of the feedback of an operation,    *)
(* d.forgot the groups it removed.                                           *)

known(d) == DOMAIN d.groups
without(f, ids) == [id \in DOMAIN f \ ids |-> f[id]]
with(f, id, v) == [i \in DOMAIN f \cup {id} |-> IF i = id THEN v ELSE f[i]]

scheduleExpiry(d, at) ==
    [d EXCEPT !.nextExpiry = IF @ = 0 \/ at < @ THEN at ELSE @]

\* The oldest groups, up to the first that may still be completed in order.
fastExpire(d) ==
    LET stalled(id) == d.last - id >= MaxInterleave /\ clock - d.groups[id].created > Grace
        before(a, b) == \/ d.groups[a].created < d.groups[b].created
                        \/ d.groups[a].created = d.groups[b].created /\ a <= b
        gone == {id \in known(d) : \A a \in known(d) : before(a, id) => stalled(a)}
    IN  [d EXCEPT !.groups = without(@, gone), !.forgot = @ \cup gone,
                  !.heard = @ \cup {d.groups[id].epoch : id \in gone}]

\* No group is looked at before the earliest deadline has passed.
expire(d) ==
    LET gone == {id \in known(d) : clock - d.groups[id].created > TTL}
        done == {id \in DOMAIN d.completed : clock - d.completed[id].finalized > Grace}
        left == {d.groups[id].created + TTL : id \in known(d) \ gone} \cup
                {d.completed[id].finalized + Grace : id \in DOMAIN d.completed \ done}
    IN  IF d.nextExpiry = 0 \/ clock <= d.nextExpiry THEN d
        ELSE [d EXCEPT
                !.groups = without(@, gone), !.completed = without(@, done),
                !.forgot = @ \cup gone \cup done,
                !.heard = @ \cup {d.groups[id].epoch : id \in {i \in gone : d.groups[i].k > 0}}
                            \cup {d.completed[id].epoch : id \in
                                    {i \in done : clock - d.completed[i].finalized <= TTL}},
                !.nextExpiry = IF left = {} THEN 0 ELSE Min(left)]

newGroup(p) == [created |-> clock, epoch |-> p.epoch, k |-> 0, r |-> 0, data |-> {},
                parity |-> {}, delivered |-> {}, reconstructed |-> {}, closed |-> FALSE]

setDimensions(g, p) == [g EXCEPT !.k = p.k, !.r = p.r]
sameDimensions(g, p) == g.k = 0 \/ (g.k = p.k /\ g.r = p.r)

store(g, p) ==
    CASE p.kind = "data" -> [g EXCEPT !.data = @ \cup {p.index},
                                      !.delivered = @ \cup {p.index}]
      [] p.kind = "parity" -> [setDimensions(g, p) EXCEPT !.parity = @ \cup {p.index}]
      [] p.kind = "close" -> [setDimensions(g, p) EXCEPT !.closed = TRUE]

original(g) == g.data \cap (0 .. g.k - 1)
missing(g) == (0 .. g.k - 1) \ g.data
available(g) == Cardinality(original(g)) + Cardinality(g.parity)

\* The group after tryComplete, and whether that was final.
reconstruct(g) == [g EXCEPT !.data = @ \cup missing(g), !.reconstructed = missing(g),
                            !.delivered = @ \cup missing(g)]
final(g) ==
    /\ g.k > 0
    /\ IF missing(g) = {} THEN g.closed \/ g.r = 0
       ELSE available(g) >= g.k \/ (g.closed /\ g.r = 0)

\* Mutant: parity is put to use only once the group is closed.
lazyComplete(g) ==
    IF g.k > 0 /\ missing(g) # {} /\ available(g) >= g.k /\ g.closed
    THEN reconstruct(g) ELSE g

tryComplete(g) ==
    IF g.k > 0 /\ missing(g) # {} /\ available(g) >= g.k THEN reconstruct(g) ELSE g

completedGroup(g, stored) ==
    [finalized |-> clock, epoch |-> g.epoch, k |-> g.k, delivered |-> g.delivered,
     reconstructed |-> g.reconstructed, missing |-> Cardinality(missing(stored)),
     recovered |-> Cardinality(g.reconstructed)]

\* Any of the completed groups that were finalized first may have to go.
limitCompleted(d) ==
    LET oldest == {id \in DOMAIN d.completed :
                     \A i \in DOMAIN d.completed :
                       d.completed[id].finalized <= d.completed[i].finalized}
    IN  IF Cardinality(DOMAIN d.completed) < MaxCompleted THEN {d}
        ELSE {[d EXCEPT !.completed = without(@, {id}), !.forgot = @ \cup {id}] : id \in oldest}

\* Mutant: a late shard of a reconstructed frame counts each time it comes.
repeatedLateShard(c, p) ==
    CASE p.kind # "data" \/ p.index >= c.k -> c
      [] p.kind = "data" /\ p.index \in c.reconstructed ->
           [c EXCEPT !.missing = @ - 1, !.recovered = @ - 1]
      [] OTHER -> c

\* A shard that comes after its group was finalized was reordered, not lost.
handleLateShard(c, p) ==
    CASE p.kind # "data" \/ p.index >= c.k -> c
      [] p.kind = "data" /\ p.index \in c.reconstructed ->
           [c EXCEPT !.missing = @ - 1, !.recovered = @ - 1,
                     !.reconstructed = @ \ {p.index}]
      [] p.kind = "data" /\ p.index < c.k /\ p.index \notin c.delivered ->
           [c EXCEPT !.missing = @ - 1, !.delivered = @ \cup {p.index}]
      [] OTHER -> c

\* The decoders Handle may leave behind; none for a packet that is an error.
handled(d, p) ==
    LET g == IF p.id \in known(d) THEN d.groups[p.id] ELSE newGroup(p)
        stored == store(g, p)
        tried == tryComplete(stored)
        open == scheduleExpiry([d EXCEPT !.groups = with(@, p.id, tried)],
                               IF p.id \in known(d) THEN d.nextExpiry ELSE clock + TTL)
        closing == [open EXCEPT !.groups = without(@, {p.id})]
    IN  CASE p.id \in DOMAIN d.completed ->
               IF d.completed[p.id].epoch # p.epoch THEN {}
               ELSE {[d EXCEPT !.completed[p.id] = handleLateShard(@, p)]}
          [] p.id \notin DOMAIN d.completed /\ p.id \notin known(d)
             /\ Cardinality(known(d)) >= MaxGroups -> {}
          [] OTHER ->
               IF g.epoch # p.epoch \/ (p.kind # "data" /\ ~sameDimensions(g, p)) THEN {}
               ELSE IF ~final(stored) THEN {open}
               ELSE {scheduleExpiry([l EXCEPT !.completed =
                                       with(@, p.id, completedGroup(tried, stored))],
                                    clock + Grace) : l \in limitCompleted(closing)}

begun(d) == [groups |-> d.groups, completed |-> d.completed, last |-> d.last,
             nextExpiry |-> d.nextExpiry, heard |-> {}, forgot |-> {}]
settle(d) == [groups |-> d.groups, completed |-> d.completed, last |-> d.last,
              nextExpiry |-> d.nextExpiry]
remembered(d) == {shard \in arrived : shard[1] \notin d.forgot}

\* A datagram may overtake others or be duplicated.  An error loses the feedback
\* that was due with the packet.
Handle ==
    \E at \in DOMAIN wire, again \in {0, 1} :
      LET p == wire[at]
          expired == expire(begun(dec))
          d == fastExpire([expired EXCEPT !.last = Max({@, p.id})])
          outcomes == handled(d, p)
      IN  /\ happens(again + (IF at = 1 THEN 0 ELSE 1))
          /\ wire' = IF again = 1 THEN wire ELSE RemoveAt(wire, at)
          /\ IF outcomes = {}
             THEN dec' = settle(d) /\ arrived' = remembered(d) /\ UNCHANGED heard
             ELSE \E o \in outcomes :
                    /\ dec' = settle(o) /\ heard' = heard \cup o.heard
                    /\ arrived' = remembered(o) \cup
                         (IF p.kind = "data" THEN {<<p.id, p.index>>} ELSE {})
          /\ UNCHANGED <<target, enc, timer, clock>>

Lose ==
    /\ wire # <<>> /\ wire' = Tail(wire) /\ happens(1)
    /\ UNCHANGED <<target, enc, timer, dec, heard, clock, arrived>>

\* The receive loop's ticker.
Expire ==
    LET d == expire(fastExpire(begun(dec)))
    IN  /\ dec' = settle(d) /\ heard' = heard \cup d.heard /\ arrived' = remembered(d)
        /\ UNCHANGED <<target, enc, timer, wire, clock, tally>>

Tick ==
    /\ clock < MaxTime /\ clock' = clock + 1
    /\ UNCHANGED <<target, enc, timer, wire, dec, heard, arrived, tally>>

Next ==
    \/ sendFrame \/ flushTimer \/ applyFECPolicy \/ Observe
    \/ Handle \/ Lose \/ Expire \/ Tick

Spec == Init /\ [][Next]_vars

-----------------------------------------------------------------------------
(* Properties *)

\* Every frame of a group has been delivered as soon as enough of its shards have
\* come, in whatever order (tryComplete); the group is over only then.
RecoveredWhenPossible ==
    /\ \A id \in known(dec) :
         LET g == dec.groups[id]
         IN  g.k > 0 /\ available(g) >= g.k => missing(g) = {}
    /\ \A id \in DOMAIN dec.completed :
         dec.completed[id].delivered = 0 .. dec.completed[id].k - 1

\* What a finished group is going to report is true, and reordering and
\* duplication are not reported as loss: missing are the shards that have not
\* come, recovered those that were reconstructed instead (handleLateShard).
FeedbackTruthful ==
    \A id \in DOMAIN dec.completed :
      LET c == dec.completed[id]
          came == {i \in 0 .. c.k - 1 : <<id, i>> \in arrived}
      IN  /\ c.missing = c.k - Cardinality(came)
          /\ c.reconstructed = c.delivered \ came
          /\ c.recovered = Cardinality(c.reconstructed)
=============================================================================
