----------------------------- MODULE Collector -----------------------------
(***************************************************************************)
(* What an observer is told about the sessions of a bind: the bounded event *)
(* log (internal/bind/event_log.go), the final observations of closed       *)
(* sessions, and the collector (internal/observe) that samples both over    *)
(* the management socket and marks its bundle COMPLETE or INCOMPLETE.       *)
(*                                                                         *)
(* Counters are one number per session.  A restart replaces the supervisor  *)
(* and the core, so epoch and event stream change together.                 *)
(***************************************************************************)
EXTENDS Integers, Sequences, FiniteSets, SequencesExt

CONSTANTS
    MaxSessionEvents, MaxRecent,        \* what the bind retains
    EventPageSize, MaxEventPages,       \* one drain
    SessionIDs,                         \* --session-id; 0 pins none
    MaxSessions, MaxSamples, MaxChanges, MaxFaults

VARIABLES
    core,       \* epoch, log, live, auth, stats, closing, recent, next
    run,        \* the collector's own state
    bundle,     \* rows and events written, the cursor it began with, the marker
    changes, faults     \* steps of the bind, failures so far

vars == <<core, run, bundle, changes, faults>>

None == -1
Observed == 1 .. MaxSessions

NewCore(e) ==
    [epoch |-> e, log |-> <<>>, live |-> {}, auth |-> {},
     stats |-> [s \in Observed |-> 0], closing |-> <<>>, recent |-> <<>>, next |-> 1]

\* The collector is started for a session that has authenticated, or before any.
Init ==
    /\ core \in {NewCore(1),
                 [NewCore(1) EXCEPT !.next = 2, !.live = {1}, !.auth = {1}, !.log = <<1>>]}
    /\ run \in [pc : {"start"}, epoch : {0}, stream : {FALSE}, cursor : {0}, page : {0},
                then : {"sample"}, current : {0}, previous : {None}, finalized : {{}},
                target : {{}}, issues : {FALSE}, samples : {0}, seen : {{}},
                sessionID : SessionIDs]
    /\ bundle = [rows |-> <<>>, events |-> {}, start |-> None, marker |-> "none"]
    /\ changes = 0 /\ faults = 0

-----------------------------------------------------------------------------
(* The bind                                                                 *)

\* sessionEventLog.append: entry n of the log has sequence n; the ring keeps the last.
append(log, s) == Append(log, s)

firstAvailable(log) ==
    IF log = <<>> THEN 0 ELSE Max({1, Len(log) - MaxSessionEvents + 1})

\* sessionEventLog.page: the sequences after the cursor that are still in the ring.
page(log, after) ==
    LET from == Max({after + 1, firstAvailable(log)})
    IN  from .. Min({Len(log), from + EventPageSize - 1})

retained(recent) ==
    SubSeq(recent, Max({1, Len(recent) - MaxRecent + 1}), Len(recent))

Create ==
    /\ core.next <= MaxSessions
    /\ core' = [core EXCEPT !.next = @ + 1, !.live = @ \union {core.next},
                            !.log = append(@, core.next)]

\* Transport events, the end of a session, and (0) the socket's receive overflow.
RecordEvent(s) ==
    /\ s < core.next
    /\ core' = [core EXCEPT !.log = append(@, s)]

Authenticate(s) ==
    /\ s \in core.live \ core.auth
    /\ core' = [core EXCEPT !.auth = @ \union {s}]

Traffic(s) ==
    /\ s \in core.live
    /\ core' = [core EXCEPT !.stats[s] = @ + 1]

\* session.close reads the final counters and the authenticated peers first, ...
FinalTelemetry(s) ==
    /\ s \in core.live /\ \A i \in DOMAIN core.closing : core.closing[i].id # s
    /\ core' = [core EXCEPT !.closing =
                   Append(@, [id |-> s, stats |-> core.stats[s], auth |-> s \in core.auth])]

\* ... and later, in one section, retains them and drops the session.
Detach ==
    \E i \in DOMAIN core.closing :
        core' = [core EXCEPT !.closing = RemoveAt(@, i),
                             !.live = @ \ {core.closing[i].id},
                             !.recent = retained(Append(@, core.closing[i]))]

\* pruneRecentSessionsLocked: the oldest has been retained for the time to live.
Prune ==
    /\ core.recent # <<>>
    /\ core' = [core EXCEPT !.recent = Tail(@)]

Restart == core' = NewCore(core.epoch + 1)

-----------------------------------------------------------------------------
(* The collector                                                            *)

mayFail == faults < MaxFaults /\ faults' = faults + 1

\* Run returns an error: what was written stays, the collector's state is gone.
incomplete ==
    /\ run' = [pc |-> "done", issues |-> TRUE]
    /\ bundle' = [bundle EXCEPT !.marker = "INCOMPLETE"]

\* The first Status; without the capabilities, or an answer, there is no bundle.
Bootstrap ==
    /\ run.pc = "start" /\ UNCHANGED core
    /\ \/ /\ run' = [run EXCEPT !.pc = "drain", !.epoch = core.epoch]
          /\ UNCHANGED <<bundle, faults>>
       \/ incomplete /\ mayFail

\* A sample: Status has the live sessions read first and the closed ones second.
SampleActive ==
    /\ run.pc = "sample" /\ UNCHANGED <<core, bundle>>
    /\ \/ /\ run' = [run EXCEPT !.pc = "recent", !.samples = @ + 1,
                                !.seen = {[id |-> s, stats |-> core.stats[s],
                                           auth |-> s \in core.auth] : s \in core.live}]
          /\ UNCHANGED faults
       \/ /\ run' = [run EXCEPT !.pc = "between", !.samples = @ + 1, !.issues = TRUE]
          /\ mayFail

\* The sole authenticated session, else the sole configured one, else none.
selectSession(seen, id) ==
    LET candidates == {s \in seen : id \in {0, s.id}}
        authenticated == {s \in candidates : s.auth}
    IN  IF Cardinality(authenticated) = 1 THEN authenticated
        ELSE IF authenticated = {} /\ Cardinality(candidates) = 1 THEN candidates
        ELSE {}

\* A final observation names the peers that had authenticated, not the configured ones.
findFinalSession(recent, id) == {f \in ToSet(recent) : f.id = id /\ f.auth}

\* counterDelta of two observations of one session; None without an earlier one.
counterDelta(old, new) == IF old = None THEN None ELSE new - old
backwards(old, new) == old # None /\ new < old

row(r, s, final, previous) ==
    [id |-> s.id, stats |-> s.stats, final |-> final, at |-> r.cursor,
     delta |-> counterDelta(previous, s.stats)]

\* writeSessionCSV; ok is whether the row could be written.
writeSessionCSV(r, rows, s, final, previous, ok) ==
    IF ok THEN [run |-> [r EXCEPT !.previous = s.stats],
                rows |-> Append(rows, row(r, s, final, previous))]
    ELSE [run |-> [r EXCEPT !.issues = TRUE], rows |-> rows]

refuse(r, rows) == [run |-> [r EXCEPT !.issues = TRUE], rows |-> rows]

open(r, rows, s, ok) ==
    writeSessionCSV([r EXCEPT !.current = s.id, !.target = @ \union {s.id},
                              !.previous = None],
                    rows, s, FALSE, None, ok)

\* writeFinalCSV of the current series.
writeFinalCSV(r, rows, final, ok) ==
    IF backwards(r.previous, final.stats) THEN refuse(r, rows)
    ELSE LET w == writeSessionCSV(r, rows, final, TRUE, r.previous, ok)
         IN  IF ok THEN [w EXCEPT !.run.finalized = @ \union {r.current}] ELSE w

consumePendingFinal(r, rows, recent, ok) ==
    LET finals == findFinalSession(recent, r.current)
    IN  IF r.current = 0 \/ r.current \in r.finalized \/ finals = {}
        THEN refuse(r, rows)
        ELSE LET w == writeFinalCSV(r, rows, CHOOSE f \in finals : TRUE, ok)
             IN  refuse(w.run, w.rows)

\* Mutant: a replacement is followed although the old series has no final snapshot.
eagerTransition(r, rows, recent, s, ok) ==
    IF r.current = s.id /\ ~backwards(r.previous, s.stats)
    THEN writeSessionCSV(r, rows, s, FALSE, r.previous, ok)
    ELSE open(r, rows, s, ok)

transition(r, rows, recent, s, ok) ==
    LET finals == findFinalSession(recent, r.current)
    IN  CASE r.current = s.id ->
               IF backwards(r.previous, s.stats) THEN refuse(r, rows)
               ELSE writeSessionCSV(r, rows, s, FALSE, r.previous, ok)
          [] r.current # s.id /\ r.current \in r.finalized \union {0} -> open(r, rows, s, ok)
          [] OTHER ->
               IF finals = {} THEN refuse(r, rows)
               ELSE LET w == writeFinalCSV(r, rows, CHOOSE f \in finals : TRUE, ok)
                    IN  IF r.current \in w.run.finalized THEN open(w.run, w.rows, s, ok) ELSE w

\* The rest of the sample, up to its events.
SampleRecent ==
    /\ run.pc = "recent" /\ UNCHANGED core
    /\ \E ok \in BOOLEAN :
        /\ IF ok THEN UNCHANGED faults ELSE mayFail
        /\ IF core.epoch # run.epoch
           THEN incomplete
           ELSE LET chosen == selectSession(run.seen, run.sessionID)
                    r == [run EXCEPT !.pc = "drain", !.page = 0, !.then = "between",
                                     !.seen = {}]
                    w == IF chosen = {} THEN consumePendingFinal(r, bundle.rows, core.recent, ok)
                         ELSE transition(r, bundle.rows, core.recent,
                                         CHOOSE s \in chosen : TRUE, ok)
                IN  run' = w.run /\ bundle' = [bundle EXCEPT !.rows = w.rows]

\* An error that is no boundary fails the sample only; outside one it ends the run.
drainFailed(r) ==
    IF r.then = "between"
    THEN run' = [r EXCEPT !.pc = "between", !.issues = TRUE] /\ UNCHANGED bundle
    ELSE incomplete

\* Mutant: a skipped cursor is read on from what is still there.
ignoredGap(log) == FALSE

\* drainEvents: the ring has lost what follows the cursor.
gap(log) == run.cursor # 0 /\ firstAvailable(log) > run.cursor + 1

\* drainEvents, one page.
DrainEvents ==
    LET batch == page(core.log, run.cursor)
        wanted(e) == run.then # "sample" /\ core.log[e] \in run.target \union {0}
        full == Cardinality(batch) = EventPageSize
    IN  /\ run.pc = "drain" /\ UNCHANGED core
        /\ \/ /\ mayFail           \* the call, or the write of the event after e
              /\ \E e \in {run.cursor} \union batch :
                     drainFailed([run EXCEPT !.cursor = e])
           \/ /\ UNCHANGED faults
              /\ \/ run.stream /\ core.epoch # run.epoch /\ drainFailed(run)
                 \/ ~run.stream /\ core.epoch # run.epoch /\ incomplete
                 \/ core.epoch = run.epoch /\ gap(core.log) /\ incomplete
           \/ /\ core.epoch = run.epoch /\ ~gap(core.log)
              /\ UNCHANGED faults
              /\ LET r == [run EXCEPT !.stream = TRUE, !.page = @ + 1,
                                      !.cursor = Max(batch \union {@})]
                 IN  IF full /\ r.page = MaxEventPages
                     THEN incomplete
                     ELSE /\ run' = IF full THEN r ELSE [r EXCEPT !.pc = r.then]
                          /\ bundle' =
                               [bundle EXCEPT
                                  !.events = @ \union {e \in batch : wanted(e)},
                                  !.start = IF run.then = "sample" THEN r.cursor ELSE @]

\* budgetWriter.Write: the bytes of the bundle are used up.
OutputLimit ==
    /\ run.pc \in {"recent", "drain"} /\ UNCHANGED core
    /\ incomplete /\ mayFail

\* Between two samples: the next tick, the deadline, or the caller gives up.
Between ==
    /\ run.pc = "between" /\ UNCHANGED <<core, faults>>
    /\ \/ run.samples < MaxSamples /\ run' = [run EXCEPT !.pc = "sample"] /\ UNCHANGED bundle
       \/ run' = [run EXCEPT !.pc = "drain", !.page = 0, !.then = "end"] /\ UNCHANGED bundle
       \/ incomplete

\* The summary and the marker.
Complete ==
    /\ run.pc = "end" /\ UNCHANGED core
    /\ \/ incomplete /\ mayFail
       \/ /\ IF run.issues THEN incomplete
             ELSE /\ run' = [run EXCEPT !.pc = "done"]
                  /\ bundle' = [bundle EXCEPT !.marker = "COMPLETE"]
          /\ UNCHANGED faults

-----------------------------------------------------------------------------

\* The bind goes on; not before the first sample, nor when INCOMPLETE is certain.
CoreNext ==
    /\ run.pc \notin {"start", "done"} /\ ~run.issues /\ changes < MaxChanges
    /\ changes' = changes + 1
    /\ \/ Create \/ Detach \/ Prune \/ Restart
       \/ \E s \in Observed : Authenticate(s) \/ Traffic(s) \/ FinalTelemetry(s)
       \/ \E s \in Observed \union {0} : RecordEvent(s)
    /\ UNCHANGED <<run, bundle, faults>>

Next ==
    \/ CoreNext
    \/ /\ \/ Bootstrap \/ SampleActive \/ SampleRecent \/ DrainEvents
          \/ OutputLimit \/ Between \/ Complete
       /\ UNCHANGED changes

Spec == Init /\ [][Next]_vars

-----------------------------------------------------------------------------
(* Properties                                                               *)

complete == bundle.marker = "COMPLETE"

\* A bundle marked COMPLETE lacks no event of its series (drainEvents): whatever was
\* logged between the cursor it began with and the one it ended with, for the
\* interface or for a session with a row by then, is in it, although the log forgets
\* old events at any time.  A run that began with an empty log is excepted: cursor 0
\* also stands for "from the start", and the gap check leaves it out.
EventsWhole ==
    complete /\ bundle.start > 0 /\ core.epoch = run.epoch =>
        \A e \in bundle.start + 1 .. run.cursor :
            (\/ core.log[e] = 0
             \/ \E i \in DOMAIN bundle.rows : /\ bundle.rows[i].id = core.log[e]
                                              /\ bundle.rows[i].at < e)
            => e \in bundle.events

\* In a COMPLETE bundle the rows of a series are contiguous, each delta is against the
\* row before it in the same series, and a series gives way to another only after the
\* final row of the closed session (transition, writeFinalCSV), wherever sessions
\* close, authenticate and are forgotten between and within the samples.
SeriesClosed ==
    complete =>
        \A i \in 2 .. Len(bundle.rows) :
            LET a == bundle.rows[i - 1]
                b == bundle.rows[i]
            IN  IF a.id = b.id
                THEN ~a.final /\ b.delta = b.stats - a.stats /\ b.delta >= 0
                ELSE /\ a.final /\ b.delta = None
                     /\ \A j \in i .. Len(bundle.rows) : bundle.rows[j].id # a.id
=============================================================================
