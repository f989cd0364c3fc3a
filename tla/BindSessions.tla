---------------------------- MODULE BindSessions ----------------------------
(***************************************************************************)
(* The QUIC sessions of one run of the bind (internal/bind): accepted and  *)
(* dialed sessions, their admission, the endpoint a configured peer is     *)
(* dialed at, the workers that redial it, and the history of closed        *)
(* sessions.  An action is one critical section of state.mu or Endpoint.mu.*)
(*                                                                         *)
(* Endpoint objects are kept for one remote address, Home; sessions may    *)
(* come from other addresses too.  Delays are nondeterminism, so the       *)
(* failure counts that only lengthen them are left out.  A reconnect       *)
(* worker whose generation was cancelled does nothing but end, so          *)
(* cancelReconnectLocked removes it.  The core serialises ParseEndpoint     *)
(* with RetireEndpoint (endpointMu).  A session that is gone keeps only     *)
(* its links.                                                              *)
(***************************************************************************)
EXTENDS Integers, Sequences, FiniteSets, SequencesExt

CONSTANTS
    Objects,        \* Endpoint objects for Home, in the order of allocation
    NoEndpoint,
    Remotes, Home,  \* addresses; the configured one
    MaxSessions, MaxInboundSessions, MaxPendingInbound,
    MaxRecent,      \* maxRecentSessionTelemetry
    MaxIDs,         \* bound: sessions ever created
    MaxCalls        \* bound: RetireEndpoint and RedialEndpoint calls

ASSUME LimitsAssumption ==
    /\ {MaxSessions, MaxInboundSessions, MaxPendingInbound, MaxIDs} \subseteq Nat
    /\ Objects \subseteq Nat
    /\ Home \in Remotes /\ NoEndpoint \notin Objects

VARIABLES
    session,        \* every session ever created, by id
    endpoint,       \* the Endpoint objects
    registered,     \* state.endpoints[Home]
    inbound,        \* state.inboundSessions
    pendingInbound, \* state.pendingInbound
    bind,           \* "open", "closing", "waiting" or "closed"
    accept,         \* acceptLoop: where it is and with which session
    workers,        \* scheduleEndpointReconnect's workers
    call,           \* the running RetireEndpoint and RedialEndpoint
    calls,
    recent,         \* b.recentSessions
    replacements    \* b.replacements

vars == <<session, endpoint, registered, inbound, pendingInbound, bind, accept,
          workers, call, calls, recent, replacements>>
history == <<recent, replacements>>
counters == <<inbound, pendingInbound>>

Ids == 1..Len(session)
\* where close() has got to: it is begun, past state.mu
closed(s) == session[s].pc \in {"retain", "detach", "resume", "gone"}
sessions == {s \in Ids : session[s].pc \notin {"detach", "resume", "gone"}}
established(s) == session[s].pc = "running"
isConfigured(s) == session[s].endpoint # NoEndpoint
closing == bind # "open"
\* state.ctx is done
cancelled == bind \in {"waiting", "closed"}
\* the session's context, a child of state.ctx
done(s) == session[s].cancelled \/ cancelled

IdleCall == [op |-> "idle", endpoint |-> NoEndpoint, session |-> 0]
IdleAccept == [pc |-> "accept", session |-> 0]

Init ==
    /\ session = <<>>
    /\ endpoint = [e \in Objects |->
                     [made |-> FALSE, activated |-> FALSE, retired |-> FALSE,
                      session |-> 0, scheduled |-> FALSE,
                      pendingReplacement |-> 0]]
    /\ registered = NoEndpoint
    /\ inbound = 0 /\ pendingInbound = 0
    /\ bind = "open"
    /\ accept = IdleAccept
    /\ workers = {}
    /\ call = [op \in {"retire", "redial"} |-> IdleCall]
    /\ calls = 0
    /\ recent = <<>>
    /\ replacements = <<>>

-----------------------------------------------------------------------------
(* Operators on the endpoint and on the history *)

admitSessionLocked(isInbound) ==
    /\ Cardinality(sessions) < MaxSessions
    /\ isInbound => inbound < MaxInboundSessions
                    /\ pendingInbound < MaxPendingInbound

\* The workers left when e's scheduled reconnect is cancelled.
withoutTimer(ws, e) ==
    {w \in ws : ~(w.endpoint = e /\ w.pc = "timer")}

cancelReconnectLocked(ep) == [ep EXCEPT !.scheduled = FALSE]

\* The records that are too old go first, then those over the capacity.
pruneRecentSessions(list) ==
    {SubSeq(list, k, Len(list)) : k \in 1..(Len(list) + 1)}

Publish(list, observation) ==
    LET all == Append(list, observation)
    IN  SubSeq(all, IF Len(all) > MaxRecent THEN 2 ELSE 1, Len(all))

retainClosedSession(s) ==
    LET link == IF s \in DOMAIN replacements THEN replacements[s] ELSE 0
    IN  /\ \E young \in pruneRecentSessions(recent) :
             recent' = Publish(young, [id |-> s, replacedBy |-> link])
        /\ replacements' = [i \in DOMAIN replacements \ {s} |-> replacements[i]]

\* Mutant: the link is kept for a session that has left the history too.
danglingReplacement(old, new, oldStillActive) ==
    IF old = 0 THEN UNCHANGED history
    ELSE IF \E i \in DOMAIN recent : recent[i].id = old
    THEN /\ recent' = [i \in DOMAIN recent |->
                         IF recent[i].id = old
                         THEN [recent[i] EXCEPT !.replacedBy = new] ELSE recent[i]]
         /\ UNCHANGED replacements
    ELSE /\ replacements' = [i \in DOMAIN replacements \cup {old} |->
                               IF i = old THEN new ELSE replacements[i]]
         /\ UNCHANGED recent

recordSessionReplacement(old, new, oldStillActive) ==
    IF old = 0 THEN UNCHANGED history
    ELSE IF \E i \in DOMAIN recent : recent[i].id = old
    THEN /\ recent' = [i \in DOMAIN recent |->
                         IF recent[i].id = old
                         THEN [recent[i] EXCEPT !.replacedBy = new] ELSE recent[i]]
         /\ UNCHANGED replacements
    ELSE /\ replacements' = IF oldStillActive
                            THEN [i \in DOMAIN replacements \cup {old} |->
                                    IF i = old THEN new ELSE replacements[i]]
                            ELSE replacements
         /\ UNCHANGED recent

newSessionLocked(e, addr) ==
    LET replaces == IF e = NoEndpoint THEN 0 ELSE endpoint[e].pendingReplacement
    IN  /\ session' = Append(session,
             [endpoint |-> e, addr |-> addr,
              pc |-> IF e = NoEndpoint THEN "accepted" ELSE "dialing",
              cancelled |-> FALSE, authentication |-> 0, cause |-> "",
              resume |-> NoEndpoint, replaces |-> replaces])
        /\ recordSessionReplacement(replaces, Len(session) + 1, replaces \in sessions)
        /\ inbound' = inbound + (IF e = NoEndpoint THEN 1 ELSE 0)
        /\ pendingInbound' = pendingInbound + (IF e = NoEndpoint THEN 1 ELSE 0)

\* The first cause given to setCloseCause stays.  What matters is whether it is
\* "removed" (shutdown of the bind or removal of the configuration).
setCloseCause(rec, cause) == [rec EXCEPT !.cause = IF @ = "" THEN cause ELSE @]

-----------------------------------------------------------------------------
(* acceptLoop *)

Accept(remote) ==
    /\ accept.pc = "accept" /\ ~closing
    /\ Len(session) < MaxIDs
    /\ admitSessionLocked(TRUE)
    /\ newSessionLocked(NoEndpoint, remote)
    /\ accept' = [accept EXCEPT !.pc = "setConn", !.session = Len(session) + 1]
    /\ UNCHANGED <<endpoint, registered, bind, workers, call, calls>>

\* setConn and suspendConfiguredReconnect, before runSession is started.
suspendConfiguredReconnect ==
    LET s == accept.session
        e == IF session[s].addr = Home THEN registered ELSE NoEndpoint
    IN  /\ accept.pc = "setConn"
        /\ session' = [session EXCEPT ![s].pc = "running"]
        /\ IF e = NoEndpoint THEN UNCHANGED <<endpoint, workers>>
           ELSE /\ endpoint' = [endpoint EXCEPT ![e] = cancelReconnectLocked(@)]
                /\ workers' = withoutTimer(workers, e)
        /\ accept' = IdleAccept
        /\ UNCHANGED <<registered, counters, bind, call, calls, history>>

\* Accept fails once the context is done, or the closing check stops the loop.
AcceptStop ==
    /\ accept.pc = "accept" /\ closing
    /\ accept' = [accept EXCEPT !.pc = "stopped"]
    /\ UNCHANGED <<session, endpoint, registered, counters, bind, workers, call,
                   calls, history>>

-----------------------------------------------------------------------------
(* sessionForEndpoint, for a packet to send and for a reconnect worker *)

reusable(e) == endpoint[e].session # 0 /\ ~closed(endpoint[e].session)

dial(e) ==
    /\ Len(session) < MaxIDs
    /\ newSessionLocked(e, Home)
    /\ registered' = IF registered = NoEndpoint THEN e ELSE registered
    /\ endpoint' = [endpoint EXCEPT ![e] =
                      [cancelReconnectLocked(@) EXCEPT
                         !.activated = TRUE, !.session = Len(session) + 1,
                         !.pendingReplacement = 0]]
    /\ UNCHANGED <<bind, accept, call, calls>>

Send(e) ==
    /\ endpoint[e].made /\ ~closing
    /\ ~reusable(e) /\ ~endpoint[e].retired
    /\ admitSessionLocked(FALSE)
    /\ dial(e)
    /\ workers' = withoutTimer(workers, e)

DialOK(s) ==
    /\ session[s].pc = "dialing" /\ ~cancelled
    /\ session' = [session EXCEPT ![s].pc = "running"]
    /\ UNCHANGED <<endpoint, registered, counters, bind, accept, workers, call,
                   calls, history>>

\* close() begins: closed, cancelled, and the cause of a shutdown is recorded.
beginClose(s, cause) ==
    session' = [session EXCEPT ![s] =
                  [setCloseCause(@, IF closing THEN "removed" ELSE cause)
                   EXCEPT !.pc = "retain", !.cancelled = TRUE]]

DialFails(s) ==
    /\ session[s].pc = "dialing"
    /\ beginClose(s, "ended")
    /\ UNCHANGED <<endpoint, registered, counters, bind, accept, workers, call,
                   calls, history>>

\* runSession returns: its context is done, or the connection failed.
SessionEnds(s) ==
    /\ session[s].pc = "running"
    /\ beginClose(s, "ended")
    /\ UNCHANGED <<endpoint, registered, counters, bind, accept, workers, call,
                   calls, history>>

-----------------------------------------------------------------------------
(* WireGuard authentication of accepted sessions *)

AssociateSessionPeer(s) ==
    /\ bind = "open"
    /\ s \in sessions /\ ~closed(s)
    /\ ~isConfigured(s) /\ session[s].authentication = 0
    /\ session' = [session EXCEPT ![s].authentication = 1]
    /\ pendingInbound' = pendingInbound - 1
    /\ UNCHANGED <<endpoint, registered, inbound, bind, accept, workers, call,
                   calls, history>>

\* Mutant: the timer does not claim the session before it gives its place back.
unclaimedExpireAuthentication(s) ==
    /\ session[s].pc = "running" /\ ~isConfigured(s)
    /\ session[s].authentication = 0
    /\ pendingInbound' = pendingInbound - 1
    /\ beginClose(s, "ended")
    /\ UNCHANGED <<endpoint, registered, inbound, bind, accept, workers, call,
                   calls, history>>

\* The timer of runSession fired: the place is given back, then close() runs.
expireAuthentication(s) ==
    /\ session[s].pc = "running" /\ ~isConfigured(s)
    /\ session[s].authentication = 0
    /\ pendingInbound' = pendingInbound - 1
    /\ session' = [session EXCEPT ![s] =
                     [setCloseCause(@, "ended")
                      EXCEPT !.authentication = 2]]
    /\ UNCHANGED <<endpoint, registered, inbound, bind, accept, workers, call,
                   calls, history>>

ExpiredClose(s) ==
    /\ session[s].pc = "running" /\ session[s].authentication = 2
    /\ beginClose(s, "ended")
    /\ UNCHANGED <<endpoint, registered, counters, bind, accept, workers, call,
                   calls, history>>

-----------------------------------------------------------------------------
(* The rest of session.close() *)

CloseRetain(s) ==
    /\ session[s].pc = "retain"
    /\ retainClosedSession(s)
    /\ inbound' = inbound - (IF isConfigured(s) THEN 0 ELSE 1)
    /\ pendingInbound' = pendingInbound -
         (IF ~isConfigured(s) /\ session[s].authentication = 0 THEN 1 ELSE 0)
    /\ session' = [session EXCEPT
         ![s].pc = "detach",
         ![s].authentication = IF isConfigured(s) THEN @ ELSE 2]
    /\ UNCHANGED <<endpoint, registered, bind, accept, workers, call, calls>>

\* The endpoint an accepted session kept from redialing.
resumeConfiguredReconnect(s) ==
    IF session[s].addr = Home THEN registered ELSE NoEndpoint

\* The endpoint forgets its session; an accepted one looks up whom it served.
CloseDetach(s) ==
    LET e == session[s].endpoint
    IN  /\ session[s].pc = "detach"
        /\ endpoint' =
             IF isConfigured(s) /\ endpoint[e].session = s
             THEN [endpoint EXCEPT ![e].session = 0,
                     ![e].pendingReplacement = IF session[s].cause = "removed" THEN @ ELSE s]
             ELSE endpoint
        /\ session' = [session EXCEPT ![s].pc = "resume", ![s].cause = "",
             ![s].authentication = 0,
             ![s].resume = IF isConfigured(s) THEN e
                           ELSE resumeConfiguredReconnect(s)]
        /\ UNCHANGED <<registered, counters, bind, accept, workers, call, calls,
                       history>>

\* scheduleEndpointReconnect; startWorker refuses once the bind is closing and
\* the schedule is then taken back.
schedule(e, immediate, others) ==
    LET ep == endpoint[e]
        idle == \/ ~ep.activated \/ ep.retired \/ ep.session # 0 \/ closing
                \/ ep.scheduled /\ ~immediate
    IN  IF idle THEN endpoint' = endpoint /\ workers' = others
        ELSE /\ endpoint' = [endpoint EXCEPT ![e].scheduled = TRUE]
             /\ workers' = withoutTimer(others, e)
                             \cup {[endpoint |-> e, pc |-> "timer"]}

goneSession(rec) ==
    [rec EXCEPT !.pc = "gone", !.addr = Home, !.cause = "",
                !.authentication = 0, !.resume = NoEndpoint]

\* Mutant: an accepted session does not resume the endpoint it served.
forgetfulResume(s) ==
    /\ session[s].pc = "resume"
    /\ IF ~isConfigured(s) THEN UNCHANGED <<endpoint, workers>>
       ELSE schedule(session[s].resume, FALSE, workers)
    /\ session' = [session EXCEPT ![s] = goneSession(@)]
    /\ UNCHANGED <<registered, counters, bind, accept, call, calls, history>>

CloseResume(s) ==
    /\ session[s].pc = "resume"
    /\ IF session[s].resume = NoEndpoint THEN UNCHANGED <<endpoint, workers>>
       ELSE schedule(session[s].resume, ~isConfigured(s), workers)
    /\ session' = [session EXCEPT ![s] = goneSession(@)]
    /\ UNCHANGED <<registered, counters, bind, accept, call, calls, history>>

-----------------------------------------------------------------------------
(* The reconnect worker *)

\* The context was cancelled with the bind.
WorkerCancelled(w) ==
    /\ w.pc = "timer" /\ cancelled
    /\ workers' = workers \ {w}
    /\ UNCHANGED <<session, endpoint, registered, counters, bind, accept, call,
                   calls, history>>

WorkerFires(w) ==
    LET ep == endpoint[w.endpoint]
        eligible == ep.activated /\ ~ep.retired /\ ep.session = 0
    IN  /\ w.pc = "timer"
        /\ endpoint' = [endpoint EXCEPT ![w.endpoint].scheduled = FALSE]
        /\ workers' = (workers \ {w}) \cup
             (IF eligible /\ ~cancelled THEN {[w EXCEPT !.pc = "check"]} ELSE {})
        /\ UNCHANGED <<session, registered, counters, bind, accept, call, calls,
                       history>>

hasEstablishedSession ==
    \E s \in sessions : /\ session[s].addr = Home
                        /\ established(s) /\ ~done(s)

WorkerChecks(w) ==
    /\ w.pc = "check"
    /\ workers' = (workers \ {w}) \cup
         (IF hasEstablishedSession THEN {} ELSE {[w EXCEPT !.pc = "dial"]})
    /\ UNCHANGED <<session, endpoint, registered, counters, bind, accept, call,
                   calls, history>>

\* sessionForEndpoint succeeds, is refused for good, or meets the session limit.
WorkerDials(w) ==
    LET e == w.endpoint
        over == closing \/ reusable(e) \/ endpoint[e].retired
    IN  /\ w.pc = "dial"
        /\ \/ /\ ~over /\ admitSessionLocked(FALSE)
              /\ dial(e)
              /\ workers' = withoutTimer(workers \ {w}, e)
           \/ /\ over \/ ~admitSessionLocked(FALSE)
              /\ IF over THEN workers' = workers \ {w} /\ UNCHANGED endpoint
                 ELSE schedule(e, FALSE, workers \ {w})
              /\ UNCHANGED <<session, registered, counters, bind, accept, call,
                             calls, history>>

-----------------------------------------------------------------------------
(* ParseEndpoint, RetireEndpoint, RedialEndpoint *)

ParseEndpoint(e) ==
    /\ bind = "open" /\ call["retire"].op = "idle"
    /\ \/ /\ registered = e
          /\ endpoint' = [endpoint EXCEPT ![e].retired = FALSE]
          /\ UNCHANGED registered
       \/ /\ registered = NoEndpoint /\ ~endpoint[e].made
          /\ \A o \in Objects : o < e => endpoint[o].made
          /\ endpoint' = [endpoint EXCEPT ![e].made = TRUE]
          /\ registered' = e
    /\ UNCHANGED <<session, counters, bind, accept, workers, call, calls, history>>

Begin(op) ==
    /\ bind = "open" /\ calls < MaxCalls
    /\ call[op].op = "idle" /\ registered # NoEndpoint
    /\ call' = [call EXCEPT ![op] =
                  [op |-> "found", endpoint |-> registered, session |-> 0]]
    /\ calls' = calls + 1

RetireEndpoint ==
    /\ Begin("retire")
    /\ registered' = NoEndpoint
    /\ UNCHANGED <<session, endpoint, counters, bind, accept, workers, history>>

RedialEndpoint ==
    /\ Begin("redial")
    /\ UNCHANGED <<session, endpoint, registered, counters, bind, accept, workers,
                   history>>

\* The part under Endpoint.mu: the endpoint lets go of its session.
Release(op) ==
    LET c == call[op]
        ep == cancelReconnectLocked(endpoint[c.endpoint])
    IN  /\ c.op = "found"
        /\ endpoint' = [endpoint EXCEPT ![c.endpoint] =
             IF op = "retire"
             THEN [ep EXCEPT !.retired = TRUE, !.activated = FALSE, !.session = 0]
             ELSE [ep EXCEPT !.session = 0]]
        /\ workers' = withoutTimer(workers, c.endpoint)
        /\ call' = [call EXCEPT ![op].op = "released", ![op].session = ep.session]
        /\ UNCHANGED <<session, registered, counters, bind, accept, calls, history>>

\* A redial names the released session as the one the next session replaces.
RedialLink ==
    LET c == call["redial"]
    IN  /\ c.op = "released" /\ c.session # 0
        /\ endpoint' = [endpoint EXCEPT ![c.endpoint].pendingReplacement = c.session]
        /\ call' = [call EXCEPT !["redial"].op = "linked"]
        /\ UNCHANGED <<session, registered, counters, bind, accept, workers,
                       calls, history>>

CancelReleased(op) ==
    LET c == call[op]
        cause == IF op = "retire" THEN "removed" ELSE "ended"
    IN  /\ c.op = IF op = "redial" /\ c.session # 0 THEN "linked" ELSE "released"
        /\ session' = IF c.session = 0 THEN session
                      ELSE [session EXCEPT ![c.session] =
                              [setCloseCause(@, cause) EXCEPT !.cancelled = TRUE]]
        /\ call' = [call EXCEPT ![op] = IF op = "retire" THEN IdleCall
                                        ELSE [c EXCEPT !.op = "schedule"]]
        /\ UNCHANGED <<endpoint, registered, counters, bind, accept, workers,
                       calls, history>>

RedialSchedule ==
    LET c == call["redial"]
    IN  /\ c.op = "schedule"
        /\ schedule(c.endpoint, TRUE, workers)
        /\ call' = [call EXCEPT !["redial"] = IdleCall]
        /\ UNCHANGED <<session, registered, counters, bind, accept, calls, history>>

-----------------------------------------------------------------------------
(* Bind.Close *)

CloseBind ==
    /\ bind = "open"
    /\ bind' = "closing"
    /\ session' = [s \in Ids |-> IF s \in sessions
                     THEN [setCloseCause(session[s], "removed")
                           EXCEPT !.cancelled = TRUE]
                     ELSE session[s]]
    /\ UNCHANGED <<endpoint, registered, counters, accept, workers, call, calls,
                   history>>

CloseCancel ==
    /\ bind = "closing"
    /\ bind' = "waiting"
    /\ UNCHANGED <<session, endpoint, registered, counters, accept, workers, call,
                   calls, history>>

\* state.wg: the accept loop, a goroutine per session, the started workers.
wgDone ==
    /\ accept.pc = "stopped"
    /\ \A s \in Ids : session[s].pc = "gone"
    /\ workers = {}

CloseWait ==
    /\ bind = "waiting" /\ wgDone
    /\ bind' = "closed"
    /\ UNCHANGED <<session, endpoint, registered, counters, accept, workers, call,
                   calls, history>>

-----------------------------------------------------------------------------
SessionStep(s) ==
    DialFails(s) \/ SessionEnds(s) \/ ExpiredClose(s) \/ CloseRetain(s)
    \/ CloseDetach(s) \/ CloseResume(s)

WorkerStep(w) ==
    WorkerCancelled(w) \/ WorkerFires(w) \/ WorkerChecks(w) \/ WorkerDials(w)

CallStep ==
    (\E op \in DOMAIN call : Release(op) \/ CancelReleased(op))
    \/ RedialLink \/ RedialSchedule

AcceptStep == suspendConfiguredReconnect \/ AcceptStop

\* The bind is closed and nothing of it runs any more: the only end there is.
Terminated ==
    /\ bind = "closed"
    /\ \A op \in DOMAIN call : call[op] = IdleCall
    /\ UNCHANGED vars

Next ==
    \/ \E r \in Remotes : Accept(r)
    \/ AcceptStep
    \/ \E e \in Objects : Send(e) \/ ParseEndpoint(e)
    \/ \E s \in Ids : DialOK(s) \/ AssociateSessionPeer(s)
                      \/ expireAuthentication(s) \/ SessionStep(s)
    \/ \E w \in workers : WorkerStep(w)
    \/ RetireEndpoint \/ RedialEndpoint \/ CallStep
    \/ CloseBind \/ CloseCancel \/ CloseWait
    \/ Terminated

Spec == Init /\ [][Next]_vars

-----------------------------------------------------------------------------
(* Properties *)

\* The admission counters (admission.go) are what the active sessions say they
\* are, whichever of authentication, its deadline and a close comes first: no
\* place is given back twice or never.
AdmissionAccounting ==
    LET accepted == {s \in sessions : ~isConfigured(s)}
    IN  /\ inbound = Cardinality(accepted)
        /\ pendingInbound =
             Cardinality({s \in accepted : session[s].authentication = 0})
        /\ Cardinality(sessions) <= MaxSessions

\* The replacement history (telemetry.go, session.close) has no gap and no loose
\* end: a pending link belongs to a session that is still active, and a session
\* in the history names its replacement exactly if that session names it.
ReplacementHistory ==
    /\ DOMAIN replacements \subseteq sessions
    /\ \A i \in DOMAIN recent :
         LET r == recent[i]
             heirs == {s \in Ids : session[s].replaces = r.id}
         IN  IF heirs = {} THEN r.replacedBy = 0 ELSE r.replacedBy \in heirs

\* An endpoint that was dialed once and is still configured is never forgotten
\* (reconnect.go): it has a session, or a reconnect is scheduled or under way, or
\* an accepted session serves its address, or somebody is about to schedule one.
MaintainedEndpoint ==
    \A e \in Objects :
      endpoint[e].activated /\ ~endpoint[e].retired /\ ~closing =>
        \/ endpoint[e].session # 0
        \/ \E w \in workers : w.endpoint = e
        \/ \E s \in Ids : /\ ~isConfigured(s) /\ session[s].addr = Home
                          /\ session[s].pc # "gone"
        \/ \E s \in Ids : session[s].endpoint = e
                          /\ session[s].pc \in {"retain", "detach", "resume"}
        \/ \E op \in DOMAIN call : call[op].endpoint = e
=============================================================================
