---------------------------- MODULE FreeBSDRoutes ----------------------------
(***************************************************************************)
(* The host routes that keep a tunnel's own packets off the tunnel on      *)
(* FreeBSD (internal/platform/endpoint_routes_freebsd.go), with a ledger    *)
(* per interface (endpoint_route_ledger.go).  A call holds the leaser's     *)
(* mutex to its end; an action is the part of it up to the next durable     *)
(* effect, and the process may die before any of them.                      *)
(*                                                                         *)
(* What `route get` prints of a route is the interface alone, or a gateway   *)
(* and the interface behind it: members of Links and of Gateways.           *)
(***************************************************************************)
EXTENDS Integers, FiniteSets

CONSTANTS
    Addresses, Links, Gateways,
    None,                             \* no route, no record, no address
    MaxStarts, MaxCalls, MaxFaults, MaxForeign    \* bounds

VARIABLES
    default,    \* the default route, or None
    pin,        \* the host route of an address: who made it and where it leads
    file,       \* the ledger: the record of an address, or None
    leaser,     \* the process: its ledger, entries and call
    held,       \* the leases it has granted and not begun to release
    kept,       \* pins of ours left behind on purpose, or with an error
    budget      \* what has happened, against the bounds

vars == <<default, pin, file, leaser, held, kept, budget>>

Pin(by, via) == [by |-> by, via |-> via]
NoPin == Pin("none", None)
NoEntry == [refs |-> 0, managed |-> TRUE, deleted |-> FALSE]
Stopped == [pc |-> "down", at |-> None, mem |-> [a \in Addresses |-> None],
            entries |-> [a \in Addresses |-> NoEntry], closed |-> FALSE]

Init ==
    /\ default \in Links \cup Gateways
    /\ pin = [a \in Addresses |-> NoPin]
    /\ file = [a \in Addresses |-> None]
    /\ leaser = Stopped
    /\ held = [a \in Addresses |-> 0]
    /\ kept = {}
    /\ budget = [starts |-> 0, calls |-> 0, faults |-> 0, foreign |-> 0]

canFail == budget.faults < MaxFaults
pay(ok) == /\ ok \/ canFail
           /\ budget' = [budget EXCEPT !.faults = @ + (IF ok THEN 0 ELSE 1)]

\* A record has exactly one identity, a gateway or an interface.
validate(mem) == \A a \in Addresses : mem[a] # None => mem[a].via \in Links

\* The directory is synced after the rename: a write that reports an error may
\* have happened.
writeLedger(mem, ok) == file' \in {mem} \cup (IF ok THEN {} ELSE {file})

\* Save mem and go on with next, or with failed.
save(mem, next, failed) ==
    /\ IF ~validate(mem) THEN leaser' = failed /\ UNCHANGED <<file, budget>>
       ELSE \E ok \in BOOLEAN :
              /\ pay(ok) /\ writeLedger(mem, ok)
              /\ leaser' = IF ok THEN next ELSE failed
    /\ UNCHANGED <<default, pin>>

idle(l) == [l EXCEPT !.pc = "idle", !.at = None]
withRecord(l, a, r) == [l EXCEPT !.mem[a] = r]

-----------------------------------------------------------------------------
(* recover *)

Start ==
    /\ leaser.pc = "down" /\ budget.starts < MaxStarts
    /\ budget' = [budget EXCEPT !.starts = @ + 1]
    /\ leaser' = [Stopped EXCEPT !.pc = "recover", !.mem = file]
    /\ UNCHANGED <<default, pin, file, held, kept>>

\* `route get` answers with the most specific route there is.
inspectRoute(a) == IF pin[a] # NoPin THEN pin[a].via ELSE default

\* A record that is no proof, or no longer, is dropped and its route kept.
recoverRecord(a) ==
    LET r == leaser.mem[a]
        dropped == withRecord(leaser, a, None)
        marked == withRecord(leaser, a, [r EXCEPT !.state = "pending-delete"])
    IN  IF r.state = "pending-add" \/ inspectRoute(a) # r.via
        THEN /\ save(dropped.mem, dropped, Stopped)
             /\ kept' = IF file'[a] = None /\ pin[a].by = "ours"
                        THEN kept \cup {a} ELSE kept
        ELSE /\ save(marked.mem, [marked EXCEPT !.pc = "undo", !.at = a], Stopped)
             /\ UNCHANGED kept

Recover ==
    /\ leaser.pc = "recover"
    /\ \/ /\ \A a \in Addresses : leaser.mem[a] = None
          /\ leaser' = idle(leaser)
          /\ UNCHANGED <<default, pin, file, kept, budget>>
       \/ \E a \in Addresses : leaser.mem[a] # None /\ recoverRecord(a)
       \/ /\ \E a \in Addresses : leaser.mem[a] # None
          /\ pay(FALSE) /\ leaser' = Stopped
          /\ UNCHANGED <<default, pin, file, kept>>
    /\ UNCHANGED held

\* `route delete` fails when there is no such route.
deletePin(a, next, failed) ==
    /\ \E ok \in BOOLEAN :
         /\ IF pin[a] = NoPin THEN ~ok /\ UNCHANGED budget ELSE pay(ok)
         /\ pin' = IF ok THEN [pin EXCEPT ![a] = NoPin] ELSE pin
         /\ leaser' = IF ok THEN next ELSE failed
    /\ UNCHANGED <<default, file>>

RecoverDelete ==
    /\ leaser.pc = "undo"
    /\ deletePin(leaser.at, [leaser EXCEPT !.pc = "drop"], Stopped)
    /\ UNCHANGED <<held, kept>>

RecoverDrop ==
    /\ leaser.pc = "drop"
    /\ LET dropped == withRecord(leaser, leaser.at, None)
       IN  save(dropped.mem, [dropped EXCEPT !.pc = "recover", !.at = None], Stopped)
    /\ UNCHANGED <<held, kept>>

-----------------------------------------------------------------------------
(* AcquireEndpointRoute *)

called == budget' = [budget EXCEPT !.calls = @ + 1]
mayCall == leaser.pc = "idle" /\ budget.calls < MaxCalls
grant(a) == held' = [held EXCEPT ![a] = @ + 1]

\* An address that has its entry is shared; otherwise the gateway is looked up.
\* A second record of the address is no ledger.
Acquire(a) ==
    /\ mayCall /\ called /\ ~leaser.closed
    /\ IF leaser.entries[a].refs > 0
       THEN leaser' = [leaser EXCEPT !.entries[a].refs = @ + 1] /\ grant(a)
       ELSE /\ leaser' = IF default = None \/ leaser.mem[a] # None THEN leaser
                         ELSE [withRecord(leaser, a, [state |-> "pending-add", via |-> default])
                               EXCEPT !.pc = "pending-add", !.at = a]
            /\ UNCHANGED held
    /\ UNCHANGED <<default, pin, file, kept>>

\* Mutant: the intent to add the route is not saved before it is added.
hastyAcquire ==
    /\ leaser.pc = "pending-add"
    /\ leaser' = [leaser EXCEPT !.pc = "add"]
    /\ UNCHANGED <<default, pin, file, budget, held, kept>>

AcquireRecord ==
    /\ leaser.pc = "pending-add"
    /\ save(leaser.mem, [leaser EXCEPT !.pc = "add"],
            idle(withRecord(leaser, leaser.at, None)))
    /\ UNCHANGED <<held, kept>>

\* A route that exists is borrowed.
AcquireAdd ==
    /\ leaser.pc = "add"
    /\ LET a == leaser.at
           dropped == withRecord(leaser, a, None)
       IN  \/ /\ pin[a] # NoPin
              /\ leaser' = [dropped EXCEPT !.pc = "borrow"]
              /\ UNCHANGED <<pin, budget>>
           \/ /\ pin[a] = NoPin /\ pay(TRUE)
              /\ pin' = [pin EXCEPT ![a] = Pin("ours", leaser.mem[a].via)]
              /\ leaser' = [withRecord(leaser, a, [leaser.mem[a] EXCEPT !.state = "active"])
                            EXCEPT !.pc = "active"]
           \/ /\ pin[a] = NoPin /\ pay(FALSE)
              /\ leaser' = [dropped EXCEPT !.pc = "abandon"]
              /\ UNCHANGED pin
    /\ UNCHANGED <<default, file, held, kept>>

entered(a, managed) ==
    [idle(leaser) EXCEPT !.entries[a] = [refs |-> 1, managed |-> managed, deleted |-> FALSE]]

\* The last save of an Acquire.
acquired(l, failed) ==
    LET a == leaser.at
    IN  /\ save(leaser.mem, l, failed)
        /\ held' = IF leaser' = l /\ l.entries[a].refs > 0
                   THEN [held EXCEPT ![a] = @ + 1] ELSE held
        /\ UNCHANGED kept

AcquireSave ==
    \/ leaser.pc = "borrow" /\ acquired(entered(leaser.at, FALSE), idle(leaser))
    \/ leaser.pc = "abandon" /\ acquired(idle(leaser), idle(leaser))
    \/ /\ leaser.pc = "active"
       /\ acquired(entered(leaser.at, TRUE), [leaser EXCEPT !.pc = "unadd"])

\* The active state could not be saved.
AcquireUndo ==
    /\ leaser.pc = "unadd"
    /\ LET a == leaser.at
       IN  /\ deletePin(a, [withRecord(leaser, a, None) EXCEPT !.pc = "abandon"],
                        idle(leaser))
           /\ kept' = IF pin'[a] # NoPin THEN kept \cup {a} ELSE kept
    /\ UNCHANGED held

-----------------------------------------------------------------------------
(* release and Close *)

\* Release gives up one reference, Close all of them.  The lease is one that is
\* in use, or one whose Release has failed before.
Release(a) ==
    LET e == leaser.entries[a]
        marked == withRecord(leaser, a, [leaser.mem[a] EXCEPT !.state = "pending-delete"])
    IN  /\ mayCall /\ called /\ e.refs > 0
        /\ held' \in IF leaser.closed THEN {[held EXCEPT ![a] = 0]}
                     ELSE {[held EXCEPT ![a] = n] : n \in {held[a] - 1, held[a]}
                                                         \cap (0 .. e.refs - 1)}
        /\ leaser' = CASE e.refs > 1 /\ ~leaser.closed ->
                           [leaser EXCEPT !.entries[a].refs = @ - 1]
                      [] (e.refs = 1 \/ leaser.closed) /\ ~e.managed ->
                           [leaser EXCEPT !.entries[a] = NoEntry]
                      [] (e.refs = 1 \/ leaser.closed) /\ e.managed /\ e.deleted ->
                           [leaser EXCEPT !.pc = "forget", !.at = a,
                                          !.entries[a].refs = 1]
                      [] OTHER ->
                           [marked EXCEPT !.pc = "release", !.at = a,
                                          !.entries[a].refs = 1]
        /\ UNCHANGED <<default, pin, file, kept>>

ReleaseRecord ==
    /\ leaser.pc = "release"
    /\ save(leaser.mem, [leaser EXCEPT !.pc = "delete"], idle(leaser))
    /\ UNCHANGED <<held, kept>>

ReleaseDelete ==
    /\ leaser.pc = "delete"
    /\ LET a == leaser.at
       IN  deletePin(a, [withRecord(leaser, a, None) EXCEPT
                           !.pc = "forget", !.entries[a].deleted = TRUE],
                     idle(leaser))
    /\ UNCHANGED <<held, kept>>

ReleaseForget ==
    /\ leaser.pc = "forget"
    /\ save(leaser.mem, [idle(leaser) EXCEPT !.entries[leaser.at] = NoEntry],
            idle(leaser))
    /\ UNCHANGED <<held, kept>>

Close ==
    /\ leaser.pc = "idle" /\ ~leaser.closed
    /\ leaser' = [leaser EXCEPT !.closed = TRUE]
    /\ UNCHANGED <<default, pin, file, held, kept, budget>>

Die ==
    /\ leaser.pc # "down"
    /\ leaser' = Stopped
    /\ held' = [a \in Addresses |-> 0]
    /\ UNCHANGED <<default, pin, file, kept, budget>>

-----------------------------------------------------------------------------
(* The host.  Nobody else pins an address that the ledger holds as ours.     *)

Foreign ==
    /\ budget.foreign < MaxForeign
    /\ budget' = [budget EXCEPT !.foreign = @ + 1]
    /\ \/ \E a \in Addresses, via \in Links \cup Gateways :
            /\ pin[a] = NoPin /\ leaser.entries[a].refs = 0
            /\ file[a] # None => file[a].state = "pending-add"
            /\ pin' = [pin EXCEPT ![a] = Pin("foreign", via)]
            /\ UNCHANGED default
       \/ /\ default' \in (Links \cup Gateways \cup {None}) \ {default}
          /\ UNCHANGED pin
    /\ UNCHANGED <<file, leaser, held, kept>>

Next ==
    \/ Start \/ Recover \/ RecoverDelete \/ RecoverDrop
    \/ \E a \in Addresses : Acquire(a) \/ Release(a)
    \/ AcquireRecord \/ AcquireAdd \/ AcquireSave \/ AcquireUndo
    \/ ReleaseRecord \/ ReleaseDelete \/ ReleaseForget
    \/ Close \/ Die \/ Foreign

Spec == Init /\ [][Next]_vars

-----------------------------------------------------------------------------
(* Properties *)

\* A granted lease keeps its endpoint pinned until it is released (unless it was
\* granted on an entry whose route was deleted and whose record was not), and
\* whenever the process dies a pin it made is in the ledger: recovery finds it.
PinsAccounted ==
    \A a \in Addresses :
      /\ held[a] > 0 /\ ~leaser.entries[a].deleted => pin[a] # NoPin
      /\ pin[a].by = "ours" /\ a \notin kept => file[a] # None

\* RUNTIME-PEER-RECONCILIATION.md: "Recovery deletes only an `active` or
\* `pending-delete` record whose live route identity still matches": what recovery
\* is about to delete is there.
RecoveryMatchesLiveRoute == leaser.pc = "undo" => pin[leaser.at] # NoPin
=============================================================================
