---------------------------- MODULE MCHostRoutes ----------------------------
(***************************************************************************)
(* Instances of the four models of wg-quic and the routes of a host: the    *)
(* endpoint pins of Windows, those of FreeBSD, the life of a quick process  *)
(* with the tunnel routes of Windows, and the notification of changes.      *)
(* They share no state; `host` says which of them a behaviour is about, the *)
(* others stay as they are.                                                 *)
(***************************************************************************)
EXTENDS Integers, FiniteSets

CONSTANTS
    Keys, NoKey, Instances, Nobody, MaxLeases,               \* WindowsRoutes
    Prefixes, MaxTransactions, MaxLuid,                       \* QuickRun
    Addresses, Links, Gateways, None,                         \* FreeBSDRoutes
    Notifiers, Pins, Others, Unknown, NotificationLimit,      \* RouteNotifier
    MaxChanges, MaxFailures,
    MaxStarts, MaxCalls, MaxFaults, MaxHostFaults, MaxForeign

VARIABLES
    kernel, path, disk, proc, lease, op, spent, torn,
    route, luid, journal, quick, tx, orphans, used,
    default, pin, file, leaser, held, kept, budget,
    sub, handles, managed, happened, failures,
    host

Windows == INSTANCE WindowsRoutes WITH MaxFaults <- MaxHostFaults
Quick == INSTANCE QuickRun
FreeBSD == INSTANCE FreeBSDRoutes
Notifier == INSTANCE RouteNotifier

windowsVars == <<kernel, path, disk, proc, lease, op, spent, torn>>
quickVars == <<route, luid, journal, quick, tx, orphans, used>>
freeBSDVars == <<default, pin, file, leaser, held, kept, budget>>
notifierVars == <<sub, handles, managed, happened, failures>>

vars == <<windowsVars, quickVars, freeBSDVars, notifierVars, host>>

Init ==
    /\ Windows!Init /\ Quick!Init /\ FreeBSD!Init /\ Notifier!Init
    /\ host \in {"windows", "quick", "freebsd", "notifier"}
    /\ host # "windows" => path = CHOOSE k \in Keys : TRUE
    /\ host # "freebsd" => default = CHOOSE l \in Links : TRUE

Next ==
    /\ UNCHANGED host
    /\ \/ /\ host = "windows" /\ Windows!Next
          /\ UNCHANGED <<quickVars, freeBSDVars, notifierVars>>
       \/ /\ host = "quick" /\ Quick!Next
          /\ UNCHANGED <<windowsVars, freeBSDVars, notifierVars>>
       \/ /\ host = "freebsd" /\ FreeBSD!Next
          /\ UNCHANGED <<windowsVars, quickVars, notifierVars>>
       \/ /\ host = "notifier" /\ Notifier!Next
          /\ UNCHANGED <<windowsVars, quickVars, freeBSDVars>>

Spec == Init /\ [][Next]_vars

\* The references of a live owner in the Windows ledger cover the leases it uses,
\* and a route that is to be deleted has no live owner (release, reconcile).
LeaseRecorded == host = "windows" => Windows!LeaseRecorded

\* Each tunnel route quick has made is named by its journal or its undo list,
\* whenever it dies (JournaledPeerRoutes, recoverLocked).
JournalCovers == host = "quick" => Quick!JournalCovers

\* The tunnel routes are the projection the next transaction is planned from, or what
\* the open or failed one has recorded (CommitRemovals to Finalize, and the rollbacks).
ProjectionInstalled == host = "quick" => Quick!ProjectionInstalled

\* As long as routes lead into a live tunnel its endpoints are pinned outside it
\* (runWithHost, shutdownQuickRuntime).
PinnedWhileRouted == host = "quick" => Quick!PinnedWhileRouted

\* A granted FreeBSD lease keeps its endpoint pinned, and a pin is in the ledger
\* whenever the process dies (AcquireEndpointRoute, release, recover).
PinsAccounted == host = "freebsd" => FreeBSD!PinsAccounted

\* A change of the network that no refresh has begun after is on its way to one
\* (enqueue, watchRouteChanges, routeChangeLoop).
ChangeOnItsWay == host = "notifier" => Notifier!ChangeOnItsWay
=============================================================================
