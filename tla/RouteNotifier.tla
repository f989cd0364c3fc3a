--------------------------- MODULE RouteNotifier ---------------------------
(***************************************************************************)
(* How a network change reaches the endpoint supervisor on Windows          *)
(* (internal/platform/windows_route_notify_windows.go, the watcher of       *)
(* windows_route_manager.go, Supervisor.routeChangeLoop): callbacks of three *)
(* native subscriptions fill a bounded table, the watcher drops what it      *)
(* takes for the manager's own changes and announces the rest, and the       *)
(* supervisor refreshes its routes once the announcements pause.             *)
(***************************************************************************)
EXTENDS Integers, FiniteSets

CONSTANTS
    Notifiers,
    Pins, Others,       \* route keys the manager pins at times, and those it never does
    Unknown,            \* the change that names no route (Valid: false)
    NotificationLimit,
    MaxChanges, MaxFailures

VARIABLES
    sub,        \* per notifier: the notifier, its watcher and its supervisor
    handles,    \* native subscriptions in force
    managed,    \* keys the ledger lists as managed
    happened, failures

vars == <<sub, handles, managed, happened, failures>>

Kinds == {"route", "interface", "address"}

Fresh == [pc |-> "none", ready |-> FALSE, pending |-> {}, overflow |-> FALSE,
          watcher |-> "wait", hand |-> {}, changes |-> FALSE, loop |-> "wait",
          unseen |-> {}, covered |-> {}]

Init ==
    /\ sub = [n \in Notifiers |-> Fresh]
    /\ handles = {} /\ managed = {}
    /\ happened = 0 /\ failures = 0

subscribers == {n \in Notifiers : sub[n].pc \in {"registering", "open"}}
mayFail == failures < MaxFailures /\ failures' = failures + 1

-----------------------------------------------------------------------------
(* Registration, under windowsRouteNotificationRegistrationMu               *)

registrationLocked == \E n \in Notifiers : sub[n].pc \in {"registering", "cancel"}

newWindowsRouteNotifier(n) ==
    /\ sub[n].pc = "none" /\ ~registrationLocked
    /\ sub' = [sub EXCEPT ![n].pc = "registering"]
    /\ UNCHANGED <<handles, managed, happened, failures>>

\* ensureWindowsNetworkNotifications: the missing handles in their order; the first
\* that is refused undoes the subscription, and the handles if nobody else has one.
ensureWindowsNetworkNotifications(n) ==
    /\ sub[n].pc = "registering" /\ UNCHANGED <<managed, happened>>
    /\ IF handles = Kinds
       THEN sub' = [sub EXCEPT ![n].pc = "open"] /\ UNCHANGED <<handles, failures>>
       ELSE LET next == CHOOSE h \in Kinds \ handles :
                            \/ h = "route"
                            \/ h = "interface" /\ "route" \in handles
                            \/ h = "address" /\ {"route", "interface"} \subseteq handles
            IN  \/ handles' = handles \union {next} /\ UNCHANGED <<sub, failures>>
                \/ /\ mayFail /\ UNCHANGED handles
                   /\ sub' = [sub EXCEPT ![n] =
                                 [Fresh EXCEPT !.pc =
                                     IF subscribers = {n} THEN "cancel" ELSE "closed"]]

\* windowsRouteManager.Close and notifier.Close: unsubscribe, then the last one cancels.
Close(n) ==
    /\ sub[n].pc = "open" /\ ~registrationLocked
    /\ sub' = [sub EXCEPT ![n] = [Fresh EXCEPT !.pc =
                                     IF subscribers = {n} THEN "cancel" ELSE "closed"]]
    /\ UNCHANGED <<handles, managed, happened, failures>>

\* cancelWindowsNetworkNotifications: a handle that cannot be cancelled is kept.
cancelWindowsNetworkNotifications(n) ==
    /\ sub[n].pc = "cancel"
    /\ sub' = [sub EXCEPT ![n].pc = "closed"]
    /\ \/ handles' = {} /\ UNCHANGED failures
       \/ mayFail /\ handles' \in (SUBSET handles) \ {{}}
    /\ UNCHANGED <<managed, happened>>

-----------------------------------------------------------------------------
(* Callbacks                                                                *)

\* Mutant: the signal is given with an entry of the table only.
quietEnqueue(s, c) ==
    IF c = Unknown \/ Cardinality(s.pending) >= NotificationLimit
    THEN [s EXCEPT !.overflow = TRUE, !.pending = {}]
    ELSE IF s.overflow THEN s
    ELSE [s EXCEPT !.pending = @ \union {c}, !.ready = TRUE]

\* A full table becomes one unknown change; the signal is given in each case.
enqueue(s, c) ==
    LET kept == IF c = Unknown \/ Cardinality(s.pending) >= NotificationLimit
                THEN [s EXCEPT !.overflow = TRUE, !.pending = {}]
                ELSE IF s.overflow THEN s
                ELSE [s EXCEPT !.pending = @ \union {c}]
    IN  [kept EXCEPT !.ready = TRUE]

\* windowsNativeRouteChanged and the two that publish an unknown change.  What the
\* manager does to its pins is not news; anything else is, to each open notifier.
Change(h, c) ==
    /\ happened < MaxChanges /\ happened' = happened + 1
    /\ sub' = [n \in Notifiers |->
                  LET told == IF n \in subscribers /\ h \in handles
                              THEN enqueue(sub[n], c) ELSE sub[n]
                  IN  IF sub[n].pc = "open" /\ c \notin Pins
                      THEN [told EXCEPT !.unseen = @ \union {c}] ELSE told]
    /\ UNCHANGED <<handles, managed, failures>>

\* The manager adds or drops a record of one of its pins.
Manage(k) ==
    /\ happened < MaxChanges /\ happened' = happened + 1
    /\ managed' = IF k \in managed THEN managed \ {k} ELSE managed \union {k}
    /\ UNCHANGED <<sub, handles, failures>>

-----------------------------------------------------------------------------
(* The watcher                                                              *)

Ready(n) ==
    /\ sub[n].watcher = "wait" /\ sub[n].ready /\ sub[n].pc = "open"
    /\ sub' = [sub EXCEPT ![n].watcher = "drain", ![n].ready = FALSE]
    /\ UNCHANGED <<handles, managed, happened, failures>>

Drain(n) ==
    /\ sub[n].watcher = "drain"
    /\ sub' = [sub EXCEPT ![n].watcher = "examine", ![n].overflow = FALSE,
                          ![n].pending = {},
                          ![n].hand = IF sub[n].overflow THEN {Unknown} ELSE sub[n].pending]
    /\ UNCHANGED <<handles, managed, happened, failures>>

\* isManagedRouteNotification of one change; a ledger that cannot be read makes it news.
Examine(n) ==
    /\ sub[n].watcher = "examine" /\ UNCHANGED <<handles, managed, happened>>
    /\ \/ /\ sub[n].hand = {} /\ UNCHANGED failures
          /\ sub' = [sub EXCEPT ![n].watcher = "wait"]
       \/ \E c \in sub[n].hand :
            \/ /\ c \in managed /\ UNCHANGED failures
               /\ sub' = [sub EXCEPT ![n].hand = @ \ {c}]
            \/ /\ IF c \in managed THEN mayFail ELSE UNCHANGED failures
               /\ sub' = [sub EXCEPT ![n].hand = {}, ![n].watcher = "wait",
                                     ![n].changes = TRUE]

-----------------------------------------------------------------------------
(* Supervisor.routeChangeLoop                                               *)

\* An announcement, taken while waiting, while debouncing or between two attempts.
Announced(n) ==
    /\ sub[n].changes /\ sub[n].loop \in {"wait", "debounce", "retry"}
    /\ sub' = [sub EXCEPT ![n].changes = FALSE, ![n].loop = "debounce"]
    /\ UNCHANGED <<handles, managed, happened, failures>>

\* The announcements have paused, or the time to retry has come.
reconcileNetworkChange(n) ==
    /\ sub[n].loop \in {"debounce", "retry"}
    /\ sub' = [sub EXCEPT ![n].loop = "refresh", ![n].unseen = {},
                          ![n].covered = sub[n].unseen]
    /\ UNCHANGED <<handles, managed, happened, failures>>

Reconciled(n) ==
    /\ sub[n].loop = "refresh" /\ UNCHANGED <<handles, managed, happened>>
    /\ \/ /\ sub' = [sub EXCEPT ![n].loop = "wait", ![n].covered = {}]
          /\ UNCHANGED failures
       \/ /\ sub' = [sub EXCEPT ![n].loop = "retry", ![n].covered = {},
                                ![n].unseen = @ \union sub[n].covered]
          /\ mayFail

-----------------------------------------------------------------------------

Next ==
    \/ \E n \in Notifiers :
          \/ newWindowsRouteNotifier(n) \/ ensureWindowsNetworkNotifications(n)
          \/ Close(n) \/ cancelWindowsNetworkNotifications(n)
          \/ Ready(n) \/ Drain(n) \/ Examine(n)
          \/ Announced(n) \/ reconcileNetworkChange(n) \/ Reconciled(n)
    \/ \E h \in Kinds : \E c \in {Unknown} \union (IF h = "route" THEN Pins \union Others ELSE {}) :
          Change(h, c)
    \/ \E k \in Pins : Manage(k)

Spec == Init /\ [][Next]_vars

-----------------------------------------------------------------------------
(* Properties                                                               *)

\* Each change of the network that no refresh has begun after, or none that succeeded,
\* is still on its way to one (enqueue, watchRouteChanges, routeChangeLoop): in the
\* table with the watcher signalled, in the watcher's hands, announced, or awaiting
\* the supervisor's next attempt.  The table overflows, announcements coalesce, other
\* notifiers come and go with the native subscriptions they share.
ChangeOnItsWay ==
    \A n \in Notifiers : sub[n].pc = "open" =>
        \A c \in sub[n].unseen :
            \/ sub[n].changes \/ sub[n].loop \in {"debounce", "retry"}
            \/ sub[n].hand \intersect {c, Unknown} # {}
            \/ /\ sub[n].ready \/ sub[n].watcher = "drain"
               /\ sub[n].overflow \/ c \in sub[n].pending
=============================================================================
