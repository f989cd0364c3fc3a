------------------------- MODULE RouteNotifierProofs -------------------------
(***************************************************************************)
(* No network change is lost on its way to the supervisor, for any number   *)
(* of notifiers, any routes and any size of the table.                      *)
(***************************************************************************)
EXTENDS RouteNotifier, TLAPS

Fields == {"pc", "ready", "pending", "overflow", "watcher", "hand", "changes", "loop",
           "unseen", "covered"}

IsSub(s) == s = [f \in Fields |-> s[f]]

OnItsWay(s, c) ==
    \/ s.changes \/ s.loop \in {"debounce", "retry"}
    \/ s.hand \intersect {c, Unknown} # {}
    \/ /\ s.ready \/ s.watcher = "drain"
       /\ s.overflow \/ c \in s.pending

\* One notifier: the watcher's hands are empty before it drains the table, pins are
\* no news, and only an open notifier owes anything.
SubInv(s) ==
    /\ IsSub(s)
    /\ s.watcher \in {"wait", "drain"} => s.hand = {}
    /\ s.unseen \intersect Pins = {} /\ s.covered \intersect Pins = {}
    /\ s.pc # "open" => s.unseen = {} /\ s.covered = {}
    /\ \A c \in s.unseen : OnItsWay(s, c)

Locking == {"registering", "cancel"}

\* The notifiers together: one at a time registers or cancels, nobody subscribes
\* while the native handles are cancelled, and an open notifier has all of them.
Registry ==
    /\ \A m, n \in Notifiers : sub[m].pc \in Locking /\ sub[n].pc \in Locking => m = n
    /\ \A m, n \in Notifiers : sub[m].pc = "cancel" => sub[n].pc \notin {"registering", "open"}
    /\ \A n \in Notifiers : sub[n].pc = "open" => handles = Kinds

NotifierInv ==
    /\ managed \subseteq Pins
    /\ sub = [n \in Notifiers |-> sub[n]]
    /\ \A n \in Notifiers : SubInv(sub[n])
    /\ Registry

\* A step of one notifier that leaves its pc and the native handles alone.
LEMMA LocalStep ==
    ASSUME NotifierInv, NEW n \in Notifiers, NEW t, SubInv(t), t.pc = sub[n].pc,
           sub' = [sub EXCEPT ![n] = t], handles' = handles, managed' = managed
    PROVE  NotifierInv'
<1>1. sub' = [m \in Notifiers |-> sub'[m]] /\ sub'[n] = t
  BY DEF NotifierInv
<1>2. \A m \in Notifiers \ {n} : sub'[m] = sub[m]
  BY DEF NotifierInv
<1>3. \A m \in Notifiers : SubInv(sub'[m]) /\ sub'[m].pc = sub[m].pc
  BY <1>1, <1>2 DEF NotifierInv
<1>4. Registry'
  BY <1>3 DEF NotifierInv, Registry
<1> QED
  BY <1>1, <1>3, <1>4 DEF NotifierInv, SubInv, OnItsWay, IsSub

\* Ready, Drain and Examine.
LEMMA WatcherKeeps ==
    ASSUME NotifierInv, Unknown \notin Pins, NEW n \in Notifiers,
           Ready(n) \/ Drain(n) \/ Examine(n)
    PROVE  NotifierInv'
<1> DEFINE s == sub[n]
<1>1. SubInv(s) /\ handles' = handles /\ managed' = managed /\ managed \subseteq Pins
  BY DEF NotifierInv, Ready, Drain, Examine
<1>2. ASSUME Ready(n) PROVE NotifierInv'
  <2> DEFINE t == [s EXCEPT !.watcher = "drain", !.ready = FALSE]
  <2>1. sub' = [sub EXCEPT ![n] = t]
    BY <1>2 DEF Ready, NotifierInv
  <2>2. /\ IsSub(t) /\ t.pc = s.pc /\ t.hand = s.hand /\ t.unseen = s.unseen
        /\ t.covered = s.covered /\ t.watcher = "drain" /\ t.changes = s.changes
        /\ t.loop = s.loop /\ t.overflow = s.overflow /\ t.pending = s.pending
    BY <1>1 DEF SubInv, IsSub, Fields
  <2> HIDE DEF t
  <2>3. s.watcher = "wait"
    BY <1>2 DEF Ready
  <2>4. \A c \in t.unseen : OnItsWay(t, c)
    BY <1>1, <2>2 DEF SubInv, OnItsWay
  <2>5. SubInv(t)
    BY <1>1, <2>2, <2>3, <2>4 DEF SubInv
  <2> QED
    BY <1>1, <2>1, <2>2, <2>5, LocalStep
<1>3. ASSUME Drain(n) PROVE NotifierInv'
  <2> DEFINE taken == IF s.overflow THEN {Unknown} ELSE s.pending
             t == [s EXCEPT !.watcher = "examine", !.overflow = FALSE, !.pending = {},
                            !.hand = taken]
  <2>1. sub' = [sub EXCEPT ![n] = t]
    BY <1>3 DEF Drain, NotifierInv
  <2> HIDE DEF taken
  <2>2. /\ IsSub(t) /\ t.pc = s.pc /\ t.hand = taken /\ t.unseen = s.unseen
        /\ t.covered = s.covered /\ t.watcher = "examine" /\ t.changes = s.changes
        /\ t.loop = s.loop
    BY <1>1 DEF SubInv, IsSub, Fields
  <2> HIDE DEF t
  <2>3. s.watcher = "drain" /\ s.hand = {}
    BY <1>1, <1>3 DEF Drain, SubInv
  <2>4. \A c \in t.unseen : OnItsWay(t, c)
    BY <1>1, <2>2, <2>3 DEF SubInv, OnItsWay, taken
  <2>5. SubInv(t)
    BY <1>1, <2>2, <2>3, <2>4 DEF SubInv
  <2> QED
    BY <1>1, <2>1, <2>2, <2>5, LocalStep
<1>4. ASSUME Examine(n), s.hand = {}, sub' = [sub EXCEPT ![n].watcher = "wait"]
      PROVE  NotifierInv'
  <2> DEFINE t == [s EXCEPT !.watcher = "wait"]
  <2>1. sub' = [sub EXCEPT ![n] = t]
    BY <1>4 DEF NotifierInv
  <2>2. /\ IsSub(t) /\ t.pc = s.pc /\ t.hand = s.hand /\ t.unseen = s.unseen
        /\ t.covered = s.covered /\ t.watcher = "wait" /\ t.changes = s.changes
        /\ t.loop = s.loop /\ t.ready = s.ready /\ t.overflow = s.overflow
        /\ t.pending = s.pending
    BY <1>1 DEF SubInv, IsSub, Fields
  <2> HIDE DEF t
  <2>3. s.watcher = "examine"
    BY <1>4 DEF Examine
  <2>4. \A c \in t.unseen : OnItsWay(t, c)
    BY <1>1, <2>2, <2>3 DEF SubInv, OnItsWay
  <2>5. SubInv(t)
    BY <1>1, <1>4, <2>2, <2>4 DEF SubInv
  <2> QED
    BY <1>1, <2>1, <2>2, <2>5, LocalStep
<1>5. ASSUME Examine(n), NEW c \in s.hand, c \in managed,
             sub' = [sub EXCEPT ![n].hand = @ \ {c}]
      PROVE  NotifierInv'
  <2> DEFINE t == [s EXCEPT !.hand = s.hand \ {c}]
  <2>1. sub' = [sub EXCEPT ![n] = t]
    BY <1>5 DEF NotifierInv
  <2>2. /\ IsSub(t) /\ t.pc = s.pc /\ t.hand = s.hand \ {c} /\ t.unseen = s.unseen
        /\ t.covered = s.covered /\ t.watcher = s.watcher /\ t.changes = s.changes
        /\ t.loop = s.loop /\ t.ready = s.ready /\ t.overflow = s.overflow
        /\ t.pending = s.pending
    BY <1>1 DEF SubInv, IsSub, Fields
  <2> HIDE DEF t
  <2>3. s.watcher = "examine" /\ c # Unknown /\ c \notin s.unseen
    BY <1>1, <1>5 DEF Examine, SubInv
  <2>4. \A d \in t.unseen : OnItsWay(t, d)
    BY <1>1, <2>2, <2>3 DEF SubInv, OnItsWay
  <2>5. SubInv(t)
    BY <1>1, <2>2, <2>3, <2>4 DEF SubInv
  <2> QED
    BY <1>1, <2>1, <2>2, <2>5, LocalStep
<1>6. ASSUME sub' = [sub EXCEPT ![n].hand = {}, ![n].watcher = "wait", ![n].changes = TRUE]
      PROVE  NotifierInv'
  <2> DEFINE t == [s EXCEPT !.hand = {}, !.watcher = "wait", !.changes = TRUE]
  <2>1. sub' = [sub EXCEPT ![n] = t]
    BY <1>6 DEF NotifierInv
  <2>2. /\ IsSub(t) /\ t.pc = s.pc /\ t.hand = {} /\ t.unseen = s.unseen
        /\ t.covered = s.covered /\ t.changes = TRUE
    BY <1>1 DEF SubInv, IsSub, Fields
  <2> HIDE DEF t
  <2>3. SubInv(t)
    BY <1>1, <2>2 DEF SubInv, OnItsWay
  <2> QED
    BY <1>1, <2>1, <2>2, <2>3, LocalStep
<1> QED
  BY <1>2, <1>3, <1>4, <1>5, <1>6 DEF Examine

\* Announced, reconcileNetworkChange and Reconciled.
LEMMA SupervisorKeeps ==
    ASSUME NotifierInv, NEW n \in Notifiers,
           Announced(n) \/ reconcileNetworkChange(n) \/ Reconciled(n)
    PROVE  NotifierInv'
<1> DEFINE s == sub[n]
<1>1. SubInv(s) /\ handles' = handles /\ managed' = managed
  BY DEF NotifierInv, Announced, reconcileNetworkChange, Reconciled
<1>2. ASSUME Announced(n) PROVE NotifierInv'
  <2> DEFINE t == [s EXCEPT !.changes = FALSE, !.loop = "debounce"]
  <2>1. sub' = [sub EXCEPT ![n] = t]
    BY <1>2 DEF Announced, NotifierInv
  <2>2. /\ IsSub(t) /\ t.pc = s.pc /\ t.hand = s.hand /\ t.unseen = s.unseen
        /\ t.covered = s.covered /\ t.watcher = s.watcher /\ t.loop = "debounce"
    BY <1>1 DEF SubInv, IsSub, Fields
  <2> HIDE DEF t
  <2>3. SubInv(t)
    BY <1>1, <2>2 DEF SubInv, OnItsWay
  <2> QED
    BY <1>1, <2>1, <2>2, <2>3, LocalStep
<1>3. ASSUME reconcileNetworkChange(n) PROVE NotifierInv'
  <2> DEFINE t == [s EXCEPT !.loop = "refresh", !.unseen = {}, !.covered = s.unseen]
  <2>1. sub' = [sub EXCEPT ![n] = t]
    BY <1>3 DEF reconcileNetworkChange, NotifierInv
  <2>2. /\ IsSub(t) /\ t.pc = s.pc /\ t.hand = s.hand /\ t.unseen = {}
        /\ t.covered = s.unseen /\ t.watcher = s.watcher
    BY <1>1 DEF SubInv, IsSub, Fields
  <2> HIDE DEF t
  <2>3. SubInv(t)
    BY <1>1, <2>2 DEF SubInv
  <2> QED
    BY <1>1, <2>1, <2>2, <2>3, LocalStep
<1>4. ASSUME s.loop = "refresh", sub' = [sub EXCEPT ![n].loop = "wait", ![n].covered = {}]
      PROVE  NotifierInv'
  <2> DEFINE t == [s EXCEPT !.loop = "wait", !.covered = {}]
  <2>1. sub' = [sub EXCEPT ![n] = t]
    BY <1>4 DEF NotifierInv
  <2>2. /\ IsSub(t) /\ t.pc = s.pc /\ t.hand = s.hand /\ t.unseen = s.unseen
        /\ t.covered = {} /\ t.watcher = s.watcher /\ t.changes = s.changes
        /\ t.ready = s.ready /\ t.overflow = s.overflow /\ t.pending = s.pending
    BY <1>1 DEF SubInv, IsSub, Fields
  <2> HIDE DEF t
  <2>3. \A c \in t.unseen : OnItsWay(t, c)
    BY <1>1, <1>4, <2>2 DEF SubInv, OnItsWay
  <2>4. SubInv(t)
    BY <1>1, <2>2, <2>3 DEF SubInv
  <2> QED
    BY <1>1, <2>1, <2>2, <2>4, LocalStep
<1>5. ASSUME sub' = [sub EXCEPT ![n].loop = "retry", ![n].covered = {},
                                ![n].unseen = @ \union s.covered]
      PROVE  NotifierInv'
  <2> DEFINE t == [s EXCEPT !.loop = "retry", !.covered = {},
                            !.unseen = s.unseen \union s.covered]
  <2>1. sub' = [sub EXCEPT ![n] = t]
    BY <1>5 DEF NotifierInv
  <2>2. /\ IsSub(t) /\ t.pc = s.pc /\ t.hand = s.hand /\ t.loop = "retry"
        /\ t.unseen = s.unseen \union s.covered
        /\ t.covered = {} /\ t.watcher = s.watcher
    BY <1>1 DEF SubInv, IsSub, Fields
  <2> HIDE DEF t
  <2>3. SubInv(t)
    BY <1>1, <2>2 DEF SubInv, OnItsWay
  <2> QED
    BY <1>1, <2>1, <2>2, <2>3, LocalStep
<1> QED
  BY <1>2, <1>3, <1>4, <1>5 DEF Reconciled

\* A notifier without anything on its way.
LEMMA FreshSub ==
    ASSUME NEW pc
    PROVE  SubInv([Fresh EXCEPT !.pc = pc]) /\ [Fresh EXCEPT !.pc = pc].pc = pc
  BY DEF SubInv, IsSub, Fields, Fresh

\* A step that changes the pc of notifier n, and the others in nothing.
LEMMA PcStep ==
    ASSUME NotifierInv, NEW n \in Notifiers, NEW t, SubInv(t),
           sub' = [sub EXCEPT ![n] = t], managed' = managed, Registry'
    PROVE  NotifierInv'
<1>1. sub' = [m \in Notifiers |-> sub'[m]] /\ sub'[n] = t
  BY DEF NotifierInv
<1>2. \A m \in Notifiers \ {n} : sub'[m] = sub[m]
  BY DEF NotifierInv
<1>3. \A m \in Notifiers : SubInv(sub'[m])
  BY <1>1, <1>2 DEF NotifierInv
<1> QED
  BY <1>1, <1>3 DEF NotifierInv, SubInv, OnItsWay, IsSub

\* Registration and Close.
LEMMA RegistrationKeeps ==
    ASSUME NotifierInv, NEW n \in Notifiers,
           \/ newWindowsRouteNotifier(n) \/ ensureWindowsNetworkNotifications(n)
           \/ Close(n) \/ cancelWindowsNetworkNotifications(n)
    PROVE  NotifierInv'
<1> DEFINE s == sub[n]
<1>1. SubInv(s) /\ managed' = managed
  BY DEF NotifierInv, newWindowsRouteNotifier, ensureWindowsNetworkNotifications, Close,
         cancelWindowsNetworkNotifications
\* Keeping everything but the pc keeps a notifier that owes nothing.
<1>2. ASSUME NEW pc, s.unseen = {}, s.covered = {}
      PROVE  SubInv([s EXCEPT !.pc = pc]) /\ [s EXCEPT !.pc = pc].pc = pc
  <2> DEFINE t == [s EXCEPT !.pc = pc]
  <2>1. /\ IsSub(t) /\ t.pc = pc /\ t.hand = s.hand /\ t.unseen = {} /\ t.covered = {}
        /\ t.watcher = s.watcher
    BY <1>1, <1>2 DEF SubInv, IsSub, Fields
  <2> HIDE DEF t
  <2>2. SubInv(t)
    BY <1>1, <2>1 DEF SubInv
  <2> QED
    BY <2>1, <2>2 DEF t
<1>3. ASSUME NEW t, sub' = [sub EXCEPT ![n] = t]
      PROVE  sub'[n] = t /\ \A m \in Notifiers \ {n} : sub'[m] = sub[m]
  BY <1>3 DEF NotifierInv
<1>4. ASSUME newWindowsRouteNotifier(n) PROVE NotifierInv'
  <2> DEFINE t == [s EXCEPT !.pc = "registering"]
  <2>1. /\ s.pc = "none" /\ handles' = handles /\ sub' = [sub EXCEPT ![n] = t]
        /\ \A m \in Notifiers : sub[m].pc \notin Locking
    BY <1>4 DEF newWindowsRouteNotifier, registrationLocked, Locking, NotifierInv
  <2>2. SubInv(t) /\ t.pc = "registering"
    BY <1>1, <1>2, <2>1 DEF SubInv
  <2> HIDE DEF t
  <2>3. Registry'
    BY <1>3, <2>1, <2>2 DEF NotifierInv, Registry, Locking
  <2> QED
    BY <1>1, <2>1, <2>2, <2>3, PcStep
<1>5. ASSUME ensureWindowsNetworkNotifications(n), handles = Kinds PROVE NotifierInv'
  <2> DEFINE t == [s EXCEPT !.pc = "open"]
  <2>1. /\ s.pc = "registering" /\ handles' = handles /\ sub' = [sub EXCEPT ![n] = t]
    BY <1>5 DEF ensureWindowsNetworkNotifications, NotifierInv
  <2>2. SubInv(t) /\ t.pc = "open"
    BY <1>1, <1>2, <2>1 DEF SubInv
  <2> HIDE DEF t
  <2>3. Registry'
    BY <1>3, <1>5, <2>1, <2>2 DEF NotifierInv, Registry, Locking
  <2> QED
    BY <1>1, <2>1, <2>2, <2>3, PcStep
<1>6. ASSUME ensureWindowsNetworkNotifications(n), handles # Kinds, sub' = sub
      PROVE  NotifierInv'
  <2>1. \A m \in Notifiers : sub[m].pc # "open"
    BY <1>6 DEF NotifierInv, Registry
  <2>2. Registry'
    BY <1>6, <2>1 DEF NotifierInv, Registry
  <2> QED
    BY <1>1, <1>6, <2>2 DEF NotifierInv, SubInv, OnItsWay, IsSub
<1>7. ASSUME NEW pc \in {"cancel", "closed"}, handles' = handles,
             sub' = [sub EXCEPT ![n] = [Fresh EXCEPT !.pc = pc]],
             pc = "cancel" => subscribers = {n},
             \A m \in Notifiers \ {n} : sub[m].pc \notin Locking
      PROVE  NotifierInv'
  <2> DEFINE t == [Fresh EXCEPT !.pc = pc]
  <2>1. SubInv(t) /\ t.pc = pc /\ sub' = [sub EXCEPT ![n] = t]
    BY <1>7, FreshSub
  <2> HIDE DEF t
  <2>2. pc = "cancel" => \A m \in Notifiers \ {n} : sub[m].pc \notin {"registering", "open"}
    BY <1>7 DEF subscribers
  <2>3. Registry'
    BY <1>3, <1>7, <2>1, <2>2 DEF NotifierInv, Registry, Locking
  <2> QED
    BY <1>1, <2>1, <2>3, PcStep
<1>8. ASSUME ensureWindowsNetworkNotifications(n), handles # Kinds, sub' # sub
      PROVE  NotifierInv'
  <2> DEFINE pc == IF subscribers = {n} THEN "cancel" ELSE "closed"
  <2>1. /\ handles' = handles /\ sub' = [sub EXCEPT ![n] = [Fresh EXCEPT !.pc = pc]]
        /\ s.pc = "registering"
    BY <1>8 DEF ensureWindowsNetworkNotifications
  <2>2. \A m \in Notifiers \ {n} : sub[m].pc \notin Locking
    BY <2>1 DEF NotifierInv, Registry, Locking
  <2> QED
    BY <1>7, <2>1, <2>2
<1>9. ASSUME Close(n) PROVE NotifierInv'
  <2> DEFINE pc == IF subscribers = {n} THEN "cancel" ELSE "closed"
  <2>1. /\ handles' = handles /\ sub' = [sub EXCEPT ![n] = [Fresh EXCEPT !.pc = pc]]
        /\ \A m \in Notifiers : sub[m].pc \notin Locking
    BY <1>9 DEF Close, registrationLocked, Locking
  <2> QED
    BY <1>7, <2>1
<1>10. ASSUME cancelWindowsNetworkNotifications(n) PROVE NotifierInv'
  <2> DEFINE t == [s EXCEPT !.pc = "closed"]
  <2>1. s.pc = "cancel" /\ sub' = [sub EXCEPT ![n] = t]
    BY <1>10 DEF cancelWindowsNetworkNotifications, NotifierInv
  <2>2. SubInv(t) /\ t.pc = "closed"
    BY <1>1, <1>2, <2>1 DEF SubInv
  <2> HIDE DEF t
  <2>3. \A m \in Notifiers : sub[m].pc \notin {"registering", "open"}
    BY <2>1 DEF NotifierInv, Registry
  <2>4. Registry'
    BY <1>3, <2>1, <2>2, <2>3 DEF NotifierInv, Registry, Locking
  <2> QED
    BY <1>1, <2>1, <2>2, <2>4, PcStep
<1> QED
  BY <1>4, <1>5, <1>6, <1>8, <1>9, <1>10

\* Whatever the table does with a change, a notification is pending afterwards.
LEMMA Enqueued ==
    ASSUME NEW s, SubInv(s), NEW c
    PROVE  LET t == enqueue(s, c)
           IN  /\ IsSub(t) /\ t.pc = s.pc /\ t.hand = s.hand /\ t.unseen = s.unseen
               /\ t.covered = s.covered /\ t.watcher = s.watcher
               /\ t.changes = s.changes /\ t.loop = s.loop
               /\ t.ready /\ (t.overflow \/ c \in t.pending)
               /\ \A d : d \in s.pending \/ s.overflow => d \in t.pending \/ t.overflow
<1> DEFINE full == c = Unknown \/ Cardinality(s.pending) >= NotificationLimit
           t == enqueue(s, c)
<1>1. CASE full
  BY <1>1 DEF SubInv, IsSub, Fields, enqueue
<1>2. CASE ~full /\ s.overflow
  BY <1>2 DEF SubInv, IsSub, Fields, enqueue
<1>3. CASE ~full /\ ~s.overflow
  BY <1>3 DEF SubInv, IsSub, Fields, enqueue
<1> QED
  BY <1>1, <1>2, <1>3

\* A change is news to each open notifier, and its callbacks are in force.
LEMMA ChangeKeeps ==
    ASSUME NotifierInv, NEW h \in Kinds, NEW c, Change(h, c)
    PROVE  NotifierInv'
<1>1. /\ handles' = handles /\ managed' = managed
      /\ sub' = [n \in Notifiers |-> sub'[n]]
  BY DEF Change
<1>2. ASSUME NEW n \in Notifiers PROVE SubInv(sub'[n]) /\ sub'[n].pc = sub[n].pc
  <2> DEFINE s == sub[n]
             told == IF n \in subscribers /\ h \in handles THEN enqueue(s, c) ELSE s
             t == [told EXCEPT !.unseen = @ \union {c}]
  <2>1. SubInv(s)
    BY DEF NotifierInv
  <2>2. sub'[n] = IF s.pc = "open" /\ c \notin Pins THEN t ELSE told
    BY DEF Change
  <2>3. /\ IsSub(told) /\ told.pc = s.pc /\ told.hand = s.hand /\ told.unseen = s.unseen
        /\ told.covered = s.covered /\ told.watcher = s.watcher
        /\ told.changes = s.changes /\ told.loop = s.loop
    BY <2>1, Enqueued DEF SubInv
  <2>4. \A d \in s.unseen : OnItsWay(told, d)
    BY <2>1, Enqueued DEF SubInv, OnItsWay
  <2>5. s.pc = "open" => OnItsWay(told, c)
    <3>1. s.pc = "open" => told = enqueue(s, c)
      BY DEF subscribers, NotifierInv, Registry
    <3> QED
      BY <2>1, <3>1, Enqueued DEF OnItsWay
  <2> HIDE DEF told
  <2>6. SubInv(told)
    BY <2>1, <2>3, <2>4 DEF SubInv
  <2>7. /\ IsSub(t) /\ t.pc = s.pc /\ t.hand = told.hand
        /\ t.unseen = s.unseen \union {c} /\ t.covered = s.covered
        /\ t.watcher = told.watcher /\ t.changes = told.changes /\ t.loop = told.loop
        /\ t.ready = told.ready /\ t.overflow = told.overflow /\ t.pending = told.pending
    BY <2>3 DEF IsSub, Fields
  <2> HIDE DEF t
  <2>8. ASSUME s.pc = "open", c \notin Pins PROVE SubInv(t)
    <3>1. \A d \in t.unseen : OnItsWay(t, d)
      BY <2>4, <2>5, <2>7, <2>8 DEF OnItsWay
    <3> QED
      BY <2>1, <2>3, <2>7, <2>8, <3>1 DEF SubInv
  <2> QED
    BY <2>2, <2>3, <2>6, <2>7, <2>8
<1>3. Registry'
  BY <1>1, <1>2 DEF NotifierInv, Registry
<1> QED
  BY <1>1, <1>2, <1>3 DEF NotifierInv, SubInv, OnItsWay, IsSub

\* The invariant of all notifiers, where the change without a route is not a pin.
THEOREM NotifierInvariant ==
    ASSUME Unknown \notin Pins
    PROVE  Spec => []NotifierInv
<1>1. Init => NotifierInv
  <2> SUFFICES ASSUME Init PROVE NotifierInv
    OBVIOUS
  <2>1. \A n \in Notifiers : sub[n] = Fresh /\ sub[n].pc = "none"
    BY DEF Init, Fresh
  <2>2. SubInv(Fresh)
    BY DEF SubInv, IsSub, Fields, Fresh
  <2>3. Registry
    BY <2>1 DEF Registry, Locking
  <2> QED
    BY <2>1, <2>2, <2>3 DEF Init, NotifierInv
<1>2. NotifierInv /\ [Next]_vars => NotifierInv'
  <2> SUFFICES ASSUME NotifierInv, [Next]_vars PROVE NotifierInv'
    OBVIOUS
  <2>1. ASSUME NEW n \in Notifiers,
               \/ newWindowsRouteNotifier(n) \/ ensureWindowsNetworkNotifications(n)
               \/ Close(n) \/ cancelWindowsNetworkNotifications(n)
        PROVE  NotifierInv'
    BY <2>1, RegistrationKeeps
  <2>2. ASSUME NEW n \in Notifiers, Ready(n) \/ Drain(n) \/ Examine(n) PROVE NotifierInv'
    BY <2>2, WatcherKeeps
  <2>3. ASSUME NEW n \in Notifiers,
               Announced(n) \/ reconcileNetworkChange(n) \/ Reconciled(n)
        PROVE  NotifierInv'
    BY <2>3, SupervisorKeeps
  <2>4. ASSUME NEW h \in Kinds, NEW c, Change(h, c) PROVE NotifierInv'
    BY <2>4, ChangeKeeps
  <2>5. ASSUME NEW k \in Pins, Manage(k) PROVE NotifierInv'
    <3>1. managed' \subseteq Pins /\ sub' = sub /\ handles' = handles
      BY <2>5 DEF Manage, NotifierInv
    <3> QED
      BY <3>1 DEF NotifierInv, Registry, SubInv, OnItsWay, IsSub
  <2>6. ASSUME UNCHANGED vars PROVE NotifierInv'
    BY <2>6 DEF vars, NotifierInv, Registry, SubInv, OnItsWay, IsSub
  <2> QED
    BY <2>1, <2>2, <2>3, <2>4, <2>5, <2>6 DEF Next
<1> QED
  BY <1>1, <1>2, PTL DEF Spec

\* ChangeOnItsWay for any notifiers and any bound of the table: no change of the
\* network is lost between the callback and the supervisor's refresh.
THEOREM NoChangeLost ==
    ASSUME Unknown \notin Pins
    PROVE  Spec => []ChangeOnItsWay
<1>1. NotifierInv => ChangeOnItsWay
  BY DEF NotifierInv, SubInv, OnItsWay, ChangeOnItsWay
<1> QED
  BY <1>1, NotifierInvariant, PTL
=============================================================================
