---------------------------- MODULE WindowsRoutes ----------------------------
(***************************************************************************)
(* The host routes that keep a tunnel's own packets off the tunnel on      *)
(* Windows (internal/platform/windows_route_*.go): a ledger on disk, shared *)
(* by every wg-quic process of the host, records which routes the           *)
(* processes made, so that the next one can clean up after a crash.         *)
(*                                                                         *)
(* There is one endpoint; a route to it is named by its key, the interface  *)
(* and next hop.  A call holds the store's lock to its end, so one call     *)
(* runs at a time; an action is the part of it up to the next durable       *)
(* effect (a save, a created or a deleted route), and the process may die   *)
(* before any of them.  Interface index, metric and source address of a     *)
(* route are left out.                                                      *)
(***************************************************************************)
EXTENDS Integers, Sequences, FiniteSets, SequencesExt

CONSTANTS
    Keys, NoKey,    \* the ways to the endpoint
    Instances,      \* processes, each with its own owner lease file
    Nobody,         \* who runs a repair
    MaxCalls, MaxFaults, MaxForeign, MaxLeases   \* bounds

VARIABLES
    kernel,     \* who made the route with a key: "none", "ours" or "foreign"
    path,       \* the way the host would take to the endpoint without any pin
    disk,       \* the ledger file and its backup
    proc,       \* "new", "up" or "dead"
    lease,      \* the leases an instance holds; used until their first Release
    op,         \* the call that holds the store's lock
    spent,      \* calls, faults and foreign changes so far
    torn        \* the ledger may have lost count: it was corrupted, or saved
                \* though an error was reported, or a route vanished during a
                \* call, or a failed Release was retried

vars == <<kernel, path, disk, proc, lease, op, spent, torn>>

NoPrevious == [key |-> NoKey, ownership |-> "managed", revision |-> 0]
snapshot(r) == [key |-> r.key, ownership |-> r.ownership, revision |-> r.revision]
NoRecord == [key |-> NoKey, ownership |-> "managed", state |-> "active",
             revision |-> 0, owners |-> [i \in Instances |-> 0],
             previous |-> NoPrevious]
restoreRecord(r, p) ==
    [r EXCEPT !.key = p.key, !.ownership = p.ownership, !.revision = p.revision,
              !.previous = NoPrevious]

Idle == [pc |-> "idle", by |-> Nobody, kind |-> "", slot |-> 0, mem |-> <<>>,
         n |-> 0, changed |-> FALSE, held |-> NoRecord, previous |-> NoPrevious,
         oldExists |-> FALSE, selected |-> NoKey, attached |-> TRUE, ok |-> TRUE,
         from |-> ""]

File(status, routes) == [status |-> status, routes |-> routes]
Missing == File("missing", <<>>)

Init ==
    /\ kernel = [k \in Keys |-> "none"]
    /\ path \in Keys
    /\ disk = [primary |-> Missing, backup |-> Missing]
    /\ proc = [i \in Instances |-> "new"]
    /\ lease = [i \in Instances |-> <<>>]
    /\ op = Idle
    /\ spent = [calls |-> 0, faults |-> 0, foreign |-> 0]
    /\ torn = FALSE

exists(k) == kernel[k] # "none"
mayFail == spent.faults < MaxFaults
charge(failed) == [spent EXCEPT !.faults = @ + (IF failed THEN 1 ELSE 0)]

-----------------------------------------------------------------------------
(* The ledger *)

validateLedger(routes) ==
    \A a \in DOMAIN routes :
      /\ \A b \in DOMAIN routes : routes[a].key = routes[b].key => a = b
      /\ IF routes[a].state \in {"pending-migrate-remove", "pending-migrate-add"}
         THEN routes[a].previous.revision > 0
         ELSE routes[a].previous = NoPrevious

\* A backup proves no ownership: its routes are only borrowed.
borrowed(routes) ==
    [a \in DOMAIN routes |->
       [routes[a] EXCEPT !.ownership = "ambiguous", !.state = "active"]]

Load ==
    IF disk.primary.status = "ok" THEN disk.primary.routes
    ELSE IF disk.backup.status = "ok" THEN borrowed(disk.backup.routes) ELSE <<>>

\* A corrupt file is moved away by Load.
quarantined(file) == IF file.status = "corrupt" THEN Missing ELSE file

\* What Save may leave on disk.  The backup is written before the ledger; the
\* last outcome is a ledger that was replaced and could not be protected again.
Saves(routes) ==
    LET kept == IF disk.primary.status = "ok" THEN disk.primary ELSE disk.backup
        done == [primary |-> File("ok", routes), backup |-> kept]
        outcome(ok, files, isTorn) == [ok |-> ok, disk |-> files, torn |-> isTorn]
    IN  {outcome(TRUE, done, FALSE)} \cup
        (IF mayFail THEN {outcome(FALSE, disk, FALSE), outcome(FALSE, done, TRUE),
                          outcome(FALSE, [disk EXCEPT !.backup = kept], FALSE)}
         ELSE {})

\* Save routes; go on with next when that succeeds, fail the call otherwise.
save(routes, next) ==
    \E s \in Saves(routes) :
      /\ disk' = s.disk /\ torn' = (torn \/ s.torn)
      /\ spent' = charge(~s.ok)
      /\ op' = IF s.ok THEN next ELSE Idle
      /\ UNCHANGED <<kernel, path, proc, lease>>

\* CreateRoute fails when the route is there; DeleteRoute does not when it is not.
create(k, next, failed) ==
    /\ UNCHANGED <<path, disk, proc, lease, torn>>
    /\ \/ /\ ~exists(k)
          /\ kernel' = [kernel EXCEPT ![k] = "ours"]
          /\ op' = next /\ UNCHANGED spent
       \/ /\ exists(k) \/ mayFail
          /\ spent' = charge(~exists(k))
          /\ op' = failed /\ UNCHANGED kernel

delete(k, next, failed) ==
    /\ UNCHANGED <<path, disk, proc, lease, torn>>
    /\ \/ /\ kernel' = [kernel EXCEPT ![k] = "none"]
          /\ op' = next /\ UNCHANGED spent
       \/ /\ mayFail /\ spent' = charge(TRUE)
          /\ op' = failed /\ UNCHANGED kernel

quiet(next) ==
    /\ op' = next
    /\ UNCHANGED <<kernel, path, disk, proc, lease, spent, torn>>

\* A query of the system fails.
fail(next) ==
    /\ mayFail /\ spent' = charge(TRUE)
    /\ op' = next
    /\ UNCHANGED <<kernel, path, disk, proc, lease, torn>>

\* A pin is the most specific route; BestRoute returns one if there is any.
BestRoute == IF \E k \in Keys : exists(k) THEN {k \in Keys : exists(k)} ELSE {path}

without(routes, n) == RemoveAt(routes, n)
recordIndex(routes, k) == SelectInSeq(routes, LAMBDA r : r.key = k)
ownerIndex(routes, i) == SelectInSeq(routes, LAMBDA r : r.owners[i] > 0)
noOwners(r) == \A i \in Instances : r.owners[i] = 0

-----------------------------------------------------------------------------
(* Processes *)

Start(i) ==
    /\ proc[i] = "new"
    /\ proc' = [proc EXCEPT ![i] = "up"]
    /\ UNCHANGED <<kernel, path, disk, lease, op, spent, torn>>

\* A crash at any point, or Close between calls: the owner's lease file is free.
Stop(i) ==
    /\ proc[i] = "up"
    /\ proc' = [proc EXCEPT ![i] = "dead"]
    /\ lease' = [lease EXCEPT ![i] = <<>>]
    /\ op' = IF op.by = i THEN Idle ELSE op
    /\ UNCHANGED <<kernel, path, disk, spent, torn>>

Lock == op.pc = "idle"

Begin(kind, i, slot) ==
    /\ Lock /\ spent.calls < MaxCalls
    /\ spent' = [spent EXCEPT !.calls = @ + 1]
    /\ disk' = [primary |-> quarantined(disk.primary), backup |-> disk.backup]
    /\ op' = IF validateLedger(Load)
             THEN [Idle EXCEPT !.pc = "reconcile", !.by = i, !.kind = kind,
                               !.slot = slot, !.mem = Load, !.n = 1]
             ELSE Idle
    /\ lease' = IF kind = "release" THEN [lease EXCEPT ![i][slot].used = FALSE]
                ELSE lease
    /\ torn' = (torn \/ (kind = "release" /\ ~lease[i][slot].used))
    /\ UNCHANGED <<kernel, path, proc>>

Call(i) ==
    /\ proc[i] = "up"
    /\ \/ Len(lease[i]) < MaxLeases /\ Begin("acquire", i, 0)
       \/ \E slot \in DOMAIN lease[i] : \E kind \in {"refresh", "release"} :
            Begin(kind, i, slot)

RepairWindows == Begin("repair", Nobody, 0)

-----------------------------------------------------------------------------
(* reconcile, and its repair variant reconcileAbandonedWindowsRoutes *)

\* A process holds the lock on its lease file until it ends.
OwnerAlive(i) == proc[i] = "up"

liveOwners(r) ==
    [i \in Instances |-> IF OwnerAlive(i) THEN r.owners[i] ELSE 0]

nextRecord(o) == [o EXCEPT !.n = @ + 1]
dropRecord(o) == [o EXCEPT !.mem = without(@, o.n), !.changed = TRUE]
settleRecord(o, r) ==
    [o EXCEPT !.mem[o.n] = [r EXCEPT !.state = "active"], !.changed = TRUE,
              !.n = @ + 1]

\* The record's owners are gone: its route goes if it is certainly ours.
Abandoned(o, r) ==
    IF /\ r.ownership = "managed" /\ exists(r.key)
       /\ r.state \notin {"pending-add", "pending-migrate-add"}
    THEN IF r.state # "pending-delete"
         THEN LET mark == [o EXCEPT !.mem[o.n] = [r EXCEPT !.state = "pending-delete"]]
              IN  save(mark.mem, mark)
         ELSE delete(r.key, dropRecord(o), Idle)
    ELSE quiet(dropRecord(o))

\* Live owners: an interrupted call is completed or undone.
Resume(o, r) ==
    CASE r.state = "pending-add" ->
           IF exists(r.key)
           THEN quiet(settleRecord(o, [r EXCEPT !.ownership = "ambiguous"]))
           ELSE quiet(dropRecord(o))
      [] r.state = "pending-migrate-remove" ->
           LET next == settleRecord(o, restoreRecord(r, r.previous))
           IN  IF ~exists(r.key) /\ r.ownership = "managed"
               THEN create(r.previous.key, next, Idle) ELSE quiet(next)
      [] r.state = "pending-migrate-add" /\ exists(r.key) ->
           quiet(settleRecord(o, [r EXCEPT
             !.ownership = IF @ = "managed" THEN "ambiguous" ELSE @,
             !.previous = NoPrevious, !.revision = @ + 1]))
      [] r.state = "pending-migrate-add" /\ ~exists(r.key) ->
           LET next == settleRecord(o, restoreRecord(r, r.previous))
           IN  IF r.previous.ownership = "managed"
               THEN create(r.previous.key, next, Idle) ELSE quiet(next)
      [] r.state = "pending-delete" -> quiet(Idle)
      [] r.state = "active" /\ r.ownership = "managed" /\ ~exists(r.key) ->
           quiet([o EXCEPT !.pc = "migrate", !.from = "reconcile"])
      [] OTHER -> quiet(nextRecord(o))

\* Repair never touches a route with a live owner.
reconcileAbandoned(o, r) ==
    IF noOwners(r) THEN Abandoned(o, r) ELSE quiet(nextRecord(o))

Reconcile ==
    /\ op.pc = "reconcile" /\ op.n <= Len(op.mem)
    /\ LET was == op.mem[op.n]
           r == [was EXCEPT !.owners = liveOwners(was)]
           o == [op EXCEPT !.mem[op.n] = r, !.changed = @ \/ r # was]
       IN  \/ fail(Idle)
           \/ IF op.kind = "repair" THEN reconcileAbandoned(o, r)
              ELSE IF noOwners(r) THEN Abandoned(o, r) ELSE Resume(o, r)

ReconcileSave ==
    /\ op.pc = "reconcile" /\ op.n > Len(op.mem)
    /\ LET next == IF op.kind = "repair" THEN Idle ELSE [op EXCEPT !.pc = op.kind]
       IN  IF op.changed THEN save(op.mem, next) ELSE quiet(next)

-----------------------------------------------------------------------------
(* migrateRecord.  Its record pointer aims into the ledger until the store   *)
(* replaces the ledger by what it has written: later writes are lost.        *)

write(o, r) ==
    [o EXCEPT !.held = r, !.mem[o.n] = IF o.attached THEN r ELSE @]

Migrate ==
    LET r == op.mem[op.n]
        o == [op EXCEPT !.held = r, !.previous = snapshot(r), !.attached = TRUE]
        marked == write(o, [r EXCEPT !.state = "pending-migrate-remove",
                                     !.previous = snapshot(r)])
    IN  /\ op.pc = "migrate"
        /\ IF r.ownership = "managed" /\ op.oldExists
           THEN save(marked.mem, [marked EXCEPT !.pc = "remove", !.attached = FALSE])
           ELSE quiet([o EXCEPT !.pc = "select"])

\* Remember the record as it was and give the call up, after a last save.
restoreMigration ==
    LET back == [op EXCEPT
                   !.mem[op.n] = [restoreRecord(@, op.previous) EXCEPT !.state = "active"],
                   !.pc = "save", !.ok = FALSE]
    IN  /\ op.pc = "restore"
        /\ IF /\ op.oldExists /\ op.previous.ownership = "managed"
              /\ ~exists(op.previous.key)
           THEN create(op.previous.key, back, back) ELSE quiet(back)

MigrateRemove ==
    /\ op.pc = "remove"
    /\ delete(op.previous.key, [op EXCEPT !.pc = "select"],
              [write(op, [op.held EXCEPT !.state = "active"])
               EXCEPT !.pc = "save", !.ok = FALSE])

\* The endpoint is best reached as before: the route is put back.
reselect(next, failed) ==
    IF op.previous.ownership = "managed"
    THEN create(op.previous.key, next, failed) ELSE quiet(next)

MigrateSelect ==
    /\ op.pc = "select"
    /\ LET failed == [op EXCEPT !.pc = "restore"]
       IN  \/ fail(failed)
           \/ \E k \in BestRoute :
                CASE k = op.previous.key ->
                       reselect([write(op, [restoreRecord(op.held, op.previous) EXCEPT
                                              !.state = "active",
                                              !.revision = @ + (IF op.oldExists THEN 0 ELSE 1)])
                                 EXCEPT !.pc = "save"], failed)
                  [] recordIndex(op.mem, k) \notin {0, op.n} -> quiet(failed)
                  [] OTHER ->
                       quiet([write(op, [op.held EXCEPT
                                !.key = k, !.ownership = "managed",
                                !.state = "pending-migrate-add",
                                !.previous = op.previous])
                              EXCEPT !.pc = "save-add", !.selected = k])

MigrateSave ==
    /\ op.pc = "save-add"
    /\ \E s \in Saves(op.mem) :
         /\ disk' = s.disk /\ torn' = (torn \/ s.torn) /\ spent' = charge(~s.ok)
         /\ op' = IF s.ok THEN [op EXCEPT !.pc = "add", !.attached = FALSE]
                  ELSE [op EXCEPT !.pc = "restore"]
         /\ UNCHANGED <<kernel, path, proc, lease>>

MigrateAdd ==
    LET settled(ownership) ==
          [write(op, [op.held EXCEPT !.ownership = ownership, !.state = "active",
                        !.previous = NoPrevious, !.revision = op.previous.revision + 1])
           EXCEPT !.pc = "save"]
        failed == [op EXCEPT !.pc = "restore"]
    IN  /\ op.pc = "add"
        /\ \/ fail(failed)
           \/ IF exists(op.selected) THEN quiet(settled("external"))
              ELSE create(op.selected, settled("managed"), failed)

-----------------------------------------------------------------------------
(* AcquireEndpointRoute, Refresh, Release *)

\* The record Acquire writes before it creates the route, or has nothing to create.
claimed(r, isNew, i) ==
    LET o == [r EXCEPT !.owners[i] = @ + 1]
    IN  CASE isNew /\ exists(r.key) -> [o EXCEPT !.ownership = "external"]
          [] isNew /\ ~exists(r.key) -> [o EXCEPT !.state = "pending-add"]
          [] ~isNew /\ exists(r.key) ->
               [o EXCEPT !.state = "active",
                  !.ownership = IF r.state = "pending-add" THEN "ambiguous" ELSE @]
          [] ~isNew /\ ~exists(r.key) /\ r.ownership # "managed" ->
               [o EXCEPT !.ownership = "managed", !.state = "pending-migrate-add",
                         !.previous = snapshot(r)]
          [] OTHER -> [o EXCEPT !.state = "pending-add"]

\* The call returns: what becomes of the caller's lease.
granted(o) ==
    LET i == o.by
    IN  CASE ~o.ok \/ o.kind = "repair" -> lease
          [] o.kind = "acquire" ->
               [lease EXCEPT ![i] = Append(@, [key |-> o.mem[o.n].key,
                                              revision |-> o.mem[o.n].revision,
                                              used |-> TRUE])]
          [] o.kind = "refresh" ->
               [lease EXCEPT ![i][o.slot].key = o.held.key,
                              ![i][o.slot].revision = o.held.revision]
          [] o.kind = "release" -> [lease EXCEPT ![i] = RemoveAt(@, o.slot)]

return(o) ==
    /\ op' = Idle
    /\ lease' = granted(o)
    /\ UNCHANGED <<kernel, path, disk, proc, spent, torn>>

\* The last save of a call; reconcile goes on after a migration it began.
Finish ==
    LET next == IF op.ok /\ op.from = "reconcile"
                THEN [Idle EXCEPT !.pc = "reconcile", !.by = op.by, !.kind = op.kind,
                        !.slot = op.slot, !.mem = op.mem, !.n = op.n + 1,
                        !.changed = TRUE]
                ELSE Idle
    IN  /\ op.pc = "save"
        /\ \E s \in Saves(op.mem) :
             /\ disk' = s.disk /\ torn' = (torn \/ s.torn) /\ spent' = charge(~s.ok)
             /\ op' = IF s.ok THEN next ELSE Idle
             /\ lease' = IF s.ok /\ next = Idle THEN granted(op) ELSE lease
             /\ UNCHANGED <<kernel, path, proc>>

Acquire ==
    /\ op.pc = "acquire"
    /\ \/ fail(Idle)
       \/ \E k \in BestRoute :
            LET at == recordIndex(op.mem, k)
                n == IF at > 0 THEN at ELSE Len(op.mem) + 1
                was == IF at > 0 THEN op.mem[at]
                       ELSE [NoRecord EXCEPT !.key = k, !.revision = 1]
                r == claimed(was, at = 0, op.by)
                mem == IF at > 0 THEN [op.mem EXCEPT ![at] = r] ELSE Append(op.mem, r)
                o == [op EXCEPT !.mem = mem, !.n = n, !.held = was, !.selected = k,
                                !.pc = IF r.state = "active" THEN "save" ELSE "create",
                                !.oldExists = at > 0]
            IN  IF r.state = "active" THEN quiet(o) ELSE save(mem, o)

\* A failed creation takes the record back.
AcquireCreate ==
    /\ op.pc = "create"
    /\ create(op.selected,
              [op EXCEPT !.pc = "save", !.mem[op.n].state = "active",
                         !.mem[op.n].previous = NoPrevious],
              [op EXCEPT !.pc = "save", !.ok = FALSE,
                         !.mem = IF op.oldExists THEN [@ EXCEPT ![op.n] = op.held]
                                 ELSE without(@, op.n)])

Refresh ==
    /\ op.pc = "refresh"
    /\ LET n == ownerIndex(op.mem, op.by)
           r == op.mem[n]
           held == lease[op.by][op.slot]
       IN  IF n = 0 THEN quiet(Idle)
           ELSE IF r.key # held.key \/ r.revision # held.revision
           THEN return([op EXCEPT !.held = r])
           ELSE IF r.ownership # "managed" /\ exists(r.key) THEN quiet(Idle)
           ELSE quiet([op EXCEPT !.pc = "migrate", !.n = n, !.from = "refresh",
                                 !.oldExists = exists(r.key)])

\* Mutant: the route goes with the first of its owners.
selfishRelease ==
    /\ op.pc = "release"
    /\ LET n == ownerIndex(op.mem, op.by)
           r == [op.mem[n] EXCEPT !.owners[op.by] = @ - 1]
           mem == [op.mem EXCEPT ![n] = [r EXCEPT !.state = "pending-delete"]]
       IN  IF n = 0 THEN return(op)
           ELSE IF r.ownership # "managed"
           THEN quiet([op EXCEPT !.mem = without(@, n), !.pc = "save"])
           ELSE save(mem, [op EXCEPT !.mem = mem, !.n = n, !.pc = "delete"])

Release ==
    /\ op.pc = "release"
    /\ LET n == ownerIndex(op.mem, op.by)
           r == [op.mem[n] EXCEPT !.owners[op.by] = @ - 1]
           mem == [op.mem EXCEPT ![n] = [r EXCEPT !.state = "pending-delete"]]
       IN  IF n = 0 THEN return(op)
           ELSE IF ~noOwners(r)
           THEN quiet([op EXCEPT !.mem[n] = r, !.pc = "save"])
           ELSE IF r.ownership # "managed"
           THEN quiet([op EXCEPT !.mem = without(@, n), !.pc = "save"])
           ELSE save(mem, [op EXCEPT !.mem = mem, !.n = n, !.pc = "delete"])

ReleaseDelete ==
    /\ op.pc = "delete"
    /\ delete(op.mem[op.n].key,
              [op EXCEPT !.mem = without(@, op.n), !.pc = "save"], Idle)

-----------------------------------------------------------------------------
(* The host.  Nobody else installs a route that the ledger holds as ours: it *)
(* could not be told from the one that vanished.                             *)

heldAsOurs(k) ==
    \E routes \in {disk.primary.routes, op.mem} : \E a \in DOMAIN routes :
      \/ /\ routes[a].key = k /\ routes[a].ownership = "managed"
         /\ routes[a].state \notin {"pending-add", "pending-migrate-add"}
      \/ routes[a].previous.key = k /\ routes[a].previous.ownership = "managed"

Foreign ==
    /\ spent.foreign < MaxForeign
    /\ spent' = [spent EXCEPT !.foreign = @ + 1]
    /\ \/ \E k \in Keys :
            /\ ~exists(k) /\ ~heldAsOurs(k)
            /\ kernel' = [kernel EXCEPT ![k] = "foreign"]
            /\ UNCHANGED <<path, torn>>
       \/ \E k \in Keys :
            /\ exists(k)
            /\ kernel' = [kernel EXCEPT ![k] = "none"]
            /\ torn' = (torn \/ op.pc # "idle")
            /\ UNCHANGED path
       \/ /\ path' \in Keys \ {path}
          /\ UNCHANGED <<kernel, torn>>
    /\ UNCHANGED <<disk, proc, lease, op>>

CorruptLedger ==
    /\ mayFail /\ op.pc = "idle" /\ disk.primary.status = "ok"
    /\ spent' = charge(TRUE)
    /\ disk' = [disk EXCEPT !.primary = File("corrupt", <<>>)]
    /\ torn' = TRUE
    /\ UNCHANGED <<kernel, path, proc, lease, op>>

Next ==
    \/ \E i \in Instances : Start(i) \/ Stop(i) \/ Call(i)
    \/ RepairWindows
    \/ Reconcile \/ ReconcileSave
    \/ Migrate \/ MigrateRemove \/ MigrateSelect \/ MigrateSave \/ MigrateAdd
    \/ restoreMigration
    \/ Acquire \/ AcquireCreate \/ Refresh \/ Release \/ ReleaseDelete \/ Finish
    \/ Foreign \/ CorruptLedger

Spec == Init /\ [][Next]_vars

-----------------------------------------------------------------------------
(* Properties *)

\* wg-quic never removes a route that somebody else installed, whatever crashes,
\* failures and races went before (reconcile, release, migrateRecord).
ForeignRoutesKept ==
    [][\A k \in Keys : kernel[k] = "foreign" /\ kernel'[k] # "foreign"
                       => op' = op]_vars

\* The references of a live owner in the ledger cover the leases it uses, so no
\* other process and no other lease of its own removes the route under it; and a
\* route that is to be deleted has no live owner, so that reconcile never meets
\* its error "pending deletion but still has live owners".
LeaseRecorded ==
    LET routes == disk.primary.routes
    IN  /\ ~torn /\ disk.primary.status = "ok" /\ op.pc = "idle" =>
             \A i \in Instances :
               Cardinality({slot \in DOMAIN lease[i] : lease[i][slot].used})
                 <= FoldSeq(LAMBDA r, sum : sum + r.owners[i], 0, routes)
        /\ \A a \in DOMAIN routes :
             routes[a].state = "pending-delete" => noOwners(routes[a])
=============================================================================
