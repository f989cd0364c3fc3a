----------------------------- MODULE PeerRoutes -----------------------------
(***************************************************************************)
(* internal/platform/peer_routes.go: the inner host routes of a            *)
(* reconciliation, changed by one host command per route.  Operators on a  *)
(* prepared lease and the set of routes installed on the host; each gives  *)
(* the set of its possible outcomes [ok, lease, inner].                    *)
(***************************************************************************)
EXTENDS Diff

CONSTANT OffTable   \* the members of Interfaces whose Table is "off"

ASSUME RoutesAssumption == OffTable \subseteq Interfaces \ AutoTable

NoRoutes == [removals |-> {}, additions |-> {}, removed |-> {}, added |-> {},
             rolledBack |-> FALSE, finalized |-> FALSE]

Outcome(ok, lease, inner) == [ok |-> ok, lease |-> lease, inner |-> inner]

\* The commands for a set of routes run one after the other and stop at the
\* first failure: the subsets that may have been processed.  A command that
\* fails has no effect.
Processed(todo, mayFail) == IF mayFail THEN SUBSET todo ELSE {todo}

\* Prepare runs no command.  With Table = off there is nothing to do; an
\* automatic default route cannot be planned.
PrepareRoutes(interface, additions, removals) ==
    LET defaults == UNION {DefaultRoute[f] : f \in Families}
        refused == \/ additions \cap removals # {}
                   \/ /\ interface \in AutoTable
                      /\ (additions \cup removals) \cap defaults # {}
    IN  [ok |-> ~refused,
         lease |-> IF refused \/ interface \in OffTable THEN NoRoutes
                   ELSE [NoRoutes EXCEPT !.removals = removals,
                                         !.additions = additions]]

CommitRemovals(lease, inner, mayFail) ==
    IF lease.finalized \/ lease.rolledBack
    THEN {Outcome(lease.finalized, lease, inner)}
    ELSE {Outcome(done = lease.removals \ lease.removed,
                  [lease EXCEPT !.removed = @ \cup done], inner \ done) :
            done \in Processed(lease.removals \ lease.removed, mayFail)}

CommitAdditions(lease, inner, mayFail) ==
    IF lease.finalized \/ lease.rolledBack \/ lease.removed # lease.removals
    THEN {Outcome(lease.finalized, lease, inner)}
    ELSE {Outcome(done = lease.additions \ lease.added,
                  [lease EXCEPT !.added = @ \cup done], inner \cup done) :
            done \in Processed(lease.additions \ lease.added, mayFail)}

RollbackAdditions(lease, inner, mayFail) ==
    IF lease.finalized \/ lease.rolledBack
    THEN {Outcome(lease.rolledBack, lease, inner)}
    ELSE {Outcome(done = lease.added,
                  [lease EXCEPT !.added = @ \ done,
                                !.rolledBack = done = lease.added
                                               /\ lease.removed = {}],
                  inner \ done) :
            done \in Processed(lease.added, mayFail)}

RollbackRemovals(lease, inner, mayFail) ==
    IF lease.finalized \/ lease.rolledBack \/ lease.added # {}
    THEN {Outcome(lease.rolledBack, lease, inner)}
    ELSE {Outcome(done = lease.removed,
                  [lease EXCEPT !.removed = @ \ done,
                                !.rolledBack = done = lease.removed],
                  inner \cup done) :
            done \in Processed(lease.removed, mayFail)}

FinalizeRoutes(lease) ==
    LET ok == /\ ~lease.rolledBack
              /\ lease.removed = lease.removals
              /\ lease.added = lease.additions
    IN  [ok |-> ok, lease |-> IF ok THEN [lease EXCEPT !.finalized = TRUE]
                              ELSE lease]
=============================================================================
