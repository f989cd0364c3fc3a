---------------------------- MODULE DesiredState ----------------------------
(***************************************************************************)
(* What the reconciliation coordinator promises its clients: a             *)
(* compare-and-swap register over the desired configuration.  A request    *)
(* names the generation it was computed against.  It takes effect at most  *)
(* once, only while that generation is current, and then replaces the      *)
(* configuration and advances the generation by one.                       *)
(***************************************************************************)
EXTENDS Diff, Naturals

CONSTANTS
    Requests,   \* records with fields id, epoch, generation and desired
    Epoch,      \* the epoch of the running supervisor
    Initial     \* the configuration the interface was started with

VARIABLES
    generation, \* desired_generation
    current,    \* the published desired configuration
    applied     \* the requests that have taken effect

dsVars == <<generation, current, applied>>

Init ==
    /\ generation = 1
    /\ current = Initial
    /\ applied = {}

Apply(r) ==
    /\ r \notin applied
    /\ r.epoch = Epoch
    /\ r.generation = generation
    /\ Changed(Compare(current, r.desired))
    /\ ~RestartRequired(Compare(current, r.desired))
    /\ generation' = generation + 1
    /\ current' = r.desired
    /\ applied' = applied \cup {r}

Next == \E r \in Requests : Apply(r)

Spec == Init /\ [][Next]_dsVars
=============================================================================
