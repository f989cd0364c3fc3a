--------------------------- MODULE FECController ---------------------------
(***************************************************************************)
(* How much protection the sender asks for: the controller of               *)
(* internal/transport/fec, driven by the peer's feedback on groups and by   *)
(* QUIC's loss counters.                                                    *)
(*                                                                         *)
(* The loss estimate and the binomial tail are floating point; here the     *)
(* parity they ask for is any that parityForLossThreshold may return.       *)
(* Counters that are only compared with a threshold stop at it.             *)
(***************************************************************************)
EXTENDS Integers

CONSTANTS
    Shards, MaxShards,          \* data shards of the FEC policies, at most
    MaxParity, MaxInterleave,
    ParityFloor, MissingThreshold,
    DecreaseGroups,             \* defaultDecreaseGroups, interleaveDecreaseGroups
    LongDecreaseGroups,         \* the longest window a long path asks for
    EnoughFrames                \* observed before parity is added for recovered loss

ASSUME ControllerConstants ==
    /\ MaxShards \in Nat \ {0} /\ Shards \subseteq 1 .. MaxShards
    /\ MaxParity \in Nat \ {0} /\ MaxInterleave \in {1, 2, 4}
    /\ DecreaseGroups \in Nat \ {0} /\ LongDecreaseGroups \in Nat
    /\ LongDecreaseGroups >= DecreaseGroups
    /\ ParityFloor \in Nat /\ MissingThreshold \in Nat /\ EnoughFrames \in Nat

VARIABLES
    ctl,    \* the controller
    calm    \* groups in a row that left nothing unrecovered

vars == <<ctl, calm>>

NewController(shards) ==
    [parity |-> 1, interleave |-> 1, zeroLoss |-> 0, frames |-> 0, decrease |-> 0,
     unrecovered |-> 0, severe |-> 0, healthy |-> 0, shards |-> shards, long |-> FALSE]

Init == ctl \in {NewController(n) : n \in Shards} /\ calm = 0

capped(n, m) == IF n <= m THEN n ELSE m
atLeast(n, m) == IF n >= m THEN n ELSE m
window(k) == DecreaseGroups * k.shards

\* parityForLossThreshold: no more than half the shards.
desiredParity == 0 .. capped(atLeast(1, ctl.shards \div 2), MaxParity)

decreaseWindow(k, desired) ==
    IF k.parity = 1 /\ desired = 0 /\ k.long THEN LongDecreaseGroups ELSE DecreaseGroups

\* The counters every group moves.
counted(fb) ==
    LET lossless == fb.missing = 0
    IN  [ctl EXCEPT !.frames = capped(@ + fb.total, EnoughFrames),
                    !.zeroLoss = IF lossless THEN capped(@ + 1, LongDecreaseGroups) ELSE 0,
                    !.healthy = IF lossless THEN capped(@ + fb.total, window(ctl)) ELSE 0]

leaveBypass ==
    [ctl EXCEPT !.parity = 1, !.zeroLoss = 0, !.frames = 0, !.decrease = 0]

\* A group that lost more than its parity could repair.
burst(k, fb, desired) ==
    LET lost == fb.missing - fb.recovered
        severe == IF lost >= atLeast(1, (fb.total + 1) \div 2) THEN capped(k.severe + 1, 2) ELSE 0
        more == k.parity < desired \/ lost >= 2 \/ k.unrecovered + 1 >= 3
        parity == IF more THEN capped(k.parity + 1, MaxParity) ELSE k.parity
        deeper == /\ k.interleave < MaxInterleave /\ parity >= ParityFloor
                  /\ lost >= MissingThreshold \/ severe >= 2
    IN  [k EXCEPT !.parity = parity, !.unrecovered = IF more THEN 0 ELSE @ + 1,
                  !.interleave = IF deeper THEN 2 * @ ELSE @,
                  !.severe = IF deeper THEN 0 ELSE severe,
                  !.frames = 0, !.decrease = 0]

\* A group that came through: the interleave is halved after a long run without
\* loss, or else the parity moves toward the desired one.
repaired(k0, fb, desired) ==
    LET k == [k0 EXCEPT !.unrecovered = 0, !.severe = 0]
        enough == decreaseWindow(k, desired)
    IN  IF k.interleave > 1 /\ k.healthy >= window(k)
        THEN [k EXCEPT !.interleave = @ \div 2, !.healthy = 0, !.zeroLoss = 0]
        ELSE IF k.zeroLoss >= enough /\ k.parity > desired
        THEN [k EXCEPT !.parity = @ - 1, !.zeroLoss = 0, !.decrease = 0]
        ELSE IF desired > k.parity /\ fb.missing > 0 /\ k.frames >= EnoughFrames
        THEN [k EXCEPT !.parity = @ + 1, !.frames = 0, !.decrease = 0]
        ELSE IF desired < k.parity /\ k.decrease + 1 >= enough
        THEN [k EXCEPT !.parity = @ - 1, !.decrease = 0]
        ELSE [k EXCEPT !.decrease = IF desired < k.parity THEN @ + 1 ELSE 0]

\* Mutant: a burst does not end the count toward less parity.
stubbornObserve(fb) ==
    \E desired \in desiredParity :
      ctl' = IF ctl.parity = 0 /\ fb.missing > 0 THEN leaveBypass
           ELSE IF fb.missing > fb.recovered
           THEN [burst(counted(fb), fb, desired) EXCEPT !.decrease = ctl.decrease]
           ELSE repaired(counted(fb), fb, desired)

Observe(fb) ==
    \E desired \in desiredParity :
      ctl' = IF ctl.parity = 0 /\ fb.missing > 0 THEN leaveBypass
           ELSE IF fb.missing > fb.recovered THEN burst(counted(fb), fb, desired)
           ELSE repaired(counted(fb), fb, desired)

\* Feedback of a group without dimensions (Total 0) is ignored.
ObserveFeedback ==
    \E total \in 1 .. MaxShards : \E missing \in 0 .. total : \E recovered \in 0 .. missing :
      LET fb == [total |-> total, missing |-> missing, recovered |-> recovered]
      IN  /\ Observe(fb)
          /\ calm' = IF missing > recovered THEN 0 ELSE capped(calm + 1, DecreaseGroups)

\* QUIC's counters only ever ask for more.
ObserveTransport ==
    /\ \/ ctl.parity = 0 /\ ctl' = [ctl EXCEPT !.parity = 1, !.zeroLoss = 0]
       \/ /\ \E desired \in desiredParity : desired > ctl.parity
          /\ ctl' = [ctl EXCEPT !.parity = @ + 1, !.decrease = 0]
    /\ UNCHANGED calm

ObservePathRTT ==
    /\ \E long \in BOOLEAN : ctl' = [ctl EXCEPT !.long = long]
    /\ UNCHANGED calm

SetDataShards ==
    /\ \E n \in Shards : ctl' = [ctl EXCEPT !.shards = n]
    /\ UNCHANGED calm

Next == ObserveFeedback \/ ObserveTransport \/ ObservePathRTT \/ SetDataShards

Spec == Init /\ [][Next]_vars

-----------------------------------------------------------------------------
(* Properties *)

\* The protection moves one step at a time, within its limits, and never both ways
\* down at once; parity is given up only after DecreaseGroups groups in a row that
\* left nothing unrecovered, whatever QUIC's counters, a change of policy or of the
\* path did in between (Observe).
LessOnlyWhenCalm ==
    [][/\ ctl'.parity \in (ctl.parity - 1 .. ctl.parity + 1) \cap (0 .. MaxParity)
       /\ ctl'.interleave \in {ctl.interleave, 2 * ctl.interleave, ctl.interleave \div 2}
       /\ ctl'.interleave \in 1 .. MaxInterleave
       /\ ctl'.parity < ctl.parity => calm' >= DecreaseGroups /\ ctl'.interleave = ctl.interleave]_vars
=============================================================================
