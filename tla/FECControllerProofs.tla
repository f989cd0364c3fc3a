------------------------ MODULE FECControllerProofs -------------------------
(***************************************************************************)
(* The controller gives protection up only after calm groups, for any       *)
(* number of shards, limits and windows.                                    *)
(***************************************************************************)
EXTENDS FECController, TLAPS

Controller ==
    [parity : 0 .. MaxParity, interleave : {1, 2, 4}, zeroLoss : 0 .. LongDecreaseGroups,
     frames : Int, decrease : Int, unrecovered : Int, severe : Int, healthy : Int,
     shards : 1 .. MaxShards, long : BOOLEAN]

\* Why calm bounds the two counters that lead to less parity: each grows by at most
\* one with a calm group, and an unrecovered loss clears them as it clears calm.
IInv ==
    /\ ctl \in Controller /\ ctl.interleave <= MaxInterleave
    /\ calm \in 0 .. DecreaseGroups
    /\ calm < DecreaseGroups => ctl.zeroLoss <= calm /\ ctl.decrease <= calm

Feedback ==
    {fb \in [total : 1 .. MaxShards, missing : Nat, recovered : Nat] :
        fb.recovered <= fb.missing /\ fb.missing <= fb.total}

\* What one observation may do to the controller, where n is calm after it.
Moves(k, n) ==
    /\ k \in Controller /\ k.interleave <= MaxInterleave
    /\ k.parity \in ctl.parity - 1 .. ctl.parity + 1
    /\ k.interleave \in {ctl.interleave, 2 * ctl.interleave, ctl.interleave \div 2}
    /\ k.parity < ctl.parity => n >= DecreaseGroups /\ k.interleave = ctl.interleave
    /\ n < DecreaseGroups => k.zeroLoss <= n /\ k.decrease <= n

calmAfter(fb) == IF fb.missing > fb.recovered THEN 0 ELSE capped(calm + 1, DecreaseGroups)

\* counted touches neither parity nor interleave, and counts at most one group.
LEMMA CountedGroup ==
    ASSUME IInv, NEW fb \in Feedback
    PROVE  /\ counted(fb) \in Controller
           /\ counted(fb).parity = ctl.parity
           /\ counted(fb).interleave = ctl.interleave
           /\ counted(fb).decrease = ctl.decrease
           /\ counted(fb).zeroLoss <= ctl.zeroLoss + 1
           /\ fb.missing > 0 => counted(fb).zeroLoss = 0
<1>1. window(ctl) \in Int
  BY ControllerConstants DEF IInv, Controller, window
<1>2. capped(ctl.frames + fb.total, EnoughFrames) \in Int
  BY ControllerConstants DEF IInv, Controller, Feedback, capped
<1>3. capped(ctl.healthy + fb.total, window(ctl)) \in Int
  BY <1>1 DEF IInv, Controller, Feedback, capped
<1>4. /\ capped(ctl.zeroLoss + 1, LongDecreaseGroups) \in 0 .. LongDecreaseGroups
      /\ capped(ctl.zeroLoss + 1, LongDecreaseGroups) <= ctl.zeroLoss + 1
  BY ControllerConstants DEF IInv, Controller, capped
<1> DEFINE frames == capped(ctl.frames + fb.total, EnoughFrames)
           zeroLoss == IF fb.missing = 0 THEN capped(ctl.zeroLoss + 1, LongDecreaseGroups) ELSE 0
           healthy == IF fb.missing = 0 THEN capped(ctl.healthy + fb.total, window(ctl)) ELSE 0
<1>5. counted(fb) = [ctl EXCEPT !.frames = frames, !.zeroLoss = zeroLoss, !.healthy = healthy]
  BY DEF counted
<1>6. /\ frames \in Int /\ healthy \in Int /\ zeroLoss \in 0 .. LongDecreaseGroups
      /\ zeroLoss <= ctl.zeroLoss + 1 /\ (fb.missing > 0 => zeroLoss = 0)
  BY <1>2, <1>3, <1>4, ControllerConstants DEF IInv, Controller, Feedback
<1> HIDE DEF frames, zeroLoss, healthy
<1> QED
  BY <1>5, <1>6 DEF IInv, Controller

\* A desired parity is within the limit (parityForLossThreshold).
LEMMA DesiredInRange == IInv => desiredParity \subseteq 0 .. MaxParity
  BY ControllerConstants DEF IInv, Controller, desiredParity, capped, atLeast

\* A burst raises parity and interleave by at most a step and clears the counters.
LEMMA Burst ==
    ASSUME IInv, NEW fb \in Feedback, NEW desired \in desiredParity,
           fb.missing > fb.recovered
    PROVE  Moves(burst(counted(fb), fb, desired), 0)
<1> DEFINE k == counted(fb)
           lost == fb.missing - fb.recovered
           severe == IF lost >= atLeast(1, (fb.total + 1) \div 2)
                     THEN capped(k.severe + 1, 2) ELSE 0
           more == k.parity < desired \/ lost >= 2 \/ k.unrecovered + 1 >= 3
           parity == IF more THEN capped(k.parity + 1, MaxParity) ELSE k.parity
           deeper == /\ k.interleave < MaxInterleave /\ parity >= ParityFloor
                     /\ lost >= MissingThreshold \/ severe >= 2
           interleave == IF deeper THEN 2 * k.interleave ELSE k.interleave
           unrecovered == IF more THEN 0 ELSE k.unrecovered + 1
           severity == IF deeper THEN 0 ELSE severe
           b1 == [k EXCEPT !.parity = parity, !.unrecovered = unrecovered,
                           !.interleave = interleave]
           zero == 0
           b == burst(k, fb, desired)
<1>1. zero \in Int
  OBVIOUS
<1>2. /\ k \in Controller /\ k.parity = ctl.parity /\ k.interleave = ctl.interleave
      /\ k.zeroLoss = 0
  BY CountedGroup DEF Feedback
<1>3. severity \in Int
  BY <1>2 DEF Controller, capped
<1>4. parity \in 0 .. MaxParity /\ parity \in {k.parity, k.parity + 1}
  BY <1>2, ControllerConstants DEF Controller, capped
<1>5. b = [b1 EXCEPT !.severe = severity, !.frames = zero, !.decrease = zero]
  BY DEF burst
<1> HIDE DEF k, severe, more, parity, severity, b
<1>6. interleave \in {1, 2, 4} /\ interleave <= MaxInterleave
      /\ interleave \in {k.interleave, 2 * k.interleave}
  BY <1>2, ControllerConstants DEF Controller, IInv
<1>7. unrecovered \in Int
  BY <1>2 DEF Controller
<1> HIDE DEF deeper, interleave, unrecovered
<1>8. /\ b1 \in Controller /\ b1.parity = parity /\ b1.zeroLoss = 0
      /\ b1.interleave = interleave
  BY <1>2, <1>4, <1>6, <1>7 DEF Controller
<1> HIDE DEF b1, zero
<1>9. /\ b \in Controller /\ b.parity = parity /\ b.decrease = zero /\ b.zeroLoss = 0
      /\ b.interleave = interleave
  BY <1>3, <1>5, <1>8, <1>1 DEF Controller
<1>10. b.parity \in ctl.parity - 1 .. ctl.parity + 1 /\ ~ b.parity < ctl.parity
  BY <1>2, <1>4, <1>9 DEF Controller
<1>11. Moves(b, 0)
  BY <1>2, <1>6, <1>9, <1>10 DEF Moves, zero
<1> QED
  BY <1>11 DEF b, k

\* A repaired group gives parity up only at the end of a window of calm groups.
LEMMA Repaired ==
    ASSUME IInv, NEW fb \in Feedback, NEW desired \in desiredParity,
           ~ fb.missing > fb.recovered
    PROVE  Moves(repaired(counted(fb), fb, desired), capped(calm + 1, DecreaseGroups))
<1> DEFINE k0 == counted(fb)
           n == capped(calm + 1, DecreaseGroups)
           zero == 0
           k == [k0 EXCEPT !.unrecovered = zero, !.severe = zero]
           enough == decreaseWindow(k, desired)
           halved == k.interleave \div 2
           less == k.parity - 1
           up == k.parity + 1
           waited == IF desired < k.parity THEN k.decrease + 1 ELSE 0
           r == repaired(k0, fb, desired)
           C1 == k.interleave > 1 /\ k.healthy >= window(k)
           C2 == k.zeroLoss >= enough /\ k.parity > desired
           C3 == desired > k.parity /\ fb.missing > 0 /\ k.frames >= EnoughFrames
           C4 == desired < k.parity /\ k.decrease + 1 >= enough
<1>1. /\ k0 \in Controller /\ k0.parity = ctl.parity /\ k0.interleave = ctl.interleave
      /\ k0.decrease = ctl.decrease /\ k0.zeroLoss <= ctl.zeroLoss + 1
  BY CountedGroup
<1>2. /\ n \in 0 .. DecreaseGroups /\ DecreaseGroups >= 1 /\ DecreaseGroups \in Int
      /\ n < DecreaseGroups => n = calm + 1 /\ calm < DecreaseGroups
  BY ControllerConstants DEF IInv, capped
<1>3. /\ C1 => r = [k EXCEPT !.interleave = halved, !.healthy = zero, !.zeroLoss = zero]
      /\ ~C1 /\ C2 => r = [k EXCEPT !.parity = less, !.zeroLoss = zero, !.decrease = zero]
      /\ ~C1 /\ ~C2 /\ C3 => r = [k EXCEPT !.parity = up, !.frames = zero, !.decrease = zero]
      /\ ~C1 /\ ~C2 /\ ~C3 /\ C4 => r = [k EXCEPT !.parity = less, !.decrease = zero]
      /\ ~C1 /\ ~C2 /\ ~C3 /\ ~C4 => r = [k EXCEPT !.decrease = waited]
  BY DEF repaired
<1>4. zero \in Int /\ zero \in 0 .. LongDecreaseGroups /\ zero = 0
  BY ControllerConstants
<1>5. enough \in Int /\ enough >= DecreaseGroups
  BY ControllerConstants DEF decreaseWindow
<1>6. desired \in 0 .. MaxParity
  BY DesiredInRange
<1> HIDE DEF k0, n, zero, r, enough
<1>7. /\ k \in Controller /\ k.parity = ctl.parity /\ k.interleave = ctl.interleave
      /\ k.decrease = ctl.decrease /\ k.zeroLoss <= ctl.zeroLoss + 1
  BY <1>1, <1>4 DEF Controller
<1> HIDE DEF k
\* The counters behind the calm, and what they say of it at the end of a window.
<1>8. n < DecreaseGroups => k.zeroLoss <= n /\ k.decrease + 1 <= n /\ 0 <= n
  BY <1>2, <1>7 DEF IInv, Controller
<1>9. /\ C1 => halved \in {1, 2, 4} /\ halved <= MaxInterleave
      /\ C2 => less \in 0 .. MaxParity /\ n >= DecreaseGroups
      /\ C3 => up \in 0 .. MaxParity
      /\ C4 => less \in 0 .. MaxParity /\ n >= DecreaseGroups
      /\ waited \in Int /\ (n < DecreaseGroups => waited <= n)
  <2>1. C1 => halved \in {1, 2, 4} /\ halved <= MaxInterleave
    BY <1>7, ControllerConstants DEF IInv, Controller
  <2>2. C2 => less \in 0 .. MaxParity /\ n >= DecreaseGroups
    BY <1>2, <1>5, <1>6, <1>7, <1>8, ControllerConstants DEF Controller
  <2>3. C3 => up \in 0 .. MaxParity
    BY <1>6, <1>7, ControllerConstants DEF Controller
  <2>4. C4 => less \in 0 .. MaxParity /\ n >= DecreaseGroups
    BY <1>2, <1>5, <1>6, <1>7, <1>8, ControllerConstants DEF Controller
  <2>5. waited \in Int /\ (n < DecreaseGroups => waited <= n)
    BY <1>2, <1>6, <1>7, <1>8 DEF Controller
  <2> QED
    BY <2>1, <2>2, <2>3, <2>4, <2>5
<1>10. k.interleave <= MaxInterleave /\ n \in Int /\ DecreaseGroups \in Int
  BY <1>2, <1>7 DEF IInv
<1>11. ASSUME C1 PROVE Moves(r, n)
  <2> HIDE DEF halved
  <2>1. r = [k EXCEPT !.interleave = halved, !.healthy = zero, !.zeroLoss = zero] /\ halved \in {1, 2, 4}
    BY <1>3, <1>9, <1>11
  <2>2. /\ r \in Controller /\ r.parity = k.parity /\ r.interleave = halved
        /\ r.zeroLoss = zero /\ r.decrease = k.decrease
    BY <1>4, <1>7, <2>1 DEF Controller
  <2> QED
    BY <1>4, <1>7, <1>8, <1>9, <1>10, <1>11, <2>2 DEF Moves, Controller, halved
<1>12. ASSUME ~C1 /\ C2 PROVE Moves(r, n)
  <2> HIDE DEF less
  <2>1. r = [k EXCEPT !.parity = less, !.zeroLoss = zero, !.decrease = zero] /\ less \in 0 .. MaxParity
    BY <1>3, <1>9, <1>12
  <2>2. /\ r \in Controller /\ r.parity = less /\ r.interleave = k.interleave
    BY <1>4, <1>7, <2>1 DEF Controller
  <2> QED
    BY <1>7, <1>9, <1>10, <1>12, <2>2 DEF Moves, Controller, less
<1>13. ASSUME ~C1 /\ ~C2 /\ C3 PROVE Moves(r, n)
  <2> HIDE DEF up
  <2>1. r = [k EXCEPT !.parity = up, !.frames = zero, !.decrease = zero] /\ up \in 0 .. MaxParity
    BY <1>3, <1>9, <1>13
  <2>2. /\ r \in Controller /\ r.parity = up /\ r.interleave = k.interleave
        /\ r.zeroLoss = k.zeroLoss /\ r.decrease = zero
    BY <1>4, <1>7, <2>1 DEF Controller
  <2> QED
    BY <1>4, <1>7, <1>8, <1>9, <1>10, <1>13, <2>2 DEF Moves, Controller, up
<1>14. ASSUME ~C1 /\ ~C2 /\ ~C3 /\ C4 PROVE Moves(r, n)
  <2> HIDE DEF less
  <2>1. r = [k EXCEPT !.parity = less, !.decrease = zero] /\ less \in 0 .. MaxParity
    BY <1>3, <1>9, <1>14
  <2>2. /\ r \in Controller /\ r.parity = less /\ r.interleave = k.interleave
    BY <1>4, <1>7, <2>1 DEF Controller
  <2> QED
    BY <1>7, <1>9, <1>10, <1>14, <2>2 DEF Moves, Controller, less
<1>15. ASSUME ~C1 /\ ~C2 /\ ~C3 /\ ~C4 PROVE Moves(r, n)
  <2> HIDE DEF waited
  <2>1. r = [k EXCEPT !.decrease = waited] /\ waited \in Int
    BY <1>3, <1>9, <1>15
  <2>2. /\ r \in Controller /\ r.parity = k.parity /\ r.interleave = k.interleave
        /\ r.zeroLoss = k.zeroLoss /\ r.decrease = waited
    BY <1>4, <1>7, <2>1 DEF Controller
  <2> QED
    BY <1>7, <1>8, <1>9, <1>10, <2>2 DEF Moves, Controller
<1> QED
  BY <1>11, <1>12, <1>13, <1>14, <1>15 DEF r, n, k0

\* The first loss without parity switches it on and clears the counters.
LEMMA Bypass ==
    ASSUME IInv, ctl.parity = 0, NEW n \in 0 .. DecreaseGroups
    PROVE  Moves(leaveBypass, n)
<1> DEFINE one == 1
           zero == 0
<1>1. leaveBypass = [ctl EXCEPT !.parity = one, !.zeroLoss = zero, !.frames = zero, !.decrease = zero]
  BY DEF leaveBypass
<1>2. one \in 0 .. MaxParity /\ zero \in Int /\ zero \in 0 .. LongDecreaseGroups
  BY ControllerConstants
<1> HIDE DEF one, zero
<1>3. /\ leaveBypass \in Controller /\ leaveBypass.parity = one
      /\ leaveBypass.interleave = ctl.interleave
      /\ leaveBypass.zeroLoss = zero /\ leaveBypass.decrease = zero
  BY <1>1, <1>2 DEF IInv, Controller
<1> QED
  BY <1>3, ControllerConstants DEF Moves, IInv, Controller, one, zero

\* Feedback on one group.
LEMMA FeedbackMoves ==
    ASSUME IInv, NEW fb \in Feedback, Observe(fb)
    PROVE  Moves(ctl', calmAfter(fb))
<1>1. PICK desired \in desiredParity :
        ctl' = IF ctl.parity = 0 /\ fb.missing > 0 THEN leaveBypass
               ELSE IF fb.missing > fb.recovered THEN burst(counted(fb), fb, desired)
               ELSE repaired(counted(fb), fb, desired)
  BY DEF Observe
<1>2. calmAfter(fb) \in 0 .. DecreaseGroups
  BY ControllerConstants DEF calmAfter, capped, IInv
<1>3. CASE ctl.parity = 0 /\ fb.missing > 0
  BY <1>1, <1>2, <1>3, Bypass
<1>4. CASE ~(ctl.parity = 0 /\ fb.missing > 0) /\ fb.missing > fb.recovered
  BY <1>1, <1>4, Burst DEF calmAfter
<1>5. CASE ~(ctl.parity = 0 /\ fb.missing > 0) /\ ~ fb.missing > fb.recovered
  BY <1>1, <1>5, Repaired DEF calmAfter
<1> QED
  BY <1>3, <1>4, <1>5

\* QUIC's counters, the path and the policy never ask for less.
LEMMA OtherMoves ==
    ASSUME IInv, ObserveTransport \/ ObservePathRTT \/ SetDataShards
    PROVE  Moves(ctl', calm) /\ calm' = calm
<1> DEFINE one == 1
           zero == 0
           up == ctl.parity + 1
<1>1. ASSUME ctl.parity = 0, ctl' = [ctl EXCEPT !.parity = one, !.zeroLoss = zero]
      PROVE  Moves(ctl', calm)
  <2>1. one \in 0 .. MaxParity /\ zero \in 0 .. LongDecreaseGroups
    BY ControllerConstants
  <2> HIDE DEF one, zero
  <2>2. /\ ctl' \in Controller /\ ctl'.parity = one /\ ctl'.interleave = ctl.interleave
        /\ ctl'.zeroLoss = zero /\ ctl'.decrease = ctl.decrease
    BY <1>1, <2>1 DEF IInv, Controller
  <2> QED
    BY <1>1, <2>2, ControllerConstants DEF Moves, IInv, Controller, one, zero
<1>2. ASSUME NEW desired \in desiredParity, desired > ctl.parity,
             ctl' = [ctl EXCEPT !.parity = up, !.decrease = zero]
      PROVE  Moves(ctl', calm)
  <2>1. up \in 0 .. MaxParity /\ zero \in Int
    BY <1>2, DesiredInRange, ControllerConstants DEF IInv, Controller
  <2> HIDE DEF up, zero
  <2>2. /\ ctl' \in Controller /\ ctl'.parity = up /\ ctl'.interleave = ctl.interleave
        /\ ctl'.zeroLoss = ctl.zeroLoss /\ ctl'.decrease = zero
    BY <1>2, <2>1 DEF IInv, Controller
  <2> QED
    BY <2>2, ControllerConstants DEF Moves, IInv, Controller, up, zero
<1>3. ASSUME ObservePathRTT PROVE Moves(ctl', calm)
  <2>1. PICK long \in BOOLEAN : ctl' = [ctl EXCEPT !.long = long]
    BY <1>3 DEF ObservePathRTT
  <2>2. /\ ctl' \in Controller /\ ctl'.parity = ctl.parity
        /\ ctl'.interleave = ctl.interleave
        /\ ctl'.zeroLoss = ctl.zeroLoss /\ ctl'.decrease = ctl.decrease
    BY <2>1 DEF IInv, Controller
  <2> QED
    BY <2>2, ControllerConstants DEF Moves, IInv, Controller
<1>4. ASSUME SetDataShards PROVE Moves(ctl', calm)
  <2>1. PICK n \in 1 .. MaxShards : ctl' = [ctl EXCEPT !.shards = n]
    BY <1>4, ControllerConstants DEF SetDataShards
  <2>2. /\ ctl' \in Controller /\ ctl'.parity = ctl.parity
        /\ ctl'.interleave = ctl.interleave
        /\ ctl'.zeroLoss = ctl.zeroLoss /\ ctl'.decrease = ctl.decrease
    BY <2>1 DEF IInv, Controller
  <2> QED
    BY <2>2, ControllerConstants DEF Moves, IInv, Controller
<1> QED
  BY <1>1, <1>2, <1>3, <1>4 DEF ObserveTransport, ObservePathRTT, SetDataShards

\* One step of the controller, whatever moved it.
LEMMA StepMoves ==
    ASSUME IInv, Next
    PROVE  Moves(ctl', calm') /\ calm' \in 0 .. DecreaseGroups
<1>1. ASSUME ObserveFeedback PROVE Moves(ctl', calm') /\ calm' \in 0 .. DecreaseGroups
  <2>1. PICK total \in 1 .. MaxShards :
          \E missing \in 0 .. total : \E recovered \in 0 .. missing :
            /\ Observe([total |-> total, missing |-> missing, recovered |-> recovered])
            /\ calm' = IF missing > recovered THEN 0 ELSE capped(calm + 1, DecreaseGroups)
    BY <1>1 DEF ObserveFeedback
  <2>2. PICK missing \in 0 .. total : \E recovered \in 0 .. missing :
            /\ Observe([total |-> total, missing |-> missing, recovered |-> recovered])
            /\ calm' = IF missing > recovered THEN 0 ELSE capped(calm + 1, DecreaseGroups)
    BY <2>1
  <2>3. PICK recovered \in 0 .. missing :
            /\ Observe([total |-> total, missing |-> missing, recovered |-> recovered])
            /\ calm' = IF missing > recovered THEN 0 ELSE capped(calm + 1, DecreaseGroups)
    BY <2>2
  <2> DEFINE fb == [total |-> total, missing |-> missing, recovered |-> recovered]
  <2>4. fb \in Feedback
    BY DEF Feedback
  <2>5. Observe(fb) /\ calm' = calmAfter(fb)
    BY <2>3 DEF calmAfter
  <2> HIDE DEF fb
  <2>6. Moves(ctl', calm')
    BY <2>4, <2>5, FeedbackMoves
  <2>7. calm' \in 0 .. DecreaseGroups
    BY <2>5, ControllerConstants DEF calmAfter, capped, IInv
  <2> QED
    BY <2>6, <2>7
<1>2. ASSUME ObserveTransport \/ ObservePathRTT \/ SetDataShards
      PROVE  Moves(ctl', calm') /\ calm' \in 0 .. DecreaseGroups
  BY <1>2, OtherMoves DEF IInv
<1> QED
  BY <1>1, <1>2 DEF Next

\* What a step keeps of the invariant, from what it may do.
LEMMA MovesKeep ==
    ASSUME Moves(ctl', calm'), calm' \in 0 .. DecreaseGroups
    PROVE  IInv'
  BY DEF Moves, IInv

\* The counters toward less parity never run ahead of the calm.
THEOREM ControllerInvariant == Spec => []IInv
<1>1. Init => IInv
  <2> SUFFICES ASSUME Init PROVE IInv
    OBVIOUS
  <2>1. PICK n \in 1 .. MaxShards : ctl = NewController(n)
    BY ControllerConstants DEF Init
  <2> QED
    BY <2>1, ControllerConstants DEF Init, IInv, Controller, NewController
<1>2. IInv /\ [Next]_vars => IInv'
  <2>1. ASSUME IInv, Next PROVE IInv'
    BY <2>1, StepMoves, MovesKeep
  <2>2. ASSUME IInv, UNCHANGED vars PROVE IInv'
    BY <2>2 DEF IInv, vars
  <2> QED
    BY <2>1, <2>2
<1> QED
  BY <1>1, <1>2, PTL DEF Spec

\* LessOnlyWhenCalm holds for any limits, windows and FEC policies.
THEOREM NeverHasty == Spec => LessOnlyWhenCalm
<1> DEFINE Step ==
      /\ ctl'.parity \in (ctl.parity - 1 .. ctl.parity + 1) \cap (0 .. MaxParity)
      /\ ctl'.interleave \in {ctl.interleave, 2 * ctl.interleave, ctl.interleave \div 2}
      /\ ctl'.interleave \in 1 .. MaxInterleave
      /\ ctl'.parity < ctl.parity => calm' >= DecreaseGroups /\ ctl'.interleave = ctl.interleave
<1>1. IInv /\ [Next]_vars => [Step]_vars
  <2> SUFFICES ASSUME IInv, Next PROVE Step
    OBVIOUS
  <2>1. Moves(ctl', calm')
    BY StepMoves
  <2>2. /\ ctl'.parity \in 0 .. MaxParity /\ ctl'.interleave \in {1, 2, 4}
        /\ ctl'.interleave <= MaxInterleave
    BY <2>1 DEF Moves, Controller
  <2> QED
    BY <2>1, <2>2, ControllerConstants DEF Moves
<1> QED
  BY <1>1, ControllerInvariant, PTL DEF Spec, LessOnlyWhenCalm
=============================================================================
