------------------------ MODULE DriftRegulationProofs ------------------------
(***************************************************************************)
(* Proofs about DriftRegulation for every target, tolerance, correction,   *)
(* IO buffer and jitter within the assumptions of its modules.             *)
(***************************************************************************)
EXTENDS DriftRegulation, TLAPS

\* The constants, as the provers want them.
LEMMA ConstantTypes ==
  /\ TargetFill \in Nat /\ Tolerance \in Nat /\ MaxCorrection \in Nat
  /\ Capacity \in Nat /\ IOFrames \in Nat /\ Jitter \in Nat /\ MaxDisturbances \in Nat
  /\ MaxCorrection > 0 /\ IOFrames > MaxCorrection /\ Jitter <= MaxCorrection
  /\ Capacity >= TargetFill + Tolerance + IOFrames + Jitter
BY RegulationAssumption, DriftAssumption

\* What one regulated read does with the fill: too full, it drops up to
\* MaxCorrection frames but not below the target; too empty, it takes up to
\* MaxCorrection frames less; in the band it takes what was asked.
LEMMA ReadCases ==
  ASSUME TypeOK
  PROVE  /\ Drop \in Nat /\ Want \in Nat /\ Real \in Nat
         /\ Drop + Real <= fill /\ Real <= Want /\ Want <= IOFrames
         /\ Real = Want \/ Real = fill - Drop
         /\ \/ /\ fill > TargetFill + Tolerance /\ Want = IOFrames
               /\ Drop = MaxCorrection \/ Drop = fill - TargetFill
               /\ fill - Drop >= TargetFill
            \/ /\ fill + Tolerance < TargetFill /\ Drop = 0
               /\ Want = IOFrames - MaxCorrection \/ Want = IOFrames - (TargetFill - fill)
            \/ /\ fill <= TargetFill + Tolerance /\ fill + Tolerance >= TargetFill
               /\ Drop = 0 /\ Want = IOFrames
<1>0. fill \in Nat
  BY ConstantTypes DEF TypeOK
<1>1. CASE fill > TargetFill + Tolerance
  <2>1. Want = IOFrames /\ Drop = MinOf(fill - TargetFill, MaxCorrection)
    BY <1>1, <1>0, ConstantTypes DEF Want, Drop, TooFull, DropOf
  <2> HIDE DEF Want, Drop
  <2>2. /\ Drop \in Nat /\ fill - Drop >= TargetFill
        /\ Drop = MaxCorrection \/ Drop = fill - TargetFill
    BY <2>1, <1>0, <1>1, ConstantTypes DEF MinOf
  <2>3. /\ Real \in Nat /\ Drop + Real <= fill /\ Real <= Want
        /\ Real = Want \/ Real = fill - Drop
    BY <2>1, <2>2, <1>0, ConstantTypes DEF Real, MinOf
  <2> QED BY <1>1, <2>1, <2>2, <2>3, ConstantTypes
<1>2. CASE fill + Tolerance < TargetFill
  <2>1. Drop = 0
    BY <1>2, <1>0, ConstantTypes DEF Drop, TooFull
  <2>2. Want = IOFrames - MinOf(MinOf(TargetFill - fill, MaxCorrection), IOFrames)
    BY <1>2, <1>0, ConstantTypes DEF Want, TooFull, InsertOf, TooEmpty
  <2> HIDE DEF Want, Drop
  <2>3. /\ Want \in Nat /\ Want <= IOFrames
        /\ Want = IOFrames - MaxCorrection \/ Want = IOFrames - (TargetFill - fill)
    BY <2>2, <1>2, <1>0, ConstantTypes DEF MinOf
  <2>4. /\ Real \in Nat /\ Drop + Real <= fill /\ Real <= Want
        /\ Real = Want \/ Real = fill - Drop
    BY <2>1, <2>3, <1>0, ConstantTypes DEF Real, MinOf
  <2> QED BY <1>2, <2>1, <2>3, <2>4, ConstantTypes
<1>3. CASE fill <= TargetFill + Tolerance /\ fill + Tolerance >= TargetFill
  <2>1. Drop = 0
    BY <1>3, <1>0, ConstantTypes DEF Drop, TooFull
  <2>2. Want = IOFrames
    BY <1>3, <1>0, ConstantTypes DEF Want, TooFull, InsertOf, TooEmpty
  <2> HIDE DEF Want, Drop
  <2>3. /\ Real \in Nat /\ Drop + Real <= fill /\ Real <= Want
        /\ Real = Want \/ Real = fill - Drop
    BY <2>1, <2>2, <1>0, ConstantTypes DEF Real, MinOf
  <2> QED BY <1>3, <2>1, <2>2, <2>3, ConstantTypes
<1> QED BY <1>0, <1>1, <1>2, <1>3, ConstantTypes

LEMMA NextType == TypeOK /\ [Next]_vars => TypeOK'
<1> SUFFICES ASSUME TypeOK, [Next]_vars PROVE TypeOK'
  OBVIOUS
<1>0. fill \in Nat /\ fill <= Capacity
  BY ConstantTypes DEF TypeOK
<1>1. CASE Read
  <2>1. fill' \in 0 .. Capacity
    BY <1>1, <1>0, ReadCases, ConstantTypes DEF Read
  <2> QED BY <1>1, <2>1 DEF Read, TypeOK
<1>2. ASSUME NEW frames \in IOFrames - Jitter .. IOFrames + Jitter, Write(frames)
      PROVE  TypeOK'
  <2>1. fill' \in 0 .. Capacity
    BY <1>2, <1>0, ConstantTypes DEF Write
  <2> QED BY <1>2, <2>1 DEF Write, TypeOK
<1>3. CASE Lose \/ Miss
  <2>1. disturbances' \in 0 .. MaxDisturbances
    BY <1>3, ConstantTypes DEF Lose, Miss, TypeOK
  <2> QED BY <1>3, <2>1 DEF Lose, Miss, TypeOK
<1>4. CASE UNCHANGED vars
  BY <1>4 DEF vars, TypeOK
<1> QED BY <1>1, <1>2, <1>3, <1>4 DEF Next, Cycle

\* The fill always is a number of frames the ring can hold.
THEOREM TypeCorrect == Spec => []TypeOK
<1>1. Init => TypeOK
  <2>1. 0 .. TargetFill \subseteq 0 .. Capacity /\ 0 \in 0 .. MaxDisturbances
    BY ConstantTypes
  <2> QED BY <2>1 DEF Init, TypeOK
<1> QED BY <1>1, NextType, PTL DEF Spec

\* A source faster than the host, by any pattern of up to MaxCorrection frames a
\* cycle, is absorbed without an overrun, for every setting of the constants.
THEOREM FastSourceBounded == Spec => FastSourceAbsorbed
<1> DEFINE Kept == BelowCeiling /\ disturbances' = disturbances
                     => BelowCeiling' /\ event' # "overrun"
<1>1. TypeOK /\ [Next]_vars => [Kept]_vars
  <2> SUFFICES ASSUME TypeOK, Next, BelowCeiling, disturbances' = disturbances
               PROVE  BelowCeiling' /\ event' # "overrun"
    OBVIOUS
  <2>0. fill \in Nat
    BY ConstantTypes DEF TypeOK
  <2>1. CASE Read
    <3>1. fill <= TargetFill + Tolerance + IOFrames + Jitter
      BY <2>1, <2>0, ConstantTypes DEF Read, BelowCeiling
    <3>2. fill' = fill - Drop - Real /\ phase' = "write" /\ event' # "overrun"
      BY <2>1 DEF Read
    <3>3. fill' <= TargetFill + Tolerance
      BY <3>1, <3>2, <2>0, ReadCases, ConstantTypes
    <3> QED BY <3>2, <3>3, <2>0, ReadCases, ConstantTypes DEF BelowCeiling
  <2>2. ASSUME NEW frames \in IOFrames - Jitter .. IOFrames + Jitter, Write(frames)
        PROVE  BelowCeiling' /\ event' # "overrun"
    <3>1. fill <= TargetFill + Tolerance
      BY <2>2, <2>0, ConstantTypes DEF Write, BelowCeiling
    <3>2. ~(frames > Capacity - fill)
      BY <3>1, <2>0, ConstantTypes
    <3> QED BY <2>2, <3>1, <3>2, <2>0, ConstantTypes DEF Write, BelowCeiling
  <2>3. CASE Lose \/ Miss
    BY <2>3, ConstantTypes DEF Lose, Miss, TypeOK
  <2> QED BY <2>1, <2>2, <2>3 DEF Next, Cycle
<1> QED BY <1>1, TypeCorrect, PTL DEF Spec, FastSourceAbsorbed

\* A source slower than the host, by any pattern of up to MaxCorrection frames a
\* cycle, is absorbed without an underrun once the fill has reached the band,
\* provided the IO buffer fits below the band.
THEOREM SlowSourceBounded == Headroom => (Spec => SlowSourceAbsorbed)
<1> SUFFICES ASSUME Headroom PROVE Spec => SlowSourceAbsorbed
  OBVIOUS
<1> DEFINE Kept == AboveFloor /\ disturbances' = disturbances
                     => AboveFloor' /\ event' # "underrun"
<1>1. TypeOK /\ [Next]_vars => [Kept]_vars
  <2> SUFFICES ASSUME TypeOK, Next, AboveFloor, disturbances' = disturbances
               PROVE  AboveFloor' /\ event' # "underrun"
    OBVIOUS
  <2>0. fill \in Nat /\ IOFrames <= TargetFill - Tolerance
    BY ConstantTypes DEF TypeOK, Headroom
  <2>1. CASE Read
    <3>1. fill >= TargetFill - Tolerance - Jitter
      BY <2>1 DEF Read, AboveFloor
    <3>2. fill' = fill - Drop - Real /\ phase' = "write" /\ event' = IF Real < Want THEN "underrun" ELSE "none"
      BY <2>1 DEF Read
    <3>3. Real = Want
      BY <3>1, <2>0, ReadCases, ConstantTypes
    <3>4. fill' >= TargetFill - Tolerance - IOFrames
      BY <3>1, <3>2, <3>3, <2>0, ReadCases, ConstantTypes
    <3> QED BY <3>2, <3>3, <3>4, ReadCases DEF AboveFloor
  <2>2. ASSUME NEW frames \in IOFrames - Jitter .. IOFrames + Jitter, Write(frames)
        PROVE  AboveFloor' /\ event' # "underrun"
    <3>1. fill >= TargetFill - Tolerance - IOFrames
      BY <2>2, <2>0, ConstantTypes DEF Write, AboveFloor
    <3>2. fill' >= TargetFill - Tolerance - Jitter
      BY <2>2, <3>1, <2>0, ConstantTypes DEF Write
    <3> QED BY <2>2, <3>2 DEF Write, AboveFloor
  <2>3. CASE Lose \/ Miss
    BY <2>3, ConstantTypes DEF Lose, Miss, TypeOK
  <2> QED BY <2>1, <2>2, <2>3 DEF Next, Cycle
<1> QED BY <1>1, TypeCorrect, PTL DEF Spec, SlowSourceAbsorbed
=============================================================================
