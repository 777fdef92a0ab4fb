------------------------ MODULE CostAdmissionProofs ------------------------
(***************************************************************************)
(* Theorems of CostAdmission, for every choice of even thresholds, of      *)
(* starting exposures and of costs.  Everything rests on two facts about   *)
(* quantize: it moves an amount by half a micro-dollar at most (Nearest),  *)
(* and by exactly half only to an even neighbour (TieIsEven).              *)
(***************************************************************************)
EXTENDS CostAdmission, TLAPS

\* quantize moves an amount by half a micro-dollar at most.
LEMMA Nearest ==
  ASSUME NEW x \in Nat
  PROVE  /\ D(x) \in Nat
         /\ Unit * D(x) - 5 <= x
         /\ x <= Unit * D(x) + 5
  BY DEF D, Unit, Even

\* It moves an amount by exactly half only to an even micro-dollar.
LEMMA TieIsEven ==
  ASSUME NEW x \in Nat, x = Unit * D(x) + 5
  PROVE  Even(D(x))
  BY DEF D, Unit, Even

\* The three thresholds are even natural numbers, in order.
LEMMA ThresholdType ==
  ASSUME NEW class \in PaidClasses
  PROVE  /\ Ceiling(class) \in Nat
         /\ Even(Ceiling(class))
         /\ Ceiling(class) <= HardCap
  BY ThresholdsAssumption DEF Ceiling, PaidClasses

\* The last even sum below an even threshold is two below it.
LEMMA EvenGap ==
  ASSUME NEW p \in Nat, NEW q \in Nat, NEW t \in Nat,
         Even(p), Even(q), Even(t), p + q < t
  PROVE  p + q <= t - 2
  BY DEF Even

\* Two quantized amounts that stay below an even threshold were below it before
\* they were quantized: only two ties could make up for a whole micro-dollar, and
\* two ties are even and leave two micro-dollars.
LEMMA RoundedSumIsBelow ==
  ASSUME NEW x \in Nat, NEW y \in Nat, NEW t \in Nat, Even(t),
         D(x) + D(y) < t
  PROVE  x + y < Unit * t
<1>1. PICK p \in Nat, q \in Nat : p = D(x) /\ q = D(y)
  BY Nearest
<1>2. /\ x <= 10 * p + 5 /\ y <= 10 * q + 5
      /\ p + q < t
  BY <1>1, Nearest DEF Unit
<1>3. CASE x = 10 * p + 5 /\ y = 10 * q + 5
  <2>1. Even(p) /\ Even(q)
    BY <1>1, <1>3, TieIsEven DEF Unit
  <2>2. p + q <= t - 2
    BY <1>2, <2>1, EvenGap
  <2> QED BY <2>2, <1>3 DEF Unit
<1>4. CASE x # 10 * p + 5 \/ y # 10 * q + 5
  <2>1. x + y < 10 * p + 10 * q + 10
    BY <1>2, <1>4
  <2>2. p + q <= t - 1
    BY <1>2
  <2> QED BY <2>1, <2>2 DEF Unit
<1> QED BY <1>3, <1>4

\* One amount alone: its rounding goes below an even threshold only from below it.
LEMMA RoundedIsBelow ==
  ASSUME NEW x \in Nat, NEW t \in Nat, Even(t), D(x) < t
  PROVE  x < Unit * t
<1>1. D(0) = 0
  BY DEF D, Unit, Even
<1> QED BY <1>1, Nearest, RoundedSumIsBelow, D(x) + D(0) < t

\* Booking an admitted cost leaves the exposure below the cap, or as it was.
LEMMA BookingFits ==
  ASSUME NEW e \in Nat, NEW cost \in Nat, NEW class \in PaidClasses,
         NEW purpose \in Purposes,
         Admit(e, cost, class, purpose)
  PROVE  /\ e + Unit * D(cost) \in Nat
         /\ e + Unit * D(cost) < Unit * HardCap \/ e + Unit * D(cost) = e
<1>1. D(cost) \in Nat /\ D(e) \in Nat /\ HardCap \in Nat
  BY Nearest, ThresholdsAssumption
<1>2. CASE D(cost) <= 0
  BY <1>1, <1>2 DEF Unit
<1>3. CASE D(e) + D(cost) < HardCap
  <2>1. e <= 10 * D(e) + 5
    BY Nearest DEF Unit
  <2> QED BY <1>1, <1>3, <2>1 DEF Unit
<1> QED BY <1>2, <1>3 DEF Admit, Post

\* Paid work that is admitted is admitted by the reference too.
LEMMA PaidIsApproved ==
  ASSUME NEW e \in Nat, NEW cost \in Nat, NEW class \in PaidClasses,
         NEW purpose \in Purposes, Admit(e, cost, class, purpose), D(cost) > 0
  PROVE  ApprovedAdmit(e, cost, class)
<1>1. /\ D(e) < Ceiling(class)
      /\ D(e) + D(cost) < Ceiling(class)
  BY Nearest, ThresholdsAssumption DEF Admit, Post, Ceiling, PaidClasses
<1>2. e < Unit * Ceiling(class)
  BY <1>1, ThresholdType, RoundedIsBelow
<1>3. e + cost < Unit * Ceiling(class)
  BY <1>1, ThresholdType, RoundedSumIsBelow
<1> QED BY <1>2, <1>3 DEF ApprovedAdmit

\* What every reachable state satisfies.
Inv == TypeOK /\ CapHolds /\ PaidWorkIsApproved

\* The first question of a month has not been answered yet.
LEMMA InitInv == Init => Inv
  BY AmountsAssumption DEF Init, Inv, TypeOK, CapHolds, PaidWorkIsApproved,
     Questions, Purposes

\* A decision keeps the invariant.
LEMMA DecideInv ==
  ASSUME Inv, NEW cost \in Costs, NEW class \in PaidClasses,
         NEW purpose \in Purposes, Decide(cost, class, purpose)
  PROVE  Inv'
<1>1. /\ start \in Nat /\ exposure \in Nat /\ cost \in Nat
      /\ exposure < Unit * HardCap \/ exposure = start
  BY AmountsAssumption DEF Inv, TypeOK, CapHolds
<1>2. Admit(exposure, cost, class, purpose) \in BOOLEAN
  BY DEF Admit
<1>3. last' = [current |-> exposure, cost |-> cost, class |-> class, purpose |-> purpose,
               admitted |-> Admit(exposure, cost, class, purpose)]
  BY DEF Decide
<1>4. /\ start' = start
      /\ exposure' \in Nat
      /\ exposure' < Unit * HardCap \/ exposure' = exposure
  BY <1>1, BookingFits DEF Decide
<1>5. TypeOK'
  BY <1>1, <1>2, <1>3, <1>4 DEF TypeOK, Questions
<1>7. CapHolds'
  BY <1>1, <1>4 DEF CapHolds
<1>6. PaidWorkIsApproved'
  BY <1>1, <1>3, PaidIsApproved DEF PaidWorkIsApproved
<1> QED BY <1>5, <1>6, <1>7 DEF Inv

\* The invariant holds throughout.
LEMMA Invariance == Spec => []Inv
<1>1. Inv /\ [Next]_vars => Inv'
  <2> SUFFICES ASSUME Inv, [Next]_vars PROVE Inv'
    OBVIOUS
  <2>1. CASE Next
    BY <2>1, DecideInv DEF Next
  <2>2. CASE UNCHANGED vars
    BY <2>2 DEF vars, Inv, TypeOK, CapHolds, PaidWorkIsApproved
  <2> QED BY <2>1, <2>2
<1> QED BY InitInv, <1>1, PTL DEF Spec

\* No sequence of admissions adds up to the cap, or adds anything beyond it, for
\* any thresholds and amounts.
THEOREM CapTheorem == Spec => []CapHolds
  BY Invariance, PTL DEF Inv

\* Paid work is admitted only where the exact reference admits it, for any even
\* thresholds: the roundings of the code never add up to a wrong admission.
THEOREM ApprovedTheorem == Spec => []PaidWorkIsApproved
  BY Invariance, PTL DEF Inv

\* The state never lags behind the approved state, at any exposure.
THEOREM StateTheorem == Spec => []StateNeverLags
<1>1. Inv => StateNeverLags
  <2> SUFFICES ASSUME Inv PROVE StateNeverLags
    OBVIOUS
  <2>1. exposure \in Nat /\ D(exposure) \in Nat
    BY Nearest DEF Inv, TypeOK
  <2>2. \A t \in {OptionalPause, ReserveMode, HardCap} :
          t \in Nat /\ (exposure >= Unit * t => D(exposure) >= t)
    BY <2>1, ThresholdsAssumption, RoundedIsBelow DEF Unit
  <2> QED BY <2>1, <2>2, ThresholdsAssumption DEF StateNeverLags, State, ApprovedState, Unit
<1> QED BY <1>1, Invariance, PTL
=============================================================================
