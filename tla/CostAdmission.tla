--------------------------- MODULE CostAdmission ---------------------------
(***************************************************************************)
(* Admission as a sequence of decisions: a dispatcher asks for a piece of  *)
(* paid work, admit decides, and what is admitted is booked at once, as    *)
(* the ledger books it, before the next question.  No code joins the two   *)
(* yet; how the booking itself may be disturbed is CostLedger's subject.   *)
(***************************************************************************)
EXTENDS CostGovernor

CONSTANTS Exposures,   \* raw exposures that the month has at the first question:
                       \* any, what was spent elsewhere may have passed the cap
          Costs        \* raw costs that are asked for

ASSUME AmountsAssumption ==
  /\ Exposures \subseteq Nat
  /\ Costs \subseteq Nat

VARIABLES start,       \* the raw exposure at the first question
          exposure,    \* the raw exposure
          last         \* the last question and its answer

vars == <<start, exposure, last>>

Questions == [current : Nat, cost : Costs, class : PaidClasses, purpose : Purposes,
              admitted : BOOLEAN]

Init ==
  /\ start \in Exposures
  /\ exposure = start
  /\ last \in [current : {exposure}, cost : Costs, class : PaidClasses,
               purpose : {""}, admitted : {FALSE}]

\* An admitted cost is booked as the ledger stores it, quantized.
Decide(cost, class, purpose) ==
  LET ok == Admit(exposure, cost, class, purpose)
  IN /\ last' = [current |-> exposure, cost |-> cost, class |-> class,
                 purpose |-> purpose, admitted |-> ok]
     /\ exposure' = IF ok THEN exposure + Unit * D(cost) ELSE exposure
     /\ UNCHANGED start

Next ==
  \E cost \in Costs, class \in PaidClasses, purpose \in Purposes :
    Decide(cost, class, purpose)

Spec == Init /\ [][Next]_vars

-----------------------------------------------------------------------------
(* Properties.                                                             *)

\* The variables have their types.
TypeOK ==
  /\ {start, exposure} \subseteq Nat
  /\ last \in Questions

\* The cap holds for the whole month, whatever the order and the classes of the
\* questions: no sequence of admissions adds up to HardCap, in exact arithmetic,
\* although every single decision rounds its amounts; and to a month that has
\* reached the cap already, admissions add nothing.
CapHolds == exposure < Unit * HardCap \/ exposure = start

\* Paid work is admitted only where the approved reference, which compares exact
\* amounts, admits it: no pair of roundings adds up to a wrong decision.  It rests
\* on thresholds that are even in micro-dollars, and on ties that go to the even
\* neighbour: with ties that go down two halves would slip under a threshold.
PaidWorkIsApproved ==
  last.admitted /\ D(last.cost) > 0
    => ApprovedAdmit(last.current, last.cost, last.class)

\* The state never lags behind the approved one, below the cap and past it:
\* rounding may announce a pause or the stop early, never late.
StateNeverLags ==
  /\ ApprovedState(exposure) = "OPTIONAL_PAUSED" => State(exposure) # "NORMAL"
  /\ ApprovedState(exposure) = "RESERVE" => State(exposure) \in {"RESERVE", "HARD_STOP"}
  /\ ApprovedState(exposure) = "HARD_STOP" => State(exposure) = "HARD_STOP"
=============================================================================
