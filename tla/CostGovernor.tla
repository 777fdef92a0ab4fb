---------------------------- MODULE CostGovernor ----------------------------
(***************************************************************************)
(* The arithmetic of admission (costs.py) and the approved reference it    *)
(* has to follow (HONOR_C00_VALIDATION.py, HONOR_COST_GOVERNOR.json).      *)
(*                                                                         *)
(* A raw amount is a Decimal that a caller passes in, here a whole number  *)
(* of steps, Unit of them to a micro-dollar.  The code quantizes it with   *)
(* the default context, half to even, before it compares; the reference    *)
(* compares what it is given.  Thresholds are in micro-dollars; those of   *)
(* the code are whole cents and therefore even.                            *)
(***************************************************************************)
EXTENDS Integers

CONSTANTS OptionalPause, ReserveMode, HardCap

Even(n) == n % 2 = 0

ASSUME ThresholdsAssumption ==
  /\ {OptionalPause, ReserveMode, HardCap} \subseteq {n \in Nat : Even(n)}
  /\ 0 < OptionalPause
  /\ OptionalPause < ReserveMode
  /\ ReserveMode < HardCap

Unit == 10

States == {"NORMAL", "OPTIONAL_PAUSED", "RESERVE", "HARD_STOP"}
PaidClasses == {"OPTIONAL", "CORE_REQUIRED", "EMERGENCY_ALLOWED"}
EmergencyPurposes == {"recovery", "security", "reconciliation"}
Purposes == EmergencyPurposes \cup {""}

-----------------------------------------------------------------------------
(* The code.                                                               *)

\* Mutant of D: ties go down.
DHalfDown(raw) ==
  LET q == raw \div Unit  rest == 2 * (raw % Unit)
  IN IF rest > Unit THEN q + 1 ELSE q

\* quantize: the nearest micro-dollar, of two the even one.
D(raw) ==
  LET q == raw \div Unit  rest == 2 * (raw % Unit)
  IN IF rest > Unit \/ (rest = Unit /\ ~Even(q)) THEN q + 1 ELSE q

\* Mutant of State: the bounds are inclusive.
StateInclusive(exposure) ==
  CASE D(exposure) <= OptionalPause -> "NORMAL"
    [] D(exposure) > OptionalPause /\ D(exposure) <= ReserveMode -> "OPTIONAL_PAUSED"
    [] D(exposure) > ReserveMode /\ D(exposure) <= HardCap -> "RESERVE"
    [] D(exposure) > HardCap -> "HARD_STOP"

State(exposure) ==
  CASE D(exposure) < OptionalPause -> "NORMAL"
    [] D(exposure) >= OptionalPause /\ D(exposure) < ReserveMode -> "OPTIONAL_PAUSED"
    [] D(exposure) >= ReserveMode /\ D(exposure) < HardCap -> "RESERVE"
    [] D(exposure) >= HardCap -> "HARD_STOP"

\* What is left of an exposure once the reservation is counted in; both are
\* quantized first, so that their sum is exact.
Post(current, reservation) == D(current) + D(reservation)

\* Mutant of Admit: the sum is compared inclusively.
AdmitInclusive(current, reservation, class, purpose) ==
  \/ D(reservation) <= 0
  \/ class = "OPTIONAL" /\ Post(current, reservation) <= OptionalPause
  \/ class = "CORE_REQUIRED" /\ Post(current, reservation) <= ReserveMode
  \/ /\ class = "EMERGENCY_ALLOWED"
     /\ purpose \in EmergencyPurposes
     /\ Post(current, reservation) <= HardCap

\* What costs nothing is admitted before any threshold is looked at.
Admit(current, reservation, class, purpose) ==
  \/ D(reservation) <= 0
  \/ /\ D(current) < HardCap /\ Post(current, reservation) < HardCap
     /\ \/ /\ class = "OPTIONAL"
           /\ D(current) < OptionalPause /\ Post(current, reservation) < OptionalPause
        \/ /\ class = "CORE_REQUIRED"
           /\ D(current) < ReserveMode /\ Post(current, reservation) < ReserveMode
        \/ class = "EMERGENCY_ALLOWED" /\ purpose \in EmergencyPurposes

\* Prepaid credit that is already counted covers the work; the excess is exposure.
UnfundedReservation(maxIncremental, remainingCredit) ==
  LET excess == D(maxIncremental) - D(remainingCredit)
  IN IF excess > 0 THEN excess ELSE 0

-----------------------------------------------------------------------------
(* The approved reference, on exact amounts.                               *)

ApprovedState(exposure) ==
  CASE exposure < Unit * OptionalPause -> "NORMAL"
    [] exposure >= Unit * OptionalPause /\ exposure < Unit * ReserveMode -> "OPTIONAL_PAUSED"
    [] exposure >= Unit * ReserveMode /\ exposure < Unit * HardCap -> "RESERVE"
    [] exposure >= Unit * HardCap -> "HARD_STOP"

\* The threshold below which a class has to stay.
Ceiling(class) ==
  CASE class = "OPTIONAL" -> OptionalPause
    [] class = "CORE_REQUIRED" -> ReserveMode
    [] class = "EMERGENCY_ALLOWED" -> HardCap

ApprovedAdmit(current, cost, class) ==
  /\ current < Unit * Ceiling(class)
  /\ current + cost < Unit * Ceiling(class)
=============================================================================
