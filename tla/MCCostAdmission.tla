--------------------------- MODULE MCCostAdmission ---------------------------
(* A scale of a few micro-dollars, with every raw amount on it up to two      *)
(* micro-dollars past the cap, and costs on both sides of every tie.          *)
EXTENDS CostAdmission

MCExposures == 0 .. (Unit * (HardCap + 2))
MCCosts == 0 .. (Unit + 6)
=============================================================================
