--------------------------- MODULE MCCostLedger ---------------------------
(* The meanings m1 and m2 are of the same service and job, m3 is not: a       *)
(* usage report may come again with other units or about something else.      *)
EXTENDS CostLedger

CONSTANTS m1, m2, m3

MCMeanings == {m1, m2, m3}
MCSubject == [m \in MCMeanings |-> IF m = m3 THEN m3 ELSE m1]
=============================================================================
