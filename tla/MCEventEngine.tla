--------------------------- MODULE MCEventEngine ---------------------------
(* EventEngine with two phases: a good reading, one phase gone, one phase  *)
(* low, a load that also makes the voltage sag, and an export.             *)
EXTENDS EventEngine

MCPhase == {"L1", "L2"}

V(l1, l2) == [ph \in MCPhase |-> IF ph = "L1" THEN l1 ELSE l2]

MCReadings == {
  [volts |-> V(230, 230), watts |-> 0, label |-> "-"],
  [volts |-> V(0, 230), watts |-> 0, label |-> "-"],
  [volts |-> V(150, 230), watts |-> 0, label |-> "-"],
  [volts |-> V(230, 215), watts |-> -1500, label |-> "L2"],
  [volts |-> V(230, 230), watts |-> 900, label |-> "L2"]}
=============================================================================
