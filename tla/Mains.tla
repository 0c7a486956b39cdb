------------------------------- MODULE Mains -------------------------------
(***************************************************************************)
(* Which conductors a step of the load is on: domain/mains.py.             *)
(*                                                                         *)
(* A label is the set of conductors it names: {} for "-", {1} for "L1",    *)
(* {1, 3} for "L1-L3", {1, 2, 3} for "3-phase".  Currents are in           *)
(* hundredths of an ampere.                                                *)
(***************************************************************************)
EXTENDS Integers

Conductor == 1 .. 3

\* normalize_mains_network_type: whatever is not IT is TN.
NetworkType(value) == IF value = "IT" THEN "IT" ELSE "TN"

SwitchSlots(net) ==
  IF NetworkType(net) = "IT" THEN <<{1, 2}, {1, 3}, {2, 3}>> ELSE <<{1}, {2}, {3}>>

ThreePhase == {1, 2, 3}

Mag(delta, p) == IF delta[p] < 0 THEN -delta[p] ELSE delta[p]

\* The conductors by the size of their step; Python's sort is stable.
Ordered(delta) ==
  CHOOSE s \in [Conductor -> Conductor] :
    \A i, j \in Conductor : i < j =>
      \/ Mag(delta, s[i]) > Mag(delta, s[j])
      \/ Mag(delta, s[i]) = Mag(delta, s[j]) /\ s[i] < s[j]

classify_phase_delta(delta, net) ==
  LET s == Ordered(delta)
      top == Mag(delta, s[1])
      second == Mag(delta, s[2])
      third == Mag(delta, s[3])
      Noise == top < 20
      All == third > 40 /\ 100 * third > 55 * top
      Pair == /\ NetworkType(net) = "IT"
              /\ second > 35 /\ 100 * second > 55 * top /\ 100 * third < 38 * top
  IN CASE Noise -> {}
       [] ~Noise /\ All -> ThreePhase
       [] ~Noise /\ ~All /\ Pair -> {s[1], s[2]}
       [] OTHER -> {s[1]}
=============================================================================
