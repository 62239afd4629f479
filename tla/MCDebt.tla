-------------------------------- MODULE MCDebt --------------------------------
(* Instances of Debt for TLC: how many faults of each kind a run has. *)
EXTENDS Debt, TLC

EveryFault == [f \in Faults |-> 1]

\* A request dies; every other fault of a race looks like that or like a miss.
OneAbandon == [f \in Faults |-> IF f = "abandon" THEN 1 ELSE 0]

\* Requests are alike until they arrive.
RequestSymmetry == Permutations(Requests)
==============================================================================
