------------------------------ MODULE MCOpsTick ------------------------------
(***************************************************************************)
(* OpsTick for one tick at a time and for two that overlap.                *)
(***************************************************************************)
EXTENDS OpsTick, TLC

CONSTANTS p1, p2, f1

OneTick == {p1}
TwoTicks == {p1, p2}
OneFeed == {f1}

AllFaults == {"vendor", "raise", "kill"}
VendorFaults == {"vendor"}

Symmetry == Permutations(Ticks)
=============================================================================
