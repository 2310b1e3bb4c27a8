--------------------------- MODULE MCResearchCycle ---------------------------
(***************************************************************************)
(* Instances of ResearchCycle for TLC.  Every row number is bounded by the *)
(* caps: two lineages refined once, or one refined twice.                  *)
(***************************************************************************)
EXTENDS ResearchCycle

Caps(theses_, lineages_, depth_) ==
  [theses |-> theses_, lineages |-> lineages_, depth |-> depth_]

WideAndDeep == {Caps(2, 2, 1), Caps(1, 2, 2)}
WideDeep == {Caps(2, 2, 2)}

NoFaults == {}
AllFaults == {"raise", "kill"}
=============================================================================
