-------------------------- MODULE MCEvaluationLedger --------------------------
(***************************************************************************)
(* Two processes that spend for two theses of one lineage, or of two.      *)
(***************************************************************************)
EXTENDS EvaluationLedger

CONSTANTS c1, c2, l1, l2, t1, t2

TwoCallers == {c1, c2}
TwoTheses == {t1, t2}
TwoLineages == {l1, l2}
=============================================================================
