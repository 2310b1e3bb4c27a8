---------------------------- MODULE MCBudgetGuard ----------------------------
(***************************************************************************)
(* BudgetGuard for two processes and two periods.                          *)
(***************************************************************************)
EXTENDS BudgetGuard, TLC

CONSTANTS p1, p2

TwoProcesses == {p1, p2}

BothKinds == {"llm", "vendor_request"}
SmallLimits == [k \in BothKinds |-> IF k = "llm" THEN 1 ELSE 0]

\* A model call that is retried once, and a probe of three pages.
FewCalls == [k \in BothKinds |-> IF k = "llm" THEN 2 ELSE 3]

Symmetry == Permutations(Processes)
=============================================================================
