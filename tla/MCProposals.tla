----------------------------- MODULE MCProposals -----------------------------
(***************************************************************************)
(* Proposals for two researchers and two proposals.                        *)
(***************************************************************************)
EXTENDS Proposals, TLC

CONSTANTS a, b, r1, r2

TwoProposals == {a, b}
TwoResearchers == {r1, r2}

Symmetry == Permutations(Proposals) \union Permutations(Researchers)
=============================================================================
