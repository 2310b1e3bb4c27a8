----------------------------- MODULE Entitlement -----------------------------
(***************************************************************************)
(* What the evaluation ledger promises: each lineage gets one final        *)
(* evaluation, ever.  A lineage's row is created unspent, is spent by one  *)
(* thesis in one indivisible step, never changes after that, and the       *)
(* final-evaluation data is read for that thesis only, once.               *)
(***************************************************************************)
CONSTANTS Lineages, Theses, NoRow, Unspent

VARIABLES
  holder,   \* lineage -> NoRow, Unspent or the thesis that spent it
  readers   \* <<lineage, thesis>> pairs the final split was read for

vars == <<holder, readers>>

TypeOK ==
  /\ holder \in [Lineages -> Theses \union {NoRow, Unspent}]
  /\ readers \subseteq Lineages \X Theses

Init ==
  /\ holder = [l \in Lineages |-> NoRow]
  /\ readers = {}

Create(l) ==
  /\ holder[l] = NoRow
  /\ holder' = [holder EXCEPT ![l] = Unspent]
  /\ UNCHANGED readers

Spend(l, t) ==
  /\ holder[l] = Unspent
  /\ holder' = [holder EXCEPT ![l] = t]
  /\ UNCHANGED readers

ReadFinal(l, t) ==
  /\ holder[l] = t
  /\ <<l, t>> \notin readers
  /\ readers' = readers \union {<<l, t>>}
  /\ UNCHANGED holder

Next ==
  \E l \in Lineages :
    \/ Create(l)
    \/ \E t \in Theses : Spend(l, t) \/ ReadFinal(l, t)

Spec == Init /\ [][Next]_vars
=============================================================================
