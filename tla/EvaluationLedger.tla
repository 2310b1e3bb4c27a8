-------------------------- MODULE EvaluationLedger --------------------------
(***************************************************************************)
(* datastore/ledger.py under concurrent callers: several processes share   *)
(* one SQLite file, each call opens its own connection, and spend runs     *)
(* BEGIN IMMEDIATE, UPDATE, SELECT, INSERT and COMMIT as separate          *)
(* statements.  SQLite grants the write lock to one connection at a time;  *)
(* what a transaction has written is seen by the others only after COMMIT  *)
(* and is dropped when the process dies or the connection closes first.    *)
(*                                                                         *)
(* A caller is a process that spends for one thesis of one lineage after   *)
(* another, and reads the final-evaluation split when it was granted, as   *)
(* BacktestingService.run_final_evaluation does.                           *)
(***************************************************************************)
EXTENDS Integers, FiniteSets

CONSTANTS
  Callers,     \* processes that share the database file
  Lineages, Theses,
  NoRow, Unspent, None,
  MaxAttempts  \* bound: spends each caller starts

ASSUME LedgerAssumption ==
  /\ NoRow # Unspent
  /\ {NoRow, Unspent, None} \intersect Theses = {}
  /\ None \notin Lineages \union Callers
  /\ MaxAttempts \in Nat

VARIABLES
  db,        \* committed evaluation_ledger: lineage -> NoRow, Unspent or a thesis
  refused,   \* committed ledger_refusals: <<lineage, thesis>> rows
  lock,      \* the caller that holds SQLite's write lock, or None
  staged,    \* caller -> what its open transaction has written
  pc,        \* caller -> statement it executes next
  lineage, thesis,  \* caller -> arguments of its call
  attempts,  \* caller -> calls started
  readers,   \* history: <<lineage, thesis>> the final split was read for
  granted    \* history: <<caller, lineage, thesis>> calls that returned GRANTED

call == <<lineage, thesis, attempts>>
vars == <<db, refused, lock, staged, pc, call, readers, granted>>

Clean == "nothing"

TypeOK ==
  /\ db \in [Lineages -> Theses \union {NoRow, Unspent}]
  /\ refused \subseteq Lineages \X Theses
  /\ lock \in Callers \union {None}
  /\ staged \in [Callers -> {Clean, "spent", "refusal"}]
  /\ pc \in [Callers -> {"idle", "begin", "update", "select", "commit_spend",
                         "commit_refusal", "granted", "refused", "error", "dead"}]
  /\ lineage \in [Callers -> Lineages \union {None}]
  /\ thesis \in [Callers -> Theses \union {None}]
  /\ attempts \in [Callers -> Nat]
  /\ readers \subseteq Lineages \X Theses
  /\ granted \subseteq Callers \X Lineages \X Theses

Init ==
  /\ db = [l \in Lineages |-> NoRow]
  /\ refused = {}
  /\ lock = None
  /\ staged = [c \in Callers |-> Clean]
  /\ pc = [c \in Callers |-> "idle"]
  /\ lineage = [c \in Callers |-> None]
  /\ thesis = [c \in Callers |-> None]
  /\ attempts = [c \in Callers |-> 0]
  /\ readers = {} /\ granted = {}

Goto(c, place) == pc' = [pc EXCEPT ![c] = place]
Stage(c, what) == staged' = [staged EXCEPT ![c] = what]
Release(c) == lock' = IF lock = c THEN None ELSE lock

-----------------------------------------------------------------------------
\* INSERT OR IGNORE in autocommit mode: one statement, idempotent.
Create(c, l) ==
  /\ pc[c] = "idle"
  /\ lock = None
  /\ db[l] = NoRow
  /\ db' = [db EXCEPT ![l] = Unspent]
  /\ UNCHANGED <<refused, lock, staged, pc, call, readers, granted>>

Call(c, l, t) ==
  /\ pc[c] = "idle"
  /\ attempts[c] < MaxAttempts
  /\ lineage' = [lineage EXCEPT ![c] = l]
  /\ thesis' = [thesis EXCEPT ![c] = t]
  /\ attempts' = [attempts EXCEPT ![c] = @ + 1]
  /\ Goto(c, "begin")
  /\ UNCHANGED <<db, refused, lock, staged, readers, granted>>

BeginImmediate(c) ==
  /\ pc[c] = "begin"
  /\ lock = None
  /\ lock' = c
  /\ Goto(c, "update")
  /\ UNCHANGED <<db, refused, staged, call, readers, granted>>

\* timeout=30: the lock stayed busy and sqlite3 raises OperationalError.
BusyTimeout(c) ==
  /\ pc[c] = "begin"
  /\ lock # None
  /\ Goto(c, "error")
  /\ UNCHANGED <<db, refused, lock, staged, call, readers, granted>>

\* Mutant: the UPDATE is repeated until it matches a row.
UpdateUntilMatched(c) ==
  /\ pc[c] = "update"
  /\ db[lineage[c]] = Unspent
  /\ Stage(c, "spent") /\ Goto(c, "commit_spend")
  /\ UNCHANGED <<db, refused, lock, call, readers, granted>>

\* UPDATE ... WHERE lineage_id = ? AND spent = 0; rowcount says whether it matched.
Update(c) ==
  /\ pc[c] = "update"
  /\ IF db[lineage[c]] = Unspent
       THEN Stage(c, "spent") /\ Goto(c, "commit_spend")
       ELSE UNCHANGED staged /\ Goto(c, "select")
  /\ UNCHANGED <<db, refused, lock, call, readers, granted>>

\* Mutant: the thesis that has spent its lineage is granted it again.
SelectGrantsAgain(c) ==
  /\ pc[c] = "select"
  /\ IF db[lineage[c]] \in {NoRow, thesis[c]}
       THEN /\ Goto(c, IF db[lineage[c]] = NoRow THEN "error" ELSE "granted")
            /\ Release(c) /\ UNCHANGED staged
       ELSE Stage(c, "refusal") /\ Goto(c, "commit_refusal") /\ UNCHANGED lock
  /\ UNCHANGED <<db, refused, call, readers, granted>>

\* No row: ROLLBACK and LookupError.  Otherwise the refusal is inserted.
Select(c) ==
  /\ pc[c] = "select"
  /\ IF db[lineage[c]] = NoRow
       THEN Goto(c, "error") /\ Release(c) /\ UNCHANGED staged
       ELSE Stage(c, "refusal") /\ Goto(c, "commit_refusal") /\ UNCHANGED lock
  /\ UNCHANGED <<db, refused, call, readers, granted>>

\* Mutant: the UPDATE has no lineage_id in its WHERE clause.
CommitSpendEveryRow(c) ==
  /\ pc[c] = "commit_spend"
  /\ db' = [l \in Lineages |-> IF db[l] = Unspent THEN thesis[c] ELSE db[l]]
  /\ granted' = granted \union {<<c, lineage[c], thesis[c]>>}
  /\ Stage(c, Clean)
  /\ Release(c)
  /\ Goto(c, "granted")
  /\ UNCHANGED <<refused, call, readers>>

CommitSpend(c) ==
  /\ pc[c] = "commit_spend"
  /\ db' = [db EXCEPT ![lineage[c]] = thesis[c]]
  /\ granted' = granted \union {<<c, lineage[c], thesis[c]>>}
  /\ Stage(c, Clean)
  /\ Release(c)
  /\ Goto(c, "granted")
  /\ UNCHANGED <<refused, call, readers>>

CommitRefusal(c) ==
  /\ pc[c] = "commit_refusal"
  /\ refused' = refused \union {<<lineage[c], thesis[c]>>}
  /\ Stage(c, Clean)
  /\ Release(c)
  /\ Goto(c, "refused")
  /\ UNCHANGED <<db, call, readers, granted>>

\* Mutant: an OperationalError of the COMMIT is ignored and GRANTED is returned.
CommitBusyGrants(c) ==
  /\ pc[c] = "commit_spend"
  /\ granted' = granted \union {<<c, lineage[c], thesis[c]>>}
  /\ Stage(c, Clean)
  /\ Release(c)
  /\ Goto(c, "granted")
  /\ UNCHANGED <<db, refused, call, readers>>

\* Mutant: the same for a refusal, which is then not on record.
CommitBusyRefuses(c) ==
  /\ pc[c] = "commit_refusal"
  /\ Stage(c, Clean)
  /\ Release(c)
  /\ Goto(c, "refused")
  /\ UNCHANGED <<db, refused, call, readers, granted>>

\* COMMIT waits for readers too and may time out; conn.close() then rolls back.
CommitBusy(c) ==
  /\ pc[c] \in {"commit_spend", "commit_refusal"}
  /\ Stage(c, Clean)
  /\ Release(c)
  /\ Goto(c, "error")
  /\ UNCHANGED <<db, refused, call, readers, granted>>

\* run_final_evaluation reads the split after GRANTED and is done.
ReadFinal(c) ==
  /\ pc[c] = "granted"
  /\ readers' = readers \union {<<lineage[c], thesis[c]>>}
  /\ Goto(c, "idle")
  /\ UNCHANGED <<db, refused, lock, staged, call, granted>>

\* A refused or failed call reads nothing.
Return(c) ==
  /\ pc[c] \in {"refused", "error"}
  /\ Goto(c, "idle")
  /\ UNCHANGED <<db, refused, lock, staged, call, readers, granted>>

\* The process is killed: its transaction is rolled back, its lock released.
Kill(c) ==
  /\ pc[c] # "dead"
  /\ Stage(c, Clean)
  /\ Release(c)
  /\ Goto(c, "dead")
  /\ UNCHANGED <<db, refused, call, readers, granted>>

Restart(c) ==
  /\ pc[c] = "dead"
  /\ Goto(c, "idle")
  /\ UNCHANGED <<db, refused, lock, staged, call, readers, granted>>

SpendStep(c) ==
  \/ BeginImmediate(c) \/ Update(c) \/ Select(c) \/ CommitSpend(c) \/ CommitRefusal(c)
  \/ ReadFinal(c) \/ Return(c)

Next ==
  \E c \in Callers :
    \/ SpendStep(c) \/ BusyTimeout(c) \/ CommitBusy(c) \/ Kill(c) \/ Restart(c)
    \/ \E l \in Lineages : Create(c, l)
    \/ \E l \in Lineages, t \in Theses : Call(c, l, t)

Spec == Init /\ [][Next]_vars

\* Statements of a live process are executed, and a wait for the lock ends by getting it
\* or by the connection's timeout.
FairSpec == Spec /\ \A c \in Callers : WF_vars(SpendStep(c) \/ BusyTimeout(c))

-----------------------------------------------------------------------------
(***************************************************************************)
(* Properties.                                                             *)
(***************************************************************************)

InTransaction == {"update", "select", "commit_spend", "commit_refusal"}

\* However the calls interleave and whichever processes die, at most one call per
\* lineage ever returned GRANTED, and the committed row names that call's thesis.
OneGrantPerLineage ==
  \A g \in granted :
    /\ db[g[2]] = g[3]
    /\ \A h \in granted : h[2] = g[2] => h = g

\* A refusal on record was a true one: the lineage had been spent by then, and a caller
\* that was told REFUSED finds its refusal on record (FR-019, FR-026).
RefusalsAreTrue ==
  /\ \A r \in refused : db[r[1]] \in Theses
  /\ \A c \in Callers : pc[c] = "refused" => <<lineage[c], thesis[c]>> \in refused

\* Between the UPDATE and the COMMIT no other connection can change what the
\* transaction saw: the row it is about to spend is still unspent, the row it is about
\* to report as spent still is.
TransactionSeesCurrentRow ==
  \A c \in Callers :
    /\ pc[c] = "commit_spend" => db[lineage[c]] = Unspent
    /\ pc[c] = "commit_refusal" => db[lineage[c]] \in Theses

\* The final split is read only for a thesis that holds its lineage's entitlement, and
\* once: who comes back from spend with GRANTED to read it finds that nobody has, its own
\* thesis of an earlier call included, however calls are killed and repeated.
ReadsAreEntitled ==
  /\ \A r \in readers : db[r[1]] = r[2]
  /\ \A c \in Callers : pc[c] = "granted" => <<lineage[c], thesis[c]>> \notin readers

\* The statements implement the indivisible operations of Entitlement.
Abstract == INSTANCE Entitlement WITH holder <- db, readers <- readers
ImplementsEntitlement == Abstract!Spec

\* A call returns, is refused, fails or dies with its process: nobody waits for ever.
CallsReturn ==
  \A c \in Callers :
    pc[c] = "begin" ~> pc[c] \in {"granted", "refused", "error", "dead"}
=============================================================================
