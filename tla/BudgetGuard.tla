----------------------------- MODULE BudgetGuard -----------------------------
(***************************************************************************)
(* ops_agent/budget.py over ops_agent/store/repository.py: the counter of  *)
(* discretionary calls per period, shared through SQLite by every          *)
(* research-ops-agent process (a scheduled bootstrap and an onboard typed  *)
(* by hand are two).  guard reads the usage in one statement and           *)
(* increments it in another transaction; the exhaustion mark is read and   *)
(* written in two as well.  One action is one statement that another       *)
(* process can come before.                                                *)
(*                                                                         *)
(* One guard stands for one unit of budget and for all the external calls  *)
(* of what follows it: a model call is attempted up to six times, and the  *)
(* discovery of a vendor sends a request for each endpoint and page.       *)
(***************************************************************************)
EXTENDS Integers, FiniteSets

CONSTANTS
  Processes,
  Kinds,      \* "llm" and "vendor_request"
  Limit,      \* kind -> max_llm_calls, max_vendor_requests
  CallsPerUnit, \* kind -> most external calls of one unit: _RETRY_MAX_ATTEMPTS for "llm";
                \* bound: endpoints times pages for "vendor_request"
  LastPeriod, \* bound: periods 0..LastPeriod
  MayDie      \* whether a process may be killed between two statements

ASSUME LimitAssumption ==
  /\ Limit \in [Kinds -> Nat]
  /\ CallsPerUnit \in [Kinds -> Nat \ {0}]
  /\ LastPeriod \in Nat
  /\ MayDie \in BOOLEAN

ASSUME ProcessesAssumption == IsFiniteSet(Processes)

Periods == 0..LastPeriod

VARIABLES
  now,        \* the period the wall clock is in
  used,       \* period -> kind -> llm_calls_used, vendor_requests_used
  exhausted,  \* period -> exhausted_at IS NOT NULL: one column for both kinds
  blocked,    \* activity_log: <<period, kind>> of the budget_blocked rows
  notices,    \* period -> kind -> budget_exhausted notifications sent
  pc,         \* process -> next statement of its guard call
  key,        \* process -> period_key of its call, fixed when the call began
  kind,       \* process -> kind of its call
  made,       \* process -> external calls made of the unit at hand
  calls       \* history: period -> kind -> external calls made

arguments == <<key, kind, made>>
vars == <<now, used, exhausted, blocked, notices, pc, arguments, calls>>

TypeOK ==
  /\ now \in Periods
  /\ used \in [Periods -> [Kinds -> Nat]]
  /\ exhausted \in [Periods -> BOOLEAN]
  /\ blocked \subseteq Periods \X Kinds
  /\ notices \in [Periods -> [Kinds -> Nat]]
  /\ pc \in [Processes -> {"idle", "increment", "call", "read_mark", "mark",
                           "log_first", "log", "notify"}]
  /\ key \in [Processes -> Periods]
  /\ kind \in [Processes -> Kinds]
  /\ made \in [Processes -> Nat]
  /\ calls \in [Periods -> [Kinds -> Nat]]

Zero == [d \in Periods |-> [k \in Kinds |-> 0]]

Init ==
  /\ now = 0
  /\ used = Zero /\ notices = Zero /\ calls = Zero
  /\ exhausted = [d \in Periods |-> FALSE]
  /\ blocked = {}
  /\ pc = [p \in Processes |-> "idle"]
  /\ key = [p \in Processes |-> 0]
  /\ kind \in [Processes -> Kinds]
  /\ made = [p \in Processes |-> 0]

Goto(p, place) == pc' = [pc EXCEPT ![p] = place]
Count(f, p) == [f EXCEPT ![key[p]][kind[p]] = @ + 1]

-----------------------------------------------------------------------------
\* Mutant: `used > limit`, one call too many.
OverLimit(k) == used[now][k] > Limit[k]

AtLimit(k) == used[now][k] >= Limit[k]

\* guard: the period key and the usage are read.
Guard(p, k) ==
  /\ pc[p] = "idle"
  /\ key' = [key EXCEPT ![p] = now]
  /\ kind' = [kind EXCEPT ![p] = k]
  /\ Goto(p, IF AtLimit(k) THEN "read_mark" ELSE "increment")
  /\ UNCHANGED <<now, used, exhausted, blocked, notices, made, calls>>

\* Mutant: the call is allowed but not counted.
IncrementNothing(p) ==
  /\ pc[p] = "increment"
  /\ Goto(p, "call")
  /\ UNCHANGED <<now, used, exhausted, blocked, notices, arguments, calls>>

Increment(p) ==
  /\ pc[p] = "increment"
  /\ used' = Count(used, p)
  /\ Goto(p, "call")
  /\ UNCHANGED <<now, exhausted, blocked, notices, arguments, calls>>

\* One attempt of the language-model call, or one request of the vendor probe, that the
\* guard let through; another may follow under the same unit.
ExternalCall(p) ==
  /\ pc[p] = "call"
  /\ made[p] < CallsPerUnit[kind[p]]
  /\ calls' = Count(calls, p)
  /\ made' = [made EXCEPT ![p] = @ + 1]
  /\ UNCHANGED <<now, used, exhausted, blocked, notices, pc, key, kind>>

Leave(p) == Goto(p, "idle") /\ made' = [made EXCEPT ![p] = 0]

\* complete, discover or health_check returns or raises, in the end or early.
EndCall(p) ==
  /\ pc[p] = "call"
  /\ Leave(p)
  /\ UNCHANGED <<now, used, exhausted, blocked, notices, key, kind, calls>>

\* Mutant: every blocked call believes it is the first.
ReadMarkIgnored(p) ==
  /\ pc[p] = "read_mark"
  /\ Goto(p, "mark")
  /\ UNCHANGED <<now, used, exhausted, blocked, notices, arguments, calls>>

\* mark_budget_exhausted reads exhausted_at ...
ReadMark(p) ==
  /\ pc[p] = "read_mark"
  /\ Goto(p, IF exhausted[key[p]] THEN "log" ELSE "mark")
  /\ UNCHANGED <<now, used, exhausted, blocked, notices, arguments, calls>>

\* Mutant: the mark is not stored, so every blocked call is the first.
ForgetMark(p) ==
  /\ pc[p] = "mark"
  /\ Goto(p, "log_first")
  /\ UNCHANGED <<now, used, exhausted, blocked, notices, arguments, calls>>

\* ... and sets it; whoever found it unset is told it was the first.
Mark(p) ==
  /\ pc[p] = "mark"
  /\ exhausted' = [exhausted EXCEPT ![key[p]] = TRUE]
  /\ Goto(p, "log_first")
  /\ UNCHANGED <<now, used, blocked, notices, arguments, calls>>

\* The budget_blocked row; a call that was not the first raises BudgetExhausted.
LogBlocked(p) ==
  /\ pc[p] \in {"log", "log_first"}
  /\ blocked' = blocked \union {<<key[p], kind[p]>>}
  /\ Goto(p, IF pc[p] = "log_first" THEN "notify" ELSE "idle")
  /\ UNCHANGED <<now, used, exhausted, notices, arguments, calls>>

\* The notification of the first exhaustion, then BudgetExhausted is raised.
Notify(p) ==
  /\ pc[p] = "notify"
  /\ notices' = Count(notices, p)
  /\ Goto(p, "idle")
  /\ UNCHANGED <<now, used, exhausted, blocked, arguments, calls>>

\* Killed and started again later: the call is gone, the tables stay.
Kill(p) ==
  /\ MayDie
  /\ pc[p] # "idle"
  /\ Leave(p)
  /\ UNCHANGED <<now, used, exhausted, blocked, notices, key, kind, calls>>

NextPeriod ==
  /\ now < LastPeriod
  /\ now' = now + 1
  /\ UNCHANGED <<used, exhausted, blocked, notices, pc, arguments, calls>>

Next ==
  \/ NextPeriod
  \/ \E p \in Processes :
       \/ \E k \in Kinds : Guard(p, k)
       \/ Increment(p) \/ ExternalCall(p) \/ EndCall(p)
       \/ ReadMark(p) \/ Mark(p) \/ LogBlocked(p) \/ Notify(p)
       \/ Kill(p)

Spec == Init /\ [][Next]_vars

-----------------------------------------------------------------------------
(***************************************************************************)
(* Properties.                                                             *)
(***************************************************************************)

\* The processes that have been let through for kind k in period d and not counted yet.
Uncounted(d, k) ==
  {p \in Processes : pc[p] = "increment" /\ key[p] = d /\ kind[p] = k}

\* Check and increment are not one step, yet the overshoot is bounded: in no period is
\* a limit passed by more than one call for each process but one.  A limit of zero
\* blocks every process at once, and with a single process no limit is ever passed.
OvershootIsBounded ==
  \A d \in Periods, k \in Kinds :
    IF Limit[k] = 0
      THEN used[d][k] = 0
      ELSE used[d][k] + Cardinality(Uncounted(d, k)) <= Limit[k] + Cardinality(Processes) - 1

\* The units a period can come to use.
MostUnits(k) == IF Limit[k] = 0 THEN 0 ELSE Limit[k] + Cardinality(Processes) - 1

\* What a budget is worth in calls.  No external call is made but under a unit counted
\* before, whenever a process dies; so the calls of a period, which the table does not
\* count one by one, are bounded all the same: by CallsPerUnit for every
\* unit that the limit and the overshoot allow, and by none for a limit of zero.
SpendIsBounded ==
  \A d \in Periods, k \in Kinds :
    /\ calls[d][k] <= CallsPerUnit[k] * used[d][k]
    /\ calls[d][k] <= CallsPerUnit[k] * MostUnits(k)

\* A period's mark and its budget_blocked rows are never false alarms: the limit of that
\* kind was reached in that period, also when the clock moved on during the call.
BlockedMeansExhausted ==
  /\ \A row \in blocked : exhausted[row[1]] /\ used[row[1]][row[2]] >= Limit[row[2]]
  /\ \A d \in Periods : exhausted[d] => \E k \in Kinds : used[d][k] >= Limit[k]
  /\ \A d \in Periods, k \in Kinds :
       notices[d][k] > 0 => exhausted[d] /\ used[d][k] >= Limit[k]

\* The mark keeps the notifications of a period and kind down to one per process that could
\* race for it, however many calls are blocked afterwards (budget-contract.md rule 3), and
\* those of a process on its own down to one for both kinds.
Signals(d) == {k \in Kinds : notices[d][k] > 0}

NoticesAreFew ==
  \A d \in Periods :
    /\ \A k \in Kinds : notices[d][k] <= Cardinality(Processes)
    /\ Cardinality(Processes) = 1 => Cardinality(Signals(d)) <= 1

(***************************************************************************)
(* What the documents say and the code does not do.                        *)
(***************************************************************************)

\* budget-contract.md:7-8: every LLM call and every vendor HTTP request is discretionary
\* spend, which rule 1 has the guard count.  The code counts a unit for all of its calls.
EveryCallIsCounted == \A d \in Periods, k \in Kinds : calls[d][k] <= used[d][k]

\* SC-010: resource budgets are never exceeded.
BudgetNeverExceeded == \A d \in Periods, k \in Kinds : used[d][k] <= Limit[k]

\* SC-010: every budget exhaustion event produces a notification.
EveryExhaustionNotified ==
  \A row \in blocked :
    \/ notices[row[1]][row[2]] > 0
    \/ \E p \in Processes : pc[p] = "notify" /\ key[p] = row[1] /\ kind[p] = row[2]
=============================================================================
