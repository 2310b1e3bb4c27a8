---------------------------- MODULE ResearchCycle ----------------------------
(***************************************************************************)
(* One run of orchestration/cycle.py:run_cycle, with every service it      *)
(* calls: generation, screening, refinement backtests, the critique-and-   *)
(* improve waves, the ledger-gated final evaluation and the report.        *)
(*                                                                         *)
(* The code keeps its state in SQLite and commits once per repository      *)
(* call, so one action is one committed transaction together with the      *)
(* computation that precedes it.  Between two actions the process may be   *)
(* killed, and every call may raise: a write of the database too, which    *)
(* another process may keep locked.                                        *)
(*                                                                         *)
(* Rows are numbered in rowid order: thesis t is the t-th thesis inserted, *)
(* lineage l the l-th lineage.  Every loop of the code visits its rows in  *)
(* that order, so a loop is the set of rows still to visit and the next    *)
(* one is the least.  Numbers (p-values, returns, day counts) are          *)
(* abstracted to the side of the threshold on which they fall.             *)
(***************************************************************************)
EXTENDS Integers, Sequences, FiniteSets

CONSTANTS
  Settings,     \* the configurations a run may be started with
  Faults        \* which of "raise" (an exception) and "kill" may happen

ASSUME CapsAssumption ==
  /\ Settings \subseteq [theses : Nat \ {0}, lineages : Nat \ {0}, depth : Nat]
  /\ Faults \subseteq {"raise", "kill"}

Unspent == 0   \* evaluation_ledger.spent_by_thesis_id IS NULL
NoParent == 0

(***************************************************************************)
(* What a raw draft looks like to the code that handles it later: "valid"  *)
(* passes validate_draft; the other three do not, and differ in what their *)
(* raw hypothesis, stored as it came, holds.                               *)
(***************************************************************************)
Shape == {"valid", "plain_invalid", "no_legs", "free_text_condition"}

\* parent["hypothesis"].get("instruments", [None])[0] on an empty list raises.
Refinable(shape) == shape # "no_legs"

\* condition["clauses"] on a condition that is a string raises.
Renderable(shape) == shape # "free_text_condition"

Status == {"proposed", "invalid_schema", "screened_passed", "screened_rejected",
           "backtested", "rejected_underperform", "final_evaluation_pending",
           "promoted", "rejected_after_final", "refused"}

REJECTED_STATUSES == {"screened_rejected", "rejected_underperform", "invalid_schema"}

VARIABLES
  settings,    \* the run's configuration, which it never changes
  cycle,       \* research_cycles.status, "absent" before the row exists
  theses,      \* trading_theses
  lineages,    \* thesis_lineages: refinement_depth of each row
  ledger,      \* evaluation_ledger: spent_by_thesis_id of each row
  refusals,    \* ledger_refusals: the theses that were refused
  screenings,  \* screening_results
  backtests,   \* backtest_results
  critiques,   \* critiques
  reports,     \* research_reports: the statuses each report lists
  pc,          \* where run_cycle is
  queue,       \* rows the current loop has still to visit
  picked,      \* ids the current loop has collected
  wave,        \* refinement waves started
  launched,    \* iterations_launched
  finalReads,  \* history: theses whose run read the final-evaluation split
  declined     \* history: lineages that had a critique rejected

tables == <<cycle, theses, lineages, ledger, refusals, screenings, backtests,
            critiques, reports>>
control == <<pc, queue, picked, wave, launched>>
history == <<finalReads, declined, settings>>
vars == <<tables, control, history>>

\* generation.max_theses_per_cycle, refinement.max_lineages_per_run and
\* refinement.max_refinement_depth_per_lineage
MaxTheses == settings.theses
MaxLineages == settings.lineages
MaxDepth == settings.depth

NInitial == IF MaxTheses <= MaxLineages THEN MaxTheses ELSE MaxLineages
IterationBudget == MaxLineages * (1 + MaxDepth)

Thesis == [lineage : Nat \ {0}, parent : Nat, iteration : Nat,
           shape : Shape, status : Status]
Screening == [thesis : Nat \ {0}, verdict : {"pass", "fail"}]
Backtest == [thesis : Nat \ {0}, split : {"refinement", "final_evaluation"},
             clears : BOOLEAN]

ThesisIds == 1..Len(theses)
LineageIds == 1..Len(lineages)

StatusOf(t) == theses[t].status
LineageOf(t) == theses[t].lineage
Statuses == [t \in ThesisIds |-> StatusOf(t)]

\* repo.update_thesis_status
SetStatus(t, s) == theses' = [theses EXCEPT ![t].status = s]

\* The insert of _persist_payload: a rejected draft is stored as it came.
InsertThesis(l, parent, iteration, shape) ==
  theses' = Append(theses,
    [lineage |-> l, parent |-> parent, iteration |-> iteration, shape |-> shape,
     status |-> IF shape = "valid" THEN "proposed" ELSE "invalid_schema"])

PassRecorded(t) == [thesis |-> t, verdict |-> "pass"] \in screenings

\* Mutant: a result counts whichever side of the bar it is on.
AnyResult(t, split) == \E row \in backtests : row.thesis = t /\ row.split = split

\* net_return > bar, as the recorded result says.
Cleared(t, split) ==
  [thesis |-> t, split |-> split, clears |-> TRUE] \in backtests

\* Mutant: the `continue` for a lineage's older variants is missing.
AnyVariant(t) == t \in ThesisIds

\* theses_for_lineage(l)[-1], in (iteration_index, rowid) order.
Newest(t) ==
  \A u \in ThesisIds : LineageOf(u) = LineageOf(t) =>
    \/ theses[u].iteration < theses[t].iteration
    \/ theses[u].iteration = theses[t].iteration /\ u <= t

\* Mutant: the status of the newest variant is not looked at.
CandidatesOfAnyStatus ==
  {t \in ThesisIds : Newest(t) /\ lineages[LineageOf(t)] < MaxDepth}

Candidates ==
  {t \in ThesisIds : /\ Newest(t)
                     /\ StatusOf(t) \in REJECTED_STATUSES
                     /\ lineages[LineageOf(t)] < MaxDepth}

Survivors(l) == {t \in ThesisIds : LineageOf(t) = l /\ StatusOf(t) = "backtested"}

\* Mutant: lineages whose first thesis was rejected are not visited.
LineagesWithLiveRoot ==
  {LineageOf(t) : t \in {u \in ThesisIds : /\ theses[u].iteration = 0
                                          /\ StatusOf(u) \notin REJECTED_STATUSES}}

\* The lineages the final loop visits, each once.
LineagesOfCycle == {LineageOf(t) : t \in ThesisIds}

\* Mutant: the depth is not stored.
KeepDepth(l) == UNCHANGED lineages

\* repo.bump_lineage_depth
BumpDepth(l) == lineages' = [lineages EXCEPT ![l] = @ + 1]

\* Mutant: spend is called with its arguments swapped.
SpendSwapped(l, t) == ledger' = [ledger EXCEPT ![l] = l]

\* The UPDATE of ledger.spend.
MarkSpent(l, t) == ledger' = [ledger EXCEPT ![l] = t]

First(x) == x \in queue /\ \A y \in queue : x <= y

Goto(place) == pc' = place

-----------------------------------------------------------------------------
Init ==
  /\ settings \in Settings
  /\ cycle = "absent"
  /\ theses = <<>> /\ lineages = <<>> /\ ledger = <<>>
  /\ refusals = {} /\ screenings = {} /\ backtests = {} /\ critiques = {}
  /\ reports = {}
  /\ pc = "assert_fresh"
  /\ queue = {} /\ picked = {} /\ wave = 0 /\ launched = 0
  /\ finalReads = {} /\ declined = {}

(***************************************************************************)
(* Start of run_cycle.                                                     *)
(***************************************************************************)

\* A stale or missing series refuses the run before any row exists.
AssertFresh ==
  /\ pc = "assert_fresh"
  /\ pc' \in {"create_cycle", "over"}
  /\ UNCHANGED <<tables, history, queue, picked, wave, launched>>

\* The row and, first thing in the body, its three split allocations, which
\* are fixed for the life of the cycle and abstracted to the split a step reads.
CreateCycle ==
  /\ pc = "create_cycle"
  /\ cycle' = "running"
  /\ Goto("propose")
  /\ UNCHANGED <<theses, lineages, ledger, refusals, screenings, backtests, critiques,
                 reports, history, queue, picked, wave, launched>>

(***************************************************************************)
(* GenerationService.generate_initial: at most NInitial drafts, one new    *)
(* lineage each, in three transactions.  iterations_launched counts them.  *)
(***************************************************************************)
GenerateInitial ==
  /\ pc = "propose"
  /\ \E m \in 0..NInitial :
       /\ queue' = 1..m
       /\ Goto(IF m = 0 THEN "report" ELSE "create_lineage")
  /\ UNCHANGED <<tables, history, picked, wave, launched>>

CreateLineage ==
  /\ pc = "create_lineage"
  /\ lineages' = Append(lineages, 0)
  /\ Goto("create_ledger_row")
  /\ UNCHANGED <<cycle, theses, ledger, refusals, screenings, backtests, critiques,
                 reports, history, queue, picked, wave, launched>>

CreateLedgerRow ==
  /\ pc = "create_ledger_row"
  /\ ledger' = Append(ledger, Unspent)
  /\ Goto("insert_root")
  /\ UNCHANGED <<cycle, theses, lineages, refusals, screenings, backtests, critiques,
                 reports, history, queue, picked, wave, launched>>

InsertRoot(shape) ==
  /\ pc = "insert_root"
  /\ InsertThesis(Len(lineages), NoParent, 0, shape)
  /\ \E x \in queue : First(x) /\ queue' = queue \ {x}
  /\ Goto(IF queue' = {} THEN "screen" ELSE "create_lineage")
  /\ launched' = launched + 1
  /\ UNCHANGED <<cycle, lineages, ledger, refusals, screenings, backtests, critiques,
                 reports, history, picked, wave>>

(***************************************************************************)
(* ScreeningService.screen_cycle.  The initial wave screens every proposed *)
(* thesis, a later wave the new valid ones.  First every under-observed    *)
(* thesis is refused, then the remaining family is tested together and     *)
(* each verdict is recorded and applied in two transactions.               *)
(***************************************************************************)
ScreenCycle ==
  /\ pc = "screen"
  /\ queue' = {t \in ThesisIds : StatusOf(t) = "proposed" /\ (wave = 0 \/ t \in picked)}
  /\ picked' = {}
  /\ Goto("activity")
  /\ UNCHANGED <<tables, history, wave, launched>>

RefuseUnderObserved(t) ==
  /\ pc = "activity"
  /\ First(t)
  /\ SetStatus(t, "screened_rejected")
  /\ queue' = queue \ {t}
  /\ UNCHANGED <<cycle, lineages, ledger, refusals, screenings, backtests, critiques,
                 reports, history, pc, picked, wave, launched>>

AdmitToFamily(t) ==
  /\ pc = "activity"
  /\ First(t)
  /\ picked' = picked \union {t}
  /\ queue' = queue \ {t}
  /\ UNCHANGED <<tables, history, pc, wave, launched>>

TestFamily ==
  /\ pc = "activity"
  /\ queue = {}
  /\ queue' = picked
  /\ picked' = {}
  /\ Goto("record_verdict")
  /\ UNCHANGED <<tables, history, wave, launched>>

RecordVerdict(t, verdict) ==
  /\ pc = "record_verdict"
  /\ First(t)
  /\ screenings' = screenings \union {[thesis |-> t, verdict |-> verdict]}
  /\ Goto("apply_verdict")
  /\ UNCHANGED <<cycle, theses, lineages, ledger, refusals, backtests, critiques,
                 reports, history, queue, picked, wave, launched>>

ApplyVerdict(t) ==
  /\ pc = "apply_verdict"
  /\ First(t)
  /\ SetStatus(t, IF PassRecorded(t) THEN "screened_passed" ELSE "screened_rejected")
  /\ picked' = IF PassRecorded(t) THEN picked \union {t} ELSE picked
  /\ queue' = queue \ {t}
  /\ Goto("record_verdict")
  /\ UNCHANGED <<cycle, lineages, ledger, refusals, screenings, backtests, critiques,
                 reports, history, wave, launched>>

StartBacktests ==
  /\ pc = "record_verdict"
  /\ queue = {}
  /\ queue' = picked
  /\ picked' = {}
  /\ Goto("backtest")
  /\ UNCHANGED <<tables, history, wave, launched>>

(***************************************************************************)
(* BacktestingService.run_refinement.  The code raises PermissionError     *)
(* without a recorded pass; as a guard here, a thesis without one would    *)
(* stop the run and show up as a deadlock.                                 *)
(***************************************************************************)
GateRefinement(t) ==
  /\ pc = "backtest"
  /\ First(t)
  /\ PassRecorded(t)
  /\ SetStatus(t, "rejected_underperform")
  /\ queue' = queue \ {t}
  /\ UNCHANGED <<cycle, lineages, ledger, refusals, screenings, backtests, critiques,
                 reports, history, pc, picked, wave, launched>>

RunRefinement(t, clears) ==
  /\ pc = "backtest"
  /\ First(t)
  /\ PassRecorded(t)
  /\ backtests' = backtests \union
       {[thesis |-> t, split |-> "refinement", clears |-> clears]}
  /\ Goto("settle_refinement")
  /\ UNCHANGED <<cycle, theses, lineages, ledger, refusals, screenings, critiques,
                 reports, history, queue, picked, wave, launched>>

SettleRefinement(t) ==
  /\ pc = "settle_refinement"
  /\ First(t)
  /\ SetStatus(t, IF Cleared(t, "refinement") THEN "backtested"
                                              ELSE "rejected_underperform")
  /\ queue' = queue \ {t}
  /\ Goto("backtest")
  /\ UNCHANGED <<cycle, lineages, ledger, refusals, screenings, backtests, critiques,
                 reports, history, picked, wave, launched>>

EndBacktests ==
  /\ pc = "backtest"
  /\ queue = {}
  /\ Goto("wave")
  /\ UNCHANGED <<tables, history, queue, picked, wave, launched>>

(***************************************************************************)
(* The bounded critique-and-improve loop of _run_cycle_body.               *)
(***************************************************************************)
\* Mutant: the waves are not counted.
StartWaveUncounted ==
  /\ pc = "wave"
  /\ wave < MaxDepth
  /\ Candidates # {}
  /\ launched < IterationBudget
  /\ queue' = Candidates
  /\ picked' = {}
  /\ Goto("critique")
  /\ UNCHANGED <<tables, history, wave, launched>>

StartWave ==
  /\ pc = "wave"
  /\ wave < MaxDepth
  /\ Candidates # {}
  /\ launched < IterationBudget
  /\ wave' = wave + 1
  /\ queue' = Candidates
  /\ picked' = {}
  /\ Goto("critique")
  /\ UNCHANGED <<tables, history, launched>>

EndWaves ==
  /\ pc = "wave"
  /\ wave = MaxDepth \/ Candidates = {} \/ launched >= IterationBudget
  /\ queue' = LineagesOfCycle
  /\ picked' = {}
  /\ Goto("final")
  /\ UNCHANGED <<tables, history, wave, launched>>

\* critique_thesis returned None: `continue` with the next candidate.
RejectCritique(t) ==
  /\ pc = "critique"
  /\ First(t)
  /\ launched < IterationBudget
  /\ queue' = queue \ {t}
  /\ declined' = declined \union {LineageOf(t)}
  /\ UNCHANGED <<tables, settings, finalReads, pc, picked, wave, launched>>

AcceptCritique(t) ==
  /\ pc = "critique"
  /\ First(t)
  /\ launched < IterationBudget
  /\ critiques' = critiques \union {t}
  /\ Goto("refine")
  /\ UNCHANGED <<cycle, theses, lineages, ledger, refusals, screenings, backtests,
                 reports, history, queue, picked, wave, launched>>

GenerateRefinement(t, shape) ==
  /\ pc = "refine"
  /\ First(t)
  /\ Refinable(theses[t].shape)
  /\ InsertThesis(LineageOf(t), t, theses[t].iteration + 1, shape)
  /\ Goto("bump_depth")
  /\ UNCHANGED <<cycle, lineages, ledger, refusals, screenings, backtests, critiques,
                 reports, history, queue, picked, wave, launched>>

\* The rest of the loop body: the new thesis is the last row.
BumpLineageDepth(t) ==
  /\ pc = "bump_depth"
  /\ First(t)
  /\ BumpDepth(LineageOf(t))
  /\ launched' = launched + 1
  /\ picked' = IF theses[Len(theses)].shape = "valid"
               THEN picked \union {Len(theses)} ELSE picked
  /\ queue' = queue \ {t}
  /\ Goto("critique")
  /\ UNCHANGED <<cycle, theses, ledger, refusals, screenings, backtests, critiques,
                 reports, history, wave>>

EndCandidates ==
  /\ pc = "critique"
  /\ queue = {} \/ launched >= IterationBudget
  /\ queue' = {}
  /\ Goto(IF picked = {} THEN "wave" ELSE "screen")
  /\ UNCHANGED <<tables, history, picked, wave, launched>>

(***************************************************************************)
(* One final evaluation per lineage, on its best surviving variant.  The   *)
(* code takes the largest refinement net return; returns are abstracted,   *)
(* so any survivor may be the best.                                        *)
(***************************************************************************)
SkipLineage(l) ==
  /\ pc = "final"
  /\ First(l)
  /\ Survivors(l) = {}
  /\ queue' = queue \ {l}
  /\ UNCHANGED <<tables, history, pc, picked, wave, launched>>

SelectFinalist(l, t) ==
  /\ pc = "final"
  /\ First(l)
  /\ t \in Survivors(l)
  /\ SetStatus(t, "final_evaluation_pending")
  /\ picked' = {t}
  /\ Goto("spend")
  /\ UNCHANGED <<cycle, lineages, ledger, refusals, screenings, backtests, critiques,
                 reports, history, queue, wave, launched>>

\* ledger.spend, then for a refusal the refused status: nothing is read or run.
SpendEntitlement(l, t) ==
  /\ pc = "spend"
  /\ First(l)
  /\ t \in picked
  /\ IF ledger[l] = Unspent
       THEN /\ MarkSpent(l, t)
            /\ Goto("final_read")
            /\ UNCHANGED <<theses, refusals, queue>>
       ELSE /\ refusals' = refusals \union {t}
            /\ SetStatus(t, "refused")
            /\ queue' = queue \ {l}
            /\ Goto("final")
            /\ UNCHANGED ledger
  /\ UNCHANGED <<cycle, lineages, screenings, backtests, critiques, reports, history,
                 picked, wave, launched>>

\* The final split is read; the activity gate refuses with no result.
GateFinal(l, t) ==
  /\ pc = "final_read"
  /\ First(l)
  /\ t \in picked
  /\ finalReads' = finalReads \union {t}
  /\ SetStatus(t, "rejected_after_final")
  /\ queue' = queue \ {l}
  /\ Goto("final")
  /\ UNCHANGED <<cycle, lineages, ledger, refusals, screenings, backtests, critiques,
                 reports, settings, declined, picked, wave, launched>>

RunFinal(l, t, clears) ==
  /\ pc = "final_read"
  /\ First(l)
  /\ t \in picked
  /\ finalReads' = finalReads \union {t}
  /\ backtests' = backtests \union
       {[thesis |-> t, split |-> "final_evaluation", clears |-> clears]}
  /\ Goto("settle_final")
  /\ UNCHANGED <<cycle, theses, lineages, ledger, refusals, screenings, critiques,
                 reports, settings, declined, queue, picked, wave, launched>>

SettleFinal(l, t) ==
  /\ pc = "settle_final"
  /\ First(l)
  /\ t \in picked
  /\ SetStatus(t, IF Cleared(t, "final_evaluation") THEN "promoted"
                                                    ELSE "rejected_after_final")
  /\ queue' = queue \ {l}
  /\ Goto("final")
  /\ UNCHANGED <<cycle, lineages, ledger, refusals, screenings, backtests, critiques,
                 reports, history, picked, wave, launched>>

EndFinals ==
  /\ pc = "final"
  /\ queue = {}
  /\ Goto("report")
  /\ UNCHANGED <<tables, history, queue, picked, wave, launched>>

(***************************************************************************)
(* build_report: one row listing every thesis, then the Markdown file; then *)
(* finish_cycle.                                                           *)
(***************************************************************************)
BuildReport ==
  /\ pc = "report"
  /\ \A t \in ThesisIds : Renderable(theses[t].shape)
  /\ reports' = reports \union {Statuses}
  /\ Goto("render")
  /\ UNCHANGED <<cycle, theses, lineages, ledger, refusals, screenings, backtests,
                 critiques, history, queue, picked, wave, launched>>

RenderMarkdown ==
  /\ pc = "render"
  /\ Goto("finish")
  /\ UNCHANGED <<tables, history, queue, picked, wave, launched>>

FinishCycle ==
  /\ pc = "finish"
  /\ cycle' = "completed"
  /\ Goto("over")
  /\ UNCHANGED <<theses, lineages, ledger, refusals, screenings, backtests, critiques,
                 reports, history, queue, picked, wave, launched>>

(***************************************************************************)
(* Failures.  An exception inside _run_cycle_body marks the cycle failed   *)
(* and leaves every row as it is; a kill leaves it running.                *)
(***************************************************************************)
\* Mutant: a failing run gives the entitlement of its finalist back.
FailReturnsEntitlement ==
  /\ cycle' = "failed" \/ ("raise" \in Faults /\ cycle' = cycle)
  /\ Goto("over")
  /\ ledger' = [l \in DOMAIN ledger |->
                  IF pc = "final_read" /\ ledger[l] \in picked THEN Unspent ELSE ledger[l]]
  /\ UNCHANGED <<theses, lineages, refusals, screenings, backtests, critiques,
                 reports, history, queue, picked, wave, launched>>

\* The handler's own finish_cycle may raise as well, and leaves the row running.
Fail ==
  /\ cycle' = "failed" \/ ("raise" \in Faults /\ cycle' = cycle)
  /\ Goto("over")
  /\ UNCHANGED <<theses, lineages, ledger, refusals, screenings, backtests, critiques,
                 reports, history, queue, picked, wave, launched>>

\* generate_refinement indexes the raw legs of a draft it knows to be invalid.
RefinementRaises(t) ==
  /\ pc = "refine"
  /\ First(t)
  /\ ~Refinable(theses[t].shape)
  /\ Fail

\* build_report summarises the raw condition of a draft it knows to be invalid.
ReportRaises ==
  /\ pc = "report"
  /\ \E t \in ThesisIds : ~Renderable(theses[t].shape)
  /\ Fail

\* create_cycle is called before the try: without it there is no row to mark.
CreateCycleRaises ==
  /\ pc = "create_cycle"
  /\ Goto("over")
  /\ UNCHANGED <<tables, history, queue, picked, wave, launched>>

\* Any call of the body: it reads data, runs the engine, asks the model, writes a file, or
\* is one write of the database, which is then not made.
BodyRaises ==
  /\ pc \notin {"assert_fresh", "create_cycle", "over", "dead"}
  /\ Fail

Raise == "raise" \in Faults /\ (CreateCycleRaises \/ BodyRaises)

Kill ==
  /\ "kill" \in Faults
  /\ pc \notin {"over", "dead"}
  /\ Goto("dead")
  /\ UNCHANGED <<tables, history, queue, picked, wave, launched>>

Over ==
  /\ pc \in {"over", "dead"}
  /\ UNCHANGED vars

-----------------------------------------------------------------------------
Generation ==
  \/ GenerateInitial \/ CreateLineage \/ CreateLedgerRow
  \/ \E shape \in Shape : InsertRoot(shape)

ScreenStep ==
  \/ ScreenCycle \/ TestFamily \/ StartBacktests
  \/ \E t \in ThesisIds :
       \/ RefuseUnderObserved(t) \/ AdmitToFamily(t) \/ ApplyVerdict(t)
       \/ \E verdict \in {"pass", "fail"} : RecordVerdict(t, verdict)

RefinementStep ==
  \/ EndBacktests
  \/ \E t \in ThesisIds :
       \/ GateRefinement(t) \/ SettleRefinement(t)
       \/ \E clears \in BOOLEAN : RunRefinement(t, clears)

WaveStep ==
  \/ StartWave \/ EndWaves \/ EndCandidates
  \/ \E t \in ThesisIds :
       \/ RejectCritique(t) \/ AcceptCritique(t) \/ BumpLineageDepth(t)
       \/ RefinementRaises(t)
       \/ \E shape \in Shape : GenerateRefinement(t, shape)

FinalStep ==
  \/ EndFinals
  \/ \E l \in LineageIds :
       \/ SkipLineage(l)
       \/ \E t \in ThesisIds :
            \/ SelectFinalist(l, t) \/ SpendEntitlement(l, t) \/ GateFinal(l, t)
            \/ SettleFinal(l, t)
            \/ \E clears \in BOOLEAN : RunFinal(l, t, clears)

ReportStep == BuildReport \/ RenderMarkdown \/ FinishCycle \/ ReportRaises

Progress ==
  AssertFresh \/ CreateCycle \/ Generation \/ ScreenStep \/ RefinementStep \/ WaveStep
  \/ FinalStep \/ ReportStep

Next == Progress \/ Raise \/ Kill \/ Over

Spec == Init /\ [][Next]_vars

\* The body is sequential code: as long as the process lives it goes on.
FairSpec == Spec /\ WF_vars(Progress)
-----------------------------------------------------------------------------
(***************************************************************************)
(* Properties.                                                             *)
(***************************************************************************)

\* Every variable keeps its type; the tables' columns are those of schema.py.
TypeOK ==
  /\ settings \in Settings
  /\ cycle \in {"absent", "running", "completed", "failed"}
  /\ theses \in Seq(Thesis)
  /\ lineages \in Seq(Nat)
  /\ ledger \in Seq(Nat)
  /\ refusals \subseteq Nat
  /\ screenings \subseteq Screening
  /\ backtests \subseteq Backtest
  /\ critiques \subseteq Nat
  /\ reports \subseteq Seq(Status)
  /\ pc \in {"assert_fresh", "create_cycle", "propose", "create_lineage",
            "create_ledger_row", "insert_root", "screen", "activity",
            "record_verdict", "apply_verdict", "backtest", "settle_refinement",
            "wave", "critique", "refine", "bump_depth", "final", "spend",
            "final_read", "settle_final", "report", "render", "finish", "over",
            "dead"}
  /\ queue \subseteq Nat
  /\ picked \subseteq Nat
  /\ wave \in Nat
  /\ launched \in Nat
  /\ finalReads \subseteq Nat
  /\ declined \subseteq Nat

Evaluated == {"promoted", "rejected_after_final"}
PastRefinement == {"backtested", "final_evaluation_pending", "refused"} \union Evaluated

FinalsHoldTheirRow ==
  /\ \A t \in ThesisIds :
       t \in finalReads \/ StatusOf(t) \in Evaluated => ledger[LineageOf(t)] = t
  /\ \A l \in 1..Len(ledger) : ledger[l] # Unspent =>
       /\ ledger[l] \in ThesisIds
       /\ LineageOf(ledger[l]) = l
       /\ StatusOf(ledger[l]) \in Evaluated \union {"final_evaluation_pending"}

\* The ledger and the theses agree (data-model.md, cross-entity invariant 2): what a
\* lineage's row was spent by is that lineage's finalist and nothing else, and the
\* final-evaluation split was read for no thesis that does not hold the entitlement, and
\* for none a second time, whatever point the process is killed or fails at.
LedgerAccountsForFinals ==
  /\ FinalsHoldTheirRow
  /\ pc = "final_read" => picked \intersect finalReads = {}

\* run_cycle asks for one final evaluation per lineage, so in a cycle of its own rows
\* the ledger never has to refuse: at most one variant of a lineage ever gets past its
\* refinement backtest, and it is the lineage's newest.
OneSurvivorPerLineage ==
  /\ refusals = {}
  /\ \A t \in ThesisIds : StatusOf(t) \in PastRefinement =>
       \A u \in ThesisIds : LineageOf(u) = LineageOf(t) =>
         u = t \/ (u < t /\ StatusOf(u) \in REJECTED_STATUSES)

\* A promoted thesis has the whole chain of evidence on record: a screening pass and no
\* fail, a refinement result above the bar and a final result above the bar.
PromotionHasEvidence ==
  \A t \in ThesisIds :
    /\ StatusOf(t) \in PastRefinement =>
         /\ {row \in screenings : row.thesis = t} = {[thesis |-> t, verdict |-> "pass"]}
         /\ [thesis |-> t, split |-> "refinement", clears |-> TRUE] \in backtests
    /\ StatusOf(t) = "promoted" =>
         [thesis |-> t, split |-> "final_evaluation", clears |-> TRUE] \in backtests

\* The variants of a lineage form one chain: each refinement continues the variant just
\* before it, which had been rejected and critiqued, so no variant is refined twice and
\* no critique of another thesis is used.
RefinementChain ==
  \A t \in ThesisIds :
    IF theses[t].parent = NoParent THEN theses[t].iteration = 0
    ELSE LET p == theses[t].parent
         IN /\ p < t
            /\ LineageOf(p) = LineageOf(t)
            /\ theses[t].iteration = theses[p].iteration + 1
            /\ StatusOf(p) \in REJECTED_STATUSES
            /\ p \in critiques
            /\ \A u \in ThesisIds \ {t} : theses[u].parent # p

\* Both caps hold at every point: no lineage is refined past max_refinement_depth, the run
\* never launches more than its budget, and the stored depth of a lineage is that of its
\* newest variant.  It lags by one between the insert of a variant and the bump, and for
\* good when the run is killed or raises just there: of one lineage at most, that of the
\* newest row of all, and never in a completed cycle.
CapsHold ==
  /\ launched <= IterationBudget
  /\ Len(theses) <= IterationBudget
  /\ \A t \in ThesisIds :
       /\ theses[t].iteration <= MaxDepth
       /\ (\A u \in ThesisIds : LineageOf(u) = LineageOf(t) => u <= t) =>
            \/ theses[t].iteration = lineages[LineageOf(t)]
            \/ /\ pc \in {"bump_depth", "dead", "over"} /\ cycle # "completed"
               /\ t = Len(theses)
               /\ theses[t].iteration = lineages[LineageOf(t)] + 1

\* No silent drops (cross-entity invariant 3): a completed cycle has one report, which
\* lists every thesis with the status it still has, and every status is a final one.
CompletedIsAccountedFor ==
  cycle = "completed" =>
    /\ reports = {Statuses}
    /\ \A t \in ThesisIds : StatusOf(t) \in REJECTED_STATUSES \union Evaluated

\* The lineage and its ledger row are written before the first thesis of the lineage, so
\* neither spend nor the report can meet a thesis whose lineage has no row, even in the
\* tables a killed run left behind.
LedgerRowBeforeThesis ==
  \A t \in ThesisIds : LineageOf(t) \in DOMAIN ledger /\ LineageOf(t) \in LineageIds

\* The cycle keeps the ledger's promise: its tables, row for row, are an Entitlement.
RowAbsent == -1
AnyLineage == UNION {1..c.lineages : c \in Settings}
AnyThesis == UNION {1..(c.lineages * (1 + c.depth)) : c \in Settings}

Entitled == INSTANCE Entitlement WITH
  Lineages <- AnyLineage,
  Theses <- AnyThesis,
  NoRow <- RowAbsent,
  holder <- [l \in AnyLineage |-> IF l <= Len(ledger) THEN ledger[l] ELSE RowAbsent],
  readers <- {<<LineageOf(t), t>> : t \in finalReads}

ImplementsEntitlement == Entitled!Spec

\* A living run comes to an end whatever the model answers: rejected critiques and
\* invalid drafts cannot keep the waves going.
RunEnds == <>(pc \in {"over", "dead"})

(***************************************************************************)
(* What the documents say and the code does not do.                        *)
(***************************************************************************)

\* report-contract.md, Completeness: without a fault of the world around it, a run that
\* stored a thesis ends with a report that lists it.
EveryThesisReported ==
  pc = "over" /\ theses # <<>> => Statuses \in reports

\* data-model.md: an invalid draft is excluded from all further processing.
InvalidIsExcluded == \A t \in critiques : StatusOf(t) # "invalid_schema"

\* critique/service.py: when a critique fails validation the loop stops refining that
\* lineage.
RejectedCritiqueEndsLineage ==
  [][\A u \in DOMAIN theses' \ ThesisIds : theses'[u].lineage \notin declined]_vars
=============================================================================
