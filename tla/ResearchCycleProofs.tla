-------------------------- MODULE ResearchCycleProofs --------------------------
(***************************************************************************)
(* Proofs about one run of run_cycle, for all caps and all points at which *)
(* it may fail or be killed.  Five inductive invariants, each resting on   *)
(* the ones before it:                                                     *)
(*   IInv  the tables, the ledger and the finalist at hand;                *)
(*   CInv  the variants of a lineage and the rows a loop visits;           *)
(*   EInv  the evidence behind a status;                                   *)
(*   KInv  the caps and the stored depths;                                 *)
(*   AInv  the theses that still wait for a final status.                  *)
(* The last two sections show that the cycle implements Entitlement, and   *)
(* that each of its steps takes from what is left of the run, which cannot *)
(* go on for ever.                                                         *)
(***************************************************************************)
EXTENDS ResearchCycle, SequenceTheorems, FiniteSetTheorems, WellFoundedInduction, TLAPS

(***************************************************************************)
(* The two ways the table of theses changes.                               *)
(***************************************************************************)

\* update_thesis_status changes the status of one row and nothing else.
LEMMA SetStatusEffect ==
  ASSUME theses \in Seq(Thesis), NEW t \in ThesisIds, NEW s \in Status, SetStatus(t, s)
  PROVE  /\ theses' \in Seq(Thesis)
         /\ Len(theses') = Len(theses)
         /\ \A u \in ThesisIds : /\ LineageOf(u)' = LineageOf(u)
                                 /\ StatusOf(u)' = IF u = t THEN s ELSE StatusOf(u)
<1> DEFINE row == [theses[t] EXCEPT !.status = s]
<1>1. theses[t] \in Thesis
  BY ElementOfSeq DEF ThesisIds
<1>2. row \in Thesis /\ row.status = s /\ row.lineage = theses[t].lineage
  BY <1>1 DEF Thesis
<1>3. theses' = [theses EXCEPT ![t] = row]
  BY DEF SetStatus
<1> HIDE DEF row
<1>4. /\ theses' \in Seq(Thesis)
      /\ Len(theses') = Len(theses)
      /\ \A u \in 1..Len(theses) : theses'[u] = IF u = t THEN row ELSE theses[u]
  BY <1>2, <1>3, ExceptSeq DEF ThesisIds
<1> QED
  BY <1>2, <1>4 DEF ThesisIds, LineageOf, StatusOf

\* _persist_payload adds one row at the end.
LEMMA InsertThesisEffect ==
  ASSUME theses \in Seq(Thesis), NEW l \in Nat \ {0}, NEW p \in Nat, NEW i \in Nat,
         NEW shape \in Shape, InsertThesis(l, p, i, shape)
  PROVE  /\ theses' \in Seq(Thesis)
         /\ Len(theses') = Len(theses) + 1
         /\ \A u \in ThesisIds : theses'[u] = theses[u]
         /\ theses'[Len(theses) + 1].lineage = l
         /\ theses'[Len(theses) + 1].status \in {"proposed", "invalid_schema"}
<1> DEFINE row == [lineage |-> l, parent |-> p, iteration |-> i, shape |-> shape,
                   status |-> IF shape = "valid" THEN "proposed" ELSE "invalid_schema"]
<1>1. row \in Thesis
  BY DEF Thesis, Status
<1>2. theses' = Append(theses, row)
  BY DEF InsertThesis
<1>3. row.lineage = l /\ row.status \in {"proposed", "invalid_schema"}
  OBVIOUS
<1> HIDE DEF row
<1> QED
  BY <1>1, <1>2, <1>3, AppendProperties DEF ThesisIds

-----------------------------------------------------------------------------
(***************************************************************************)
(* Type correctness.                                                       *)
(***************************************************************************)
LEMMA InitTypeOK == Init => TypeOK
<1> SUFFICES ASSUME Init PROVE TypeOK
  OBVIOUS
<1>1. theses \in Seq(Thesis) /\ lineages \in Seq(Nat) /\ ledger \in Seq(Nat)
  BY EmptySeq DEF Init
<1> QED
  BY <1>1 DEF Init, TypeOK

\* The rows a step may visit are thesis numbers.
LEMMA IdsAreNatural ==
  ASSUME TypeOK
  PROVE  /\ ThesisIds \subseteq Nat \ {0}
         /\ \A t \in ThesisIds : theses[t] \in Thesis /\ LineageOf(t) \in Nat \ {0}
         /\ Len(theses) \in Nat
<1>1. Len(theses) \in Nat
  BY LenProperties DEF TypeOK
<1>2. \A t \in ThesisIds : theses[t] \in Thesis
  BY ElementOfSeq DEF TypeOK, ThesisIds
<1> QED
  BY <1>1, <1>2 DEF ThesisIds, Thesis, LineageOf

\* The numbers a refinement of t is inserted with.
LEMMA RefinementNumbers ==
  ASSUME TypeOK, NEW t \in ThesisIds
  PROVE  theses[t].iteration + 1 \in Nat /\ LineageOf(t) \in Nat \ {0} /\ t \in Nat
<1>1. theses[t] \in Thesis /\ LineageOf(t) \in Nat \ {0} /\ t \in Nat
  BY IdsAreNatural
<1>2. theses[t].iteration \in Nat
  BY <1>1 DEF Thesis
<1> QED
  BY <1>1, <1>2

\* Steps that leave theses, lineages and ledger alone.
LEMMA TypeOKStart ==
  TypeOK /\ (AssertFresh \/ CreateCycle \/ GenerateInitial \/ ScreenCycle \/ TestFamily
             \/ StartBacktests \/ EndBacktests \/ EndFinals \/ RenderMarkdown \/ FinishCycle)
    => TypeOK'
<1> SUFFICES ASSUME TypeOK PROVE
      (AssertFresh \/ CreateCycle \/ GenerateInitial \/ ScreenCycle \/ TestFamily
             \/ StartBacktests \/ EndBacktests \/ EndFinals \/ RenderMarkdown \/ FinishCycle)
      => TypeOK'
  OBVIOUS
<1> USE DEF TypeOK, Goto, tables, history
<1>1. AssertFresh \/ CreateCycle => TypeOK'
  BY DEF AssertFresh, CreateCycle
<1>2. GenerateInitial => TypeOK'
  BY DEF GenerateInitial
<1>3. ScreenCycle => TypeOK'
  BY IdsAreNatural DEF ScreenCycle
<1>4. TestFamily \/ StartBacktests => TypeOK'
  BY DEF TestFamily, StartBacktests
<1>5. EndBacktests \/ EndFinals \/ RenderMarkdown \/ FinishCycle => TypeOK'
  BY DEF EndBacktests, EndFinals, RenderMarkdown, FinishCycle
<1> QED
  BY <1>1, <1>2, <1>3, <1>4, <1>5

LEMMA TypeOKGeneration ==
  TypeOK /\ (lineages # <<>> \/ pc # "insert_root") /\ Generation => TypeOK'
<1> SUFFICES ASSUME TypeOK, lineages # <<>> \/ pc # "insert_root"
             PROVE  Generation => TypeOK'
  OBVIOUS
<1> USE DEF TypeOK, Goto, tables, history
<1>1. GenerateInitial => TypeOK'
  BY TypeOKStart
<1>2. CreateLineage => TypeOK'
  <2>1. Append(lineages, 0) \in Seq(Nat)
    BY AppendProperties
  <2> QED
    BY <2>1 DEF CreateLineage
<1>3. CreateLedgerRow => TypeOK'
  <2>1. Append(ledger, Unspent) \in Seq(Nat)
    BY AppendProperties DEF Unspent
  <2> QED
    BY <2>1 DEF CreateLedgerRow
<1>4. ASSUME NEW shape \in Shape, InsertRoot(shape) PROVE TypeOK'
  <2>1. Len(lineages) \in Nat \ {0}
    BY <1>4, EmptySeq DEF InsertRoot
  <2>2. theses' \in Seq(Thesis)
    BY <1>4, <2>1, InsertThesisEffect DEF InsertRoot, NoParent
  <2> QED
    BY <1>4, <2>2, SMTT(30) DEF InsertRoot
<1> QED
  BY <1>1, <1>2, <1>3, <1>4 DEF Generation

\* Steps of the loops over one thesis t.
LEMMA TypeOKThesis ==
  ASSUME TypeOK, NEW t \in ThesisIds
  PROVE  /\ RefuseUnderObserved(t) \/ AdmitToFamily(t) \/ ApplyVerdict(t) => TypeOK'
         /\ \A verdict \in {"pass", "fail"} : RecordVerdict(t, verdict) => TypeOK'
         /\ GateRefinement(t) \/ SettleRefinement(t) => TypeOK'
         /\ \A clears \in BOOLEAN : RunRefinement(t, clears) => TypeOK'
         /\ RejectCritique(t) \/ AcceptCritique(t) \/ BumpLineageDepth(t)
              \/ RefinementRaises(t) => TypeOK'
         /\ \A shape \in Shape : GenerateRefinement(t, shape) => TypeOK'
<1> USE IdsAreNatural DEF TypeOK, Goto, tables, history
<1>1. \A s \in Status : SetStatus(t, s) => theses' \in Seq(Thesis)
  BY SetStatusEffect
<1>2. RefuseUnderObserved(t) \/ AdmitToFamily(t) \/ ApplyVerdict(t) => TypeOK'
  BY <1>1 DEF RefuseUnderObserved, AdmitToFamily, ApplyVerdict, Status
<1>3. ASSUME NEW verdict \in {"pass", "fail"}, RecordVerdict(t, verdict) PROVE TypeOK'
  <2>1. [thesis |-> t, verdict |-> verdict] \in Screening
    BY DEF Screening
  <2> QED
    BY <1>3, <2>1 DEF RecordVerdict
<1>4. GateRefinement(t) \/ SettleRefinement(t) => TypeOK'
  BY <1>1 DEF GateRefinement, SettleRefinement, Status
<1>5. ASSUME NEW clears \in BOOLEAN, RunRefinement(t, clears) PROVE TypeOK'
  <2>1. [thesis |-> t, split |-> "refinement", clears |-> clears] \in Backtest
    BY DEF Backtest
  <2> QED
    BY <1>5, <2>1 DEF RunRefinement
<1>6. RejectCritique(t) \/ AcceptCritique(t) => TypeOK'
  BY DEF RejectCritique, AcceptCritique
<1>7. BumpLineageDepth(t) => TypeOK'
  <2>1. BumpDepth(LineageOf(t)) => lineages' \in Seq(Nat)
    <3> SUFFICES ASSUME BumpDepth(LineageOf(t)) PROVE lineages' \in Seq(Nat)
      OBVIOUS
    <3>1. CASE LineageOf(t) \in 1..Len(lineages)
      <4>1. lineages \in Seq(Nat)
        OBVIOUS
      <4>2. lineages[LineageOf(t)] \in Nat
        BY ONLY <3>1, <4>1, ElementOfSeq
      <4>3. lineages[LineageOf(t)] + 1 \in Nat
        BY ONLY <4>2
      <4> QED
        BY <3>1, <4>3, ExceptSeq DEF BumpDepth
    <3>2. CASE LineageOf(t) \notin 1..Len(lineages)
      <4>1. LineageOf(t) \notin DOMAIN lineages
        BY <3>2, LenProperties
      <4>2. lineages' = lineages
        BY <4>1, LenProperties DEF BumpDepth
      <4> QED
        BY <4>2
    <3> QED
      BY <3>1, <3>2
  <2> SUFFICES ASSUME BumpLineageDepth(t) PROVE TypeOK'
    OBVIOUS
  <2>2. /\ lineages' \in Seq(Nat) /\ launched' \in Nat /\ queue' \subseteq queue /\ pc' = "critique"
        /\ UNCHANGED <<cycle, theses, ledger, refusals, screenings, backtests, critiques,
                       reports, settings, finalReads, declined, wave>>
    BY <2>1 DEF BumpLineageDepth
  <2>3. picked' \subseteq Nat
    BY DEF BumpLineageDepth
  <2> QED
    BY <2>2, <2>3
<1>8. RefinementRaises(t) => TypeOK'
  BY DEF RefinementRaises, Fail
<1>9. ASSUME NEW shape \in Shape, GenerateRefinement(t, shape) PROVE TypeOK'
  <2>1. theses[t].iteration + 1 \in Nat /\ LineageOf(t) \in Nat \ {0} /\ t \in Nat
    BY RefinementNumbers
  <2>2. theses' \in Seq(Thesis)
    BY <1>9, <2>1, InsertThesisEffect DEF GenerateRefinement
  <2> QED
    BY <1>9, <2>2, SMTT(30) DEF GenerateRefinement
<1> HIDE IdsAreNatural DEF TypeOK, Goto, tables, history
<1> QED
  BY <1>2, <1>3, <1>4, <1>5, <1>6, <1>7, <1>8, <1>9

\* The waves and the end of the run.
LEMMA TypeOKWaves ==
  TypeOK /\ (StartWave \/ EndWaves \/ EndCandidates \/ ReportStep \/ Raise \/ Kill \/ Over)
    => TypeOK'
<1> SUFFICES ASSUME TypeOK PROVE
      (StartWave \/ EndWaves \/ EndCandidates \/ ReportStep \/ Raise \/ Kill \/ Over) => TypeOK'
  OBVIOUS
<1> USE DEF TypeOK, Goto, tables, history, control
<1>1. ASSUME StartWave PROVE TypeOK'
  <2>1. Candidates \subseteq Nat
    BY IdsAreNatural DEF Candidates
  <2> QED
    BY <1>1, <2>1 DEF StartWave
<1>2. EndWaves => TypeOK'
  BY IdsAreNatural DEF EndWaves, LineagesOfCycle
<1>3. EndCandidates => TypeOK'
  BY DEF EndCandidates
<1>4. BuildReport => TypeOK'
  <2>1. Statuses \in Seq(Status)
    <3>1. Len(theses) \in Nat /\ \A t \in 1..Len(theses) : theses[t].status \in Status
      BY IdsAreNatural DEF ThesisIds, Thesis
    <3>2. Statuses \in [1..Len(theses) -> Status]
      BY <3>1 DEF Statuses, ThesisIds, StatusOf
    <3>3. Seq(Status) = UNION {[1..n -> Status] : n \in Nat}
      BY SeqDef
    <3>4. [1..Len(theses) -> Status] \in {[1..n -> Status] : n \in Nat}
      BY <3>1
    <3> HIDE DEF Statuses, Status
    <3> QED
      BY <3>2, <3>3, <3>4, Zenon
  <2> QED
    BY <2>1 DEF BuildReport
<1>5. RenderMarkdown \/ FinishCycle => TypeOK'
  BY TypeOKStart
<1>6. ReportRaises \/ Raise => TypeOK'
  BY DEF ReportRaises, Raise, CreateCycleRaises, BodyRaises, Fail
<1>7. Kill \/ Over => TypeOK'
  BY DEF Kill, Over, vars
<1> HIDE DEF TypeOK, Goto, tables, history, control
<1> QED
  BY <1>1, <1>2, <1>3, <1>4, <1>5, <1>6, <1>7 DEF ReportStep

\* The final loop's steps on lineage l and its finalist t.
LEMMA TypeOKFinal ==
  ASSUME TypeOK, NEW l \in LineageIds
  PROVE  /\ SkipLineage(l) => TypeOK'
         /\ \A t \in ThesisIds :
              /\ SelectFinalist(l, t) \/ GateFinal(l, t) \/ SettleFinal(l, t) => TypeOK'
              /\ SpendEntitlement(l, t) => TypeOK'
              /\ \A clears \in BOOLEAN : RunFinal(l, t, clears) => TypeOK'
<1> USE IdsAreNatural DEF TypeOK, Goto, tables, history
<1>1. SkipLineage(l) => TypeOK'
  BY DEF SkipLineage
<1> SUFFICES ASSUME NEW t \in ThesisIds
             PROVE  /\ SelectFinalist(l, t) \/ GateFinal(l, t) \/ SettleFinal(l, t) => TypeOK'
                    /\ SpendEntitlement(l, t) => TypeOK'
                    /\ \A clears \in BOOLEAN : RunFinal(l, t, clears) => TypeOK'
  BY <1>1
<1>2. \A s \in Status : SetStatus(t, s) => theses' \in Seq(Thesis)
  BY SetStatusEffect
<1>3. SelectFinalist(l, t) \/ GateFinal(l, t) \/ SettleFinal(l, t) => TypeOK'
  BY <1>2 DEF SelectFinalist, GateFinal, SettleFinal, Status
<1>4. SpendEntitlement(l, t) => TypeOK'
  <2>1. MarkSpent(l, t) => ledger' \in Seq(Nat)
    <3>1. CASE l \in 1..Len(ledger)
      BY <3>1, ExceptSeq DEF MarkSpent
    <3>2. CASE l \notin 1..Len(ledger)
      <4>1. l \notin DOMAIN ledger
        BY <3>2, LenProperties
      <4>2. MarkSpent(l, t) => ledger' = ledger
        BY <4>1, LenProperties DEF MarkSpent
      <4> QED
        BY <4>2
    <3> QED
      BY <3>1, <3>2
  <2>2. CASE ledger[l] = Unspent
    BY <2>1, <2>2 DEF SpendEntitlement
  <2>3. CASE ledger[l] # Unspent
    <3> SUFFICES ASSUME SpendEntitlement(l, t) PROVE TypeOK'
      OBVIOUS
    <3>1. /\ SetStatus(t, "refused") /\ pc' = "final"
          /\ refusals' = refusals \union {t} /\ queue' \subseteq queue
          /\ UNCHANGED <<cycle, lineages, ledger, screenings, backtests, critiques, reports,
                         settings, finalReads, declined, picked, wave, launched>>
      BY <2>3 DEF SpendEntitlement
    <3>2. theses' \in Seq(Thesis)
      BY <1>2, <3>1 DEF Status
    <3>3. t \in Nat
      OBVIOUS
    <3> QED
      BY <3>1, <3>2, <3>3
  <2> QED
    BY <2>2, <2>3
<1>5. ASSUME NEW clears \in BOOLEAN, RunFinal(l, t, clears) PROVE TypeOK'
  <2>1. [thesis |-> t, split |-> "final_evaluation", clears |-> clears] \in Backtest
    BY DEF Backtest
  <2> QED
    BY <1>5, <2>1 DEF RunFinal
<1> QED
  BY <1>3, <1>4, <1>5

-----------------------------------------------------------------------------
(***************************************************************************)
(* The ledger accounts for the final evaluations.  Nothing is spent before *)
(* the final loop; inside it the rows of the lineages still to visit are   *)
(* unspent, but for the one at hand, which its finalist may have spent.    *)
(***************************************************************************)
BeforeFinals == {"assert_fresh", "create_cycle", "propose", "create_lineage",
                 "create_ledger_row", "insert_root", "screen", "activity", "record_verdict",
                 "apply_verdict", "backtest", "settle_refinement", "wave", "critique",
                 "refine", "bump_depth"}

InFinals == {"final", "spend", "final_read", "settle_final"}

AfterFinals == {"report", "render", "finish", "over", "dead"}

RowsInOrder ==
  /\ Len(ledger) <= Len(lineages)
  /\ pc \notin {"create_ledger_row", "over", "dead"} => Len(ledger) = Len(lineages)
  /\ pc = "create_ledger_row" => Len(lineages) = Len(ledger) + 1
  /\ pc = "insert_root" => Len(ledger) > 0

NothingSpentYet ==
  pc \in BeforeFinals =>
    finalReads = {} /\ \A l \in 1..Len(ledger) : ledger[l] = Unspent

QueuedAreUnspent ==
  pc \in InFinals =>
    /\ queue \subseteq 1..Len(ledger)
    /\ \A l \in queue : ledger[l] # Unspent =>
         First(l) /\ pc \in {"final_read", "settle_final"}

FinalistIsPending ==
  pc \in {"spend", "final_read", "settle_final"} =>
    \E l \in queue, t \in ThesisIds :
      /\ First(l) /\ picked = {t} /\ LineageOf(t) = l
      /\ StatusOf(t) = "final_evaluation_pending"
      /\ pc # "spend" => ledger[l] = t

IInv ==
  /\ TypeOK
  /\ RowsInOrder
  /\ LedgerRowBeforeThesis
  /\ NothingSpentYet
  /\ QueuedAreUnspent
  /\ FinalistIsPending
  /\ FinalsHoldTheirRow

LEMMA InitIInv == Init => IInv
<1> SUFFICES ASSUME Init PROVE IInv
  OBVIOUS
<1>1. Len(theses) = 0 /\ Len(lineages) = 0 /\ Len(ledger) = 0
  BY DEF Init
<1>2. RowsInOrder /\ NothingSpentYet
  BY <1>1 DEF Init, RowsInOrder, NothingSpentYet
<1>3. LedgerRowBeforeThesis /\ FinalsHoldTheirRow
  BY <1>1 DEF LedgerRowBeforeThesis, FinalsHoldTheirRow, ThesisIds
<1>4. QueuedAreUnspent /\ FinalistIsPending
  BY DEF Init, QueuedAreUnspent, FinalistIsPending, InFinals
<1> QED
  BY <1>2, <1>3, <1>4, InitTypeOK DEF IInv

\* Before the final loop no thesis has a verdict of the final evaluation.
LEMMA NoneEvaluated ==
  ASSUME IInv, pc \in BeforeFinals
  PROVE  \A u \in ThesisIds : StatusOf(u) \notin Evaluated
<1> SUFFICES ASSUME NEW u \in ThesisIds, StatusOf(u) \in Evaluated PROVE FALSE
  OBVIOUS
<1>1. ledger[LineageOf(u)] = u /\ LineageOf(u) \in 1..Len(ledger)
  BY LenProperties DEF IInv, TypeOK, FinalsHoldTheirRow, LedgerRowBeforeThesis
<1>2. u # Unspent
  BY IdsAreNatural DEF IInv, Unspent
<1> QED
  BY <1>1, <1>2 DEF IInv, NothingSpentYet

\* A step that starts before the final loop and spends nothing.
LEMMA BeforeStep ==
  ASSUME IInv, TypeOK', pc \in BeforeFinals, finalReads' = finalReads,
         RowsInOrder',
         \A l \in 1..Len(ledger') : ledger'[l] = Unspent,
         \A u \in ThesisIds' :
           theses'[u].status \notin Evaluated /\ theses'[u].lineage \in 1..Len(ledger'),
         pc' \notin {"spend", "final_read", "settle_final"},
         pc' = "final" => queue' \subseteq 1..Len(ledger')
  PROVE  IInv'
<1>1. /\ Len(ledger') \in Nat /\ Len(lineages') \in Nat /\ Len(ledger') <= Len(lineages')
      /\ DOMAIN ledger' = 1..Len(ledger')
  BY LenProperties DEF TypeOK, RowsInOrder
<1>2. LedgerRowBeforeThesis'
  BY <1>1 DEF LedgerRowBeforeThesis, LineageOf, LineageIds
<1>3. NothingSpentYet' /\ finalReads' = {}
  BY DEF IInv, NothingSpentYet
<1>4. QueuedAreUnspent' /\ FinalistIsPending'
  BY DEF QueuedAreUnspent, FinalistIsPending, InFinals
<1>5. FinalsHoldTheirRow'
  BY <1>3 DEF FinalsHoldTheirRow, StatusOf
<1> QED
  BY <1>2, <1>3, <1>4, <1>5 DEF IInv

\* ... and leaves the tables it is about alone, or changes one status.
LEMMA BeforeQuiet ==
  ASSUME IInv, TypeOK', pc \in BeforeFinals \ {"create_ledger_row"},
         UNCHANGED <<ledger, finalReads>>, Len(lineages') = Len(lineages),
         \/ UNCHANGED theses
         \/ \E t \in ThesisIds, s \in Status \ Evaluated : SetStatus(t, s),
         pc' \notin {"create_ledger_row", "insert_root", "spend", "final_read", "settle_final"},
         pc' = "final" => queue' \subseteq 1..Len(ledger)
  PROVE  IInv'
<1>1. RowsInOrder'
  BY DEF IInv, RowsInOrder, BeforeFinals
<1>2. \A l \in 1..Len(ledger') : ledger'[l] = Unspent
  BY DEF IInv, NothingSpentYet
<1>3. \A u \in ThesisIds : LineageOf(u) \in 1..Len(ledger)
  BY LenProperties DEF IInv, TypeOK, LedgerRowBeforeThesis
<1>4. \A u \in ThesisIds' :
        theses'[u].status \notin Evaluated /\ theses'[u].lineage \in 1..Len(ledger')
  <2>1. CASE UNCHANGED theses
    BY <1>3, <2>1, NoneEvaluated DEF StatusOf, LineageOf, ThesisIds
  <2>2. ASSUME NEW t \in ThesisIds, NEW s \in Status \ Evaluated, SetStatus(t, s)
        PROVE  \A u \in ThesisIds' :
                 theses'[u].status \notin Evaluated /\ theses'[u].lineage \in 1..Len(ledger')
    <3>1. ThesisIds' = ThesisIds
      BY <2>2, SetStatusEffect DEF ThesisIds, IInv, TypeOK
    <3>2. \A u \in ThesisIds : /\ theses'[u].lineage = LineageOf(u)
                               /\ theses'[u].status = IF u = t THEN s ELSE StatusOf(u)
      BY <2>2, SetStatusEffect DEF IInv, TypeOK, LineageOf, StatusOf
    <3> QED
      BY <1>3, <3>1, <3>2, NoneEvaluated
  <2> QED
    BY <2>1, <2>2
<1> QED
  BY <1>1, <1>2, <1>4, BeforeStep

\* ... or inserts a thesis into a lineage that has its ledger row.
LEMMA BeforeInsert ==
  ASSUME IInv, TypeOK', pc \in BeforeFinals \ {"create_ledger_row"},
         UNCHANGED <<ledger, lineages, finalReads>>,
         NEW l \in 1..Len(ledger), NEW p \in Nat, NEW i \in Nat, NEW shape \in Shape,
         InsertThesis(l, p, i, shape),
         pc' \in {"screen", "create_lineage", "bump_depth"}
  PROVE  IInv'
<1>1. RowsInOrder'
  BY DEF IInv, RowsInOrder, BeforeFinals
<1>2. \A k \in 1..Len(ledger') : ledger'[k] = Unspent
  BY DEF IInv, NothingSpentYet
<1>3. \A u \in ThesisIds : LineageOf(u) \in 1..Len(ledger)
  BY LenProperties DEF IInv, TypeOK, LedgerRowBeforeThesis
<1>4. l \in Nat \ {0} /\ Len(theses) \in Nat
  BY LenProperties DEF IInv, TypeOK
<1>5. /\ Len(theses') = Len(theses) + 1
      /\ \A u \in ThesisIds : theses'[u] = theses[u]
      /\ theses'[Len(theses) + 1].lineage = l
      /\ theses'[Len(theses) + 1].status \in {"proposed", "invalid_schema"}
  BY <1>4, InsertThesisEffect DEF IInv, TypeOK
<1>6. \A u \in ThesisIds' :
        theses'[u].status \notin Evaluated /\ theses'[u].lineage \in 1..Len(ledger')
  <2> SUFFICES ASSUME NEW u \in ThesisIds'
               PROVE  theses'[u].status \notin Evaluated /\ theses'[u].lineage \in 1..Len(ledger')
    OBVIOUS
  <2>1. u \in ThesisIds \/ u = Len(theses) + 1
    BY <1>4, <1>5 DEF ThesisIds
  <2>2. CASE u \in ThesisIds
    BY <1>3, <1>5, <2>2, NoneEvaluated DEF StatusOf, LineageOf
  <2>3. CASE u = Len(theses) + 1
    BY <1>5, <2>3 DEF Evaluated
  <2> QED
    BY <2>1, <2>2, <2>3
<1> QED
  BY <1>1, <1>2, <1>6, BeforeStep

\* A step into the end of the run changes none of the tables in question.
LEMMA AfterStep ==
  ASSUME IInv, TypeOK', UNCHANGED <<theses, lineages, ledger, finalReads>>,
         pc' \in AfterFinals,
         pc' \notin {"over", "dead"} => pc \notin {"create_ledger_row", "over", "dead"}
  PROVE  IInv'
<1>1. RowsInOrder'
  BY DEF IInv, RowsInOrder, AfterFinals
<1>2. LedgerRowBeforeThesis' /\ FinalsHoldTheirRow'
  BY DEF IInv, LedgerRowBeforeThesis, FinalsHoldTheirRow, ThesisIds, LineageIds, LineageOf,
         StatusOf
<1>3. NothingSpentYet' /\ QueuedAreUnspent' /\ FinalistIsPending'
  BY DEF NothingSpentYet, QueuedAreUnspent, FinalistIsPending, BeforeFinals, InFinals, AfterFinals
<1> QED
  BY <1>1, <1>2, <1>3 DEF IInv

-----------------------------------------------------------------------------
(***************************************************************************)
(* Every step keeps the invariant, component by component of Next.         *)
(***************************************************************************)
LEMMA StepTypeOK == IInv /\ [Next]_vars => TypeOK'
<1> SUFFICES ASSUME IInv, [Next]_vars PROVE TypeOK'
  OBVIOUS
<1>1. TypeOK /\ (lineages # <<>> \/ pc # "insert_root")
  <2>1. pc = "insert_root" => Len(ledger) > 0 /\ Len(ledger) = Len(lineages)
    BY DEF IInv, RowsInOrder
  <2> QED
    BY <2>1, EmptySeq DEF IInv
<1>2. CASE UNCHANGED vars
  BY <1>1, <1>2 DEF TypeOK, vars, tables, control, history
<1>3. CASE AssertFresh \/ CreateCycle
  BY <1>1, <1>3, TypeOKStart
<1>4. CASE Generation
  BY <1>1, <1>4, TypeOKGeneration
<1>5. CASE ScreenStep \/ RefinementStep
  BY <1>1, <1>5, TypeOKStart, TypeOKThesis DEF ScreenStep, RefinementStep
<1>6. CASE WaveStep
  BY <1>1, <1>6, TypeOKWaves, TypeOKThesis DEF WaveStep
<1>7. CASE FinalStep
  BY <1>1, <1>7, TypeOKStart, TypeOKFinal DEF FinalStep
<1>8. CASE ReportStep \/ Raise \/ Kill \/ Over
  BY <1>1, <1>8, TypeOKWaves
<1> QED
  BY <1>2, <1>3, <1>4, <1>5, <1>6, <1>7, <1>8 DEF Next, Progress

LEMMA GenerationIInv == IInv /\ TypeOK' /\ Generation => IInv'
<1> SUFFICES ASSUME IInv, TypeOK', Generation PROVE IInv'
  OBVIOUS
<1> USE DEF Goto, tables, history
<1>0. /\ Len(ledger) \in Nat /\ Len(lineages) \in Nat
      /\ \A u \in ThesisIds : LineageOf(u) \in 1..Len(ledger)
  BY LenProperties DEF IInv, TypeOK, LedgerRowBeforeThesis
<1>1. CASE GenerateInitial
  <2>1. pc = "propose" /\ pc' \in {"report", "create_lineage"}
        /\ UNCHANGED <<theses, lineages, ledger, finalReads>>
    BY <1>1 DEF GenerateInitial
  <2>2. CASE pc' = "report"
    BY <2>1, <2>2, AfterStep DEF AfterFinals
  <2>3. CASE pc' = "create_lineage"
    BY <2>1, <2>3, BeforeQuiet DEF BeforeFinals
  <2> QED
    BY <2>1, <2>2, <2>3
<1>2. CASE CreateLineage
  <2>1. pc = "create_lineage" /\ pc' = "create_ledger_row" /\ lineages' = Append(lineages, 0)
        /\ UNCHANGED <<theses, ledger, finalReads>>
    BY <1>2 DEF CreateLineage
  <2>2. Len(lineages') = Len(lineages) + 1
    BY <2>1, AppendProperties DEF IInv, TypeOK
  <2>3. RowsInOrder'
    BY <1>0, <2>1, <2>2 DEF IInv, RowsInOrder
  <2>4. \A l \in 1..Len(ledger') : ledger'[l] = Unspent
    BY <2>1 DEF IInv, NothingSpentYet, BeforeFinals
  <2>5. \A u \in ThesisIds' :
          theses'[u].status \notin Evaluated /\ theses'[u].lineage \in 1..Len(ledger')
    BY <1>0, <2>1, NoneEvaluated DEF BeforeFinals, ThesisIds, StatusOf, LineageOf
  <2> QED
    BY <2>1, <2>3, <2>4, <2>5, BeforeStep DEF BeforeFinals
<1>3. CASE CreateLedgerRow
  <2>1. pc = "create_ledger_row" /\ pc' = "insert_root" /\ ledger' = Append(ledger, Unspent)
        /\ UNCHANGED <<theses, lineages, finalReads>>
    BY <1>3 DEF CreateLedgerRow
  <2>2. Len(ledger') = Len(ledger) + 1 /\ ledger'[Len(ledger) + 1] = Unspent
        /\ \A l \in 1..Len(ledger) : ledger'[l] = ledger[l]
    BY <2>1, AppendProperties DEF IInv, TypeOK, Unspent
  <2>3. RowsInOrder'
    BY <1>0, <2>1, <2>2 DEF IInv, RowsInOrder
  <2>4. \A l \in 1..Len(ledger') : ledger'[l] = Unspent
    BY <1>0, <2>1, <2>2 DEF IInv, NothingSpentYet, BeforeFinals
  <2>5. \A u \in ThesisIds' :
          theses'[u].status \notin Evaluated /\ theses'[u].lineage \in 1..Len(ledger')
    BY <1>0, <2>1, <2>2, NoneEvaluated DEF BeforeFinals, ThesisIds, StatusOf, LineageOf
  <2> QED
    BY <2>1, <2>3, <2>4, <2>5, BeforeStep DEF BeforeFinals
<1>4. ASSUME NEW shape \in Shape, InsertRoot(shape) PROVE IInv'
  <2>1. pc = "insert_root" /\ pc' \in {"screen", "create_lineage"}
        /\ UNCHANGED <<lineages, ledger, finalReads>>
    BY <1>4 DEF InsertRoot
  <2>2. Len(lineages) \in 1..Len(ledger)
    BY <1>0, <2>1 DEF IInv, RowsInOrder
  <2>3. InsertThesis(Len(lineages), NoParent, 0, shape) /\ NoParent \in Nat
    BY <1>4 DEF InsertRoot, NoParent
  <2> QED
    BY <2>1, <2>2, <2>3, BeforeInsert DEF BeforeFinals
<1> QED
  BY <1>1, <1>2, <1>3, <1>4 DEF Generation

LEMMA ScreenIInv == IInv /\ TypeOK' /\ ScreenStep => IInv'
<1> SUFFICES ASSUME IInv, TypeOK', ScreenStep PROVE IInv'
  OBVIOUS
<1> USE DEF Goto, tables, history
<1> DEFINE Quiet == /\ pc \in BeforeFinals \ {"create_ledger_row"}
                    /\ pc' \in {"activity", "record_verdict", "apply_verdict", "backtest"}
                    /\ UNCHANGED <<lineages, ledger, finalReads>>
<1>1. Quiet /\ UNCHANGED theses => IInv'
  BY BeforeQuiet
<1>2. ASSUME NEW t \in ThesisIds, NEW s \in Status \ Evaluated, Quiet, SetStatus(t, s) PROVE IInv'
  BY <1>2, BeforeQuiet
<1>3. CASE ScreenCycle \/ TestFamily \/ StartBacktests
  BY <1>1, <1>3 DEF ScreenCycle, TestFamily, StartBacktests, BeforeFinals
<1>4. ASSUME NEW t \in ThesisIds, AdmitToFamily(t) PROVE IInv'
  BY <1>1, <1>4 DEF AdmitToFamily, BeforeFinals
<1>5. ASSUME NEW t \in ThesisIds, NEW verdict \in {"pass", "fail"}, RecordVerdict(t, verdict)
      PROVE  IInv'
  BY <1>1, <1>5 DEF RecordVerdict, BeforeFinals
<1>6. ASSUME NEW t \in ThesisIds, RefuseUnderObserved(t) PROVE IInv'
  <2>1. Quiet /\ SetStatus(t, "screened_rejected")
    BY <1>6 DEF RefuseUnderObserved, BeforeFinals
  <2>2. "screened_rejected" \in Status \ Evaluated
    BY DEF Status, Evaluated
  <2> HIDE DEF Quiet
  <2> QED
    BY <1>2, <2>1, <2>2
<1>7. ASSUME NEW t \in ThesisIds, ApplyVerdict(t) PROVE IInv'
  <2>1. Quiet /\ SetStatus(t, IF PassRecorded(t) THEN "screened_passed" ELSE "screened_rejected")
    BY <1>7 DEF ApplyVerdict, BeforeFinals
  <2>2. (IF PassRecorded(t) THEN "screened_passed" ELSE "screened_rejected") \in Status \ Evaluated
    BY DEF Status, Evaluated
  <2> HIDE DEF Quiet
  <2> QED
    BY <1>2, <2>1, <2>2
<1> QED
  BY <1>3, <1>4, <1>5, <1>6, <1>7 DEF ScreenStep

LEMMA RefinementIInv == IInv /\ TypeOK' /\ RefinementStep => IInv'
<1> SUFFICES ASSUME IInv, TypeOK', RefinementStep PROVE IInv'
  OBVIOUS
<1> USE DEF Goto, tables, history
<1> DEFINE Quiet == /\ pc \in BeforeFinals \ {"create_ledger_row"}
                    /\ pc' \in {"backtest", "settle_refinement", "wave"}
                    /\ UNCHANGED <<lineages, ledger, finalReads>>
<1>1. Quiet /\ UNCHANGED theses => IInv'
  BY BeforeQuiet
<1>2. ASSUME NEW t \in ThesisIds, NEW s \in Status \ Evaluated, Quiet, SetStatus(t, s) PROVE IInv'
  BY <1>2, BeforeQuiet
<1>3. CASE EndBacktests
  BY <1>1, <1>3 DEF EndBacktests, BeforeFinals
<1>4. ASSUME NEW t \in ThesisIds, NEW clears \in BOOLEAN, RunRefinement(t, clears) PROVE IInv'
  BY <1>1, <1>4 DEF RunRefinement, BeforeFinals
<1>5. ASSUME NEW t \in ThesisIds, GateRefinement(t) PROVE IInv'
  <2>1. Quiet /\ SetStatus(t, "rejected_underperform")
    BY <1>5 DEF GateRefinement, BeforeFinals
  <2>2. "rejected_underperform" \in Status \ Evaluated
    BY DEF Status, Evaluated
  <2> HIDE DEF Quiet
  <2> QED
    BY <1>2, <2>1, <2>2
<1>6. ASSUME NEW t \in ThesisIds, SettleRefinement(t) PROVE IInv'
  <2> DEFINE s == IF Cleared(t, "refinement") THEN "backtested" ELSE "rejected_underperform"
  <2>1. Quiet /\ SetStatus(t, s)
    BY <1>6 DEF SettleRefinement, BeforeFinals
  <2>2. s \in Status \ Evaluated
    BY DEF Status, Evaluated
  <2> HIDE DEF Quiet, s
  <2> QED
    BY <1>2, <2>1, <2>2
<1> QED
  BY <1>3, <1>4, <1>5, <1>6 DEF RefinementStep

LEMMA WaveIInv == IInv /\ TypeOK' /\ WaveStep => IInv'
<1> SUFFICES ASSUME IInv, TypeOK', WaveStep PROVE IInv'
  OBVIOUS
<1> USE DEF Goto, tables, history
<1>0. \A u \in ThesisIds : LineageOf(u) \in 1..Len(ledger)
  BY LenProperties DEF IInv, TypeOK, LedgerRowBeforeThesis
<1>1. CASE StartWave
  BY <1>1, BeforeQuiet DEF StartWave, BeforeFinals
<1>2. CASE EndWaves
  <2>1. queue' \subseteq 1..Len(ledger)
    BY <1>0, <1>2 DEF EndWaves, LineagesOfCycle
  <2> QED
    BY <1>2, <2>1, BeforeQuiet DEF EndWaves, BeforeFinals
<1>3. CASE EndCandidates
  <2>1. pc' \in {"wave", "screen"} /\ pc = "critique"
        /\ UNCHANGED <<theses, lineages, ledger, finalReads>>
    BY <1>3 DEF EndCandidates
  <2> QED
    BY <2>1, BeforeQuiet DEF BeforeFinals
<1>4. ASSUME NEW t \in ThesisIds, RejectCritique(t) \/ AcceptCritique(t) PROVE IInv'
  <2>1. pc' \in {"critique", "refine"} /\ pc = "critique"
        /\ UNCHANGED <<theses, lineages, ledger, finalReads>>
    BY <1>4 DEF RejectCritique, AcceptCritique
  <2> QED
    BY <2>1, BeforeQuiet DEF BeforeFinals
<1>5. ASSUME NEW t \in ThesisIds, BumpLineageDepth(t) PROVE IInv'
  <2>1. LineageOf(t) \in 1..Len(lineages)
    BY <1>0, LenProperties DEF IInv, TypeOK, RowsInOrder
  <2>2. Len(lineages') = Len(lineages)
    <3>1. lineages[LineageOf(t)] + 1 \in Nat
      BY <2>1, ElementOfSeq DEF IInv, TypeOK
    <3> QED
      BY <1>5, <2>1, <3>1, ExceptSeq DEF BumpLineageDepth, BumpDepth, IInv, TypeOK
  <2>3. pc' = "critique" /\ pc = "bump_depth" /\ UNCHANGED <<theses, ledger, finalReads>>
    BY <1>5 DEF BumpLineageDepth
  <2> QED
    BY <2>2, <2>3, BeforeQuiet DEF BeforeFinals
<1>6. ASSUME NEW t \in ThesisIds, RefinementRaises(t) PROVE IInv'
  BY <1>6, AfterStep DEF RefinementRaises, Fail, AfterFinals
<1>7. ASSUME NEW t \in ThesisIds, NEW shape \in Shape, GenerateRefinement(t, shape) PROVE IInv'
  <2>1. theses[t].iteration + 1 \in Nat /\ t \in Nat
    BY IdsAreNatural DEF IInv, Thesis
  <2>2. /\ pc = "refine" /\ pc' = "bump_depth" /\ UNCHANGED <<lineages, ledger, finalReads>>
        /\ InsertThesis(LineageOf(t), t, theses[t].iteration + 1, shape)
    BY <1>7 DEF GenerateRefinement
  <2> QED
    BY <1>0, <2>1, <2>2, BeforeInsert DEF BeforeFinals
<1> QED
  BY <1>1, <1>2, <1>3, <1>4, <1>5, <1>6, <1>7 DEF WaveStep

\* In the final loop the least lineage in the queue is the only one at hand.
LEMMA OneAtHand ==
  ASSUME TypeOK, NEW l \in Nat, NEW m \in Nat, First(l), First(m)
  PROVE  l = m
BY DEF First, TypeOK

\* A step of the final loop that gives thesis t, which holds lineage l's entitlement or
\* is not at its verdict yet, its next status.
LEMMA FinalStatus ==
  ASSUME IInv, TypeOK', pc \in InFinals, NEW t \in ThesisIds,
         NEW s \in Evaluated \union {"final_evaluation_pending"}, SetStatus(t, s),
         UNCHANGED <<lineages, ledger>>, pc' \in {"final", "spend"},
         finalReads' = finalReads \/ (finalReads' = finalReads \union {t} /\ s \in Evaluated),
         s \in Evaluated => ledger[LineageOf(t)] = t
  PROVE  /\ RowsInOrder' /\ LedgerRowBeforeThesis' /\ NothingSpentYet'
         /\ FinalsHoldTheirRow'
         /\ ThesisIds' = ThesisIds
         /\ \A u \in ThesisIds : /\ LineageOf(u)' = LineageOf(u)
                                 /\ StatusOf(u)' = IF u = t THEN s ELSE StatusOf(u)
<1>1. /\ ThesisIds' = ThesisIds
      /\ \A u \in ThesisIds : /\ LineageOf(u)' = LineageOf(u)
                              /\ StatusOf(u)' = IF u = t THEN s ELSE StatusOf(u)
  <2>1. s \in Status
    BY DEF Status, Evaluated
  <2> QED
    BY <2>1, SetStatusEffect DEF ThesisIds, IInv, TypeOK
<1>2. RowsInOrder' /\ NothingSpentYet'
  BY DEF IInv, RowsInOrder, NothingSpentYet, InFinals, BeforeFinals
<1>3. LedgerRowBeforeThesis'
  BY <1>1 DEF IInv, LedgerRowBeforeThesis, LineageIds
<1>4. FinalsHoldTheirRow'
  <2>1. ASSUME NEW u \in ThesisIds, u \in finalReads' \/ StatusOf(u)' \in Evaluated
        PROVE  ledger[LineageOf(u)] = u
    <3>1. CASE u = t /\ s \in Evaluated
      BY <3>1
    <3>2. CASE ~(u = t /\ s \in Evaluated)
      <4>1. u \in finalReads \/ StatusOf(u) \in Evaluated
        BY <1>1, <2>1, <3>2 DEF Evaluated
      <4> QED
        BY <4>1 DEF IInv, FinalsHoldTheirRow
    <3> QED
      BY <3>1, <3>2
  <2>2. ASSUME NEW k \in 1..Len(ledger), ledger[k] # Unspent
        PROVE  /\ ledger[k] \in ThesisIds /\ LineageOf(ledger[k])' = k
               /\ StatusOf(ledger[k])' \in Evaluated \union {"final_evaluation_pending"}
    BY <1>1, <2>2 DEF IInv, FinalsHoldTheirRow
  <2>3. \A u \in ThesisIds' :
          u \in finalReads' \/ StatusOf(u)' \in Evaluated => ledger'[LineageOf(u)'] = u
    BY <1>1, <2>1
  <2>4. \A k \in 1..Len(ledger') : ledger'[k] # Unspent =>
          /\ ledger'[k] \in ThesisIds'
          /\ theses'[ledger'[k]].lineage = k
          /\ theses'[ledger'[k]].status \in Evaluated \union {"final_evaluation_pending"}
    BY <1>1, <2>2 DEF LineageOf, StatusOf
  <2> QED
    BY <2>3, <2>4 DEF FinalsHoldTheirRow, LineageOf, StatusOf
<1> QED
  BY <1>1, <1>2, <1>3, <1>4

\* A lineage is done: the rest of the queue is still unspent.
LEMMA QueueMovesOn ==
  ASSUME IInv, NEW l, First(l), pc \in InFinals, queue' = queue \ {l}, pc' = "final",
         UNCHANGED ledger
  PROVE  QueuedAreUnspent' /\ FinalistIsPending'
<1>1. \A m \in queue' : ledger[m] = Unspent
  <2> SUFFICES ASSUME NEW m \in queue', ledger[m] # Unspent PROVE FALSE
    OBVIOUS
  <2>1. First(m)
    BY DEF IInv, QueuedAreUnspent
  <2>2. m = l
    BY <2>1 DEF First, IInv, TypeOK
  <2> QED
    BY <2>2
<1> QED
  BY <1>1 DEF IInv, QueuedAreUnspent, FinalistIsPending

\* The lineage at hand and its finalist.
LEMMA AtHand ==
  ASSUME IInv, pc \in {"spend", "final_read", "settle_final"},
         NEW l \in LineageIds, First(l), NEW t \in ThesisIds, t \in picked
  PROVE  /\ l \in 1..Len(ledger) /\ l \in queue /\ picked = {t}
         /\ LineageOf(t) = l /\ StatusOf(t) = "final_evaluation_pending"
         /\ pc = "spend" => ledger[l] = Unspent
         /\ pc # "spend" => ledger[l] = t
<1>1. PICK m \in queue, u \in ThesisIds :
        /\ First(m) /\ picked = {u} /\ LineageOf(u) = m
        /\ StatusOf(u) = "final_evaluation_pending"
        /\ pc # "spend" => ledger[m] = u
  BY DEF IInv, FinalistIsPending
<1>2. u = t
  BY <1>1
<1>3. l \in queue /\ m = l
  BY <1>1, OneAtHand DEF First, IInv, TypeOK
<1>4. l \in 1..Len(ledger) /\ (pc = "spend" => ledger[l] = Unspent)
  BY <1>3 DEF IInv, QueuedAreUnspent, InFinals
<1> QED
  BY <1>1, <1>2, <1>3, <1>4

LEMMA SelectIInv ==
  ASSUME IInv, TypeOK', NEW l \in LineageIds, NEW t \in ThesisIds, SelectFinalist(l, t)
  PROVE  IInv'
<1>1. /\ pc = "final" /\ pc' = "spend" /\ First(l) /\ t \in Survivors(l) /\ picked' = {t}
      /\ SetStatus(t, "final_evaluation_pending")
      /\ UNCHANGED <<lineages, ledger, finalReads, queue>>
  BY DEF SelectFinalist, Goto, history
<1>2. LineageOf(t) = l /\ l \in queue /\ ledger[l] = Unspent
  BY <1>1 DEF Survivors, First, IInv, QueuedAreUnspent, InFinals
<1>3. /\ RowsInOrder' /\ LedgerRowBeforeThesis' /\ NothingSpentYet' /\ FinalsHoldTheirRow'
      /\ ThesisIds' = ThesisIds /\ LineageOf(t)' = l
      /\ StatusOf(t)' = "final_evaluation_pending"
  BY <1>1, <1>2, FinalStatus DEF InFinals, Evaluated
<1>4. QueuedAreUnspent'
  BY <1>1 DEF IInv, QueuedAreUnspent, InFinals
<1>5. FinalistIsPending'
  BY <1>1, <1>2, <1>3 DEF FinalistIsPending, First, LineageOf, StatusOf
<1> QED
  BY <1>3, <1>4, <1>5 DEF IInv

\* spend finds the row unspent, so the refusing branch is never taken in a cycle.
LEMMA SpendIInv ==
  ASSUME IInv, TypeOK', NEW l \in LineageIds, NEW t \in ThesisIds, SpendEntitlement(l, t)
  PROVE  IInv'
<1>1. pc = "spend" /\ First(l) /\ t \in picked
  BY DEF SpendEntitlement
<1>2. /\ l \in 1..Len(ledger) /\ l \in queue /\ picked = {t} /\ LineageOf(t) = l
      /\ StatusOf(t) = "final_evaluation_pending" /\ ledger[l] = Unspent
  BY <1>1, AtHand
<1>3. /\ ledger' = [ledger EXCEPT ![l] = t] /\ pc' = "final_read"
      /\ UNCHANGED <<theses, lineages, queue, picked, finalReads>>
  BY <1>2 DEF SpendEntitlement, MarkSpent, Goto, history
<1>4. /\ Len(ledger') = Len(ledger)
      /\ \A k \in 1..Len(ledger) : ledger'[k] = IF k = l THEN t ELSE ledger[k]
  <2>1. ledger \in Seq(Nat)
    BY DEF IInv, TypeOK
  <2>2. t \in Nat
    BY IdsAreNatural DEF IInv
  <2>3. ledger' = [ledger EXCEPT ![l] = t]
    BY <1>3
  <2> QED
    BY <2>1, <2>2, <2>3, <1>2, ExceptSeq
<1>5. \A u \in ThesisIds : LineageOf(u) \in 1..Len(ledger)
  BY LenProperties DEF IInv, TypeOK, LedgerRowBeforeThesis
<1>6. RowsInOrder' /\ NothingSpentYet'
  BY <1>1, <1>3, <1>4 DEF IInv, RowsInOrder, NothingSpentYet, BeforeFinals
<1>7. LedgerRowBeforeThesis'
  <2>1. DOMAIN ledger' = 1..Len(ledger') /\ DOMAIN ledger = 1..Len(ledger)
    BY LenProperties DEF IInv, TypeOK
  <2> QED
    BY <1>3, <1>4, <2>1 DEF IInv, LedgerRowBeforeThesis, ThesisIds, LineageOf, LineageIds
<1>8. QueuedAreUnspent'
  BY <1>1, <1>3, <1>4 DEF IInv, QueuedAreUnspent, InFinals, First
<1>9. FinalistIsPending'
  BY <1>1, <1>2, <1>3, <1>4 DEF FinalistIsPending, First, LineageOf, StatusOf, ThesisIds
<1>10. FinalsHoldTheirRow'
  <2>1. ASSUME NEW u \in ThesisIds, u \in finalReads \/ StatusOf(u) \in Evaluated
        PROVE  ledger'[LineageOf(u)] = u
    <3>1. ledger[LineageOf(u)] = u /\ u # Unspent
      BY <2>1, IdsAreNatural DEF IInv, FinalsHoldTheirRow, Unspent
    <3>2. LineageOf(u) # l
      BY <1>2, <3>1
    <3> QED
      BY <1>4, <1>5, <3>1, <3>2
  <2>2. ASSUME NEW k \in 1..Len(ledger), ledger'[k] # Unspent
        PROVE  /\ ledger'[k] \in ThesisIds /\ LineageOf(ledger'[k]) = k
               /\ StatusOf(ledger'[k]) \in Evaluated \union {"final_evaluation_pending"}
    <3>1. CASE k = l
      BY <1>2, <1>4, <3>1
    <3>2. CASE k # l
      BY <1>4, <2>2, <3>2 DEF IInv, FinalsHoldTheirRow
    <3> QED
      BY <3>1, <3>2
  <2>3. ThesisIds' = ThesisIds
    BY <1>3 DEF ThesisIds
  <2> QED
    BY <1>3, <1>4, <2>1, <2>2, <2>3 DEF FinalsHoldTheirRow, LineageOf, StatusOf
<1> QED
  BY <1>6, <1>7, <1>8, <1>9, <1>10 DEF IInv

\* The gate's refusal and the verdict on the final backtest.
LEMMA VerdictIInv ==
  ASSUME IInv, TypeOK', NEW l \in LineageIds, NEW t \in ThesisIds,
         GateFinal(l, t) \/ SettleFinal(l, t)
  PROVE  IInv'
<1>1. pc \in {"final_read", "settle_final"} /\ First(l) /\ t \in picked
  BY DEF GateFinal, SettleFinal
<1>2. LineageOf(t) = l /\ ledger[l] = t
  BY <1>1, AtHand
<1>3. /\ pc' = "final" /\ queue' = queue \ {l} /\ UNCHANGED <<lineages, ledger>>
      /\ finalReads' = finalReads \/ finalReads' = finalReads \union {t}
      /\ \E s \in Evaluated : SetStatus(t, s)
  BY DEF GateFinal, SettleFinal, Goto, history, Evaluated
<1>4. RowsInOrder' /\ LedgerRowBeforeThesis' /\ NothingSpentYet' /\ FinalsHoldTheirRow'
  <2>1. PICK s \in Evaluated : SetStatus(t, s)
    BY <1>3
  <2> QED
    BY <1>1, <1>2, <1>3, <2>1, FinalStatus DEF InFinals
<1>5. QueuedAreUnspent' /\ FinalistIsPending'
  BY <1>1, <1>3, QueueMovesOn DEF InFinals
<1> QED
  BY <1>4, <1>5 DEF IInv

\* The final split is read, for the thesis that holds the entitlement.
LEMMA RunFinalIInv ==
  ASSUME IInv, TypeOK', NEW l \in LineageIds, NEW t \in ThesisIds, NEW clears \in BOOLEAN,
         RunFinal(l, t, clears)
  PROVE  IInv'
<1>1. pc = "final_read" /\ First(l) /\ t \in picked /\ pc' = "settle_final"
      /\ finalReads' = finalReads \union {t}
      /\ UNCHANGED <<theses, lineages, ledger, queue, picked>>
  BY DEF RunFinal, Goto
<1>2. LineageOf(t) = l /\ ledger[l] = t
  BY <1>1, AtHand
<1>3. RowsInOrder' /\ LedgerRowBeforeThesis' /\ NothingSpentYet'
  BY <1>1 DEF IInv, RowsInOrder, LedgerRowBeforeThesis, NothingSpentYet, BeforeFinals,
              ThesisIds, LineageIds, LineageOf
<1>4. QueuedAreUnspent' /\ FinalistIsPending'
  BY <1>1 DEF IInv, QueuedAreUnspent, FinalistIsPending, InFinals, First, ThesisIds, LineageOf,
              StatusOf
<1>5. FinalsHoldTheirRow'
  BY <1>1, <1>2 DEF IInv, FinalsHoldTheirRow, ThesisIds, LineageOf, StatusOf
<1> QED
  BY <1>3, <1>4, <1>5 DEF IInv

LEMMA FinalIInv == IInv /\ TypeOK' /\ FinalStep => IInv'
<1> SUFFICES ASSUME IInv, TypeOK', FinalStep PROVE IInv'
  OBVIOUS
<1>1. CASE EndFinals
  BY <1>1, AfterStep DEF EndFinals, Goto, tables, history, AfterFinals
<1>2. ASSUME NEW l \in LineageIds, SkipLineage(l) PROVE IInv'
  <2>1. /\ pc = "final" /\ pc' = "final" /\ First(l) /\ queue' = queue \ {l}
        /\ UNCHANGED <<theses, lineages, ledger, finalReads>>
    BY <1>2 DEF SkipLineage, tables, history
  <2>2. QueuedAreUnspent' /\ FinalistIsPending'
    BY <2>1, QueueMovesOn DEF InFinals
  <2>3. RowsInOrder' /\ LedgerRowBeforeThesis' /\ NothingSpentYet' /\ FinalsHoldTheirRow'
    BY <2>1 DEF IInv, RowsInOrder, LedgerRowBeforeThesis, NothingSpentYet, BeforeFinals,
                FinalsHoldTheirRow, ThesisIds, LineageIds, LineageOf, StatusOf
  <2> QED
    BY <2>2, <2>3 DEF IInv
<1>3. ASSUME NEW l \in LineageIds, NEW t \in ThesisIds, SelectFinalist(l, t) PROVE IInv'
  BY <1>3, SelectIInv
<1>4. ASSUME NEW l \in LineageIds, NEW t \in ThesisIds, SpendEntitlement(l, t) PROVE IInv'
  BY <1>4, SpendIInv
<1>5. ASSUME NEW l \in LineageIds, NEW t \in ThesisIds, GateFinal(l, t) \/ SettleFinal(l, t)
      PROVE  IInv'
  BY <1>5, VerdictIInv
<1>6. ASSUME NEW l \in LineageIds, NEW t \in ThesisIds, NEW clears \in BOOLEAN,
             RunFinal(l, t, clears)
      PROVE  IInv'
  BY <1>6, RunFinalIInv
<1> QED
  BY <1>1, <1>2, <1>3, <1>4, <1>5, <1>6 DEF FinalStep

LEMMA NextIInv == IInv /\ [Next]_vars => IInv'
<1> SUFFICES ASSUME IInv, [Next]_vars PROVE IInv'
  OBVIOUS
<1>0. TypeOK'
  BY StepTypeOK
<1>1. CASE UNCHANGED vars
  BY <1>0, <1>1 DEF IInv, RowsInOrder, LedgerRowBeforeThesis, NothingSpentYet, QueuedAreUnspent,
     FinalistIsPending, FinalsHoldTheirRow, First, ThesisIds, LineageIds, LineageOf,
     StatusOf, vars, tables, control, history
<1>2. CASE AssertFresh
  <2>1. /\ pc = "assert_fresh" /\ pc' \in {"create_cycle", "over"}
        /\ UNCHANGED <<theses, lineages, ledger, finalReads>>
    BY <1>2 DEF AssertFresh, tables, history
  <2>2. CASE pc' = "over"
    BY <1>0, <2>1, <2>2, AfterStep DEF AfterFinals
  <2>3. CASE pc' = "create_cycle"
    BY <1>0, <2>1, <2>3, BeforeQuiet DEF BeforeFinals
  <2> QED
    BY <2>1, <2>2, <2>3
<1>3. CASE CreateCycle
  BY <1>0, <1>3, BeforeQuiet DEF CreateCycle, Goto, history, BeforeFinals
<1>4. CASE Generation \/ ScreenStep \/ RefinementStep \/ WaveStep \/ FinalStep
  BY <1>0, <1>4, GenerationIInv, ScreenIInv, RefinementIInv, WaveIInv, FinalIInv
<1>5. CASE ReportStep
  <2>1. /\ pc \in {"report", "render", "finish"} /\ pc' \in {"render", "finish", "over"}
        /\ UNCHANGED <<theses, lineages, ledger, finalReads>>
    BY <1>5 DEF ReportStep, BuildReport, RenderMarkdown, FinishCycle, ReportRaises, Fail, Goto,
                tables, history
  <2> QED
    BY <1>0, <2>1, AfterStep DEF AfterFinals
<1>6. CASE Raise
  <2>1. pc' = "over" /\ pc \notin {"over", "dead"}
        /\ UNCHANGED <<theses, lineages, ledger, finalReads>>
    BY <1>6 DEF Raise, CreateCycleRaises, BodyRaises, Fail, Goto, tables, history
  <2> QED
    BY <1>0, <2>1, AfterStep DEF AfterFinals
<1>7. CASE Kill
  BY <1>0, <1>7, AfterStep DEF Kill, Goto, tables, history, AfterFinals
<1>8. CASE Over
  BY <1>1, <1>8 DEF Over
<1> QED
  BY <1>1, <1>2, <1>3, <1>4, <1>5, <1>6, <1>7, <1>8 DEF Next, Progress

-----------------------------------------------------------------------------
\* The invariant holds throughout every run, whatever its caps and faults.
THEOREM Invariance == Spec => []IInv
BY InitIInv, NextIInv, PTL DEF Spec

\* Type correctness of the tables and of run_cycle's control state.
THEOREM TypeCorrect == Spec => []TypeOK
<1>1. IInv => TypeOK
  BY DEF IInv
<1> QED
  BY <1>1, Invariance, PTL

\* _persist_payload writes the lineage and its ledger row before the lineage's theses.
THEOREM RowFirst == Spec => []LedgerRowBeforeThesis
<1>1. IInv => LedgerRowBeforeThesis
  BY DEF IInv
<1> QED
  BY <1>1, Invariance, PTL

-----------------------------------------------------------------------------
(***************************************************************************)
(* The variants of a lineage.  Every variant but the youngest one of its   *)
(* lineage is rejected, and so are the candidates of a wave, which are all *)
(* youngest variants until one of them has been refined.                   *)
(***************************************************************************)
Generating == {"create_lineage", "create_ledger_row", "insert_root"}

Waving == {"critique", "refine", "bump_depth"}

Youngest(t) == \A u \in ThesisIds : LineageOf(u) = LineageOf(t) => u <= t

OlderAreRejected ==
  \A t \in ThesisIds : Youngest(t) \/ StatusOf(t) \in REJECTED_STATUSES

IterationsRise ==
  \A u, v \in ThesisIds :
    LineageOf(u) = LineageOf(v) /\ u < v => theses[u].iteration < theses[v].iteration

Chain == OlderAreRejected /\ IterationsRise /\ RefinementChain

RootIsFirst ==
  pc \in {"create_ledger_row", "insert_root"} =>
    /\ Len(lineages) > 0
    /\ lineages[Len(lineages)] = 0
    /\ \A t \in ThesisIds : LineageOf(t) < Len(lineages)

CandidatesAreYoungest ==
  pc \in Waving => \A t \in queue :
    /\ t \in ThesisIds
    /\ StatusOf(t) \in REJECTED_STATUSES
    /\ lineages[LineageOf(t)] < MaxDepth
    /\ Youngest(t) \/ (pc = "bump_depth" /\ First(t))
    /\ pc = "refine" /\ First(t) => t \in critiques
    /\ pc = "bump_depth" => t # Len(theses)
    /\ pc = "bump_depth" /\ First(t) => LineageOf(Len(theses)) = LineageOf(t)

VisitedStatuses ==
  /\ pc = "activity" =>
       /\ queue \intersect picked = {}
       /\ \A t \in queue \union picked : t \in ThesisIds /\ StatusOf(t) = "proposed"
  /\ pc \in {"record_verdict", "apply_verdict"} =>
       /\ \A t \in queue : t \in ThesisIds /\ StatusOf(t) = "proposed"
       /\ \A t \in picked : t \in ThesisIds /\ StatusOf(t) = "screened_passed"
  /\ pc \in {"backtest", "settle_refinement"} =>
       \A t \in queue : t \in ThesisIds /\ StatusOf(t) = "screened_passed"

NeverRefused == refusals = {} /\ \A t \in ThesisIds : StatusOf(t) # "refused"

CInv ==
  /\ Chain
  /\ RootIsFirst
  /\ CandidatesAreYoungest
  /\ VisitedStatuses
  /\ NeverRefused

\* update_thesis_status leaves all columns but the status alone.
LEMMA StatusOnly ==
  ASSUME TypeOK, NEW t \in ThesisIds, NEW s \in Status, SetStatus(t, s)
  PROVE  /\ ThesisIds' = ThesisIds
         /\ Len(theses') = Len(theses)
         /\ \A u \in ThesisIds : /\ theses'[u].lineage = theses[u].lineage
                                 /\ theses'[u].parent = theses[u].parent
                                 /\ theses'[u].iteration = theses[u].iteration
                                 /\ theses'[u].shape = theses[u].shape
                                 /\ theses'[u].status = IF u = t THEN s ELSE theses[u].status
<1>1. ThesisIds' = ThesisIds /\ Len(theses') = Len(theses)
  BY SetStatusEffect DEF TypeOK, ThesisIds
<1>2. DOMAIN theses = ThesisIds /\ \A u \in ThesisIds : theses[u] \in Thesis
  BY IdsAreNatural, LenProperties DEF TypeOK, ThesisIds
<1>3. \A u \in ThesisIds :
        theses'[u] = IF u = t THEN [theses[u] EXCEPT !.status = s] ELSE theses[u]
  BY <1>2 DEF SetStatus
<1> QED
  BY <1>1, <1>2, <1>3 DEF Thesis

\* The row _persist_payload adds, n, is the last one.
Added(n, l, p, i, shape) ==
  /\ n = Len(theses) + 1 /\ n \in Nat \ {0}
  /\ Len(theses') = n
  /\ ThesisIds' = ThesisIds \union {n}
  /\ \A u \in ThesisIds : u < n /\ u \in Nat /\ theses'[u] = theses[u]
  /\ theses'[n].lineage = l
  /\ theses'[n].parent = p
  /\ theses'[n].iteration = i
  /\ theses'[n].shape = shape
  /\ theses'[n].status = IF shape = "valid" THEN "proposed" ELSE "invalid_schema"

\* Inserting a thesis adds such a row.
LEMMA NewRow ==
  ASSUME TypeOK, NEW l \in Nat \ {0}, NEW p \in Nat, NEW i \in Nat, NEW shape \in Shape,
         InsertThesis(l, p, i, shape)
  PROVE  \E n : Added(n, l, p, i, shape)
<1> DEFINE row == [lineage |-> l, parent |-> p, iteration |-> i, shape |-> shape,
                   status |-> IF shape = "valid" THEN "proposed" ELSE "invalid_schema"]
<1>1. row \in Thesis
  BY DEF Thesis, Status
<1>2. theses' = Append(theses, row) /\ theses \in Seq(Thesis)
  BY DEF InsertThesis, TypeOK
<1>3. /\ row.lineage = l /\ row.parent = p /\ row.iteration = i /\ row.shape = shape
      /\ row.status = IF shape = "valid" THEN "proposed" ELSE "invalid_schema"
  OBVIOUS
<1> HIDE DEF row
<1>4. /\ Len(theses') = Len(theses) + 1
      /\ theses'[Len(theses) + 1] = row
      /\ \A u \in 1..Len(theses) : theses'[u] = theses[u]
  BY <1>1, <1>2, AppendProperties
<1>5. Len(theses) \in Nat
  BY IdsAreNatural
<1>6. PICK n : n = Len(theses) + 1
  OBVIOUS
<1>7. ThesisIds' = ThesisIds \union {n} /\ \A u \in ThesisIds : u < n /\ u \in Nat
  BY <1>4, <1>5, <1>6 DEF ThesisIds
<1>8. Added(n, l, p, i, shape)
  BY <1>3, <1>4, <1>5, <1>6, <1>7 DEF Added, ThesisIds
<1> QED
  BY <1>8

\* Two youngest variants of one lineage are the same.
LEMMA OneYoungest ==
  ASSUME TypeOK, NEW t \in ThesisIds, NEW u \in ThesisIds, Youngest(t), Youngest(u),
         LineageOf(t) = LineageOf(u)
  PROVE  t = u
<1>1. t <= u /\ u <= t
  BY DEF Youngest
<1>2. t \in Nat /\ u \in Nat
  BY IdsAreNatural
<1> QED
  BY <1>1, <1>2

\* The newest variant by iteration is the youngest row.
LEMMA NewestIsYoungest ==
  ASSUME TypeOK, IterationsRise, NEW t \in ThesisIds, Newest(t)
  PROVE  Youngest(t)
<1> SUFFICES ASSUME NEW u \in ThesisIds, LineageOf(u) = LineageOf(t) PROVE u <= t
  BY DEF Youngest
<1>1. u \in Nat /\ t \in Nat /\ theses[u].iteration \in Nat /\ theses[t].iteration \in Nat
  BY IdsAreNatural DEF Thesis
<1>2. CASE u <= t
  BY <1>2
<1>3. CASE t < u
  <2>1. theses[t].iteration < theses[u].iteration
    BY <1>3 DEF IterationsRise
  <2> QED
    BY <1>1, <1>3, <2>1 DEF Newest
<1> QED
  BY <1>1, <1>2, <1>3

-----------------------------------------------------------------------------
(***************************************************************************)
(* What the three kinds of steps do to the chains.                         *)
(***************************************************************************)
LEMMA ChainQuiet ==
  ASSUME Chain, theses' = theses, critiques \subseteq critiques'
  PROVE  Chain' /\ \A u \in ThesisIds : Youngest(u)' <=> Youngest(u)
BY DEF Chain, OlderAreRejected, IterationsRise, RefinementChain, Youngest, ThesisIds,
       LineageOf, StatusOf

LEMMA ChainStatus ==
  ASSUME TypeOK, Chain, NEW t \in ThesisIds, NEW s \in Status, SetStatus(t, s),
         critiques' = critiques, Youngest(t) \/ s \in REJECTED_STATUSES
  PROVE  Chain' /\ \A u \in ThesisIds : Youngest(u)' <=> Youngest(u)
<1>1. /\ ThesisIds' = ThesisIds
      /\ \A u \in ThesisIds : /\ theses'[u].lineage = theses[u].lineage
                              /\ theses'[u].parent = theses[u].parent
                              /\ theses'[u].iteration = theses[u].iteration
                              /\ theses'[u].status = IF u = t THEN s ELSE theses[u].status
  BY StatusOnly
<1>2. \A u \in ThesisIds : Youngest(u)' <=> Youngest(u)
  BY <1>1 DEF Youngest, LineageOf
<1>3. OlderAreRejected'
  BY <1>1, <1>2 DEF Chain, OlderAreRejected, StatusOf
<1>4. IterationsRise'
  BY <1>1 DEF Chain, IterationsRise, LineageOf
<1>5. RefinementChain'
  <2> SUFFICES ASSUME NEW u \in ThesisIds
               PROVE  IF theses'[u].parent = NoParent THEN theses'[u].iteration = 0
                      ELSE LET p == theses'[u].parent
                           IN /\ p < u
                              /\ theses'[p].lineage = theses'[u].lineage
                              /\ theses'[u].iteration = theses'[p].iteration + 1
                              /\ theses'[p].status \in REJECTED_STATUSES
                              /\ p \in critiques'
                              /\ \A v \in ThesisIds \ {u} : theses'[v].parent # p
    BY <1>1 DEF RefinementChain, LineageOf, StatusOf
  <2> DEFINE p == theses[u].parent
  <2>1. CASE p = NoParent
    BY <1>1, <2>1 DEF Chain, RefinementChain
  <2>2. CASE p # NoParent
    <3>1. /\ p < u /\ LineageOf(p) = LineageOf(u)
          /\ theses[u].iteration = theses[p].iteration + 1
          /\ StatusOf(p) \in REJECTED_STATUSES /\ p \in critiques
          /\ \A v \in ThesisIds \ {u} : theses[v].parent # p
      BY <2>2 DEF Chain, RefinementChain
    <3>2. p \in Nat /\ u \in Nat /\ u <= Len(theses) /\ Len(theses) \in Nat
      BY IdsAreNatural DEF Thesis, ThesisIds
    <3>3. p \in ThesisIds
      BY <2>2, <3>1, <3>2 DEF ThesisIds, NoParent
    <3>4. ~Youngest(p)
      BY <3>1, <3>2 DEF Youngest
    <3>5. theses'[p].status \in REJECTED_STATUSES
      BY <1>1, <3>1, <3>3, <3>4 DEF StatusOf
    <3> QED
      BY <1>1, <2>2, <3>1, <3>3, <3>5 DEF LineageOf
  <2> QED
    BY <2>1, <2>2
<1> QED
  BY <1>2, <1>3, <1>4, <1>5 DEF Chain

\* A root, in a lineage that has no thesis yet, or the refinement of a lineage's
\* youngest variant.
LEMMA ChainInsert ==
  ASSUME TypeOK, Chain, NEW l \in Nat \ {0}, NEW p \in Nat, NEW i \in Nat,
         NEW shape \in Shape, InsertThesis(l, p, i, shape), critiques' = critiques,
         \/ p = NoParent /\ i = 0 /\ \A u \in ThesisIds : LineageOf(u) # l
         \/ /\ p \in ThesisIds /\ Youngest(p) /\ LineageOf(p) = l
            /\ StatusOf(p) \in REJECTED_STATUSES /\ p \in critiques
            /\ i = theses[p].iteration + 1
  PROVE  /\ Chain'
         /\ \A u \in ThesisIds : LineageOf(u) # l => (Youngest(u)' <=> Youngest(u))
<1>0. PICK n : Added(n, l, p, i, shape)
  BY NewRow
<1>1. /\ ThesisIds' = ThesisIds \union {n}
      /\ n \in Nat
      /\ \A u \in ThesisIds : u < n /\ u \in Nat /\ theses'[u] = theses[u]
      /\ theses'[n].lineage = l /\ theses'[n].parent = p /\ theses'[n].iteration = i
  BY <1>0 DEF Added
<1>2. \A u \in ThesisIds : LineageOf(u) # l => (Youngest(u)' <=> Youngest(u))
  BY <1>1 DEF Youngest, LineageOf
<1>3. Youngest(n)'
  BY <1>1 DEF Youngest
<1>4. \A u \in ThesisIds : LineageOf(u) = l => StatusOf(u) \in REJECTED_STATUSES
  <2> SUFFICES ASSUME NEW u \in ThesisIds, LineageOf(u) = l
               PROVE  StatusOf(u) \in REJECTED_STATUSES
    OBVIOUS
  <2>1. p \in ThesisIds /\ Youngest(p) /\ LineageOf(p) = l /\ StatusOf(p) \in REJECTED_STATUSES
    OBVIOUS
  <2>2. CASE Youngest(u)
    BY <2>1, <2>2, OneYoungest
  <2>3. CASE ~Youngest(u)
    BY <2>3 DEF Chain, OlderAreRejected
  <2> QED
    BY <2>2, <2>3
<1>5. OlderAreRejected'
  BY <1>1, <1>2, <1>3, <1>4 DEF Chain, OlderAreRejected, StatusOf, LineageOf
<1>6. \A u \in ThesisIds : LineageOf(u) = l => theses[u].iteration < i
  <2> SUFFICES ASSUME NEW u \in ThesisIds, LineageOf(u) = l
               PROVE  theses[u].iteration < i
    OBVIOUS
  <2>1. p \in ThesisIds /\ Youngest(p) /\ LineageOf(p) = l /\ i = theses[p].iteration + 1
    OBVIOUS
  <2>2. u <= p /\ u \in Nat /\ p \in Nat
        /\ theses[u].iteration \in Nat /\ theses[p].iteration \in Nat
    BY <2>1, IdsAreNatural DEF Youngest, Thesis
  <2>3. u < p => theses[u].iteration < theses[p].iteration
    BY <2>1 DEF Chain, IterationsRise
  <2> QED
    BY <2>1, <2>2, <2>3
<1>7. IterationsRise'
  <2> SUFFICES ASSUME NEW u \in ThesisIds', NEW v \in ThesisIds',
                      theses'[u].lineage = theses'[v].lineage, u < v
               PROVE  theses'[u].iteration < theses'[v].iteration
    BY DEF IterationsRise, LineageOf
  <2>1. CASE v = n
    <3>1. u \in ThesisIds
      BY <1>1, <2>1
    <3> QED
      BY <1>1, <1>6, <2>1, <3>1 DEF LineageOf
  <2>2. CASE v # n
    <3>1. u \in ThesisIds /\ v \in ThesisIds
      BY <1>1, <2>2
    <3> QED
      BY <1>1, <3>1 DEF Chain, IterationsRise, LineageOf
  <2> QED
    BY <2>1, <2>2
<1>8. RefinementChain'
  <2> SUFFICES ASSUME NEW u \in ThesisIds'
               PROVE  IF theses'[u].parent = NoParent THEN theses'[u].iteration = 0
                      ELSE LET q == theses'[u].parent
                           IN /\ q < u
                              /\ theses'[q].lineage = theses'[u].lineage
                              /\ theses'[u].iteration = theses'[q].iteration + 1
                              /\ theses'[q].status \in REJECTED_STATUSES
                              /\ q \in critiques'
                              /\ \A v \in ThesisIds' \ {u} : theses'[v].parent # q
    BY DEF RefinementChain, LineageOf, StatusOf
  <2>1. CASE u \in ThesisIds
    <3> DEFINE q == theses[u].parent
    <3>1. CASE q = NoParent
      BY <1>1, <2>1, <3>1 DEF Chain, RefinementChain
    <3>2. CASE q # NoParent
      <4>1. /\ q < u /\ LineageOf(q) = LineageOf(u)
            /\ theses[u].iteration = theses[q].iteration + 1
            /\ StatusOf(q) \in REJECTED_STATUSES /\ q \in critiques
            /\ \A v \in ThesisIds \ {u} : theses[v].parent # q
        BY <2>1, <3>2 DEF Chain, RefinementChain
      <4>2. q \in Nat /\ u \in Nat /\ u <= Len(theses) /\ Len(theses) \in Nat
        BY <2>1, IdsAreNatural DEF Thesis, ThesisIds
      <4>3. q \in ThesisIds
        BY <3>2, <4>1, <4>2 DEF ThesisIds, NoParent
      <4>4. ~Youngest(q)
        BY <2>1, <4>1, <4>2 DEF Youngest
      <4>5. p # q
        BY <3>2, <4>4
      <4> QED
        BY <1>1, <2>1, <3>2, <4>1, <4>3, <4>5 DEF LineageOf, StatusOf
    <3> QED
      BY <3>1, <3>2
  <2>2. CASE u = n
    <3>1. CASE p = NoParent
      <4>1. i = 0
        BY <3>1, IdsAreNatural DEF NoParent
      <4> QED
        BY <1>1, <2>2, <3>1, <4>1
    <3>2. CASE p # NoParent
      <4>1. /\ p \in ThesisIds /\ Youngest(p) /\ LineageOf(p) = l
            /\ StatusOf(p) \in REJECTED_STATUSES /\ p \in critiques
            /\ i = theses[p].iteration + 1
        BY <3>2
      <4>2. ASSUME NEW v \in ThesisIds, theses[v].parent = p PROVE FALSE
        <5>1. p < v /\ LineageOf(p) = LineageOf(v)
          BY <3>2, <4>2 DEF Chain, RefinementChain
        <5>2. p \in Nat /\ v \in Nat
          BY <4>1, IdsAreNatural
        <5> QED
          BY <4>1, <5>1, <5>2 DEF Youngest
      <4>3. \A v \in ThesisIds' \ {n} : theses'[v].parent # p
        BY <1>1, <4>2
      <4> QED
        BY <1>1, <2>2, <3>2, <4>1, <4>3 DEF LineageOf, StatusOf
    <3> QED
      BY <3>1, <3>2
  <2> QED
    BY <1>1, <2>1, <2>2
<1> QED
  BY <1>2, <1>5, <1>7, <1>8 DEF Chain

-----------------------------------------------------------------------------
(***************************************************************************)
(* Every step keeps the chains and the statuses of the rows a loop visits. *)
(***************************************************************************)
Visiting == {"activity", "record_verdict", "apply_verdict", "backtest", "settle_refinement"}

\* A step to a point where neither a root, nor a candidate, nor a family is at hand.
LEMMA CInvElsewhere ==
  ASSUME CInv, Chain', refusals' = refusals,
         \A u \in ThesisIds' : theses'[u].status # "refused",
         pc' \notin Visiting \union Waving \union {"create_ledger_row", "insert_root"}
  PROVE  CInv'
BY DEF CInv, RootIsFirst, CandidatesAreYoungest, VisitedStatuses, NeverRefused, Visiting, Waving,
       StatusOf

LEMMA CInvQuiet ==
  ASSUME CInv, theses' = theses, critiques' = critiques, refusals' = refusals,
         pc' \notin Visiting \union Waving \union {"create_ledger_row", "insert_root"}
  PROVE  CInv'
<1>1. Chain'
  BY ChainQuiet DEF CInv
<1>2. \A u \in ThesisIds' : theses'[u].status # "refused"
  BY DEF CInv, NeverRefused, ThesisIds, StatusOf
<1> QED
  BY <1>1, <1>2, CInvElsewhere

LEMMA InitCInv == Init => CInv
<1> SUFFICES ASSUME Init PROVE CInv
  OBVIOUS
<1>1. ThesisIds = {}
  BY DEF Init, ThesisIds
<1>2. Chain
  BY <1>1 DEF Chain, OlderAreRejected, IterationsRise, RefinementChain
<1> QED
  BY <1>1, <1>2 DEF Init, CInv, RootIsFirst, CandidatesAreYoungest, VisitedStatuses, NeverRefused,
     Waving

LEMMA GenerationCInv == IInv /\ CInv /\ Generation => CInv'
<1> SUFFICES ASSUME IInv, CInv, Generation PROVE CInv'
  OBVIOUS
<1> USE DEF Goto, tables, history
<1>0. TypeOK /\ Chain /\ Len(lineages) \in Nat
  BY LenProperties DEF IInv, CInv, TypeOK
<1>1. CASE GenerateInitial
  BY <1>1, CInvQuiet DEF GenerateInitial, Visiting, Waving
<1>2. CASE CreateLineage
  <2>1. /\ pc' = "create_ledger_row" /\ lineages' = Append(lineages, 0) /\ theses' = theses
        /\ critiques' = critiques /\ refusals' = refusals
    BY <1>2 DEF CreateLineage
  <2>2. Len(lineages') = Len(lineages) + 1 /\ lineages'[Len(lineages) + 1] = 0
    BY <2>1, AppendProperties DEF IInv, TypeOK
  <2>3. \A t \in ThesisIds : LineageOf(t) \in 1..Len(lineages)
    BY DEF IInv, LedgerRowBeforeThesis, LineageIds
  <2>4. RootIsFirst'
    BY <1>0, <2>1, <2>2, <2>3 DEF RootIsFirst, ThesisIds, LineageOf
  <2> QED
    BY <1>0, <2>1, <2>4, ChainQuiet DEF CInv, CandidatesAreYoungest, VisitedStatuses, NeverRefused,
       Waving, ThesisIds, StatusOf
<1>3. CASE CreateLedgerRow
  <2>1. /\ pc = "create_ledger_row" /\ pc' = "insert_root" /\ lineages' = lineages
        /\ theses' = theses /\ critiques' = critiques /\ refusals' = refusals
    BY <1>3 DEF CreateLedgerRow
  <2>2. RootIsFirst'
    BY <2>1 DEF CInv, RootIsFirst, ThesisIds, LineageOf
  <2> QED
    BY <1>0, <2>1, <2>2, ChainQuiet DEF CInv, CandidatesAreYoungest, VisitedStatuses, NeverRefused,
       Waving, ThesisIds, StatusOf
<1>4. ASSUME NEW shape \in Shape, InsertRoot(shape) PROVE CInv'
  <2>1. /\ pc = "insert_root" /\ pc' \in {"screen", "create_lineage"}
        /\ InsertThesis(Len(lineages), NoParent, 0, shape)
        /\ critiques' = critiques /\ refusals' = refusals
    BY <1>4 DEF InsertRoot
  <2>2. Len(lineages) \in Nat \ {0} /\ NoParent \in Nat
        /\ \A u \in ThesisIds : LineageOf(u) # Len(lineages)
    BY <1>0, <2>1 DEF CInv, RootIsFirst, NoParent
  <2>3. Chain'
    BY <1>0, <2>1, <2>2, ChainInsert
  <2>4. \A u \in ThesisIds' : theses'[u].status # "refused"
    <3>1. PICK n : Added(n, Len(lineages), NoParent, 0, shape)
      BY <1>0, <2>1, <2>2, NewRow
    <3>2. /\ ThesisIds' = ThesisIds \union {n}
          /\ \A u \in ThesisIds : theses'[u] = theses[u]
          /\ theses'[n].status \in {"proposed", "invalid_schema"}
      BY <3>1 DEF Added
    <3> QED
      BY <3>2 DEF CInv, NeverRefused, StatusOf
  <2> QED
    BY <2>1, <2>3, <2>4, CInvElsewhere DEF Visiting, Waving
<1> QED
  BY <1>1, <1>2, <1>3, <1>4 DEF Generation

\* A step of the screening or the backtest loop that gives a thesis it may be visiting its
\* next status.
LEMMA LoopStatus ==
  ASSUME TypeOK, CInv, NEW t \in ThesisIds, NEW s \in Status \ {"refused"}, SetStatus(t, s),
         StatusOf(t) \notin REJECTED_STATUSES,
         critiques' = critiques, refusals' = refusals,
         pc' \notin Waving \union {"create_ledger_row", "insert_root"}
  PROVE  /\ Chain' /\ RootIsFirst' /\ CandidatesAreYoungest' /\ NeverRefused'
         /\ ThesisIds' = ThesisIds
         /\ \A u \in ThesisIds : StatusOf(u)' = IF u = t THEN s ELSE StatusOf(u)
<1>1. /\ ThesisIds' = ThesisIds
      /\ \A u \in ThesisIds : StatusOf(u)' = IF u = t THEN s ELSE StatusOf(u)
  BY StatusOnly DEF StatusOf
<1>2. Youngest(t)
  BY DEF CInv, Chain, OlderAreRejected
<1>3. Chain'
  BY <1>2, ChainStatus DEF CInv
<1>4. NeverRefused'
  BY <1>1 DEF CInv, NeverRefused
<1> QED
  BY <1>1, <1>3, <1>4 DEF RootIsFirst, CandidatesAreYoungest

\* ... or leaves the theses alone.
LEMMA LoopQuiet ==
  ASSUME CInv, theses' = theses, critiques' = critiques, refusals' = refusals,
         pc' \notin Waving \union {"create_ledger_row", "insert_root"}
  PROVE  /\ Chain' /\ RootIsFirst' /\ CandidatesAreYoungest' /\ NeverRefused'
         /\ ThesisIds' = ThesisIds
         /\ \A u \in ThesisIds : StatusOf(u)' = StatusOf(u)
BY ChainQuiet DEF CInv, RootIsFirst, CandidatesAreYoungest, NeverRefused, ThesisIds, StatusOf

LEMMA ScreenCInv == IInv /\ CInv /\ ScreenStep => CInv'
<1> SUFFICES ASSUME IInv, CInv, ScreenStep PROVE CInv'
  OBVIOUS
<1> USE DEF Goto, tables, history
<1> DEFINE Rest == /\ Chain' /\ RootIsFirst' /\ CandidatesAreYoungest' /\ NeverRefused'
                   /\ ThesisIds' = ThesisIds
<1>0. TypeOK /\ VisitedStatuses
  BY DEF IInv, CInv
<1>1. CASE ScreenCycle
  <2>1. Rest /\ \A u \in ThesisIds : StatusOf(u)' = StatusOf(u)
    BY <1>1, LoopQuiet DEF ScreenCycle, Waving
  <2>2. VisitedStatuses'
    BY <1>1, <2>1 DEF ScreenCycle, VisitedStatuses
  <2> QED
    BY <2>1, <2>2 DEF CInv
<1>2. CASE TestFamily \/ StartBacktests
  <2>1. Rest /\ \A u \in ThesisIds : StatusOf(u)' = StatusOf(u)
    BY <1>2, LoopQuiet DEF TestFamily, StartBacktests, Waving
  <2>2. VisitedStatuses'
    BY <1>0, <1>2, <2>1 DEF TestFamily, StartBacktests, VisitedStatuses
  <2> QED
    BY <2>1, <2>2 DEF CInv
<1>3. ASSUME NEW t \in ThesisIds, AdmitToFamily(t) PROVE CInv'
  <2>1. Rest /\ \A u \in ThesisIds : StatusOf(u)' = StatusOf(u)
    BY <1>3, LoopQuiet DEF AdmitToFamily, Waving
  <2>2. VisitedStatuses'
    BY <1>0, <1>3, <2>1 DEF AdmitToFamily, VisitedStatuses, First
  <2> QED
    BY <2>1, <2>2 DEF CInv
<1>4. ASSUME NEW t \in ThesisIds, NEW verdict \in {"pass", "fail"}, RecordVerdict(t, verdict)
      PROVE  CInv'
  <2>1. Rest /\ \A u \in ThesisIds : StatusOf(u)' = StatusOf(u)
    BY <1>4, LoopQuiet DEF RecordVerdict, Waving
  <2>2. VisitedStatuses'
    BY <1>0, <1>4, <2>1 DEF RecordVerdict, VisitedStatuses
  <2> QED
    BY <2>1, <2>2 DEF CInv
<1>5. ASSUME NEW t \in ThesisIds, RefuseUnderObserved(t) PROVE CInv'
  <2>1. t \in queue /\ t \notin picked /\ StatusOf(t) = "proposed"
    BY <1>0, <1>5 DEF RefuseUnderObserved, VisitedStatuses, First
  <2>2. /\ Rest
        /\ \A u \in ThesisIds : StatusOf(u)' = IF u = t THEN "screened_rejected" ELSE StatusOf(u)
    BY <1>0, <1>5, <2>1, LoopStatus DEF RefuseUnderObserved, Waving, Status, REJECTED_STATUSES
  <2>3. VisitedStatuses'
    BY <1>0, <1>5, <2>1, <2>2 DEF RefuseUnderObserved, VisitedStatuses
  <2> QED
    BY <2>2, <2>3 DEF CInv
<1>6. ASSUME NEW t \in ThesisIds, ApplyVerdict(t) PROVE CInv'
  <2> DEFINE s == IF PassRecorded(t) THEN "screened_passed" ELSE "screened_rejected"
  <2>1. t \in queue /\ StatusOf(t) = "proposed"
    BY <1>0, <1>6 DEF ApplyVerdict, VisitedStatuses, First
  <2>2. SetStatus(t, s) /\ s \in Status \ {"refused"}
    BY <1>6 DEF ApplyVerdict, Status
  <2>3. Rest /\ \A u \in ThesisIds : StatusOf(u)' = IF u = t THEN s ELSE StatusOf(u)
    <3> HIDE DEF s
    <3> QED
      BY <1>0, <1>6, <2>1, <2>2, LoopStatus DEF ApplyVerdict, Waving, REJECTED_STATUSES
  <2>4. VisitedStatuses'
    <3>1. \A u \in queue' : u \in ThesisIds' /\ StatusOf(u)' = "proposed"
      BY <1>0, <1>6, <2>1, <2>3 DEF ApplyVerdict, VisitedStatuses
    <3>2. \A u \in picked' : u \in ThesisIds' /\ StatusOf(u)' = "screened_passed"
      BY <1>0, <1>6, <2>1, <2>3 DEF ApplyVerdict, VisitedStatuses
    <3>3. pc' = "record_verdict"
      BY <1>6 DEF ApplyVerdict
    <3> QED
      BY <3>1, <3>2, <3>3 DEF VisitedStatuses
  <2> QED
    BY <2>3, <2>4 DEF CInv
<1> QED
  BY <1>1, <1>2, <1>3, <1>4, <1>5, <1>6 DEF ScreenStep

LEMMA RefinementCInv == IInv /\ CInv /\ RefinementStep => CInv'
<1> SUFFICES ASSUME IInv, CInv, RefinementStep PROVE CInv'
  OBVIOUS
<1> USE DEF Goto, tables, history
<1> DEFINE Rest == /\ Chain' /\ RootIsFirst' /\ CandidatesAreYoungest' /\ NeverRefused'
                   /\ ThesisIds' = ThesisIds
<1>0. TypeOK /\ VisitedStatuses
  BY DEF IInv, CInv
<1>1. CASE EndBacktests
  BY <1>1, CInvQuiet DEF EndBacktests, Visiting, Waving
<1>2. ASSUME NEW t \in ThesisIds, NEW clears \in BOOLEAN, RunRefinement(t, clears) PROVE CInv'
  <2>1. Rest /\ \A u \in ThesisIds : StatusOf(u)' = StatusOf(u)
    BY <1>2, LoopQuiet DEF RunRefinement, Waving
  <2>2. VisitedStatuses'
    BY <1>0, <1>2, <2>1 DEF RunRefinement, VisitedStatuses
  <2> QED
    BY <2>1, <2>2 DEF CInv
<1>3. ASSUME NEW t \in ThesisIds, NEW s \in Status \ {"refused"}, SetStatus(t, s),
             pc \in {"backtest", "settle_refinement"}, First(t), pc' = "backtest",
             queue' = queue \ {t}, critiques' = critiques, refusals' = refusals
      PROVE  CInv'
  <2>1. StatusOf(t) = "screened_passed"
    BY <1>0, <1>3 DEF VisitedStatuses, First
  <2>2. Rest /\ \A u \in ThesisIds : StatusOf(u)' = IF u = t THEN s ELSE StatusOf(u)
    BY <1>0, <1>3, <2>1, LoopStatus DEF Waving, REJECTED_STATUSES
  <2>3. VisitedStatuses'
    BY <1>0, <1>3, <2>2 DEF VisitedStatuses
  <2> QED
    BY <2>2, <2>3 DEF CInv
<1>4. ASSUME NEW t \in ThesisIds, GateRefinement(t) PROVE CInv'
  <2>1. "rejected_underperform" \in Status \ {"refused"}
    BY DEF Status
  <2> QED
    BY <1>3, <1>4, <2>1 DEF GateRefinement
<1>5. ASSUME NEW t \in ThesisIds, SettleRefinement(t) PROVE CInv'
  <2> DEFINE s == IF Cleared(t, "refinement") THEN "backtested" ELSE "rejected_underperform"
  <2>1. s \in Status \ {"refused"} /\ SetStatus(t, s)
    BY <1>5 DEF SettleRefinement, Status
  <2> HIDE DEF s
  <2> QED
    BY <1>3, <1>5, <2>1 DEF SettleRefinement
<1> QED
  BY <1>1, <1>2, <1>4, <1>5 DEF RefinementStep

LEMMA WaveCInv == IInv /\ CInv /\ WaveStep => CInv'
<1> SUFFICES ASSUME IInv, CInv, WaveStep PROVE CInv'
  OBVIOUS
<1> USE DEF Goto, tables, history
<1>0. TypeOK /\ Chain /\ CandidatesAreYoungest /\ NeverRefused
  BY DEF IInv, CInv
<1>1. CASE StartWave
  <2>1. /\ pc' = "critique" /\ queue' = Candidates /\ theses' = theses /\ lineages' = lineages
        /\ critiques' = critiques /\ refusals' = refusals /\ settings' = settings
    BY <1>1 DEF StartWave
  <2>2. Chain' /\ \A u \in ThesisIds : Youngest(u)' <=> Youngest(u)
    BY <1>0, <2>1, ChainQuiet
  <2>3. \A t \in Candidates : /\ t \in ThesisIds /\ StatusOf(t) \in REJECTED_STATUSES
                              /\ lineages[LineageOf(t)] < MaxDepth
                              /\ Youngest(t)
    BY <1>0, NewestIsYoungest DEF Candidates, Chain
  <2>4. CandidatesAreYoungest'
    <3>1. \A t \in ThesisIds : /\ t \in ThesisIds' /\ StatusOf(t)' = StatusOf(t)
                               /\ LineageOf(t)' = LineageOf(t)
      BY <2>1 DEF ThesisIds, StatusOf, LineageOf
    <3> QED
      BY <2>1, <2>2, <2>3, <3>1 DEF CandidatesAreYoungest, MaxDepth
  <2> QED
    BY <1>0, <2>1, <2>2, <2>4 DEF CInv, RootIsFirst, VisitedStatuses, NeverRefused, ThesisIds,
       StatusOf
<1>2. CASE EndWaves
  BY <1>2, CInvQuiet DEF EndWaves, Visiting, Waving
<1>3. CASE EndCandidates
  BY <1>3, CInvQuiet DEF EndCandidates, Visiting, Waving
<1>4. ASSUME NEW t \in ThesisIds, RejectCritique(t) \/ AcceptCritique(t) PROVE CInv'
  <2>1. /\ pc = "critique" /\ pc' \in {"critique", "refine"} /\ First(t)
        /\ theses' = theses /\ lineages' = lineages /\ refusals' = refusals /\ settings' = settings
        /\ queue' \subseteq queue
        /\ critiques \subseteq critiques'
        /\ pc' = "refine" => queue' = queue /\ t \in critiques'
    BY <1>4 DEF RejectCritique, AcceptCritique
  <2>2. Chain' /\ \A u \in ThesisIds : Youngest(u)' <=> Youngest(u)
    BY <1>0, <2>1, ChainQuiet
  <2>3. \A u \in ThesisIds : /\ u \in ThesisIds' /\ StatusOf(u)' = StatusOf(u)
                             /\ LineageOf(u)' = LineageOf(u)
    BY <2>1 DEF ThesisIds, StatusOf, LineageOf
  <2>4. \A u \in queue : /\ u \in ThesisIds /\ StatusOf(u) \in REJECTED_STATUSES
                         /\ lineages[LineageOf(u)] < MaxDepth /\ Youngest(u)
    BY <1>0, <2>1 DEF CandidatesAreYoungest, Waving
  <2>5. pc' = "refine" => \A u \in queue' : First(u)' => u \in critiques'
    BY <1>0, <2>1 DEF First, TypeOK
  <2>6. CandidatesAreYoungest'
    BY <2>1, <2>2, <2>3, <2>4, <2>5 DEF CandidatesAreYoungest, MaxDepth
  <2> QED
    BY <1>0, <2>1, <2>2, <2>6 DEF CInv, RootIsFirst, VisitedStatuses, NeverRefused, ThesisIds,
       StatusOf
<1>5. ASSUME NEW t \in ThesisIds, BumpLineageDepth(t) PROVE CInv'
  <2>1. /\ pc = "bump_depth" /\ pc' = "critique" /\ First(t) /\ queue' = queue \ {t}
        /\ theses' = theses /\ lineages' = [lineages EXCEPT ![LineageOf(t)] = @ + 1]
        /\ refusals' = refusals /\ settings' = settings /\ critiques' = critiques
    BY <1>5 DEF BumpLineageDepth, BumpDepth
  <2>2. Chain' /\ \A u \in ThesisIds : Youngest(u)' <=> Youngest(u)
    BY <1>0, <2>1, ChainQuiet
  <2>3. \A u \in ThesisIds : /\ u \in ThesisIds' /\ StatusOf(u)' = StatusOf(u)
                             /\ LineageOf(u)' = LineageOf(u)
    BY <2>1 DEF ThesisIds, StatusOf, LineageOf
  <2>4. ASSUME NEW u \in queue'
        PROVE  /\ u \in ThesisIds /\ StatusOf(u) \in REJECTED_STATUSES
               /\ lineages'[LineageOf(u)] < MaxDepth /\ Youngest(u)
    <3>1. /\ u \in ThesisIds /\ StatusOf(u) \in REJECTED_STATUSES
          /\ lineages[LineageOf(u)] < MaxDepth
          /\ u # Len(theses) /\ LineageOf(Len(theses)) = LineageOf(t)
      BY <1>0, <2>1 DEF CandidatesAreYoungest, Waving, First
    <3>2. Youngest(u)
      <4>1. ~First(u)
        BY <1>0, <2>1 DEF First, TypeOK
      <4> QED
        BY <1>0, <2>1, <4>1 DEF CandidatesAreYoungest, Waving
    <3>3. LineageOf(u) # LineageOf(t)
      <4> SUFFICES ASSUME LineageOf(u) = LineageOf(t) PROVE FALSE
        OBVIOUS
      <4>1. Len(theses) \in ThesisIds /\ u \in Nat /\ Len(theses) \in Nat /\ u <= Len(theses)
        BY <3>1, IdsAreNatural DEF IInv, ThesisIds
      <4>2. Len(theses) <= u
        BY <3>1, <3>2, <4>1 DEF Youngest
      <4> QED
        BY <3>1, <4>1, <4>2
    <3>4. lineages'[LineageOf(u)] = lineages[LineageOf(u)]
      BY <2>1, <3>3
    <3> QED
      BY <3>1, <3>2, <3>4
  <2>5. CandidatesAreYoungest'
    BY <2>1, <2>2, <2>3, <2>4 DEF CandidatesAreYoungest, MaxDepth
  <2> QED
    BY <1>0, <2>1, <2>2, <2>5 DEF CInv, RootIsFirst, VisitedStatuses, NeverRefused, ThesisIds,
       StatusOf
<1>6. ASSUME NEW t \in ThesisIds, RefinementRaises(t) PROVE CInv'
  BY <1>6, CInvQuiet DEF RefinementRaises, Fail, Visiting, Waving
<1>7. ASSUME NEW t \in ThesisIds, NEW shape \in Shape, GenerateRefinement(t, shape) PROVE CInv'
  <2>1. /\ pc = "refine" /\ pc' = "bump_depth" /\ First(t) /\ queue' = queue
        /\ InsertThesis(LineageOf(t), t, theses[t].iteration + 1, shape)
        /\ lineages' = lineages /\ refusals' = refusals /\ critiques' = critiques
        /\ settings' = settings
    BY <1>7 DEF GenerateRefinement
  <2>2. theses[t].iteration + 1 \in Nat /\ LineageOf(t) \in Nat \ {0} /\ t \in Nat
    BY <1>0, RefinementNumbers
  <2>3. /\ Youngest(t) /\ StatusOf(t) \in REJECTED_STATUSES /\ t \in critiques
    BY <1>0, <2>1 DEF CandidatesAreYoungest, Waving, First
  <2>4. /\ Chain'
        /\ \A u \in ThesisIds : LineageOf(u) # LineageOf(t) => (Youngest(u)' <=> Youngest(u))
    BY <1>0, <2>1, <2>2, <2>3, ChainInsert
  <2>5. PICK n : Added(n, LineageOf(t), t, theses[t].iteration + 1, shape)
    BY <1>0, <2>1, <2>2, NewRow
  <2>6. /\ ThesisIds' = ThesisIds \union {n} /\ Len(theses') = n
        /\ \A u \in ThesisIds : theses'[u] = theses[u]
        /\ theses'[n].lineage = LineageOf(t)
        /\ theses'[n].status \in {"proposed", "invalid_schema"}
    BY <2>5 DEF Added
  <2>7. ASSUME NEW u \in queue'
        PROVE  /\ u \in ThesisIds /\ StatusOf(u) \in REJECTED_STATUSES
               /\ lineages[LineageOf(u)] < MaxDepth
               /\ u # n
               /\ Youngest(u)' \/ u = t
    <3>1. /\ u \in ThesisIds /\ StatusOf(u) \in REJECTED_STATUSES
          /\ lineages[LineageOf(u)] < MaxDepth /\ Youngest(u)
      BY <1>0, <2>1 DEF CandidatesAreYoungest, Waving
    <3>2. u # n
      BY <2>5, <3>1 DEF Added
    <3>3. CASE LineageOf(u) # LineageOf(t)
      BY <2>4, <3>1, <3>2, <3>3
    <3>4. CASE LineageOf(u) = LineageOf(t)
      BY <1>0, <2>3, <3>1, <3>2, <3>4, OneYoungest
    <3> QED
      BY <3>3, <3>4
  <2>8. First(t)' /\ \A u \in queue' : First(u)' => u = t
    <3>1. queue \subseteq Nat /\ queue' = queue /\ First(t)
      BY <1>0, <2>1 DEF TypeOK
    <3> QED
      BY <3>1 DEF First
  <2>9. CandidatesAreYoungest'
    BY <2>1, <2>6, <2>7, <2>8 DEF CandidatesAreYoungest, MaxDepth, StatusOf, LineageOf
  <2>10. NeverRefused'
    BY <1>0, <2>1, <2>6 DEF NeverRefused, StatusOf
  <2> QED
    BY <2>1, <2>4, <2>9, <2>10 DEF CInv, RootIsFirst, VisitedStatuses
<1> QED
  BY <1>1, <1>2, <1>3, <1>4, <1>5, <1>6, <1>7 DEF WaveStep

\* A step of the final loop: the finalist is the youngest variant of its lineage.
LEMMA FinalCInv == IInv /\ CInv /\ FinalStep => CInv'
<1> SUFFICES ASSUME IInv, CInv, FinalStep PROVE CInv'
  OBVIOUS
<1> USE DEF Goto, tables, history
<1>0. TypeOK
  BY DEF IInv
<1>1. CASE EndFinals
  BY <1>1, CInvQuiet DEF EndFinals, Visiting, Waving
<1>2. ASSUME NEW l \in LineageIds, SkipLineage(l) PROVE CInv'
  BY <1>2, CInvQuiet DEF SkipLineage, Visiting, Waving
<1>3. ASSUME NEW t \in ThesisIds, StatusOf(t) \notin REJECTED_STATUSES,
             NEW s \in Status \ {"refused"}, SetStatus(t, s),
             pc' \in {"final", "spend"}, critiques' = critiques, refusals' = refusals
      PROVE  CInv'
  <2>1. Youngest(t)
    BY <1>3 DEF CInv, Chain, OlderAreRejected
  <2>2. Chain'
    BY <1>0, <1>3, <2>1, ChainStatus DEF CInv
  <2>3. \A u \in ThesisIds' : theses'[u].status # "refused"
    BY <1>0, <1>3, StatusOnly DEF CInv, NeverRefused, StatusOf
  <2> QED
    BY <1>3, <2>2, <2>3, CInvElsewhere DEF Visiting, Waving
<1>4. ASSUME NEW l \in LineageIds, NEW t \in ThesisIds, SelectFinalist(l, t) PROVE CInv'
  <2>1. StatusOf(t) \notin REJECTED_STATUSES
    BY <1>4 DEF SelectFinalist, Survivors, REJECTED_STATUSES
  <2>2. "final_evaluation_pending" \in Status \ {"refused"}
    BY DEF Status
  <2> QED
    BY <1>3, <1>4, <2>1, <2>2 DEF SelectFinalist
<1>5. ASSUME NEW l \in LineageIds, NEW t \in ThesisIds, SpendEntitlement(l, t) PROVE CInv'
  <2>1. pc = "spend" /\ First(l) /\ t \in picked
    BY <1>5 DEF SpendEntitlement
  <2>2. ledger[l] = Unspent
    BY <2>1, AtHand
  <2>3. theses' = theses /\ refusals' = refusals /\ critiques' = critiques /\ pc' = "final_read"
    BY <1>5, <2>2 DEF SpendEntitlement
  <2> QED
    BY <2>3, CInvQuiet DEF Visiting, Waving
<1>6. ASSUME NEW l \in LineageIds, NEW t \in ThesisIds, GateFinal(l, t) \/ SettleFinal(l, t)
      PROVE  CInv'
  <2>1. pc \in {"final_read", "settle_final"} /\ First(l) /\ t \in picked
    BY <1>6 DEF GateFinal, SettleFinal
  <2>2. StatusOf(t) \notin REJECTED_STATUSES
    BY <2>1, AtHand DEF REJECTED_STATUSES
  <2>3. PICK s \in Evaluated : SetStatus(t, s)
    BY <1>6 DEF GateFinal, SettleFinal, Evaluated
  <2>4. pc' = "final" /\ refusals' = refusals /\ critiques' = critiques
    BY <1>6 DEF GateFinal, SettleFinal
  <2>5. s \in Status \ {"refused"}
    BY DEF Status, Evaluated
  <2> QED
    BY <1>3, <2>2, <2>3, <2>4, <2>5
<1>7. ASSUME NEW l \in LineageIds, NEW t \in ThesisIds, NEW clears \in BOOLEAN,
             RunFinal(l, t, clears)
      PROVE  CInv'
  BY <1>7, CInvQuiet DEF RunFinal, Visiting, Waving
<1> QED
  BY <1>1, <1>2, <1>4, <1>5, <1>6, <1>7 DEF FinalStep

LEMMA NextCInv == IInv /\ CInv /\ [Next]_vars => CInv'
<1> SUFFICES ASSUME IInv, CInv, [Next]_vars PROVE CInv'
  OBVIOUS
<1> USE DEF Goto, tables, history
<1>1. CASE UNCHANGED vars
  <2>1. Chain'
    BY <1>1, ChainQuiet DEF CInv, vars
  <2> QED
    BY <1>1, <2>1 DEF CInv, RootIsFirst, CandidatesAreYoungest, VisitedStatuses, NeverRefused,
       Youngest, First, ThesisIds, StatusOf, LineageOf, MaxDepth, vars, control
<1>2. CASE AssertFresh \/ CreateCycle \/ ReportStep \/ Raise \/ Kill
  <2>1. /\ theses' = theses /\ refusals' = refusals /\ critiques' = critiques
        /\ pc' \in {"create_cycle", "propose", "render", "finish", "over", "dead"}
    BY <1>2 DEF AssertFresh, CreateCycle, ReportStep, BuildReport, RenderMarkdown, FinishCycle,
       ReportRaises, Raise, CreateCycleRaises, BodyRaises, Fail, Kill
  <2> QED
    BY <2>1, CInvQuiet DEF Visiting, Waving
<1>3. CASE Generation \/ ScreenStep \/ RefinementStep \/ WaveStep \/ FinalStep
  BY <1>3, GenerationCInv, ScreenCInv, RefinementCInv, WaveCInv, FinalCInv
<1>4. CASE Over
  BY <1>1, <1>4 DEF Over
<1> QED
  BY <1>1, <1>2, <1>3, <1>4 DEF Next, Progress

\* The variants of every lineage form a chain throughout every run.
THEOREM ChainInvariance == Spec => []CInv
BY Invariance, InitCInv, NextCInv, PTL DEF Spec

\* However the waves went, at most one variant of a lineage gets past its refinement
\* backtest, it is the youngest, and the ledger is never asked for a second evaluation.
THEOREM OneSurvivor == Spec => []OneSurvivorPerLineage
<1>1. IInv /\ CInv => OneSurvivorPerLineage
  <2> SUFFICES ASSUME IInv, CInv PROVE OneSurvivorPerLineage
    OBVIOUS
  <2>1. ASSUME NEW t \in ThesisIds, StatusOf(t) \in PastRefinement,
               NEW u \in ThesisIds, LineageOf(u) = LineageOf(t), u # t
        PROVE  u < t /\ StatusOf(u) \in REJECTED_STATUSES
    <3>1. Youngest(t)
      BY <2>1 DEF CInv, Chain, OlderAreRejected, PastRefinement, Evaluated, REJECTED_STATUSES
    <3>2. u \in Nat /\ t \in Nat /\ u <= t
      BY <2>1, <3>1, IdsAreNatural DEF IInv, Youngest
    <3>3. ~Youngest(u)
      BY <2>1, <3>2 DEF Youngest
    <3> QED
      BY <2>1, <3>2, <3>3 DEF CInv, Chain, OlderAreRejected
  <2> QED
    BY <2>1 DEF CInv, NeverRefused, OneSurvivorPerLineage
<1> QED
  BY <1>1, Invariance, ChainInvariance, PTL

\* Each refinement continues the variant just before it, which was rejected and critiqued.
THEOREM RefinementsAreChained == Spec => []RefinementChain
<1>1. CInv => RefinementChain
  BY DEF CInv, Chain
<1> QED
  BY <1>1, ChainInvariance, PTL

-----------------------------------------------------------------------------
(***************************************************************************)
(* The evidence.  A thesis that waits for its screening has no screening   *)
(* result, but for the one at hand between the two transactions of its     *)
(* verdict, so the one result recorded is the one that is acted on.        *)
(***************************************************************************)
RowsOf(t) == {row \in screenings : row.thesis = t}

Passed(t) == RowsOf(t) = {[thesis |-> t, verdict |-> "pass"]}

Failed(t) == RowsOf(t) = {[thesis |-> t, verdict |-> "fail"]}

AtVerdict(t) == pc = "apply_verdict" /\ First(t)

RowsHaveTheses == \A row \in screenings : row.thesis \in ThesisIds

UntestedHaveNoRows ==
  pc \notin {"over", "dead"} => \A t \in ThesisIds :
    StatusOf(t) = "proposed" /\ ~AtVerdict(t) => RowsOf(t) = {}

VerdictAtHand == \A t \in ThesisIds : AtVerdict(t) => Passed(t) \/ Failed(t)

PassedOnce ==
  \A t \in ThesisIds : StatusOf(t) \in {"screened_passed"} \union PastRefinement => Passed(t)

BarsCleared ==
  \A t \in ThesisIds :
    /\ StatusOf(t) \in PastRefinement => Cleared(t, "refinement")
    /\ StatusOf(t) = "promoted" => Cleared(t, "final_evaluation")

EInv ==
  /\ RowsHaveTheses
  /\ UntestedHaveNoRows
  /\ VerdictAtHand
  /\ PassedOnce
  /\ BarsCleared

LEMMA InitEInv == Init => EInv
BY DEF Init, EInv, RowsHaveTheses, UntestedHaveNoRows, VerdictAtHand, PassedOnce, BarsCleared,
       ThesisIds

\* A step that changes no thesis and no screening result.
LEMMA EInvQuiet ==
  ASSUME EInv, theses' = theses, screenings' = screenings, backtests \subseteq backtests',
         pc' # "apply_verdict", pc' \in {"over", "dead"} \/ pc \notin {"apply_verdict", "over", "dead"}
  PROVE  EInv'
<1>1. RowsHaveTheses' /\ PassedOnce'
  BY DEF EInv, RowsHaveTheses, PassedOnce, Passed, RowsOf, ThesisIds, StatusOf
<1>2. UntestedHaveNoRows' /\ VerdictAtHand'
  BY DEF EInv, UntestedHaveNoRows, VerdictAtHand, AtVerdict, RowsOf, ThesisIds, StatusOf
<1>3. BarsCleared'
  BY DEF EInv, BarsCleared, Cleared, ThesisIds, StatusOf
<1> QED
  BY <1>1, <1>2, <1>3 DEF EInv

\* A thesis gets a status its evidence warrants.
LEMMA EInvStatus ==
  ASSUME TypeOK, EInv, NEW t \in ThesisIds, NEW s \in Status \ {"proposed"}, SetStatus(t, s),
         screenings' = screenings, backtests' = backtests,
         pc' # "apply_verdict", pc \notin {"over", "dead"}, pc = "apply_verdict" => First(t),
         s \in {"screened_passed"} \union PastRefinement => Passed(t),
         s \in PastRefinement => Cleared(t, "refinement"),
         s = "promoted" => Cleared(t, "final_evaluation")
  PROVE  EInv'
<1>1. /\ ThesisIds' = ThesisIds
      /\ \A u \in ThesisIds : StatusOf(u)' = IF u = t THEN s ELSE StatusOf(u)
  BY StatusOnly DEF StatusOf
<1>2. \A u \in ThesisIds : RowsOf(u)' = RowsOf(u)
  BY DEF RowsOf
<1>3. \A u \in ThesisIds : AtVerdict(u) => u = t
  BY DEF AtVerdict, First, TypeOK
<1>4. RowsHaveTheses' /\ VerdictAtHand'
  BY <1>1 DEF EInv, RowsHaveTheses, VerdictAtHand, AtVerdict
<1>5. UntestedHaveNoRows'
  BY <1>1, <1>2, <1>3 DEF EInv, UntestedHaveNoRows
<1>6. PassedOnce'
  BY <1>1, <1>2 DEF EInv, PassedOnce, Passed
<1>7. BarsCleared'
  BY <1>1 DEF EInv, BarsCleared, Cleared
<1> QED
  BY <1>4, <1>5, <1>6, <1>7 DEF EInv

\* A new row has no result yet.
LEMMA EInvInsert ==
  ASSUME TypeOK, EInv, NEW l \in Nat \ {0}, NEW p \in Nat, NEW i \in Nat, NEW shape \in Shape,
         InsertThesis(l, p, i, shape), screenings' = screenings, backtests' = backtests,
         pc' # "apply_verdict", pc \notin {"apply_verdict", "over", "dead"}
  PROVE  EInv'
<1>1. PICK n : Added(n, l, p, i, shape)
  BY NewRow
<1>2. /\ ThesisIds' = ThesisIds \union {n}
      /\ \A u \in ThesisIds : u # n /\ StatusOf(u)' = StatusOf(u)
      /\ theses'[n].status \in {"proposed", "invalid_schema"}
  <2>1. /\ ThesisIds' = ThesisIds \union {n}
        /\ n \in Nat
        /\ \A u \in ThesisIds : u < n /\ u \in Nat /\ theses'[u] = theses[u]
        /\ theses'[n].status \in {"proposed", "invalid_schema"}
    BY <1>1 DEF Added
  <2> QED
    BY <2>1 DEF StatusOf
<1>3. RowsOf(n) = {} /\ \A u : RowsOf(u)' = RowsOf(u)
  BY <1>2 DEF RowsOf, EInv, RowsHaveTheses
<1>4. RowsHaveTheses' /\ VerdictAtHand'
  BY <1>2 DEF EInv, RowsHaveTheses, VerdictAtHand, AtVerdict
<1>5. UntestedHaveNoRows'
  BY <1>2, <1>3 DEF EInv, UntestedHaveNoRows, AtVerdict
<1>6. StatusOf(n)' \in {"proposed", "invalid_schema"}
  BY <1>2 DEF StatusOf
<1>7. PassedOnce'
  BY <1>2, <1>3, <1>6 DEF EInv, PassedOnce, Passed, PastRefinement, Evaluated
<1>8. BarsCleared'
  BY <1>2, <1>6 DEF EInv, BarsCleared, Cleared, PastRefinement, Evaluated
<1> QED
  BY <1>4, <1>5, <1>7, <1>8 DEF EInv

LEMMA ScreenEInv == IInv /\ CInv /\ EInv /\ ScreenStep => EInv'
<1> SUFFICES ASSUME IInv, CInv, EInv, ScreenStep PROVE EInv'
  OBVIOUS
<1> USE DEF Goto, tables, history
<1>0. TypeOK /\ VisitedStatuses
  BY DEF IInv, CInv
<1>1. CASE ScreenCycle \/ TestFamily \/ StartBacktests
  BY <1>1, EInvQuiet DEF ScreenCycle, TestFamily, StartBacktests
<1>2. ASSUME NEW t \in ThesisIds, AdmitToFamily(t) PROVE EInv'
  BY <1>2, EInvQuiet DEF AdmitToFamily
<1>3. ASSUME NEW t \in ThesisIds, RefuseUnderObserved(t) PROVE EInv'
  <2>1. "screened_rejected" \in Status \ {"proposed"}
    BY DEF Status
  <2> QED
    BY <1>0, <1>3, <2>1, EInvStatus DEF RefuseUnderObserved, PastRefinement, Evaluated
<1>4. ASSUME NEW t \in ThesisIds, NEW v \in {"pass", "fail"}, RecordVerdict(t, v) PROVE EInv'
  <2>1. /\ pc = "record_verdict" /\ First(t) /\ t \in queue /\ pc' = "apply_verdict"
        /\ queue' = queue /\ theses' = theses /\ backtests' = backtests
        /\ screenings' = screenings \union {[thesis |-> t, verdict |-> v]}
    BY <1>4 DEF RecordVerdict, First
  <2>2. StatusOf(t) = "proposed" /\ RowsOf(t) = {}
    BY <1>0, <2>1 DEF VisitedStatuses, EInv, UntestedHaveNoRows, AtVerdict
  <2>3. /\ RowsOf(t)' = {[thesis |-> t, verdict |-> v]}
        /\ \A u : u # t => RowsOf(u)' = RowsOf(u)
    BY <2>1, <2>2 DEF RowsOf
  <2>4. AtVerdict(t)' /\ \A u \in ThesisIds : AtVerdict(u)' => u = t
    BY <1>0, <2>1 DEF AtVerdict, First, TypeOK
  <2>5. ThesisIds' = ThesisIds /\ \A u \in ThesisIds : StatusOf(u)' = StatusOf(u)
    BY <2>1 DEF ThesisIds, StatusOf
  <2>6. RowsHaveTheses'
    BY <2>1, <2>5 DEF EInv, RowsHaveTheses
  <2>7. UntestedHaveNoRows'
    BY <2>1, <2>3, <2>4, <2>5 DEF EInv, UntestedHaveNoRows, AtVerdict
  <2>8. VerdictAtHand'
    BY <2>3, <2>4, <2>5 DEF VerdictAtHand, Passed, Failed
  <2>9. PassedOnce'
    BY <2>2, <2>3, <2>5 DEF EInv, PassedOnce, Passed, PastRefinement, Evaluated
  <2>10. BarsCleared'
    BY <2>1, <2>5 DEF EInv, BarsCleared, Cleared
  <2> QED
    BY <2>6, <2>7, <2>8, <2>9, <2>10 DEF EInv
<1>5. ASSUME NEW t \in ThesisIds, ApplyVerdict(t) PROVE EInv'
  <2> DEFINE s == IF PassRecorded(t) THEN "screened_passed" ELSE "screened_rejected"
  <2>1. /\ pc = "apply_verdict" /\ First(t) /\ pc' = "record_verdict" /\ SetStatus(t, s)
        /\ screenings' = screenings /\ backtests' = backtests
    BY <1>5 DEF ApplyVerdict
  <2>2. s \in Status \ {"proposed"} /\ s \notin PastRefinement
    BY DEF Status, PastRefinement, Evaluated
  <2>3. s = "screened_passed" => Passed(t)
    <3>1. Passed(t) \/ Failed(t)
      BY <2>1 DEF EInv, VerdictAtHand, AtVerdict
    <3>2. Failed(t) => ~PassRecorded(t)
      BY DEF Failed, RowsOf, PassRecorded
    <3> QED
      BY <3>1, <3>2
  <2> HIDE DEF s
  <2> QED
    BY <1>0, <2>1, <2>2, <2>3, EInvStatus DEF PastRefinement, Evaluated
<1> QED
  BY <1>1, <1>2, <1>3, <1>4, <1>5 DEF ScreenStep

LEMMA RefinementEInv == IInv /\ CInv /\ EInv /\ RefinementStep => EInv'
<1> SUFFICES ASSUME IInv, CInv, EInv, RefinementStep PROVE EInv'
  OBVIOUS
<1> USE DEF Goto, tables, history
<1>0. TypeOK /\ VisitedStatuses
  BY DEF IInv, CInv
<1>1. CASE EndBacktests
  BY <1>1, EInvQuiet DEF EndBacktests
<1>2. ASSUME NEW t \in ThesisIds, NEW clears \in BOOLEAN, RunRefinement(t, clears) PROVE EInv'
  BY <1>2, EInvQuiet DEF RunRefinement
<1>3. ASSUME NEW t \in ThesisIds, GateRefinement(t) PROVE EInv'
  <2>1. "rejected_underperform" \in Status \ {"proposed"}
    BY DEF Status
  <2> QED
    BY <1>0, <1>3, <2>1, EInvStatus DEF GateRefinement, PastRefinement, Evaluated
<1>4. ASSUME NEW t \in ThesisIds, SettleRefinement(t) PROVE EInv'
  <2> DEFINE s == IF Cleared(t, "refinement") THEN "backtested" ELSE "rejected_underperform"
  <2>1. s \in Status \ {"proposed"} /\ s # "promoted"
        /\ (s \in PastRefinement => Cleared(t, "refinement"))
    BY DEF Status, PastRefinement, Evaluated
  <2>2. Passed(t)
    BY <1>0, <1>4 DEF SettleRefinement, VisitedStatuses, First, EInv, PassedOnce
  <2>3. /\ SetStatus(t, s) /\ pc = "settle_refinement" /\ pc' = "backtest"
        /\ screenings' = screenings /\ backtests' = backtests
    BY <1>4 DEF SettleRefinement
  <2> HIDE DEF s
  <2> QED
    BY <1>0, <2>1, <2>2, <2>3, EInvStatus
<1> QED
  BY <1>1, <1>2, <1>3, <1>4 DEF RefinementStep

LEMMA FinalEInv == IInv /\ EInv /\ FinalStep => EInv'
<1> SUFFICES ASSUME IInv, EInv, FinalStep PROVE EInv'
  OBVIOUS
<1> USE DEF Goto, tables, history
<1>0. TypeOK
  BY DEF IInv
<1>1. CASE EndFinals
  BY <1>1, EInvQuiet DEF EndFinals
<1>2. ASSUME NEW l \in LineageIds, SkipLineage(l) PROVE EInv'
  BY <1>2, EInvQuiet DEF SkipLineage
<1>3. ASSUME NEW t \in ThesisIds, StatusOf(t) \in PastRefinement,
             NEW s \in PastRefinement, SetStatus(t, s),
             s = "promoted" => Cleared(t, "final_evaluation"),
             pc \in InFinals, pc' \in {"final", "spend"},
             screenings' = screenings, backtests' = backtests
      PROVE  EInv'
  <2>1. Passed(t) /\ Cleared(t, "refinement")
    BY <1>3 DEF EInv, PassedOnce, BarsCleared
  <2>2. s \in Status \ {"proposed"}
    BY DEF Status, PastRefinement, Evaluated
  <2> QED
    BY <1>0, <1>3, <2>1, <2>2, EInvStatus DEF InFinals
<1>4. ASSUME NEW l \in LineageIds, NEW t \in ThesisIds, SelectFinalist(l, t) PROVE EInv'
  <2>1. StatusOf(t) \in PastRefinement
    BY <1>4 DEF SelectFinalist, Survivors, PastRefinement
  <2>2. "final_evaluation_pending" \in PastRefinement
    BY DEF PastRefinement
  <2> QED
    BY <1>3, <1>4, <2>1, <2>2 DEF SelectFinalist, InFinals
<1>5. ASSUME NEW l \in LineageIds, NEW t \in ThesisIds, SpendEntitlement(l, t) PROVE EInv'
  <2>1. pc = "spend" /\ First(l) /\ t \in picked
    BY <1>5 DEF SpendEntitlement
  <2>2. ledger[l] = Unspent
    BY <2>1, AtHand
  <2>3. theses' = theses /\ screenings' = screenings /\ backtests' = backtests
        /\ pc' = "final_read"
    BY <1>5, <2>2 DEF SpendEntitlement
  <2> QED
    BY <2>1, <2>3, EInvQuiet
<1>6. ASSUME NEW l \in LineageIds, NEW t \in ThesisIds, GateFinal(l, t) \/ SettleFinal(l, t)
      PROVE  EInv'
  <2>1. /\ pc \in {"final_read", "settle_final"} /\ First(l) /\ t \in picked /\ pc' = "final"
        /\ screenings' = screenings /\ backtests' = backtests
    BY <1>6 DEF GateFinal, SettleFinal
  <2>2. StatusOf(t) \in PastRefinement
    BY <2>1, AtHand DEF PastRefinement
  <2>3. PICK s \in PastRefinement :
          SetStatus(t, s) /\ (s = "promoted" => Cleared(t, "final_evaluation"))
    BY <1>6 DEF GateFinal, SettleFinal, PastRefinement, Evaluated
  <2> QED
    BY <1>3, <2>1, <2>2, <2>3 DEF InFinals
<1>7. ASSUME NEW l \in LineageIds, NEW t \in ThesisIds, NEW clears \in BOOLEAN,
             RunFinal(l, t, clears)
      PROVE  EInv'
  BY <1>7, EInvQuiet DEF RunFinal
<1> QED
  BY <1>1, <1>2, <1>4, <1>5, <1>6, <1>7 DEF FinalStep

LEMMA NextEInv == IInv /\ CInv /\ EInv /\ [Next]_vars => EInv'
<1> SUFFICES ASSUME IInv, CInv, EInv, [Next]_vars PROVE EInv'
  OBVIOUS
<1> USE DEF Goto, tables, history
<1>0. TypeOK
  BY DEF IInv
<1>1. CASE UNCHANGED vars
  BY <1>1 DEF EInv, RowsHaveTheses, UntestedHaveNoRows, VerdictAtHand, PassedOnce, BarsCleared,
     Passed, Failed, RowsOf, AtVerdict, First, Cleared, ThesisIds, StatusOf, vars, control
<1>2. CASE AssertFresh \/ CreateCycle \/ ReportStep \/ Raise \/ Kill
  <2>1. /\ theses' = theses /\ screenings' = screenings /\ backtests' = backtests
        /\ pc' \in {"create_cycle", "propose", "render", "finish", "over", "dead"}
        /\ pc' \in {"over", "dead"} \/ pc \notin {"apply_verdict", "over", "dead"}
    BY <1>2 DEF AssertFresh, CreateCycle, ReportStep, BuildReport, RenderMarkdown, FinishCycle,
       ReportRaises, Raise, CreateCycleRaises, BodyRaises, Fail, Kill
  <2> QED
    BY <2>1, EInvQuiet
<1>3. CASE GenerateInitial \/ CreateLineage \/ CreateLedgerRow
  BY <1>3, EInvQuiet DEF GenerateInitial, CreateLineage, CreateLedgerRow
<1>4. ASSUME NEW shape \in Shape, InsertRoot(shape) PROVE EInv'
  <2>1. Len(lineages) \in Nat \ {0} /\ NoParent \in Nat
    BY <1>4, LenProperties DEF InsertRoot, CInv, RootIsFirst, TypeOK, IInv, NoParent
  <2> QED
    BY <1>0, <1>4, <2>1, EInvInsert DEF InsertRoot
<1>5. CASE StartWave \/ EndWaves \/ EndCandidates
  BY <1>5, EInvQuiet DEF StartWave, EndWaves, EndCandidates
<1>6. ASSUME NEW t \in ThesisIds,
             RejectCritique(t) \/ AcceptCritique(t) \/ BumpLineageDepth(t) \/ RefinementRaises(t)
      PROVE  EInv'
  BY <1>6, EInvQuiet DEF RejectCritique, AcceptCritique, BumpLineageDepth, RefinementRaises, Fail
<1>7. ASSUME NEW t \in ThesisIds, NEW shape \in Shape, GenerateRefinement(t, shape) PROVE EInv'
  <2>1. theses[t].iteration + 1 \in Nat /\ LineageOf(t) \in Nat \ {0} /\ t \in Nat
    BY <1>0, RefinementNumbers
  <2> QED
    BY <1>0, <1>7, <2>1, EInvInsert DEF GenerateRefinement
<1>8. CASE ScreenStep \/ RefinementStep \/ FinalStep
  BY <1>8, ScreenEInv, RefinementEInv, FinalEInv
<1>9. CASE Over
  BY <1>1, <1>9 DEF Over
<1> QED
  BY <1>1, <1>2, <1>3, <1>4, <1>5, <1>6, <1>7, <1>8, <1>9 DEF Next, Progress, Generation, WaveStep

\* The recorded evidence warrants every status throughout every run.
THEOREM EvidenceInvariance == Spec => []EInv
BY Invariance, ChainInvariance, InitEInv, NextEInv, PTL DEF Spec

\* Whatever is past its refinement backtest passed its screening once and never failed it,
\* and cleared the bar; a promoted thesis cleared the final bar too.
THEOREM EvidenceOnRecord == Spec => []PromotionHasEvidence
<1>1. EInv => PromotionHasEvidence
  BY DEF EInv, PassedOnce, BarsCleared, Passed, RowsOf, Cleared, PromotionHasEvidence
<1> QED
  BY <1>1, EvidenceInvariance, PTL

-----------------------------------------------------------------------------
(***************************************************************************)
(* The caps.  launched counts the stored theses, but for the one inserted  *)
(* and not counted yet; the first loop launches one per lineage.           *)
(***************************************************************************)
Launching(m) == launched < m /\ queue = (launched + 1)..m

InitialIds ==
  /\ pc \in {"assert_fresh", "create_cycle", "propose"} => launched = 0 /\ Len(lineages) = 0
  /\ pc \in Generating =>
       /\ \E m \in 1..NInitial : Launching(m)
       /\ Len(lineages) = IF pc = "create_lineage" THEN launched ELSE launched + 1

\* Where a variant may be stored whose depth and launch are not: for good when the run
\* stopped there.
Lagging == {"bump_depth", "dead", "over"}

Counted ==
  /\ launched <= Len(theses)
  /\ pc \notin Lagging => Len(theses) = launched
  /\ pc = "bump_depth" => Len(theses) = launched + 1
  /\ pc \in {"refine", "bump_depth"} => launched < IterationBudget

Budgeted == Len(theses) <= IterationBudget /\ Len(lineages) <= MaxLineages

Stored(t) == theses[t].iteration = lineages[LineageOf(t)]

ToBeStored(t) == t = Len(theses) /\ theses[t].iteration = lineages[LineageOf(t)] + 1

DepthIsStored ==
  \A t \in ThesisIds :
    /\ theses[t].iteration <= MaxDepth
    /\ Youngest(t) =>
         Stored(t) \/ (pc \in Lagging /\ cycle # "completed" /\ ToBeStored(t))
    /\ pc = "bump_depth" /\ t = Len(theses) => ToBeStored(t)

CompletedIsOver == cycle = "completed" => pc = "over"

KInv == InitialIds /\ Counted /\ Budgeted /\ DepthIsStored /\ CompletedIsOver

LEMMA CapsAreNumbers ==
  ASSUME TypeOK
  PROVE  /\ MaxTheses \in Nat \ {0} /\ MaxLineages \in Nat \ {0} /\ MaxDepth \in Nat
         /\ NInitial \in Nat \ {0} /\ NInitial <= MaxLineages
         /\ IterationBudget \in Nat /\ MaxLineages <= IterationBudget
         /\ Len(theses) \in Nat /\ Len(lineages) \in Nat /\ launched \in Nat
<1>1. MaxTheses \in Nat \ {0} /\ MaxLineages \in Nat \ {0} /\ MaxDepth \in Nat
  BY CapsAssumption DEF TypeOK, MaxTheses, MaxLineages, MaxDepth
<1>2. NInitial \in Nat \ {0} /\ NInitial <= MaxLineages
  BY <1>1 DEF NInitial
<1>3. \A a \in Nat \ {0}, d \in Nat : a * (1 + d) \in Nat /\ a <= a * (1 + d)
  <2> SUFFICES ASSUME NEW a \in Nat \ {0}, NEW d \in Nat
               PROVE  a * (1 + d) \in Nat /\ a <= a * (1 + d)
    OBVIOUS
  <2>1. a * (1 + d) = a + a * d /\ a * d \in Nat
    OBVIOUS
  <2> QED
    BY <2>1
<1>4. IterationBudget \in Nat /\ MaxLineages <= IterationBudget
  BY <1>1, <1>3 DEF IterationBudget
<1> QED
  BY <1>1, <1>2, <1>4, LenProperties DEF TypeOK

\* The caps are those of the run's configuration.
LEMMA CapsStay ==
  ASSUME settings' = settings
  PROVE  /\ MaxLineages' = MaxLineages /\ MaxDepth' = MaxDepth
         /\ NInitial' = NInitial /\ IterationBudget' = IterationBudget
BY DEF MaxLineages, MaxDepth, MaxTheses, NInitial, IterationBudget

LEMMA InitKInv == Init => KInv
<1> SUFFICES ASSUME Init PROVE KInv
  OBVIOUS
<1>1. Len(theses) = 0 /\ Len(lineages) = 0 /\ launched = 0 /\ pc = "assert_fresh" /\ ThesisIds = {}
  BY DEF Init, ThesisIds
<1>2. MaxLineages \in Nat /\ IterationBudget \in Nat
  BY InitTypeOK, CapsAreNumbers
<1> QED
  BY <1>1, <1>2 DEF Init, KInv, InitialIds, Counted, Budgeted, DepthIsStored, Generating,
     CompletedIsOver

\* A step that inserts no row and launches nothing, outside the first loop.
LEMMA KInvQuiet ==
  ASSUME TypeOK, KInv, settings' = settings, launched' = launched, lineages' = lineages,
         \/ theses' = theses
         \/ \E t \in ThesisIds, s \in Status : SetStatus(t, s),
         pc \notin Lagging, cycle' = cycle \/ pc' = "over",
         pc' \notin Generating \union {"assert_fresh", "create_cycle", "propose", "bump_depth"},
         pc' = "refine" => pc = "refine" \/ launched < IterationBudget
  PROVE  KInv'
<1>0. /\ MaxLineages' = MaxLineages /\ MaxDepth' = MaxDepth /\ IterationBudget' = IterationBudget
  BY CapsStay
<1>1. /\ Len(theses') = Len(theses) /\ ThesisIds' = ThesisIds
      /\ \A u \in ThesisIds : /\ theses'[u].lineage = theses[u].lineage
                              /\ theses'[u].iteration = theses[u].iteration
  BY StatusOnly DEF ThesisIds
<1>2. \A u \in ThesisIds : Youngest(u)' <=> Youngest(u)
  BY <1>1 DEF Youngest, LineageOf
<1>3. \A u \in ThesisIds : (Stored(u)' <=> Stored(u)) /\ (ToBeStored(u)' <=> ToBeStored(u))
  BY <1>1 DEF Stored, ToBeStored, LineageOf
<1>4. InitialIds' /\ Counted' /\ Budgeted'
  BY <1>0, <1>1 DEF KInv, InitialIds, Counted, Budgeted, Lagging
<1>5. DepthIsStored'
  BY <1>0, <1>1, <1>2, <1>3 DEF KInv, DepthIsStored
<1>6. CompletedIsOver'
  BY DEF KInv, CompletedIsOver, Lagging
<1> QED
  BY <1>4, <1>5, <1>6 DEF KInv

\* An exception or a kill leaves the rows as they are, a depth not stored yet included.
LEMMA KInvStop ==
  ASSUME TypeOK, KInv, settings' = settings, launched' = launched, lineages' = lineages,
         theses' = theses, pc \notin {"over", "dead"}, pc' \in {"over", "dead"},
         cycle' \in {cycle, "failed"}
  PROVE  KInv'
<1>0. MaxLineages' = MaxLineages /\ MaxDepth' = MaxDepth /\ IterationBudget' = IterationBudget
  BY CapsStay
<1>1. cycle # "completed" /\ cycle' # "completed"
  BY DEF KInv, CompletedIsOver
<1>2. InitialIds' /\ Counted' /\ Budgeted' /\ CompletedIsOver'
  BY <1>0, <1>1 DEF KInv, InitialIds, Counted, Budgeted, CompletedIsOver, Lagging, Generating
<1>3. DepthIsStored'
  BY <1>0, <1>1 DEF KInv, DepthIsStored, Stored, ToBeStored, Youngest, ThesisIds, LineageOf,
     Lagging
<1> QED
  BY <1>2, <1>3 DEF KInv

LEMMA GenerationKInv == IInv /\ CInv /\ KInv /\ Generation => KInv'
<1> SUFFICES ASSUME IInv, CInv, KInv, Generation PROVE KInv'
  OBVIOUS
<1> USE DEF Goto, tables, history, Lagging
<1>0. /\ TypeOK
      /\ MaxLineages \in Nat \ {0} /\ MaxDepth \in Nat
      /\ NInitial \in Nat \ {0} /\ NInitial <= MaxLineages
      /\ IterationBudget \in Nat /\ MaxLineages <= IterationBudget
      /\ Len(theses) \in Nat /\ Len(lineages) \in Nat /\ launched \in Nat
  BY CapsAreNumbers DEF IInv
<1>1. /\ MaxLineages' = MaxLineages /\ MaxDepth' = MaxDepth
      /\ NInitial' = NInitial /\ IterationBudget' = IterationBudget
  BY CapsStay DEF Generation, GenerateInitial, CreateLineage, CreateLedgerRow, InsertRoot
<1>6. CompletedIsOver'
  BY DEF KInv, CompletedIsOver, Generation, GenerateInitial, CreateLineage, CreateLedgerRow,
     InsertRoot
<1>2. CASE GenerateInitial
  <2>1. PICK m \in 0..NInitial :
          /\ queue' = 1..m /\ pc' = IF m = 0 THEN "report" ELSE "create_lineage"
    BY <1>2 DEF GenerateInitial
  <2>2. /\ pc = "propose" /\ theses' = theses /\ lineages' = lineages /\ launched' = launched
        /\ settings' = settings /\ cycle' = cycle
    BY <1>2 DEF GenerateInitial
  <2>3. CASE m = 0
    BY <1>0, <2>1, <2>2, <2>3, KInvQuiet DEF Generating
  <2>4. CASE m # 0
    <3>1. m \in 1..NInitial /\ launched = 0 /\ pc' = "create_lineage" /\ Len(lineages) = 0
      BY <1>0, <2>1, <2>2, <2>4 DEF KInv, InitialIds
    <3>2. InitialIds'
      BY <1>1, <2>1, <2>2, <3>1 DEF InitialIds, Launching, Generating
    <3>3. Counted' /\ Budgeted'
      BY <1>1, <2>2, <3>1 DEF KInv, Counted, Budgeted
    <3>4. DepthIsStored'
      BY <1>1, <2>2, <3>1 DEF KInv, DepthIsStored, Stored, Youngest, ThesisIds, LineageOf
    <3> QED
      BY <1>6, <3>2, <3>3, <3>4 DEF KInv
  <2> QED
    BY <2>3, <2>4
<1>3. CASE CreateLineage
  <2>1. /\ pc = "create_lineage" /\ pc' = "create_ledger_row" /\ lineages' = Append(lineages, 0)
        /\ theses' = theses /\ queue' = queue /\ launched' = launched
    BY <1>3 DEF CreateLineage
  <2>2. /\ Len(lineages') = Len(lineages) + 1
        /\ \A l \in 1..Len(lineages) : lineages'[l] = lineages[l]
    BY <2>1, AppendProperties DEF IInv, TypeOK
  <2>3. PICK m \in 1..NInitial : Launching(m)
    BY <2>1 DEF KInv, InitialIds, Generating
  <2>4. Len(lineages) = launched /\ launched < m
    BY <2>1, <2>3 DEF KInv, InitialIds, Generating, Launching
  <2>5. InitialIds'
    <3>1. Launching(m)'
      BY <2>1, <2>3 DEF Launching
    <3> QED
      BY <1>1, <2>1, <2>2, <2>3, <2>4, <3>1 DEF InitialIds, Generating
  <2>6. Counted' /\ Budgeted'
    BY <1>0, <1>1, <2>1, <2>2, <2>3, <2>4 DEF KInv, Counted, Budgeted
  <2>7. \A t \in ThesisIds : LineageOf(t) \in 1..Len(lineages)
    BY DEF IInv, LedgerRowBeforeThesis, LineageIds
  <2>8. DepthIsStored'
    BY <1>1, <2>1, <2>2, <2>7 DEF KInv, DepthIsStored, Stored, Youngest, ThesisIds, LineageOf
  <2> QED
    BY <1>6, <2>5, <2>6, <2>8 DEF KInv
<1>4. CASE CreateLedgerRow
  <2>1. /\ pc = "create_ledger_row" /\ pc' = "insert_root" /\ lineages' = lineages
        /\ theses' = theses /\ queue' = queue /\ launched' = launched
    BY <1>4 DEF CreateLedgerRow
  <2>2. InitialIds' /\ Counted' /\ Budgeted'
    BY <1>1, <2>1 DEF KInv, InitialIds, Counted, Budgeted, Launching, Generating
  <2>3. DepthIsStored'
    BY <1>1, <2>1 DEF KInv, DepthIsStored, Stored, Youngest, ThesisIds, LineageOf
  <2> QED
    BY <1>6, <2>2, <2>3 DEF KInv
<1>5. ASSUME NEW shape \in Shape, InsertRoot(shape) PROVE KInv'
  <2>1. /\ pc = "insert_root" /\ InsertThesis(Len(lineages), NoParent, 0, shape)
        /\ lineages' = lineages /\ launched' = launched + 1 /\ critiques' = critiques
        /\ pc' = IF queue' = {} THEN "screen" ELSE "create_lineage"
    BY <1>5 DEF InsertRoot
  <2>2. PICK m \in 1..NInitial : Launching(m)
    BY <2>1 DEF KInv, InitialIds, Generating
  <2>3. PICK x \in queue : First(x) /\ queue' = queue \ {x}
    BY <1>5 DEF InsertRoot
  <2>4. x = launched + 1
    BY <1>0, <2>2, <2>3 DEF First, Launching
  <2>5. queue' = (launched' + 1)..m /\ launched' <= m
    BY <1>0, <2>1, <2>2, <2>3, <2>4 DEF Launching
  <2>6. pc' = "create_lineage" => Launching(m)'
    BY <1>0, <2>1, <2>5 DEF Launching
  <2>7. Len(lineages) = launched + 1 /\ Len(theses) = launched
    BY <2>1 DEF KInv, InitialIds, Counted, Generating
  <2>8. /\ Len(lineages) \in Nat \ {0} /\ NoParent \in Nat
        /\ lineages[Len(lineages)] = 0
        /\ \A u \in ThesisIds : LineageOf(u) # Len(lineages)
    BY <1>0, <2>1 DEF CInv, RootIsFirst, NoParent
  <2>9. PICK n : Added(n, Len(lineages), NoParent, 0, shape)
    BY <1>0, <2>1, <2>8, NewRow
  <2>10. /\ ThesisIds' = ThesisIds \union {n} /\ Len(theses') = n /\ n = Len(theses) + 1
         /\ \A u \in ThesisIds : u < n /\ u \in Nat /\ theses'[u] = theses[u]
         /\ theses'[n].lineage = Len(lineages) /\ theses'[n].iteration = 0
    BY <2>9 DEF Added
  <2>11. InitialIds'
    BY <1>1, <2>1, <2>2, <2>6, <2>7 DEF InitialIds, Generating
  <2>12. Counted' /\ Budgeted'
    BY <1>0, <1>1, <2>1, <2>2, <2>5, <2>7, <2>10 DEF KInv, Counted, Budgeted
  <2>13. \A u \in ThesisIds : Youngest(u)' <=> Youngest(u)
    BY <1>0, <2>1, <2>8, ChainInsert DEF CInv
  <2>14. \A u \in ThesisIds : Youngest(u) => Stored(u)
    BY <2>1 DEF KInv, DepthIsStored
  <2>15. ASSUME NEW u \in ThesisIds
         PROVE  theses'[u].iteration <= MaxDepth /\ (Youngest(u)' => Stored(u)')
    <3>1. theses[u].iteration <= MaxDepth /\ theses'[u] = theses[u]
      BY <2>10 DEF KInv, DepthIsStored
    <3> QED
      BY <2>1, <2>13, <2>14, <3>1 DEF Stored, LineageOf
  <2>16. theses'[n].iteration <= MaxDepth /\ Stored(n)'
    BY <1>0, <2>1, <2>8, <2>10 DEF Stored, LineageOf
  <2>17. pc' # "bump_depth"
    BY <2>1
  <2>18. DepthIsStored'
    BY <1>1, <2>10, <2>15, <2>16, <2>17 DEF DepthIsStored
  <2> QED
    BY <1>6, <2>11, <2>12, <2>18 DEF KInv
<1> QED
  BY <1>2, <1>3, <1>4, <1>5 DEF Generation

\* The refinement is inserted one deeper than the stored depth, which had room.
LEMMA InsertKInv ==
  ASSUME IInv, CInv, KInv, NEW t \in ThesisIds, NEW shape \in Shape, GenerateRefinement(t, shape)
  PROVE  KInv'
<1> USE DEF Goto, tables, history, Lagging
<1>0. /\ TypeOK
      /\ MaxLineages \in Nat \ {0} /\ MaxDepth \in Nat /\ IterationBudget \in Nat
      /\ Len(theses) \in Nat /\ Len(lineages) \in Nat /\ launched \in Nat
  BY CapsAreNumbers DEF IInv
<1>1. /\ pc = "refine" /\ pc' = "bump_depth" /\ First(t) /\ t \in queue
      /\ InsertThesis(LineageOf(t), t, theses[t].iteration + 1, shape)
      /\ lineages' = lineages /\ launched' = launched /\ critiques' = critiques
      /\ settings' = settings
  BY DEF GenerateRefinement, First
<1>2. MaxLineages' = MaxLineages /\ MaxDepth' = MaxDepth /\ IterationBudget' = IterationBudget
  BY <1>1, CapsStay
<1>3. theses[t].iteration + 1 \in Nat /\ LineageOf(t) \in Nat \ {0} /\ t \in Nat
      /\ theses[t].iteration \in Nat
  BY <1>0, RefinementNumbers, IdsAreNatural DEF Thesis
<1>4. /\ Youngest(t) /\ StatusOf(t) \in REJECTED_STATUSES /\ t \in critiques
      /\ lineages[LineageOf(t)] < MaxDepth
  BY <1>1 DEF CInv, CandidatesAreYoungest, Waving
<1>5. theses[t].iteration = lineages[LineageOf(t)]
  BY <1>1, <1>4 DEF KInv, DepthIsStored, Stored
<1>6. PICK n : Added(n, LineageOf(t), t, theses[t].iteration + 1, shape)
  BY <1>0, <1>1, <1>3, NewRow
<1>7. /\ ThesisIds' = ThesisIds \union {n} /\ Len(theses') = n /\ n = Len(theses) + 1
      /\ \A u \in ThesisIds : u < n /\ u \in Nat /\ theses'[u] = theses[u]
      /\ theses'[n].lineage = LineageOf(t) /\ theses'[n].iteration = theses[t].iteration + 1
  BY <1>6 DEF Added
<1>8. \A u \in ThesisIds : Youngest(u)' => Youngest(u) /\ LineageOf(u) # LineageOf(t)
  BY <1>7 DEF Youngest, LineageOf
<1>9. Len(theses) = launched /\ launched < IterationBudget
  BY <1>1 DEF KInv, Counted
<1>10. InitialIds'
  BY <1>1 DEF InitialIds, Generating
<1>11. Counted' /\ Budgeted'
  BY <1>0, <1>1, <1>2, <1>7, <1>9 DEF KInv, Counted, Budgeted
<1>12. \A u \in ThesisIds : Youngest(u) => Stored(u)
  BY <1>1 DEF KInv, DepthIsStored
<1>13. ToBeStored(n)'
  BY <1>1, <1>5, <1>7 DEF ToBeStored, LineageOf
<1>14. theses'[n].iteration <= MaxDepth
  BY <1>0, <1>3, <1>4, <1>5, <1>7
<1>15. ASSUME NEW u \in ThesisIds
       PROVE  /\ theses'[u].iteration <= MaxDepth /\ u # n
              /\ Youngest(u)' => Stored(u)'
  BY <1>1, <1>7, <1>8, <1>12 DEF KInv, DepthIsStored, Stored, LineageOf
<1>18. cycle' # "completed"
  BY <1>1 DEF KInv, CompletedIsOver, GenerateRefinement
<1>16. DepthIsStored'
  BY <1>1, <1>2, <1>7, <1>13, <1>14, <1>15, <1>18 DEF DepthIsStored
<1>17. CompletedIsOver'
  BY DEF KInv, CompletedIsOver, GenerateRefinement
<1> QED
  BY <1>10, <1>11, <1>16, <1>17 DEF KInv

\* The bump stores the depth of the row just inserted, and of no other lineage.
LEMMA BumpKInv ==
  ASSUME IInv, CInv, KInv, NEW t \in ThesisIds, BumpLineageDepth(t)
  PROVE  KInv'
<1> USE DEF Goto, tables, history, Lagging
<1>0. /\ TypeOK
      /\ MaxLineages \in Nat \ {0} /\ MaxDepth \in Nat /\ IterationBudget \in Nat
      /\ Len(theses) \in Nat /\ Len(lineages) \in Nat /\ launched \in Nat
  BY CapsAreNumbers DEF IInv
<1>1. /\ pc = "bump_depth" /\ pc' = "critique" /\ First(t) /\ t \in queue
      /\ lineages' = [lineages EXCEPT ![LineageOf(t)] = @ + 1]
      /\ launched' = launched + 1 /\ theses' = theses /\ settings' = settings
  BY DEF BumpLineageDepth, BumpDepth, First
<1>2. MaxLineages' = MaxLineages /\ MaxDepth' = MaxDepth /\ IterationBudget' = IterationBudget
  BY <1>1, CapsStay
<1>3. LineageOf(t) \in 1..Len(lineages) /\ LineageOf(Len(theses)) = LineageOf(t)
  BY <1>1 DEF IInv, LedgerRowBeforeThesis, LineageIds, CInv, CandidatesAreYoungest, Waving
<1>4. /\ Len(lineages') = Len(lineages)
      /\ \A l \in 1..Len(lineages) :
           lineages'[l] = IF l = LineageOf(t) THEN lineages[l] + 1 ELSE lineages[l]
  <2>1. lineages \in Seq(Nat) /\ lineages[LineageOf(t)] + 1 \in Nat
    BY <1>0, <1>3, ElementOfSeq DEF TypeOK
  <2> QED
    BY <1>1, <1>3, <2>1, ExceptSeq
<1>5. InitialIds'
  BY <1>1 DEF InitialIds, Generating
<1>6. Counted' /\ Budgeted'
  BY <1>0, <1>1, <1>2, <1>4 DEF KInv, Counted, Budgeted
<1>7. ThesisIds' = ThesisIds /\ \A u \in ThesisIds : Youngest(u)' <=> Youngest(u)
  BY <1>1 DEF ThesisIds, Youngest, LineageOf
<1>8. ASSUME NEW u \in ThesisIds, Youngest(u) PROVE Stored(u)'
  <2>1. u \in Nat /\ u <= Len(theses) /\ Len(theses) \in ThesisIds
        /\ LineageOf(u) \in 1..Len(lineages)
    BY <1>0 DEF ThesisIds, IInv, LedgerRowBeforeThesis, LineageIds
  <2>2. CASE LineageOf(u) = LineageOf(t)
    <3>1. Len(theses) <= u
      BY <1>3, <1>8, <2>1, <2>2 DEF Youngest
    <3>2. u = Len(theses)
      BY <1>0, <2>1, <3>1
    <3>3. theses[u].iteration = lineages[LineageOf(u)] + 1
      BY <1>1, <3>2 DEF KInv, DepthIsStored, ToBeStored
    <3> QED
      BY <1>1, <1>4, <2>1, <2>2, <3>3 DEF Stored, LineageOf
  <2>3. CASE LineageOf(u) # LineageOf(t)
    <3>1. Stored(u)
      BY <1>3, <1>8, <2>3 DEF KInv, DepthIsStored, ToBeStored
    <3> QED
      BY <1>1, <1>4, <2>1, <2>3, <3>1 DEF Stored, LineageOf
  <2> QED
    BY <2>2, <2>3
<1>9. DepthIsStored'
  BY <1>1, <1>2, <1>7, <1>8 DEF KInv, DepthIsStored
<1>10. CompletedIsOver'
  BY DEF KInv, CompletedIsOver, BumpLineageDepth
<1> QED
  BY <1>5, <1>6, <1>9, <1>10 DEF KInv

LEMMA NextKInv == IInv /\ CInv /\ KInv /\ [Next]_vars => KInv'
<1> SUFFICES ASSUME IInv, CInv, KInv, [Next]_vars PROVE KInv'
  OBVIOUS
<1> USE DEF Goto, tables, history
<1>0. TypeOK
  BY DEF IInv
<1> DEFINE Early == Generating \union {"assert_fresh", "create_cycle", "propose", "bump_depth"}
           Same == settings' = settings /\ launched' = launched /\ lineages' = lineages
                   /\ (cycle' = cycle \/ pc' = "over")
<1>1. CASE UNCHANGED vars
  BY <1>1 DEF KInv, InitialIds, Launching, Counted, Budgeted, DepthIsStored, Stored, ToBeStored,
     CompletedIsOver, Lagging, Youngest, ThesisIds, LineageOf, MaxLineages, MaxDepth, MaxTheses,
     NInitial, IterationBudget, vars, control
<1>2. CASE AssertFresh \/ CreateCycle
  <2>1. /\ settings' = settings /\ launched' = launched /\ lineages' = lineages
        /\ theses' = theses /\ cycle' \in {cycle, "running"}
        /\ pc \in {"assert_fresh", "create_cycle"} /\ pc' \in {"create_cycle", "propose", "over"}
    BY <1>2 DEF AssertFresh, CreateCycle
  <2>2. launched = 0 /\ Len(lineages) = 0
    BY <2>1 DEF KInv, InitialIds
  <2>3. InitialIds'
    BY <2>1, <2>2 DEF InitialIds, Generating
  <2>4. Counted' /\ Budgeted'
    BY <2>1, CapsStay DEF KInv, Counted, Budgeted, Lagging
  <2>5. DepthIsStored'
    BY <2>1, CapsStay DEF KInv, DepthIsStored, Stored, Youngest, ThesisIds, LineageOf, Lagging
  <2>6. CompletedIsOver'
    BY <2>1 DEF KInv, CompletedIsOver
  <2> QED
    BY <2>3, <2>4, <2>5, <2>6 DEF KInv
<1>3. CASE ReportStep
  <2>1. /\ Same /\ theses' = theses
        /\ pc' \in {"render", "finish", "over"} /\ pc \notin Lagging
    BY <1>3 DEF ReportStep, BuildReport, RenderMarkdown, FinishCycle, ReportRaises, Fail, Lagging
  <2> QED
    BY <1>0, <2>1, KInvQuiet DEF Generating
<1>11. CASE Raise \/ Kill
  <2>1. /\ settings' = settings /\ launched' = launched /\ lineages' = lineages
        /\ theses' = theses /\ cycle' \in {cycle, "failed"}
        /\ pc \notin {"over", "dead"} /\ pc' \in {"over", "dead"}
    BY <1>11 DEF Raise, CreateCycleRaises, BodyRaises, Fail, Kill
  <2> QED
    BY <1>0, <2>1, KInvStop
<1>4. ASSUME Same, theses' = theses \/ \E t \in ThesisIds, s \in Status : SetStatus(t, s),
             pc \notin Lagging, pc' \notin Early \union {"refine"}
      PROVE  KInv'
  BY <1>0, <1>4, KInvQuiet
<1>5. CASE ScreenStep
  <2>1. Same /\ pc \notin Lagging /\ pc' \notin Early \union {"refine"}
    BY <1>5 DEF ScreenStep, ScreenCycle, TestFamily, StartBacktests, RefuseUnderObserved,
       AdmitToFamily, ApplyVerdict, RecordVerdict, Generating, Lagging
  <2>2. theses' = theses \/ \E t \in ThesisIds, s \in Status : SetStatus(t, s)
    <3>1. ASSUME NEW t \in ThesisIds, RefuseUnderObserved(t) \/ ApplyVerdict(t)
          PROVE  \E s \in Status : SetStatus(t, s)
      BY <3>1 DEF RefuseUnderObserved, ApplyVerdict, Status
    <3> QED
      BY <1>5, <3>1 DEF ScreenStep, ScreenCycle, TestFamily, StartBacktests, AdmitToFamily,
         RecordVerdict
  <2> HIDE DEF Same, Early
  <2> QED
    BY <1>4, <2>1, <2>2
<1>6. CASE RefinementStep
  <2>1. Same /\ pc \notin Lagging /\ pc' \notin Early \union {"refine"}
    BY <1>6 DEF RefinementStep, EndBacktests, GateRefinement, SettleRefinement, RunRefinement,
       Generating, Lagging
  <2>2. theses' = theses \/ \E t \in ThesisIds, s \in Status : SetStatus(t, s)
    <3>1. ASSUME NEW t \in ThesisIds, GateRefinement(t) \/ SettleRefinement(t)
          PROVE  \E s \in Status : SetStatus(t, s)
      BY <3>1 DEF GateRefinement, SettleRefinement, Status
    <3> QED
      BY <1>6, <3>1 DEF RefinementStep, EndBacktests, RunRefinement
  <2> HIDE DEF Same, Early
  <2> QED
    BY <1>4, <2>1, <2>2
<1>7. CASE FinalStep
  <2>1. Same /\ pc \notin Lagging /\ pc' \notin Early \union {"refine"}
    BY <1>7 DEF FinalStep, EndFinals, SkipLineage, SelectFinalist, SpendEntitlement, GateFinal,
       SettleFinal, RunFinal, Generating, Lagging
  <2>2. theses' = theses \/ \E t \in ThesisIds, s \in Status : SetStatus(t, s)
    <3>1. ASSUME NEW l \in LineageIds, NEW t \in ThesisIds,
                 SelectFinalist(l, t) \/ GateFinal(l, t) \/ SettleFinal(l, t)
          PROVE  \E s \in Status : SetStatus(t, s)
      BY <3>1 DEF SelectFinalist, GateFinal, SettleFinal, Status
    <3>2. ASSUME NEW l \in LineageIds, NEW t \in ThesisIds, SpendEntitlement(l, t)
          PROVE  theses' = theses \/ \E s \in Status : SetStatus(t, s)
      BY <3>2 DEF SpendEntitlement, Status
    <3> QED
      BY <1>7, <3>1, <3>2 DEF FinalStep, EndFinals, SkipLineage, RunFinal
  <2> HIDE DEF Same, Early
  <2> QED
    BY <1>4, <2>1, <2>2
<1>8. CASE StartWave \/ EndWaves \/ EndCandidates
  BY <1>4, <1>8 DEF StartWave, EndWaves, EndCandidates, Generating, Lagging
<1>9. ASSUME NEW t \in ThesisIds,
             RejectCritique(t) \/ AcceptCritique(t) \/ RefinementRaises(t)
      PROVE  KInv'
  <2>1. /\ Same /\ theses' = theses
        /\ pc \in {"critique", "refine"} /\ pc' \in {"critique", "refine", "over"}
        /\ pc' = "refine" => launched < IterationBudget
    BY <1>9 DEF RejectCritique, AcceptCritique, RefinementRaises, Fail
  <2> QED
    BY <1>0, <2>1, KInvQuiet DEF Generating, Lagging
<1>10. CASE Over
  BY <1>1, <1>10 DEF Over
<1> QED
  BY <1>1, <1>2, <1>3, <1>5, <1>6, <1>7, <1>8, <1>9, <1>10, <1>11, GenerationKInv, InsertKInv, BumpKInv
     DEF Next, Progress, WaveStep

\* What is launched and stored stays within the caps throughout every run.
THEOREM CapsInvariance == Spec => []KInv
BY Invariance, ChainInvariance, InitKInv, NextKInv, PTL DEF Spec

\* Neither cap is ever exceeded, whatever raises and wherever the run is killed; only a run
\* that stops between the insert and the bump leaves a depth one short, that of the newest row.
THEOREM CapsAreKept == Spec => []CapsHold
<1>1. IInv /\ KInv => CapsHold
  <2> SUFFICES ASSUME IInv, KInv PROVE CapsHold
    OBVIOUS
  <2>1. launched <= IterationBudget /\ Len(theses) <= IterationBudget
    BY CapsAreNumbers DEF IInv, KInv, Counted, Budgeted
  <2> QED
    BY <2>1 DEF KInv, DepthIsStored, Stored, ToBeStored, Youngest, CapsHold, Lagging
<1> QED
  BY <1>1, Invariance, CapsInvariance, PTL

-----------------------------------------------------------------------------
(***************************************************************************)
(* No silent drops.  A thesis without a final status is always one the     *)
(* loop at hand, or a later one, still visits.                             *)
(***************************************************************************)
Stopped == pc \in {"over", "dead"}

ProposedWait ==
  \A t \in ThesisIds : StatusOf(t) = "proposed" =>
    \/ pc \in Generating
    \/ pc = "screen" /\ (wave = 0 \/ t \in picked)
    \/ pc = "activity" /\ t \in queue \union picked
    \/ pc \in {"record_verdict", "apply_verdict"} /\ t \in queue
    \/ pc \in Waving /\ t \in picked
    \/ pc = "bump_depth" /\ t = Len(theses)
    \/ Stopped

PassedWait ==
  \A t \in ThesisIds : StatusOf(t) = "screened_passed" =>
    \/ pc \in {"record_verdict", "apply_verdict"} /\ t \in picked
    \/ pc \in {"backtest", "settle_refinement"} /\ t \in queue
    \/ Stopped

SurvivorsWait ==
  \A t \in ThesisIds : StatusOf(t) = "backtested" =>
    \/ pc \in BeforeFinals
    \/ pc \in InFinals /\ LineageOf(t) \in queue
    \/ Stopped

PendingWait ==
  \A t \in ThesisIds : StatusOf(t) = "final_evaluation_pending" =>
    \/ pc \in {"spend", "final_read", "settle_final"} /\ t \in picked
    \/ Stopped

Waits == ProposedWait /\ PassedWait /\ SurvivorsWait /\ PendingWait

ProposedAreValid ==
  \A t \in ThesisIds : StatusOf(t) = "proposed" => theses[t].shape = "valid"

FirstWave ==
  pc \in Generating \union {"assert_fresh", "create_cycle", "propose"} => wave = 0

Reported ==
  /\ pc \notin {"render", "finish"} \union {"over", "dead"} => reports = {}
  /\ pc \in {"render", "finish"} => reports = {Statuses}

Settled == \A t \in ThesisIds : StatusOf(t) \in REJECTED_STATUSES \union Evaluated

CompletedLast == cycle = "completed" => pc = "over" /\ reports = {Statuses} /\ Settled

AInv == Waits /\ ProposedAreValid /\ FirstWave /\ Reported /\ CompletedLast

LEMMA InitAInv == Init => AInv
BY DEF Init, AInv, Waits, ProposedWait, PassedWait, SurvivorsWait, PendingWait, ProposedAreValid,
       FirstWave, Reported, CompletedLast, Settled, ThesisIds

\* Once nothing waits, every status is a final one.
LEMMA NothingWaits ==
  ASSUME IInv, CInv, AInv, pc \in {"report", "render", "finish"}
  PROVE  Settled
<1> SUFFICES ASSUME NEW t \in ThesisIds PROVE StatusOf(t) \in REJECTED_STATUSES \union Evaluated
  BY DEF Settled
<1>1. StatusOf(t) \in Status /\ StatusOf(t) # "refused"
  BY IdsAreNatural DEF IInv, Thesis, StatusOf, CInv, NeverRefused
<1>2. StatusOf(t) \notin {"proposed", "screened_passed", "backtested", "final_evaluation_pending"}
  BY DEF AInv, Waits, ProposedWait, PassedWait, SurvivorsWait, PendingWait, Stopped, Generating,
         Waving, BeforeFinals, InFinals
<1> QED
  BY <1>1, <1>2 DEF Status, REJECTED_STATUSES, Evaluated

\* A step inside the body of the run: no report yet, and the cycle is not completed.
LEMMA AInvInside ==
  ASSUME AInv, Waits', ProposedAreValid',
         pc \notin {"report", "render", "finish", "over", "dead"},
         pc' \notin {"render", "finish", "over", "dead"},
         cycle' \in {cycle, "running"}, reports' = reports,
         wave' = wave \/ pc \notin Generating,
         pc' \in Generating \union {"create_cycle", "propose"} =>
           wave' = wave /\ pc \in Generating \union {"assert_fresh", "create_cycle", "propose"},
         pc' # "assert_fresh"
  PROVE  AInv'
BY DEF AInv, FirstWave, Reported, CompletedLast, Generating

\* A step that ends the run, or kills it.
LEMMA AInvStop ==
  ASSUME AInv, theses' = theses, pc' \in {"over", "dead"}, pc \notin {"over", "dead"},
         cycle' \in {cycle, "failed"}
  PROVE  AInv'
<1>1. Waits'
  BY DEF Waits, ProposedWait, PassedWait, SurvivorsWait, PendingWait, Stopped
<1>2. ProposedAreValid'
  BY DEF AInv, ProposedAreValid, ThesisIds, StatusOf
<1>3. FirstWave' /\ Reported' /\ CompletedLast'
  BY DEF AInv, FirstWave, Reported, CompletedLast, Generating
<1> QED
  BY <1>1, <1>2, <1>3 DEF AInv

LEMMA GenerationAInv == IInv /\ KInv /\ AInv /\ Generation => AInv'
<1> SUFFICES ASSUME IInv, KInv, AInv, Generation PROVE AInv'
  OBVIOUS
<1> USE DEF Goto, tables, history
<1>1. CASE GenerateInitial
  <2>1. /\ pc = "propose" /\ pc' \in {"report", "create_lineage"} /\ theses' = theses
        /\ cycle' = cycle /\ reports' = reports /\ wave' = wave
    BY <1>1 DEF GenerateInitial
  <2>2. ThesisIds = {} /\ ThesisIds' = {}
    BY <2>1 DEF KInv, InitialIds, Counted, Lagging, ThesisIds
  <2>3. Waits' /\ ProposedAreValid'
    BY <2>2 DEF Waits, ProposedWait, PassedWait, SurvivorsWait, PendingWait, ProposedAreValid
  <2> QED
    BY <2>1, <2>3, AInvInside DEF Generating
<1>2. CASE CreateLineage \/ CreateLedgerRow
  <2>1. /\ pc \in {"create_lineage", "create_ledger_row"}
        /\ pc' \in {"create_ledger_row", "insert_root"} /\ theses' = theses
        /\ cycle' = cycle /\ reports' = reports /\ wave' = wave
    BY <1>2 DEF CreateLineage, CreateLedgerRow
  <2>2. ThesisIds' = ThesisIds /\ \A t \in ThesisIds : StatusOf(t)' = StatusOf(t)
    BY <2>1 DEF ThesisIds, StatusOf
  <2>3. Waits'
    BY <2>1, <2>2 DEF AInv, Waits, ProposedWait, PassedWait, SurvivorsWait, PendingWait,
       Generating, Waving, BeforeFinals, InFinals, Stopped
  <2>4. ProposedAreValid'
    BY <2>1, <2>2 DEF AInv, ProposedAreValid
  <2> QED
    BY <2>1, <2>3, <2>4, AInvInside DEF Generating
<1>3. ASSUME NEW shape \in Shape, InsertRoot(shape) PROVE AInv'
  <2>1. /\ pc = "insert_root" /\ pc' \in {"screen", "create_lineage"}
        /\ InsertThesis(Len(lineages), NoParent, 0, shape)
        /\ cycle' = cycle /\ reports' = reports /\ wave' = wave
    BY <1>3 DEF InsertRoot
  <2>2. Len(lineages) \in Nat \ {0} /\ NoParent \in Nat /\ TypeOK
    BY <2>1, LenProperties DEF IInv, RowsInOrder, TypeOK, NoParent
  <2>3. PICK n : Added(n, Len(lineages), NoParent, 0, shape)
    BY <2>1, <2>2, NewRow
  <2>4. /\ ThesisIds' = ThesisIds \union {n} /\ Len(theses') = n
        /\ \A u \in ThesisIds : u < n /\ u \in Nat /\ theses'[u] = theses[u]
        /\ theses'[n].shape = shape
        /\ theses'[n].status = IF shape = "valid" THEN "proposed" ELSE "invalid_schema"
    BY <2>3 DEF Added
  <2>5. wave = 0
    BY <2>1 DEF AInv, FirstWave, Generating
  <2>6. ProposedWait'
    BY <2>1, <2>5 DEF ProposedWait, Generating
  <2>7. PassedWait' /\ PendingWait'
    BY <2>1, <2>4 DEF AInv, Waits, PassedWait, PendingWait, StatusOf, Stopped
  <2>8. SurvivorsWait'
    BY <2>1 DEF SurvivorsWait, BeforeFinals
  <2>9. ProposedAreValid'
    BY <2>4 DEF AInv, ProposedAreValid, StatusOf
  <2> QED
    BY <2>1, <2>6, <2>7, <2>8, <2>9, AInvInside DEF Waits, Generating
<1> QED
  BY <1>1, <1>2, <1>3 DEF Generation

\* A step that leaves the theses alone and does not lose sight of what waits.
LEMMA WaitsQuiet ==
  ASSUME AInv, theses' = theses, cycle' = cycle, reports' = reports,
         pc \notin {"report", "render", "finish", "over", "dead"},
         pc' \notin Generating \union {"assert_fresh", "create_cycle", "propose", "render",
                                       "finish", "over", "dead"},
         wave' = wave \/ pc \notin Generating,
         Waits'
  PROVE  AInv'
<1>1. ProposedAreValid'
  BY DEF AInv, ProposedAreValid, ThesisIds, StatusOf
<1> QED
  BY <1>1, AInvInside

\* A step that gives one thesis its next status.
LEMMA WaitsStatus ==
  ASSUME TypeOK, AInv, NEW t \in ThesisIds, NEW s \in Status \ {"proposed"}, SetStatus(t, s),
         cycle' = cycle, reports' = reports, wave' = wave,
         pc \notin {"report", "render", "finish", "over", "dead"},
         pc' \notin Generating \union {"assert_fresh", "create_cycle", "propose", "render",
                                       "finish", "over", "dead"},
         Waits'
  PROVE  AInv'
<1>1. ProposedAreValid'
  BY StatusOnly DEF AInv, ProposedAreValid, StatusOf
<1> QED
  BY <1>1, AInvInside

LEMMA ScreenAInv == IInv /\ CInv /\ AInv /\ ScreenStep => AInv'
<1> SUFFICES ASSUME IInv, CInv, AInv, ScreenStep PROVE AInv'
  OBVIOUS
<1> USE DEF Goto, tables, history
<1>0. TypeOK /\ VisitedStatuses /\ Waits
  BY DEF IInv, CInv, AInv
<1> DEFINE Same == /\ ThesisIds' = ThesisIds
                   /\ \A u \in ThesisIds : StatusOf(u)' = StatusOf(u)
<1>a. theses' = theses => Same
  BY DEF ThesisIds, StatusOf
<1> USE DEF Waits, Generating, Waving, BeforeFinals, InFinals, Stopped
<1>1. CASE ScreenCycle
  <2>1. Same
    BY <1>a, <1>1 DEF ScreenCycle
  <2>2. Waits'
    BY <1>0, <1>1, <2>1 DEF ScreenCycle, ProposedWait, PassedWait, SurvivorsWait, PendingWait
  <2> QED
    BY <1>1, <2>2, WaitsQuiet DEF ScreenCycle
<1>2. CASE TestFamily \/ StartBacktests
  <2>1. Same
    BY <1>a, <1>2 DEF TestFamily, StartBacktests
  <2>2. Waits'
    BY <1>0, <1>2, <2>1 DEF TestFamily, StartBacktests, ProposedWait, PassedWait, SurvivorsWait,
       PendingWait
  <2> QED
    BY <1>2, <2>2, WaitsQuiet DEF TestFamily, StartBacktests
<1>3. ASSUME NEW t \in ThesisIds, AdmitToFamily(t) PROVE AInv'
  <2>1. Same
    BY <1>a, <1>3 DEF AdmitToFamily
  <2>2. Waits'
    BY <1>0, <1>3, <2>1 DEF AdmitToFamily, ProposedWait, PassedWait, SurvivorsWait, PendingWait
  <2> QED
    BY <1>3, <2>2, WaitsQuiet DEF AdmitToFamily
<1>4. ASSUME NEW t \in ThesisIds, NEW v \in {"pass", "fail"}, RecordVerdict(t, v) PROVE AInv'
  <2>1. Same
    BY <1>a, <1>4 DEF RecordVerdict
  <2>2. Waits'
    BY <1>0, <1>4, <2>1 DEF RecordVerdict, ProposedWait, PassedWait, SurvivorsWait, PendingWait
  <2> QED
    BY <1>4, <2>2, WaitsQuiet DEF RecordVerdict
<1>5. ASSUME NEW t \in ThesisIds, RefuseUnderObserved(t) PROVE AInv'
  <2>1. "screened_rejected" \in Status \ {"proposed"} /\ SetStatus(t, "screened_rejected")
    BY <1>5 DEF RefuseUnderObserved, Status
  <2>2. /\ ThesisIds' = ThesisIds
        /\ \A u \in ThesisIds : StatusOf(u)' = IF u = t THEN "screened_rejected" ELSE StatusOf(u)
    BY <1>0, <2>1, StatusOnly DEF StatusOf
  <2>3. Waits'
    BY <1>0, <1>5, <2>2 DEF RefuseUnderObserved, ProposedWait, PassedWait, SurvivorsWait,
       PendingWait
  <2> QED
    BY <1>0, <1>5, <2>1, <2>3, WaitsStatus DEF RefuseUnderObserved
<1>6. ASSUME NEW t \in ThesisIds, ApplyVerdict(t) PROVE AInv'
  <2> DEFINE s == IF PassRecorded(t) THEN "screened_passed" ELSE "screened_rejected"
  <2>1. s \in Status \ {"proposed"} /\ SetStatus(t, s)
    BY <1>6 DEF ApplyVerdict, Status
  <2>2. /\ ThesisIds' = ThesisIds
        /\ \A u \in ThesisIds : StatusOf(u)' = IF u = t THEN s ELSE StatusOf(u)
    <3> HIDE DEF s
    <3> QED
      BY <1>0, <2>1, StatusOnly DEF StatusOf
  <2>3. Waits'
    BY <1>0, <1>6, <2>2 DEF ApplyVerdict, ProposedWait, PassedWait, SurvivorsWait, PendingWait
  <2> HIDE DEF s
  <2> QED
    BY <1>0, <1>6, <2>1, <2>3, WaitsStatus DEF ApplyVerdict
<1> QED
  BY <1>1, <1>2, <1>3, <1>4, <1>5, <1>6 DEF ScreenStep

LEMMA RefinementAInv == IInv /\ CInv /\ AInv /\ RefinementStep => AInv'
<1> SUFFICES ASSUME IInv, CInv, AInv, RefinementStep PROVE AInv'
  OBVIOUS
<1> USE DEF Goto, tables, history
<1>0. TypeOK /\ VisitedStatuses /\ Waits
  BY DEF IInv, CInv, AInv
<1> DEFINE Same == /\ ThesisIds' = ThesisIds
                   /\ \A u \in ThesisIds : StatusOf(u)' = StatusOf(u)
<1>a. theses' = theses => Same
  BY DEF ThesisIds, StatusOf
<1> USE DEF Waits, Generating, Waving, BeforeFinals, InFinals, Stopped
<1>1. CASE EndBacktests
  <2>1. Same
    BY <1>a, <1>1 DEF EndBacktests
  <2>2. Waits'
    BY <1>0, <1>1, <2>1 DEF EndBacktests, ProposedWait, PassedWait, SurvivorsWait, PendingWait
  <2> QED
    BY <1>1, <2>2, WaitsQuiet DEF EndBacktests
<1>2. ASSUME NEW t \in ThesisIds, NEW clears \in BOOLEAN, RunRefinement(t, clears) PROVE AInv'
  <2>1. Same
    BY <1>a, <1>2 DEF RunRefinement
  <2>2. Waits'
    BY <1>0, <1>2, <2>1 DEF RunRefinement, ProposedWait, PassedWait, SurvivorsWait, PendingWait
  <2> QED
    BY <1>2, <2>2, WaitsQuiet DEF RunRefinement
<1>3. ASSUME NEW t \in ThesisIds, NEW s \in {"backtested", "rejected_underperform"},
             SetStatus(t, s), pc \in {"backtest", "settle_refinement"}, pc' = "backtest",
             queue' = queue \ {t}, cycle' = cycle, reports' = reports, wave' = wave
      PROVE  AInv'
  <2>1. s \in Status \ {"proposed"}
    BY DEF Status
  <2>2. /\ ThesisIds' = ThesisIds
        /\ \A u \in ThesisIds : StatusOf(u)' = IF u = t THEN s ELSE StatusOf(u)
    BY <1>0, <1>3, <2>1, StatusOnly DEF StatusOf
  <2>3. Waits'
    BY <1>0, <1>3, <2>2 DEF ProposedWait, PassedWait, SurvivorsWait, PendingWait
  <2> QED
    BY <1>0, <1>3, <2>1, <2>3, WaitsStatus
<1>4. ASSUME NEW t \in ThesisIds, GateRefinement(t) \/ SettleRefinement(t) PROVE AInv'
  <2>1. PICK s \in {"backtested", "rejected_underperform"} : SetStatus(t, s)
    BY <1>4 DEF GateRefinement, SettleRefinement
  <2> QED
    BY <1>3, <1>4, <2>1 DEF GateRefinement, SettleRefinement
<1> QED
  BY <1>1, <1>2, <1>4 DEF RefinementStep

LEMMA WaveAInv == IInv /\ CInv /\ KInv /\ AInv /\ WaveStep => AInv'
<1> SUFFICES ASSUME IInv, CInv, KInv, AInv, WaveStep PROVE AInv'
  OBVIOUS
<1> USE DEF Goto, tables, history
<1>0. TypeOK /\ Waits
  BY DEF IInv, AInv
<1> DEFINE Same == /\ ThesisIds' = ThesisIds /\ Len(theses') = Len(theses)
                   /\ \A u \in ThesisIds : /\ StatusOf(u)' = StatusOf(u)
                                           /\ LineageOf(u)' = LineageOf(u)
<1>a. theses' = theses => Same
  BY DEF ThesisIds, StatusOf, LineageOf
<1> USE DEF Waits, Generating, Waving, BeforeFinals, InFinals, Stopped
<1>1. CASE StartWave
  <2>1. Same
    BY <1>a, <1>1 DEF StartWave
  <2>2. Waits'
    BY <1>0, <1>1, <2>1 DEF StartWave, ProposedWait, PassedWait, SurvivorsWait, PendingWait
  <2> QED
    BY <1>1, <2>2, WaitsQuiet DEF StartWave
<1>2. CASE EndWaves
  <2>1. Same
    BY <1>a, <1>2 DEF EndWaves
  <2>2. \A u \in ThesisIds : LineageOf(u) \in queue'
    BY <1>2 DEF EndWaves, LineagesOfCycle
  <2>3. Waits'
    BY <1>0, <1>2, <2>1, <2>2 DEF EndWaves, ProposedWait, PassedWait, SurvivorsWait, PendingWait
  <2> QED
    BY <1>2, <2>3, WaitsQuiet DEF EndWaves
<1>3. CASE EndCandidates
  <2>1. Same
    BY <1>a, <1>3 DEF EndCandidates
  <2>2. Waits'
    BY <1>0, <1>3, <2>1 DEF EndCandidates, ProposedWait, PassedWait, SurvivorsWait, PendingWait
  <2> QED
    BY <1>3, <2>2, WaitsQuiet DEF EndCandidates
<1>4. ASSUME NEW t \in ThesisIds, RejectCritique(t) \/ AcceptCritique(t) PROVE AInv'
  <2>1. Same
    BY <1>a, <1>4 DEF RejectCritique, AcceptCritique
  <2>2. Waits'
    BY <1>0, <1>4, <2>1 DEF RejectCritique, AcceptCritique, ProposedWait, PassedWait,
       SurvivorsWait, PendingWait
  <2> QED
    BY <1>4, <2>2, WaitsQuiet DEF RejectCritique, AcceptCritique
<1>5. ASSUME NEW t \in ThesisIds, BumpLineageDepth(t) PROVE AInv'
  <2>1. Same
    BY <1>a, <1>5 DEF BumpLineageDepth
  <2>2. \A u \in ThesisIds : StatusOf(u) = "proposed" => u \in picked'
    <3> SUFFICES ASSUME NEW u \in ThesisIds, StatusOf(u) = "proposed" PROVE u \in picked'
      OBVIOUS
    <3>1. u \in picked \/ u = Len(theses)
      BY <1>0, <1>5 DEF BumpLineageDepth, ProposedWait
    <3>2. theses[u].shape = "valid"
      BY DEF AInv, ProposedAreValid
    <3> QED
      BY <1>5, <3>1, <3>2 DEF BumpLineageDepth
  <2>3. Waits'
    BY <1>0, <1>5, <2>1, <2>2 DEF BumpLineageDepth, ProposedWait, PassedWait, SurvivorsWait,
       PendingWait
  <2> QED
    BY <1>5, <2>3, WaitsQuiet DEF BumpLineageDepth
<1>6. ASSUME NEW t \in ThesisIds, RefinementRaises(t) PROVE AInv'
  BY <1>6, AInvStop DEF RefinementRaises, Fail
<1>7. ASSUME NEW t \in ThesisIds, NEW shape \in Shape, GenerateRefinement(t, shape) PROVE AInv'
  <2>1. /\ pc = "refine" /\ pc' = "bump_depth" /\ picked' = picked
        /\ InsertThesis(LineageOf(t), t, theses[t].iteration + 1, shape)
        /\ cycle' = cycle /\ reports' = reports /\ wave' = wave
    BY <1>7 DEF GenerateRefinement
  <2>2. theses[t].iteration + 1 \in Nat /\ LineageOf(t) \in Nat \ {0} /\ t \in Nat
    BY <1>0, RefinementNumbers
  <2>3. PICK n : Added(n, LineageOf(t), t, theses[t].iteration + 1, shape)
    BY <1>0, <2>1, <2>2, NewRow
  <2>4. /\ ThesisIds' = ThesisIds \union {n} /\ Len(theses') = n
        /\ \A u \in ThesisIds : theses'[u] = theses[u]
        /\ theses'[n].shape = shape
        /\ theses'[n].status = IF shape = "valid" THEN "proposed" ELSE "invalid_schema"
    BY <2>3 DEF Added
  <2>5. ProposedWait'
    BY <1>0, <2>1, <2>4 DEF ProposedWait, StatusOf
  <2>6. PassedWait' /\ PendingWait'
    BY <1>0, <2>1, <2>4 DEF PassedWait, PendingWait, StatusOf
  <2>7. SurvivorsWait'
    BY <2>1 DEF SurvivorsWait
  <2>8. ProposedAreValid'
    BY <2>4 DEF AInv, ProposedAreValid, StatusOf
  <2> QED
    BY <2>1, <2>5, <2>6, <2>7, <2>8, AInvInside
<1> QED
  BY <1>1, <1>2, <1>3, <1>4, <1>5, <1>6, <1>7 DEF WaveStep

\* A lineage leaves the queue of the final loop with its only survivor, if it has one.
LEMMA FinalAInv == IInv /\ CInv /\ AInv /\ FinalStep => AInv'
<1> SUFFICES ASSUME IInv, CInv, AInv, FinalStep PROVE AInv'
  OBVIOUS
<1> USE DEF Goto, tables, history
<1>0. TypeOK /\ Waits
  BY DEF IInv, AInv
<1> DEFINE Same == /\ ThesisIds' = ThesisIds
                   /\ \A u \in ThesisIds : /\ StatusOf(u)' = StatusOf(u)
                                           /\ LineageOf(u)' = LineageOf(u)
<1>a. theses' = theses => Same
  BY DEF ThesisIds, StatusOf, LineageOf
<1> USE DEF Waits, Generating, Waving, BeforeFinals, InFinals, Stopped
<1>1. CASE EndFinals
  <2>1. Same
    BY <1>a, <1>1 DEF EndFinals
  <2>2. Waits'
    BY <1>0, <1>1, <2>1 DEF EndFinals, ProposedWait, PassedWait, SurvivorsWait, PendingWait
  <2> QED
    BY <1>1, <2>2, WaitsQuiet DEF EndFinals
<1>2. ASSUME NEW l \in LineageIds, SkipLineage(l) PROVE AInv'
  <2>1. Same
    BY <1>a, <1>2 DEF SkipLineage
  <2>2. \A u \in ThesisIds : StatusOf(u) = "backtested" => LineageOf(u) # l
    BY <1>2 DEF SkipLineage, Survivors
  <2>3. Waits'
    BY <1>0, <1>2, <2>1, <2>2 DEF SkipLineage, ProposedWait, PassedWait, SurvivorsWait, PendingWait
  <2> QED
    BY <1>2, <2>3, WaitsQuiet DEF SkipLineage
<1>3. ASSUME NEW l \in LineageIds, NEW t \in ThesisIds, SelectFinalist(l, t) PROVE AInv'
  <2>1. /\ "final_evaluation_pending" \in Status \ {"proposed"}
        /\ SetStatus(t, "final_evaluation_pending")
    BY <1>3 DEF SelectFinalist, Status
  <2>2. /\ ThesisIds' = ThesisIds
        /\ \A u \in ThesisIds : /\ LineageOf(u)' = LineageOf(u)
                                /\ StatusOf(u)' = IF u = t THEN "final_evaluation_pending"
                                                           ELSE StatusOf(u)
    BY <1>0, <2>1, StatusOnly DEF StatusOf, LineageOf
  <2>3. Waits'
    BY <1>0, <1>3, <2>2 DEF SelectFinalist, ProposedWait, PassedWait, SurvivorsWait, PendingWait
  <2> QED
    BY <1>0, <1>3, <2>1, <2>3, WaitsStatus DEF SelectFinalist
<1>4. ASSUME NEW l \in LineageIds, NEW t \in ThesisIds, SpendEntitlement(l, t) PROVE AInv'
  <2>1. pc = "spend" /\ First(l) /\ t \in picked
    BY <1>4 DEF SpendEntitlement
  <2>2. ledger[l] = Unspent
    BY <2>1, AtHand
  <2>3. /\ theses' = theses /\ pc' = "final_read" /\ queue' = queue /\ picked' = picked
        /\ cycle' = cycle /\ reports' = reports /\ wave' = wave
    BY <1>4, <2>2 DEF SpendEntitlement
  <2>4. Same
    BY <1>a, <2>3
  <2>5. Waits'
    BY <1>0, <2>1, <2>3, <2>4 DEF ProposedWait, PassedWait, SurvivorsWait, PendingWait
  <2> QED
    BY <2>1, <2>3, <2>5, WaitsQuiet
<1>5. ASSUME NEW l \in LineageIds, NEW t \in ThesisIds, GateFinal(l, t) \/ SettleFinal(l, t)
      PROVE  AInv'
  <2>1. /\ pc \in {"final_read", "settle_final"} /\ First(l) /\ t \in picked /\ pc' = "final"
        /\ queue' = queue \ {l} /\ cycle' = cycle /\ reports' = reports /\ wave' = wave
    BY <1>5 DEF GateFinal, SettleFinal
  <2>2. picked = {t} /\ LineageOf(t) = l /\ StatusOf(t) = "final_evaluation_pending"
    BY <2>1, AtHand
  <2>3. PICK s \in Evaluated : SetStatus(t, s)
    BY <1>5 DEF GateFinal, SettleFinal, Evaluated
  <2>4. s \in Status \ {"proposed"}
    BY DEF Status, Evaluated
  <2>5. /\ ThesisIds' = ThesisIds
        /\ \A u \in ThesisIds : /\ LineageOf(u)' = LineageOf(u)
                                /\ StatusOf(u)' = IF u = t THEN s ELSE StatusOf(u)
    BY <1>0, <2>3, <2>4, StatusOnly DEF StatusOf, LineageOf
  <2>6. \A u \in ThesisIds : StatusOf(u) = "backtested" => LineageOf(u) # l
    BY <1>0, <2>2, OneYoungest DEF CInv, Chain, OlderAreRejected, REJECTED_STATUSES
  <2>7. Waits'
    BY <1>0, <2>1, <2>2, <2>5, <2>6 DEF ProposedWait, PassedWait, SurvivorsWait, PendingWait,
       Evaluated
  <2> QED
    BY <1>0, <2>1, <2>3, <2>4, <2>7, WaitsStatus
<1>6. ASSUME NEW l \in LineageIds, NEW t \in ThesisIds, NEW clears \in BOOLEAN,
             RunFinal(l, t, clears)
      PROVE  AInv'
  <2>1. Same
    BY <1>a, <1>6 DEF RunFinal
  <2>2. Waits'
    BY <1>0, <1>6, <2>1 DEF RunFinal, ProposedWait, PassedWait, SurvivorsWait, PendingWait
  <2> QED
    BY <1>6, <2>2, WaitsQuiet DEF RunFinal
<1> QED
  BY <1>1, <1>2, <1>3, <1>4, <1>5, <1>6 DEF FinalStep

LEMMA ReportAInv == IInv /\ CInv /\ AInv /\ ReportStep => AInv'
<1> SUFFICES ASSUME IInv, CInv, AInv, ReportStep PROVE AInv'
  OBVIOUS
<1> USE DEF Goto, tables, history
<1>1. CASE ReportRaises
  BY <1>1, AInvStop DEF ReportRaises, Fail
<1>2. CASE BuildReport \/ RenderMarkdown \/ FinishCycle
  <2>1. /\ pc \in {"report", "render", "finish"} /\ theses' = theses
        /\ pc' \in {"render", "finish", "over"}
        /\ pc = "report" => reports' = reports \union {Statuses} /\ pc' = "render"
        /\ pc # "report" => reports' = reports
        /\ pc' # "over" => cycle' = cycle
        /\ pc' = "over" => pc = "finish"
    BY <1>2 DEF BuildReport, RenderMarkdown, FinishCycle
  <2>2. Settled /\ Statuses' = Statuses
    BY <2>1, NothingWaits DEF Statuses, ThesisIds, StatusOf
  <2>3. Settled'
    BY <2>1, <2>2 DEF Settled, ThesisIds, StatusOf
  <2>4. reports' = {Statuses}'
    BY <2>1, <2>2 DEF AInv, Reported
  <2>5. Waits' /\ ProposedAreValid'
    BY <2>3 DEF Settled, Waits, ProposedWait, PassedWait, SurvivorsWait, PendingWait,
       ProposedAreValid, REJECTED_STATUSES, Evaluated
  <2>6. FirstWave' /\ Reported' /\ CompletedLast'
    BY <2>1, <2>3, <2>4 DEF AInv, FirstWave, Reported, CompletedLast, Generating
  <2> QED
    BY <2>5, <2>6 DEF AInv
<1> QED
  BY <1>1, <1>2 DEF ReportStep

LEMMA NextAInv == IInv /\ CInv /\ KInv /\ AInv /\ [Next]_vars => AInv'
<1> SUFFICES ASSUME IInv, CInv, KInv, AInv, [Next]_vars PROVE AInv'
  OBVIOUS
<1> USE DEF Goto, tables, history
<1>1. CASE UNCHANGED vars
  BY <1>1 DEF AInv, Waits, ProposedWait, PassedWait, SurvivorsWait, PendingWait, ProposedAreValid,
     FirstWave, Reported, CompletedLast, Settled, Stopped, Statuses, ThesisIds, StatusOf,
     LineageOf, vars, control
<1>2. CASE AssertFresh \/ CreateCycle
  <2>1. /\ theses' = theses /\ reports' = reports /\ wave' = wave /\ cycle' \in {cycle, "running"}
        /\ pc \in {"assert_fresh", "create_cycle"} /\ pc' \in {"create_cycle", "propose", "over"}
    BY <1>2 DEF AssertFresh, CreateCycle
  <2>2. ThesisIds' = {}
    BY <2>1 DEF KInv, InitialIds, Counted, Lagging, ThesisIds
  <2>3. Waits' /\ ProposedAreValid'
    BY <2>2 DEF Waits, ProposedWait, PassedWait, SurvivorsWait, PendingWait, ProposedAreValid
  <2>4. FirstWave' /\ Reported' /\ CompletedLast'
    BY <2>1 DEF AInv, FirstWave, Reported, CompletedLast, Generating
  <2> QED
    BY <2>3, <2>4 DEF AInv
<1>3. CASE Generation \/ ScreenStep \/ RefinementStep \/ WaveStep \/ FinalStep \/ ReportStep
  BY <1>3, GenerationAInv, ScreenAInv, RefinementAInv, WaveAInv, FinalAInv, ReportAInv
<1>4. CASE Raise \/ Kill
  BY <1>4, AInvStop DEF Raise, CreateCycleRaises, BodyRaises, Fail, Kill
<1>5. CASE Over
  BY <1>1, <1>5 DEF Over
<1> QED
  BY <1>1, <1>2, <1>3, <1>4, <1>5 DEF Next, Progress

\* A thesis without a final status is visited by a loop to come, throughout every run.
THEOREM AccountInvariance == Spec => []AInv
BY Invariance, ChainInvariance, CapsInvariance, InitAInv, NextAInv, PTL DEF Spec

\* A completed cycle has one report, which lists every thesis with the final status it has.
THEOREM NoSilentDrops == Spec => []CompletedIsAccountedFor
<1>1. AInv => CompletedIsAccountedFor
  BY DEF AInv, CompletedLast, Settled, CompletedIsAccountedFor
<1> QED
  BY <1>1, AccountInvariance, PTL

-----------------------------------------------------------------------------
(***************************************************************************)
(* The cycle implements the abstract Entitlement.                          *)
(***************************************************************************)
Holder == [l \in AnyLineage |-> IF l <= Len(ledger) THEN ledger[l] ELSE RowAbsent]

Readers == {<<LineageOf(t), t>> : t \in finalReads}

ReadersKnown ==
  /\ finalReads \subseteq ThesisIds
  /\ pc = "final_read" => finalReads \intersect picked = {}

LEMMA InitReaders == Init => ReadersKnown
BY DEF Init, ReadersKnown

\* The final split is read by the finalist only, right after it spent.
LEMMA ReadersStep ==
  ASSUME IInv, Next
  PROVE  \/ /\ finalReads' = finalReads /\ pc' # "final_read"
         \/ \E l \in LineageIds, t \in ThesisIds :
              SpendEntitlement(l, t) \/ GateFinal(l, t)
              \/ \E clears \in BOOLEAN : RunFinal(l, t, clears)
         \/ UNCHANGED vars
<1> USE DEF Goto, tables, history
<1>1. CASE AssertFresh \/ CreateCycle \/ Generation
  BY <1>1 DEF AssertFresh, CreateCycle, Generation, GenerateInitial, CreateLineage,
     CreateLedgerRow, InsertRoot
<1>2. CASE ScreenStep
  BY <1>2 DEF ScreenStep, ScreenCycle, TestFamily, StartBacktests, RefuseUnderObserved,
     AdmitToFamily, ApplyVerdict, RecordVerdict
<1>3. CASE RefinementStep
  BY <1>3 DEF RefinementStep, EndBacktests, GateRefinement, SettleRefinement, RunRefinement
<1>4. CASE WaveStep
  BY <1>4 DEF WaveStep, StartWave, EndWaves, EndCandidates, RejectCritique, AcceptCritique,
     BumpLineageDepth, RefinementRaises, GenerateRefinement, Fail
<1>5. CASE FinalStep
  BY <1>5 DEF FinalStep, EndFinals, SkipLineage, SelectFinalist, SettleFinal
<1>6. CASE ReportStep \/ Raise \/ Kill
  BY <1>6 DEF ReportStep, BuildReport, RenderMarkdown, FinishCycle, ReportRaises, Raise,
     CreateCycleRaises, BodyRaises, Kill, Fail
<1>7. CASE Over
  BY <1>7 DEF Over
<1> QED
  BY <1>1, <1>2, <1>3, <1>4, <1>5, <1>6, <1>7 DEF Next, Progress

\* The theses of a run that ever stored them stay in their lineage.
LEMMA RowsStay ==
  ASSUME IInv, [Next]_vars
  PROVE  /\ ThesisIds \subseteq ThesisIds'
         /\ \A u \in ThesisIds : LineageOf(u)' = LineageOf(u)
<1> USE DEF Goto, tables, history
<1>0. TypeOK
  BY DEF IInv
<1>1. CASE theses' = theses
  BY <1>1 DEF ThesisIds, LineageOf
<1>2. ASSUME NEW t \in ThesisIds, NEW s \in Status, SetStatus(t, s)
      PROVE  /\ ThesisIds \subseteq ThesisIds'
             /\ \A u \in ThesisIds : LineageOf(u)' = LineageOf(u)
  BY <1>0, <1>2, StatusOnly DEF LineageOf
<1>3. ASSUME NEW l \in Nat \ {0}, NEW p \in Nat, NEW i \in Nat, NEW shape \in Shape,
             InsertThesis(l, p, i, shape)
      PROVE  /\ ThesisIds \subseteq ThesisIds'
             /\ \A u \in ThesisIds : LineageOf(u)' = LineageOf(u)
  <2>1. PICK n : Added(n, l, p, i, shape)
    BY <1>0, <1>3, NewRow
  <2>2. ThesisIds \subseteq ThesisIds' /\ \A u \in ThesisIds : theses'[u] = theses[u]
    BY <2>1 DEF Added
  <2> QED
    BY <2>2 DEF LineageOf
<1>4. CASE UNCHANGED vars
  BY <1>1, <1>4 DEF vars
<1>5. CASE AssertFresh \/ CreateCycle \/ ReportStep \/ Raise \/ Kill \/ Over
  BY <1>1, <1>5 DEF AssertFresh, CreateCycle, ReportStep, BuildReport, RenderMarkdown,
     FinishCycle, ReportRaises, Raise, CreateCycleRaises, BodyRaises, Kill, Fail, Over, vars
<1>6. CASE Generation
  <2>1. CASE GenerateInitial \/ CreateLineage \/ CreateLedgerRow
    BY <1>1, <2>1 DEF GenerateInitial, CreateLineage, CreateLedgerRow
  <2>2. ASSUME NEW shape \in Shape, InsertRoot(shape) PROVE
          /\ ThesisIds \subseteq ThesisIds'
          /\ \A u \in ThesisIds : LineageOf(u)' = LineageOf(u)
    <3>1. Len(lineages) \in Nat \ {0} /\ NoParent \in Nat
      BY <2>2, LenProperties DEF InsertRoot, IInv, RowsInOrder, TypeOK, NoParent
    <3> QED
      BY <1>3, <2>2, <3>1 DEF InsertRoot
  <2> QED
    BY <1>6, <2>1, <2>2 DEF Generation
<1>7. CASE ScreenStep
  <2>1. ASSUME NEW t \in ThesisIds, RefuseUnderObserved(t) \/ ApplyVerdict(t)
        PROVE  \E s \in Status : SetStatus(t, s)
    BY <2>1 DEF RefuseUnderObserved, ApplyVerdict, Status
  <2> QED
    BY <1>1, <1>2, <1>7, <2>1 DEF ScreenStep, ScreenCycle, TestFamily, StartBacktests,
       AdmitToFamily, RecordVerdict
<1>8. CASE RefinementStep
  <2>1. ASSUME NEW t \in ThesisIds, GateRefinement(t) \/ SettleRefinement(t)
        PROVE  \E s \in Status : SetStatus(t, s)
    BY <2>1 DEF GateRefinement, SettleRefinement, Status
  <2> QED
    BY <1>1, <1>2, <1>8, <2>1 DEF RefinementStep, EndBacktests, RunRefinement
<1>9. CASE WaveStep
  <2>1. ASSUME NEW t \in ThesisIds, NEW shape \in Shape, GenerateRefinement(t, shape)
        PROVE  /\ ThesisIds \subseteq ThesisIds'
               /\ \A u \in ThesisIds : LineageOf(u)' = LineageOf(u)
    <3>1. theses[t].iteration + 1 \in Nat /\ LineageOf(t) \in Nat \ {0} /\ t \in Nat
      BY <1>0, RefinementNumbers
    <3> QED
      BY <1>3, <2>1, <3>1 DEF GenerateRefinement
  <2> QED
    BY <1>1, <1>9, <2>1 DEF WaveStep, StartWave, EndWaves, EndCandidates, RejectCritique,
       AcceptCritique, BumpLineageDepth, RefinementRaises, Fail
<1>10. CASE FinalStep
  <2>1. ASSUME NEW l \in LineageIds, NEW t \in ThesisIds,
               SelectFinalist(l, t) \/ GateFinal(l, t) \/ SettleFinal(l, t)
        PROVE  \E s \in Status : SetStatus(t, s)
    BY <2>1 DEF SelectFinalist, GateFinal, SettleFinal, Status
  <2>2. ASSUME NEW l \in LineageIds, NEW t \in ThesisIds, SpendEntitlement(l, t)
        PROVE  theses' = theses \/ \E s \in Status : SetStatus(t, s)
    BY <2>2 DEF SpendEntitlement, Status
  <2> QED
    BY <1>1, <1>2, <1>10, <2>1, <2>2 DEF FinalStep, EndFinals, SkipLineage, RunFinal
<1> QED
  BY <1>4, <1>5, <1>6, <1>7, <1>8, <1>9, <1>10 DEF Next, Progress

LEMMA NextReaders == IInv /\ ReadersKnown /\ [Next]_vars => ReadersKnown'
<1> SUFFICES ASSUME IInv, ReadersKnown, [Next]_vars PROVE ReadersKnown'
  OBVIOUS
<1>0. ThesisIds \subseteq ThesisIds'
  BY RowsStay
<1>1. CASE UNCHANGED vars
  BY <1>0, <1>1 DEF ReadersKnown, vars, control, history
<1>2. CASE finalReads' = finalReads /\ pc' # "final_read"
  BY <1>0, <1>2 DEF ReadersKnown
<1>3. ASSUME NEW l \in LineageIds, NEW t \in ThesisIds, SpendEntitlement(l, t)
      PROVE  ReadersKnown'
  <2>1. pc = "spend" /\ First(l) /\ t \in picked
    BY <1>3 DEF SpendEntitlement
  <2>2. ledger[l] = Unspent /\ picked = {t} /\ LineageOf(t) = l
    BY <2>1, AtHand
  <2>3. t \notin finalReads
    BY <2>2, IdsAreNatural DEF IInv, FinalsHoldTheirRow, Unspent
  <2>4. finalReads' = finalReads /\ picked' = picked
    BY <1>3 DEF SpendEntitlement, history
  <2> QED
    BY <1>0, <2>2, <2>3, <2>4 DEF ReadersKnown
<1>4. ASSUME NEW l \in LineageIds, NEW t \in ThesisIds,
             GateFinal(l, t) \/ \E clears \in BOOLEAN : RunFinal(l, t, clears)
      PROVE  ReadersKnown'
  BY <1>0, <1>4 DEF GateFinal, RunFinal, Goto, ReadersKnown
<1> QED
  BY <1>1, <1>2, <1>3, <1>4, ReadersStep

\* The final split is read for stored theses, and not yet for the finalist at hand.
THEOREM ReadersInvariance == Spec => []ReadersKnown
BY Invariance, InitReaders, NextReaders, PTL DEF Spec

\* The ledger accounts for every final evaluation, wherever run_cycle stops: no thesis was
\* evaluated, and no final split read, that does not hold its lineage's entitlement, and
\* none is read for a second time.
THEOREM FinalsAccounted == Spec => []LedgerAccountsForFinals
<1>1. IInv /\ ReadersKnown => LedgerAccountsForFinals
  BY DEF IInv, ReadersKnown, LedgerAccountsForFinals
<1> QED
  BY <1>1, Invariance, ReadersInvariance, PTL

\* Every row number of the run is one the abstract ledger has.
LEMMA RowsAreAny ==
  ASSUME IInv, KInv
  PROVE  LineageIds \subseteq AnyLineage /\ ThesisIds \subseteq AnyThesis
<1>1. /\ MaxLineages \in Nat /\ IterationBudget \in Nat
      /\ Len(theses) \in Nat /\ Len(lineages) \in Nat
      /\ Len(theses) <= IterationBudget /\ Len(lineages) <= MaxLineages
  BY CapsAreNumbers DEF IInv, KInv, Budgeted
<1>2. LineageIds \subseteq 1..MaxLineages /\ ThesisIds \subseteq 1..IterationBudget
  BY <1>1 DEF LineageIds, ThesisIds
<1>3. settings \in Settings
  BY DEF IInv, TypeOK
<1>4. 1..MaxLineages \subseteq AnyLineage
  BY <1>3 DEF AnyLineage, MaxLineages
<1>5. 1..IterationBudget \subseteq AnyThesis
  BY <1>3 DEF AnyThesis, IterationBudget, MaxLineages, MaxDepth
<1> QED
  BY <1>2, <1>4, <1>5

LEMMA AnyAreNatural == \A l \in AnyLineage : l \in Nat \ {0}
<1> SUFFICES ASSUME NEW c \in Settings PROVE \A l \in 1..c.lineages : l \in Nat \ {0}
  BY DEF AnyLineage
<1>1. c.lineages \in Nat
  BY CapsAssumption
<1> QED
  BY <1>1

LEMMA EntitledInit == Init => Entitled!Init
<1> SUFFICES ASSUME Init PROVE Entitled!Init
  OBVIOUS
<1>1. \A l \in AnyLineage : ~(l <= Len(ledger))
  BY AnyAreNatural DEF Init
<1>2. {<<LineageOf(t), t>> : t \in finalReads} = {}
  BY DEF Init
<1> QED
  BY <1>1, <1>2 DEF Entitled!Init

LEMMA EntitledStep ==
  ASSUME IInv, IInv', CInv, KInv, KInv', ReadersKnown, ReadersKnown', [Next]_vars
  PROVE  [Entitled!Next]_(Entitled!vars)
<1> USE DEF Goto, tables, history
<1>0. /\ ThesisIds \subseteq ThesisIds'
      /\ \A u \in ThesisIds : LineageOf(u)' = LineageOf(u)
  BY RowsStay
<1>1. finalReads' = finalReads => Readers' = Readers
  BY <1>0 DEF Readers, ReadersKnown
<1>2. ledger' = ledger => Holder' = Holder
  BY DEF Holder
<1>3. ledger' = ledger /\ finalReads' = finalReads => UNCHANGED Entitled!vars
  BY <1>1, <1>2 DEF Holder, Readers, Entitled!vars
<1>4. CASE CreateLedgerRow
  <2>0. PICK k : k = Len(ledger) + 1
    OBVIOUS
  <2>1. /\ pc = "create_ledger_row" /\ ledger' = Append(ledger, Unspent)
        /\ finalReads' = finalReads /\ lineages' = lineages
    BY <1>4 DEF CreateLedgerRow
  <2>2. /\ Len(ledger) \in Nat /\ Len(ledger') = k /\ ledger'[k] = Unspent
        /\ \A l \in 1..Len(ledger) : ledger'[l] = ledger[l]
    BY <2>0, <2>1, AppendProperties, LenProperties DEF IInv, TypeOK, Unspent
  <2>3. k \in AnyLineage
    BY <2>0, <2>1, <2>2, RowsAreAny DEF IInv, RowsInOrder, LineageIds
  <2>4. Holder[k] = RowAbsent
    BY <2>0, <2>2, <2>3 DEF Holder
  <2>5. Holder' = [Holder EXCEPT ![k] = Unspent]
    <3>1. \A l \in AnyLineage :
            (IF l <= Len(ledger') THEN ledger'[l] ELSE RowAbsent) =
            (IF l = k THEN Unspent ELSE IF l <= Len(ledger) THEN ledger[l] ELSE RowAbsent)
      BY <2>0, <2>2, AnyAreNatural
    <3> QED
      BY <2>3, <3>1 DEF Holder, RowAbsent
  <2>6. Readers' = Readers
    BY <1>1, <2>1
  <2>7. Entitled!Create(k)
    BY <2>4, <2>5, <2>6 DEF Entitled!Create, Holder, Readers
  <2> QED
    BY <2>3, <2>7 DEF Entitled!Next
<1>5. ASSUME NEW l \in LineageIds, NEW t \in ThesisIds, SpendEntitlement(l, t)
      PROVE  Entitled!Spend(l, t)
  <2>1. pc = "spend" /\ First(l) /\ t \in picked
    BY <1>5 DEF SpendEntitlement
  <2>2. l \in 1..Len(ledger) /\ ledger[l] = Unspent
    BY <2>1, AtHand
  <2>3. ledger' = [ledger EXCEPT ![l] = t] /\ finalReads' = finalReads
    BY <1>5, <2>2 DEF SpendEntitlement, MarkSpent
  <2>4. l \in AnyLineage /\ t \in Nat /\ ledger \in Seq(Nat) /\ Len(ledger) \in Nat
    BY RowsAreAny, IdsAreNatural, LenProperties DEF IInv, TypeOK
  <2>5. /\ Len(ledger') = Len(ledger)
        /\ \A k \in 1..Len(ledger) : ledger'[k] = IF k = l THEN t ELSE ledger[k]
    BY <2>2, <2>3, <2>4, ExceptSeq
  <2>6. Holder[l] = Unspent
    BY <2>2, <2>4 DEF Holder
  <2>7. Holder' = [Holder EXCEPT ![l] = t]
    <3>1. \A m \in AnyLineage :
            (IF m <= Len(ledger') THEN ledger'[m] ELSE RowAbsent) =
            (IF m = l THEN t ELSE IF m <= Len(ledger) THEN ledger[m] ELSE RowAbsent)
      BY <2>2, <2>4, <2>5, AnyAreNatural
    <3> QED
      BY <2>4, <3>1 DEF Holder, RowAbsent
  <2>8. Readers' = Readers
    BY <1>1, <2>3
  <2> QED
    BY <2>6, <2>7, <2>8 DEF Entitled!Spend, Holder, Readers
<1>6. ASSUME NEW l \in LineageIds, NEW t \in ThesisIds,
             GateFinal(l, t) \/ \E clears \in BOOLEAN : RunFinal(l, t, clears)
      PROVE  Entitled!ReadFinal(l, t)
  <2>1. /\ pc = "final_read" /\ First(l) /\ t \in picked
        /\ finalReads' = finalReads \union {t} /\ ledger' = ledger
    BY <1>6 DEF GateFinal, RunFinal
  <2>2. l \in 1..Len(ledger) /\ ledger[l] = t /\ LineageOf(t) = l
    BY <2>1, AtHand
  <2>3. l \in AnyLineage
    BY RowsAreAny
  <2>4. Holder[l] = t
    BY <2>2, <2>3 DEF Holder
  <2>5. <<l, t>> \notin Readers
    BY <2>1 DEF Readers, ReadersKnown
  <2>6. Readers' = Readers \union {<<l, t>>}
    BY <1>0, <2>1, <2>2 DEF Readers, ReadersKnown
  <2>7. Holder' = Holder
    BY <1>2, <2>1
  <2> QED
    BY <2>4, <2>5, <2>6, <2>7 DEF Entitled!ReadFinal, Holder, Readers
<1>7. \A l \in LineageIds, t \in ThesisIds :
        Entitled!Spend(l, t) \/ Entitled!ReadFinal(l, t) => Entitled!Next
  BY RowsAreAny DEF Entitled!Next
<1>8. CASE \E l \in LineageIds, t \in ThesisIds :
             SpendEntitlement(l, t) \/ GateFinal(l, t)
             \/ \E clears \in BOOLEAN : RunFinal(l, t, clears)
  BY <1>5, <1>6, <1>7, <1>8
<1>9. CASE UNCHANGED vars
  BY <1>3, <1>9 DEF vars
<1>10. CASE Next /\ ~CreateLedgerRow
            /\ ~\E l \in LineageIds, t \in ThesisIds :
                  SpendEntitlement(l, t) \/ GateFinal(l, t)
                  \/ \E clears \in BOOLEAN : RunFinal(l, t, clears)
  <2>1. finalReads' = finalReads
    BY <1>10, ReadersStep DEF vars
  <2>2. ledger' = ledger
    <3>1. CASE AssertFresh \/ CreateCycle \/ Generation
      BY <1>10, <3>1 DEF AssertFresh, CreateCycle, Generation, GenerateInitial, CreateLineage,
         InsertRoot
    <3>2. CASE ScreenStep \/ RefinementStep
      BY <3>2 DEF ScreenStep, ScreenCycle, TestFamily, StartBacktests, RefuseUnderObserved,
         AdmitToFamily, ApplyVerdict, RecordVerdict, RefinementStep, EndBacktests,
         GateRefinement, SettleRefinement, RunRefinement
    <3>3. CASE WaveStep
      BY <3>3 DEF WaveStep, StartWave, EndWaves, EndCandidates, RejectCritique, AcceptCritique,
         BumpLineageDepth, RefinementRaises, GenerateRefinement, Fail
    <3>4. CASE FinalStep
      BY <1>10, <3>4 DEF FinalStep, EndFinals, SkipLineage, SelectFinalist, SettleFinal
    <3>5. CASE ReportStep \/ Raise \/ Kill \/ Over
      BY <3>5 DEF ReportStep, BuildReport, RenderMarkdown, FinishCycle, ReportRaises, Raise,
         CreateCycleRaises, BodyRaises, Kill, Fail, Over, vars
    <3> QED
      BY <1>10, <3>1, <3>2, <3>3, <3>4, <3>5 DEF Next, Progress
  <2> QED
    BY <1>3, <2>1, <2>2
<1> QED
  BY <1>4, <1>8, <1>9, <1>10

\* Row for row, the tables of one run of run_cycle keep the ledger's promise: each lineage
\* is spent once, by one thesis, and the final split is read once and for that thesis only.
THEOREM CycleImplementsEntitlement == Spec => ImplementsEntitlement
BY EntitledInit, EntitledStep, Invariance, ChainInvariance, CapsInvariance, ReadersInvariance,
   PTL DEF Spec, ImplementsEntitlement, Entitled!Spec

-----------------------------------------------------------------------------
(***************************************************************************)
(* A run uses up what is left of it.                                       *)
(***************************************************************************)
\* For each place the part of run_cycle it is in, counted from the end; in the part of the
\* waves, the loop, counted from the end of a wave; in a loop, the place of its body.
Place ==
  [assert_fresh |-> <<9, 0, 0>>,
   create_cycle |-> <<8, 0, 0>>,
   propose |-> <<7, 0, 0>>,
   create_lineage |-> <<6, 0, 2>>, create_ledger_row |-> <<6, 0, 1>>,
   insert_root |-> <<6, 0, 0>>,
   critique |-> <<5, 5, 2>>, refine |-> <<5, 5, 1>>, bump_depth |-> <<5, 5, 0>>,
   screen |-> <<5, 4, 0>>, activity |-> <<5, 3, 0>>,
   record_verdict |-> <<5, 2, 1>>, apply_verdict |-> <<5, 2, 0>>,
   backtest |-> <<5, 1, 1>>, settle_refinement |-> <<5, 1, 0>>, wave |-> <<5, 0, 0>>,
   final |-> <<4, 0, 3>>, spend |-> <<4, 0, 2>>, final_read |-> <<4, 0, 1>>,
   settle_final |-> <<4, 0, 0>>,
   report |-> <<3, 0, 0>>,
   render |-> <<2, 0, 0>>,
   finish |-> <<1, 0, 0>>,
   over |-> <<0, 0, 0>>, dead |-> <<0, 0, 0>>]

\* The loops have finitely many rows to visit, and there are no more waves than the depth.
LoopsAreFinite == wave <= MaxDepth /\ IsFiniteSet(queue) /\ IsFiniteSet(picked)

\* What is left: parts of the run, waves, loops of the wave, rows of the loop, places of its
\* body.  A part may bring waves, a wave loops and a loop rows, so only their order from left
\* to right is sure to go down.
Left == <<Place[pc][1], MaxDepth - wave, Place[pc][2], Cardinality(queue), Place[pc][3]>>

LessNat == {ss \in Nat \X Nat : ss[1] < ss[2]}
LessLeft == LexProductOrdering(LessNat, Nat, 5)

-----------------------------------------------------------------------------
\* Nothing goes down in this order for ever.
LEMMA LeftIsWellFounded == IsWellFoundedOn(LessLeft, [1..5 -> Nat])
<1>1. LessNat = OpToRel(<, Nat)
  BY DEF OpToRel, LessNat
<1>2. IsWellFoundedOn(LessNat, Nat)
  BY <1>1, NatLessThanWellFounded, Zenon
<1> QED
  BY <1>2, WFLexProductOrdering DEF LessLeft

LEMMA Places ==
  /\ Place["assert_fresh"] = <<9, 0, 0>>
  /\ Place["create_cycle"] = <<8, 0, 0>>
  /\ Place["propose"] = <<7, 0, 0>>
  /\ Place["create_lineage"] = <<6, 0, 2>>
  /\ Place["create_ledger_row"] = <<6, 0, 1>>
  /\ Place["insert_root"] = <<6, 0, 0>>
  /\ Place["critique"] = <<5, 5, 2>>
  /\ Place["refine"] = <<5, 5, 1>>
  /\ Place["bump_depth"] = <<5, 5, 0>>
  /\ Place["screen"] = <<5, 4, 0>>
  /\ Place["activity"] = <<5, 3, 0>>
  /\ Place["record_verdict"] = <<5, 2, 1>>
  /\ Place["apply_verdict"] = <<5, 2, 0>>
  /\ Place["backtest"] = <<5, 1, 1>>
  /\ Place["settle_refinement"] = <<5, 1, 0>>
  /\ Place["wave"] = <<5, 0, 0>>
  /\ Place["final"] = <<4, 0, 3>>
  /\ Place["spend"] = <<4, 0, 2>>
  /\ Place["final_read"] = <<4, 0, 1>>
  /\ Place["settle_final"] = <<4, 0, 0>>
  /\ Place["report"] = <<3, 0, 0>>
  /\ Place["render"] = <<2, 0, 0>>
  /\ Place["finish"] = <<1, 0, 0>>
  /\ Place["over"] = <<0, 0, 0>>
  /\ Place["dead"] = <<0, 0, 0>>
BY DEF Place

LEMMA PlacesAreNumbers ==
  ASSUME TypeOK
  PROVE  Place[pc][1] \in Nat /\ Place[pc][2] \in Nat /\ Place[pc][3] \in Nat
<1> DEFINE Numbers(p) == Place[p][1] \in Nat /\ Place[p][2] \in Nat /\ Place[p][3] \in Nat
<1>1. /\ Numbers("assert_fresh") /\ Numbers("create_cycle") /\ Numbers("propose")
      /\ Numbers("create_lineage") /\ Numbers("create_ledger_row") /\ Numbers("insert_root")
      /\ Numbers("critique") /\ Numbers("refine") /\ Numbers("bump_depth")
      /\ Numbers("screen") /\ Numbers("activity")
  BY Places
<1>2. /\ Numbers("record_verdict") /\ Numbers("apply_verdict") /\ Numbers("backtest")
      /\ Numbers("settle_refinement") /\ Numbers("wave") /\ Numbers("final")
      /\ Numbers("spend") /\ Numbers("final_read") /\ Numbers("settle_final")
      /\ Numbers("report") /\ Numbers("render") /\ Numbers("finish") /\ Numbers("over")
      /\ Numbers("dead")
  BY Places
<1> HIDE DEF Numbers
<1>3. Numbers(pc)
  BY <1>1, <1>2 DEF TypeOK
<1> QED
  BY <1>3 DEF Numbers

LEMMA LeftIsNatural == TypeOK /\ LoopsAreFinite => Left \in [1..5 -> Nat]
<1> SUFFICES ASSUME TypeOK, LoopsAreFinite PROVE Left \in [1..5 -> Nat]
  OBVIOUS
<1>1. MaxDepth - wave \in Nat
  BY CapsAreNumbers DEF TypeOK, LoopsAreFinite
<1>2. Cardinality(queue) \in Nat
  BY FS_CardinalityType DEF LoopsAreFinite
<1> QED
  BY <1>1, <1>2, PlacesAreNumbers DEF Left

LEMMA LaterLeftIsNatural == (TypeOK /\ LoopsAreFinite => Left \in [1..5 -> Nat])'
BY LeftIsNatural, PTL

LEMMA Lessened ==
  ASSUME NEW f \in [1..5 -> Nat], NEW g \in [1..5 -> Nat], NEW j \in 1..5,
         \A i \in 1..(j - 1) : f[i] = g[i], f[j] < g[j]
  PROVE  <<f, g>> \in LessLeft
<1>1. <<f[j], g[j]>> \in LessNat
  BY DEF LessNat
<1> QED
  BY <1>1 DEF LessLeft, LexProductOrdering

\* The five ways a step goes on.
EndsPart == Place[pc'][1] < Place[pc][1]
InPart == settings' = settings /\ Place[pc'][1] = Place[pc][1]
StartsWave == InPart /\ wave' = wave + 1
EndsLoop == InPart /\ wave' = wave /\ Place[pc'][2] < Place[pc][2]
InLoop == InPart /\ wave' = wave /\ Place[pc'][2] = Place[pc][2]
EndsRow == InLoop /\ \E x \in queue : queue' = queue \ {x}
InRow == InLoop /\ queue' = queue /\ Place[pc'][3] < Place[pc][3]
GoesOn == EndsPart \/ StartsWave \/ EndsLoop \/ EndsRow \/ InRow

\* Each takes from one part of what is left and leaves those before it.
LEMMA GoingOnTakes ==
  ASSUME TypeOK, TypeOK', LoopsAreFinite, LoopsAreFinite', GoesOn
  PROVE  <<Left', Left>> \in LessLeft
<1>1. Left \in [1..5 -> Nat]
  BY LeftIsNatural
<1>2. Left' \in [1..5 -> Nat]
  BY LaterLeftIsNatural
<1>0. Place' = Place
  BY DEF Place
<1>3. /\ Left[1] = Place[pc][1] /\ Left'[1] = Place[pc'][1]
      /\ Left[2] = MaxDepth - wave /\ Left'[2] = MaxDepth' - wave'
      /\ Left[3] = Place[pc][2] /\ Left'[3] = Place[pc'][2]
      /\ Left[4] = Cardinality(queue) /\ Left'[4] = Cardinality(queue')
      /\ Left[5] = Place[pc][3] /\ Left'[5] = Place[pc'][3]
  BY <1>0 DEF Left
<1> HIDE DEF Left
<1>4. CASE EndsPart
  <2>1. Left'[1] < Left[1]
    BY <1>3, <1>4 DEF EndsPart
  <2> QED
    BY <1>1, <1>2, <2>1, Lessened
<1>5. CASE StartsWave
  <2>1. Left'[1] = Left[1]
    BY <1>3, <1>5 DEF StartsWave, InPart
  <2>2. Left'[2] < Left[2]
    <3>1. MaxDepth' = MaxDepth /\ wave' = wave + 1
      BY <1>5, CapsStay DEF StartsWave, InPart
    <3>2. MaxDepth \in Nat /\ wave \in Nat
      BY CapsAreNumbers DEF TypeOK
    <3>3. MaxDepth - (wave + 1) < MaxDepth - wave
      BY <3>2
    <3> QED
      BY <1>3, <3>1, <3>3
  <2>3. \A i \in 1..(2 - 1) : i = 1
    OBVIOUS
  <2> QED
    BY <1>1, <1>2, <2>1, <2>2, <2>3, Lessened
<1>6. ASSUME InPart, wave' = wave PROVE Left'[1] = Left[1] /\ Left'[2] = Left[2]
  BY <1>3, <1>6, CapsStay DEF InPart
<1>7. CASE EndsLoop
  <2>1. Left'[1] = Left[1] /\ Left'[2] = Left[2] /\ Left'[3] < Left[3]
    BY <1>3, <1>6, <1>7 DEF EndsLoop
  <2>2. \A i \in 1..(3 - 1) : i = 1 \/ i = 2
    OBVIOUS
  <2> QED
    BY <1>1, <1>2, <2>1, <2>2, Lessened
<1>8. CASE EndsRow
  <2>1. Left'[1] = Left[1] /\ Left'[2] = Left[2] /\ Left'[3] = Left[3]
    BY <1>3, <1>6, <1>8 DEF EndsRow, InLoop
  <2>2. PICK x \in queue : queue' = queue \ {x}
    BY <1>8 DEF EndsRow
  <2>3. Cardinality(queue) \in Nat /\ Cardinality(queue') = Cardinality(queue) - 1
    BY <2>2, FS_RemoveElement, FS_CardinalityType DEF LoopsAreFinite
  <2>4. Left'[4] < Left[4]
    BY <1>3, <2>3
  <2>5. \A i \in 1..(4 - 1) : i = 1 \/ i = 2 \/ i = 3
    OBVIOUS
  <2> QED
    BY <1>1, <1>2, <2>1, <2>4, <2>5, Lessened
<1>9. CASE InRow
  <2>1. /\ Left'[1] = Left[1] /\ Left'[2] = Left[2] /\ Left'[3] = Left[3]
        /\ Left'[4] = Left[4] /\ Left'[5] < Left[5]
    BY <1>3, <1>6, <1>9 DEF InRow, InLoop
  <2>2. \A i \in 1..(5 - 1) : i = 1 \/ i = 2 \/ i = 3 \/ i = 4
    OBVIOUS
  <2> QED
    BY <1>1, <1>2, <2>1, <2>2, Lessened
<1> QED
  BY <1>4, <1>5, <1>7, <1>8, <1>9 DEF GoesOn

-----------------------------------------------------------------------------
\* A step that visits a row, or starts a loop over known rows.
LEMMA StayFinite ==
  ASSUME TypeOK, LoopsAreFinite, settings' = settings, wave' = wave,
         \/ queue' \subseteq queue \/ queue' \subseteq picked
         \/ \E m \in Nat : queue' \subseteq 1..m,
         \E x : picked' \subseteq picked \union {x}
  PROVE  LoopsAreFinite'
<1>1. IsFiniteSet(queue')
  <2>1. \A m \in Nat : IsFiniteSet(1..m)
    BY FS_Interval
  <2> QED
    BY <2>1, FS_Subset DEF LoopsAreFinite
<1>2. IsFiniteSet(picked')
  BY FS_AddElement, FS_Subset DEF LoopsAreFinite
<1> QED
  BY <1>1, <1>2, CapsStay DEF LoopsAreFinite

LEMMA RowsAreBounded ==
  ASSUME IInv
  PROVE  /\ Len(theses) \in Nat /\ ThesisIds = 1..Len(theses)
         /\ \E m \in Nat : LineagesOfCycle \subseteq 1..m
<1>1. Len(theses) \in Nat /\ Len(ledger) \in Nat
  BY LenProperties DEF IInv, TypeOK
<1>2. LineagesOfCycle \subseteq 1..Len(ledger)
  BY DEF LineagesOfCycle, IInv, LedgerRowBeforeThesis, TypeOK
<1> QED
  BY <1>1, <1>2 DEF ThesisIds

\* What a step has to say for the lemmas above.
Bounded == \/ queue' \subseteq queue \/ queue' \subseteq picked
           \/ \E m \in Nat : queue' \subseteq 1..m
Collects == \E x : picked' \subseteq picked \union {x}
Stays == UNCHANGED <<settings, wave>> /\ Collects

LEMMA PartEnded ==
  ASSUME TypeOK, LoopsAreFinite, Stays, Bounded, EndsPart
  PROVE  LoopsAreFinite' /\ GoesOn
BY StayFinite DEF GoesOn, Stays, Collects, Bounded

LEMMA LoopEnded ==
  ASSUME TypeOK, LoopsAreFinite, Stays, Bounded,
         Place[pc'][1] = Place[pc][1], Place[pc'][2] < Place[pc][2]
  PROVE  LoopsAreFinite' /\ GoesOn
BY StayFinite DEF GoesOn, Stays, Collects, Bounded, EndsLoop, InPart

LEMMA RowEnded ==
  ASSUME TypeOK, LoopsAreFinite, Stays, NEW t, First(t), queue' = queue \ {t},
         Place[pc'][1] = Place[pc][1], Place[pc'][2] = Place[pc][2]
  PROVE  LoopsAreFinite' /\ GoesOn
<1>1. t \in queue
  BY DEF First
<1> QED
  BY <1>1, StayFinite DEF GoesOn, Stays, Collects, EndsRow, InLoop, InPart

LEMMA PlaceEnded ==
  ASSUME TypeOK, LoopsAreFinite, Stays, queue' = queue,
         Place[pc'][1] = Place[pc][1], Place[pc'][2] = Place[pc][2],
         Place[pc'][3] < Place[pc][3]
  PROVE  LoopsAreFinite' /\ GoesOn
BY StayFinite DEF GoesOn, Stays, Collects, InRow, InLoop, InPart

LEMMA GenerationGoesOn ==
  ASSUME IInv, LoopsAreFinite, AssertFresh \/ CreateCycle \/ Generation
  PROVE  LoopsAreFinite' /\ GoesOn
<1> USE DEF Goto, tables, history
<1>0. TypeOK
  BY DEF IInv
<1>1. CASE AssertFresh
  <2>1. /\ pc = "assert_fresh" /\ pc' \in {"create_cycle", "over"}
        /\ Stays /\ Bounded
    BY <1>1 DEF AssertFresh, Stays, Collects, Bounded
  <2> QED
    BY <1>0, <2>1, PartEnded, Places DEF EndsPart
<1>2. CASE CreateCycle
  <2>1. /\ pc = "create_cycle" /\ pc' = "propose"
        /\ Stays /\ Bounded
    BY <1>2 DEF CreateCycle, Stays, Collects, Bounded
  <2> QED
    BY <1>0, <2>1, PartEnded, Places DEF EndsPart
<1>3. CASE GenerateInitial
  <2>1. PICK m \in 0..NInitial : queue' = 1..m
    BY <1>3 DEF GenerateInitial
  <2>2. m \in Nat
    BY <1>0, CapsAreNumbers
  <2>3. pc = "propose" /\ pc' \in {"report", "create_lineage"} /\ Stays /\ Bounded
    BY <1>3, <2>1, <2>2 DEF GenerateInitial, Stays, Collects, Bounded
  <2> QED
    BY <1>0, <2>3, PartEnded, Places DEF EndsPart
<1>4. CASE CreateLineage
  <2>1. /\ pc = "create_lineage" /\ pc' = "create_ledger_row"
        /\ Stays /\ queue' = queue
    BY <1>4 DEF CreateLineage, Stays, Collects
  <2> QED
    BY <1>0, <2>1, PlaceEnded, Places
<1>5. CASE CreateLedgerRow
  <2>1. /\ pc = "create_ledger_row" /\ pc' = "insert_root"
        /\ Stays /\ queue' = queue
    BY <1>5 DEF CreateLedgerRow, Stays, Collects
  <2> QED
    BY <1>0, <2>1, PlaceEnded, Places
<1>6. ASSUME NEW shape \in Shape, InsertRoot(shape) PROVE LoopsAreFinite' /\ GoesOn
  <2>1. PICK x \in queue : First(x) /\ queue' = queue \ {x}
    BY <1>6 DEF InsertRoot
  <2>2. pc = "insert_root" /\ pc' \in {"screen", "create_lineage"} /\ Stays /\ Bounded
    BY <1>6, <2>1 DEF InsertRoot, Stays, Collects, Bounded
  <2>3. CASE pc' = "screen"
    BY <1>0, <2>2, <2>3, PartEnded, Places DEF EndsPart
  <2>4. CASE pc' = "create_lineage"
    BY <1>0, <2>1, <2>2, <2>4, RowEnded, Places
  <2> QED
    BY <2>2, <2>3, <2>4
<1> QED
  BY <1>1, <1>2, <1>3, <1>4, <1>5, <1>6 DEF Generation

LEMMA ScreenGoesOn ==
  ASSUME IInv, LoopsAreFinite, ScreenStep
  PROVE  LoopsAreFinite' /\ GoesOn
<1> USE DEF Goto, tables, history
<1>0. TypeOK
  BY DEF IInv
<1>1. CASE ScreenCycle
  <2>1. queue' \subseteq 1..Len(theses) /\ Len(theses) \in Nat
    BY <1>1, RowsAreBounded DEF ScreenCycle
  <2>2. pc = "screen" /\ pc' = "activity" /\ Stays /\ Bounded
    BY <1>1, <2>1 DEF ScreenCycle, Stays, Collects, Bounded
  <2> QED
    BY <1>0, <2>2, LoopEnded, Places
<1>2. CASE TestFamily
  <2>1. /\ pc = "activity" /\ pc' = "record_verdict"
        /\ Stays /\ Bounded
    BY <1>2 DEF TestFamily, Stays, Collects, Bounded
  <2> QED
    BY <1>0, <2>1, LoopEnded, Places
<1>3. CASE StartBacktests
  <2>1. /\ pc = "record_verdict" /\ pc' = "backtest"
        /\ Stays /\ Bounded
    BY <1>3 DEF StartBacktests, Stays, Collects, Bounded
  <2> QED
    BY <1>0, <2>1, LoopEnded, Places
<1>4. ASSUME NEW t \in ThesisIds, RefuseUnderObserved(t) \/ AdmitToFamily(t)
      PROVE  LoopsAreFinite' /\ GoesOn
  <2>1. /\ pc = "activity" /\ pc' = "activity"
        /\ Stays /\ First(t) /\ queue' = queue \ {t}
    BY <1>4 DEF RefuseUnderObserved, AdmitToFamily, Stays, Collects
  <2> QED
    BY <1>0, <2>1, RowEnded, Places
<1>5. ASSUME NEW t \in ThesisIds, NEW verdict \in {"pass", "fail"}, RecordVerdict(t, verdict)
      PROVE  LoopsAreFinite' /\ GoesOn
  <2>1. /\ pc = "record_verdict" /\ pc' = "apply_verdict"
        /\ Stays /\ queue' = queue
    BY <1>5 DEF RecordVerdict, Stays, Collects
  <2> QED
    BY <1>0, <2>1, PlaceEnded, Places
<1>6. ASSUME NEW t \in ThesisIds, ApplyVerdict(t) PROVE LoopsAreFinite' /\ GoesOn
  <2>1. /\ pc = "apply_verdict" /\ pc' = "record_verdict"
        /\ Stays /\ First(t) /\ queue' = queue \ {t}
    BY <1>6 DEF ApplyVerdict, Stays, Collects
  <2> QED
    BY <1>0, <2>1, RowEnded, Places
<1> QED
  BY <1>1, <1>2, <1>3, <1>4, <1>5, <1>6 DEF ScreenStep

LEMMA RefinementGoesOn ==
  ASSUME IInv, LoopsAreFinite, RefinementStep
  PROVE  LoopsAreFinite' /\ GoesOn
<1> USE DEF Goto, tables, history
<1>0. TypeOK
  BY DEF IInv
<1>1. CASE EndBacktests
  <2>1. /\ pc = "backtest" /\ pc' = "wave"
        /\ Stays /\ Bounded
    BY <1>1 DEF EndBacktests, Stays, Collects, Bounded
  <2> QED
    BY <1>0, <2>1, LoopEnded, Places
<1>2. ASSUME NEW t \in ThesisIds, GateRefinement(t) PROVE LoopsAreFinite' /\ GoesOn
  <2>1. /\ pc = "backtest" /\ pc' = "backtest"
        /\ Stays /\ First(t) /\ queue' = queue \ {t}
    BY <1>2 DEF GateRefinement, Stays, Collects
  <2> QED
    BY <1>0, <2>1, RowEnded, Places
<1>3. ASSUME NEW t \in ThesisIds, NEW clears \in BOOLEAN, RunRefinement(t, clears)
      PROVE  LoopsAreFinite' /\ GoesOn
  <2>1. /\ pc = "backtest" /\ pc' = "settle_refinement"
        /\ Stays /\ queue' = queue
    BY <1>3 DEF RunRefinement, Stays, Collects
  <2> QED
    BY <1>0, <2>1, PlaceEnded, Places
<1>4. ASSUME NEW t \in ThesisIds, SettleRefinement(t) PROVE LoopsAreFinite' /\ GoesOn
  <2>1. /\ pc = "settle_refinement" /\ pc' = "backtest"
        /\ Stays /\ First(t) /\ queue' = queue \ {t}
    BY <1>4 DEF SettleRefinement, Stays, Collects
  <2> QED
    BY <1>0, <2>1, RowEnded, Places
<1> QED
  BY <1>1, <1>2, <1>3, <1>4 DEF RefinementStep

LEMMA WaveGoesOn ==
  ASSUME IInv, LoopsAreFinite, WaveStep
  PROVE  LoopsAreFinite' /\ GoesOn
<1> USE DEF Goto, tables, history
<1>0. TypeOK
  BY DEF IInv
<1>1. CASE StartWave
  <2>1. /\ pc = "wave" /\ pc' = "critique" /\ settings' = settings
        /\ wave < MaxDepth /\ wave' = wave + 1 /\ queue' = Candidates /\ picked' = {}
    BY <1>1 DEF StartWave
  <2>2. wave + 1 <= MaxDepth
    BY <1>0, <2>1, CapsAreNumbers DEF TypeOK
  <2>3. IsFiniteSet(queue')
    <3>1. Candidates \subseteq 1..Len(theses) /\ Len(theses) \in Nat
      BY RowsAreBounded DEF Candidates
    <3>2. IsFiniteSet(1..Len(theses))
      BY <3>1, FS_Interval
    <3> QED
      BY <2>1, <3>1, <3>2, FS_Subset
  <2>4. LoopsAreFinite'
    BY <2>1, <2>2, <2>3, FS_EmptySet, CapsStay DEF LoopsAreFinite
  <2> QED
    BY <2>1, <2>4, Places DEF GoesOn, StartsWave, InPart
<1>2. CASE EndWaves
  <2>1. queue' = LineagesOfCycle
    BY <1>2 DEF EndWaves
  <2>2. pc = "wave" /\ pc' = "final" /\ Stays /\ Bounded
    BY <1>2, <2>1, RowsAreBounded DEF EndWaves, Stays, Collects, Bounded
  <2> QED
    BY <1>0, <2>2, PartEnded, Places DEF EndsPart
<1>3. CASE EndCandidates
  <2>1. /\ pc = "critique" /\ pc' \in {"wave", "screen"}
        /\ Stays /\ Bounded
    BY <1>3 DEF EndCandidates, Stays, Collects, Bounded
  <2> QED
    BY <1>0, <2>1, LoopEnded, Places
<1>4. ASSUME NEW t \in ThesisIds, RejectCritique(t) PROVE LoopsAreFinite' /\ GoesOn
  <2>1. /\ pc = "critique" /\ pc' = "critique"
        /\ Stays /\ First(t) /\ queue' = queue \ {t}
    BY <1>4 DEF RejectCritique, Stays, Collects
  <2> QED
    BY <1>0, <2>1, RowEnded, Places
<1>5. ASSUME NEW t \in ThesisIds, AcceptCritique(t) PROVE LoopsAreFinite' /\ GoesOn
  <2>1. /\ pc = "critique" /\ pc' = "refine"
        /\ Stays /\ queue' = queue
    BY <1>5 DEF AcceptCritique, Stays, Collects
  <2> QED
    BY <1>0, <2>1, PlaceEnded, Places
<1>6. ASSUME NEW t \in ThesisIds, NEW shape \in Shape, GenerateRefinement(t, shape)
      PROVE  LoopsAreFinite' /\ GoesOn
  <2>1. /\ pc = "refine" /\ pc' = "bump_depth"
        /\ Stays /\ queue' = queue
    BY <1>6 DEF GenerateRefinement, Stays, Collects
  <2> QED
    BY <1>0, <2>1, PlaceEnded, Places
<1>7. ASSUME NEW t \in ThesisIds, BumpLineageDepth(t) PROVE LoopsAreFinite' /\ GoesOn
  <2>1. /\ pc = "bump_depth" /\ pc' = "critique"
        /\ Stays /\ First(t) /\ queue' = queue \ {t}
    BY <1>7 DEF BumpLineageDepth, Stays, Collects
  <2> QED
    BY <1>0, <2>1, RowEnded, Places
<1>8. ASSUME NEW t \in ThesisIds, RefinementRaises(t) PROVE LoopsAreFinite' /\ GoesOn
  <2>1. /\ pc = "refine" /\ pc' = "over"
        /\ Stays /\ Bounded
    BY <1>8 DEF RefinementRaises, Fail, Stays, Collects, Bounded
  <2> QED
    BY <1>0, <2>1, PartEnded, Places DEF EndsPart
<1> QED
  BY <1>1, <1>2, <1>3, <1>4, <1>5, <1>6, <1>7, <1>8 DEF WaveStep

LEMMA FinalGoesOn ==
  ASSUME IInv, LoopsAreFinite, FinalStep
  PROVE  LoopsAreFinite' /\ GoesOn
<1> USE DEF Goto, tables, history
<1>0. TypeOK
  BY DEF IInv
<1>1. CASE EndFinals
  <2>1. /\ pc = "final" /\ pc' = "report"
        /\ Stays /\ Bounded
    BY <1>1 DEF EndFinals, Stays, Collects, Bounded
  <2> QED
    BY <1>0, <2>1, PartEnded, Places DEF EndsPart
<1>2. ASSUME NEW l \in LineageIds, SkipLineage(l) PROVE LoopsAreFinite' /\ GoesOn
  <2>1. /\ pc = "final" /\ pc' = "final"
        /\ Stays /\ First(l) /\ queue' = queue \ {l}
    BY <1>2 DEF SkipLineage, Stays, Collects
  <2> QED
    BY <1>0, <2>1, RowEnded, Places
<1>3. ASSUME NEW l \in LineageIds, NEW t \in ThesisIds, SelectFinalist(l, t)
      PROVE  LoopsAreFinite' /\ GoesOn
  <2>1. /\ pc = "final" /\ pc' = "spend"
        /\ Stays /\ queue' = queue
    BY <1>3 DEF SelectFinalist, Stays, Collects
  <2> QED
    BY <1>0, <2>1, PlaceEnded, Places
<1>4. ASSUME NEW l \in LineageIds, NEW t \in ThesisIds, SpendEntitlement(l, t)
      PROVE  LoopsAreFinite' /\ GoesOn
  <2>1. /\ pc = "spend" /\ Stays /\ First(l)
        /\ \/ pc' = "final_read" /\ queue' = queue
           \/ pc' = "final" /\ queue' = queue \ {l}
    BY <1>4 DEF SpendEntitlement, Stays, Collects
  <2>2. CASE pc' = "final_read" /\ queue' = queue
    BY <1>0, <2>1, <2>2, PlaceEnded, Places
  <2>3. CASE pc' = "final" /\ queue' = queue \ {l}
    BY <1>0, <2>1, <2>3, RowEnded, Places
  <2> QED
    BY <2>1, <2>2, <2>3
<1>5. ASSUME NEW l \in LineageIds, NEW t \in ThesisIds, GateFinal(l, t)
      PROVE  LoopsAreFinite' /\ GoesOn
  <2>1. /\ pc = "final_read" /\ pc' = "final"
        /\ Stays /\ First(l) /\ queue' = queue \ {l}
    BY <1>5 DEF GateFinal, Stays, Collects
  <2> QED
    BY <1>0, <2>1, RowEnded, Places
<1>6. ASSUME NEW l \in LineageIds, NEW t \in ThesisIds, NEW clears \in BOOLEAN,
             RunFinal(l, t, clears)
      PROVE  LoopsAreFinite' /\ GoesOn
  <2>1. /\ pc = "final_read" /\ pc' = "settle_final"
        /\ Stays /\ queue' = queue
    BY <1>6 DEF RunFinal, Stays, Collects
  <2> QED
    BY <1>0, <2>1, PlaceEnded, Places
<1>7. ASSUME NEW l \in LineageIds, NEW t \in ThesisIds, SettleFinal(l, t)
      PROVE  LoopsAreFinite' /\ GoesOn
  <2>1. /\ pc = "settle_final" /\ pc' = "final"
        /\ Stays /\ First(l) /\ queue' = queue \ {l}
    BY <1>7 DEF SettleFinal, Stays, Collects
  <2> QED
    BY <1>0, <2>1, RowEnded, Places
<1> QED
  BY <1>1, <1>2, <1>3, <1>4, <1>5, <1>6, <1>7 DEF FinalStep

\* Only the end has no part after it.
LEMMA NotOverYet ==
  ASSUME TypeOK, pc \notin {"over", "dead"}
  PROVE  Place[pc][1] > 0
<1> DEFINE More(p) == Place[p][1] > 0
<1>1. /\ More("assert_fresh") /\ More("create_cycle") /\ More("propose")
      /\ More("create_lineage") /\ More("create_ledger_row") /\ More("insert_root")
      /\ More("critique") /\ More("refine") /\ More("bump_depth")
      /\ More("screen") /\ More("activity")
  BY Places
<1>2. /\ More("record_verdict") /\ More("apply_verdict") /\ More("backtest")
      /\ More("settle_refinement") /\ More("wave") /\ More("final")
      /\ More("spend") /\ More("final_read") /\ More("settle_final")
      /\ More("report") /\ More("render") /\ More("finish")
  BY Places
<1> HIDE DEF More
<1>3. More(pc)
  BY <1>1, <1>2 DEF TypeOK
<1> QED
  BY <1>3 DEF More

LEMMA EndGoesOn ==
  ASSUME IInv, LoopsAreFinite, ReportStep \/ Raise \/ Kill
  PROVE  LoopsAreFinite' /\ GoesOn
<1> USE DEF Goto, tables, history
<1>0. TypeOK
  BY DEF IInv
<1>1. CASE ReportStep
  <2>1. /\ \/ pc = "report" /\ pc' \in {"render", "over"}
           \/ pc = "render" /\ pc' = "finish"
           \/ pc = "finish" /\ pc' = "over"
        /\ UNCHANGED <<settings, wave, queue, picked>>
    BY <1>1 DEF ReportStep, BuildReport, RenderMarkdown, FinishCycle, ReportRaises, Fail
  <2>2. Stays /\ Bounded
    BY <2>1 DEF Stays, Collects, Bounded
  <2> QED
    BY <1>0, <2>1, <2>2, PartEnded, Places DEF EndsPart
<1>2. CASE Raise \/ Kill
  <2>1. pc \notin {"over", "dead"} /\ pc' \in {"over", "dead"} /\ Stays /\ Bounded
    BY <1>2 DEF Raise, CreateCycleRaises, BodyRaises, Kill, Fail, Stays, Collects, Bounded
  <2>2. Place[pc][1] > 0
    BY <1>0, <2>1, NotOverYet
  <2> QED
    BY <1>0, <2>1, <2>2, PartEnded, Places DEF EndsPart
<1> QED
  BY <1>1, <1>2

LEMMA InitFinite == Init => LoopsAreFinite
<1> SUFFICES ASSUME Init PROVE LoopsAreFinite
  OBVIOUS
<1>1. MaxDepth \in Nat /\ wave = 0 /\ queue = {} /\ picked = {}
  BY InitTypeOK, CapsAreNumbers DEF Init
<1> QED
  BY <1>1, FS_EmptySet DEF LoopsAreFinite

LEMMA NextGoesOn ==
  IInv /\ LoopsAreFinite /\ [Next]_vars => LoopsAreFinite' /\ (GoesOn \/ UNCHANGED vars)
<1> SUFFICES ASSUME IInv, LoopsAreFinite, [Next]_vars
             PROVE  LoopsAreFinite' /\ (GoesOn \/ UNCHANGED vars)
  OBVIOUS
<1>1. CASE Over \/ UNCHANGED vars
  <2>1. UNCHANGED vars
    BY <1>1 DEF Over
  <2>2. UNCHANGED <<settings, wave, queue, picked>>
    BY <2>1 DEF vars, control, history
  <2> QED
    BY <2>1, <2>2, CapsStay DEF LoopsAreFinite
<1>2. CASE AssertFresh \/ CreateCycle \/ Generation
  BY <1>2, GenerationGoesOn
<1>3. CASE ScreenStep \/ RefinementStep
  BY <1>3, ScreenGoesOn, RefinementGoesOn
<1>4. CASE WaveStep \/ FinalStep
  BY <1>4, WaveGoesOn, FinalGoesOn
<1>5. CASE ReportStep \/ Raise \/ Kill
  BY <1>5, EndGoesOn
<1> QED
  BY <1>1, <1>2, <1>3, <1>4, <1>5 DEF Next, Progress

\* run_cycle takes a bounded number of steps, whatever the model answers, wherever it raises
\* and for every cap: each step takes from what is left of the run, which in a well-founded
\* order cannot go on for ever.  This is what RunEnds needs beside the fairness of the steps.
THEOREM RunUsesUpWhatIsLeft ==
  Spec => [][/\ Left \in [1..5 -> Nat]
             /\ <<Left', Left>> \in LessLeft]_vars
<1>1. Spec => []LoopsAreFinite
  <2>1. IInv /\ LoopsAreFinite /\ [Next]_vars => LoopsAreFinite'
    BY NextGoesOn
  <2> QED
    BY <2>1, InitFinite, Invariance, PTL DEF Spec
<1>2. IInv /\ IInv' /\ LoopsAreFinite /\ LoopsAreFinite' /\ [Next]_vars
        => [/\ Left \in [1..5 -> Nat]
            /\ <<Left', Left>> \in LessLeft]_vars
  BY NextGoesOn, GoingOnTakes, LeftIsNatural DEF IInv
<1> QED
  BY <1>1, <1>2, Invariance, PTL DEF Spec
=============================================================================
