----------------------------- MODULE OpsTickProofs -----------------------------
(***************************************************************************)
(* Overlapping ticks, in any number, with any outages and deaths: when a   *)
(* cycle stops being due, how many cycles one cadence can trigger, which   *)
(* shortlists can be missing, what an escalation has tried before, and     *)
(* that a tick has boundedly many steps.                                   *)
(***************************************************************************)
EXTENDS OpsTick, FiniteSetTheorems, TLAPS

Notifying == {p \in Ticks : pc[p] = "notify"}

\* Ticks that completed a cycle and have not recorded it.
Ran == {p \in Ticks : pc[p] \in {"notify", "record"}}

\* Ticks that found the cycle due and may still complete one.
MayRun == {p \in Ticks : pc[p] \in {"running", "remediate", "retry"}}

\* While the cycle is due nobody has recorded it: a tick that completed one is on its way
\* to do so, or dead.  Once it is not due, only ticks that had found it due go on.
BurstBound ==
  /\ due["cycle"] => burst <= Cardinality(Ran) + deaths
  /\ ~due["cycle"] => burst + Cardinality(MayRun) <= Cardinality(Ticks) + deaths

\* A tick at its escalation has used up its attempts, and one that ended there has not
\* begun again.
OutOfTries ==
  \A p \in Ticks :
    /\ pc[p] = "escalate" => tries[p] = MaxRetries
    /\ ended[p] = "escalated" => pc[p] = "idle" /\ tries[p] = MaxRetries

IInv == TypeOK /\ ShortlistForEveryCycle /\ BurstBound /\ OutOfTries

-----------------------------------------------------------------------------
\* Two sets of ticks that differ in p only.
LEMMA OneMoves ==
  ASSUME NEW p \in Ticks, NEW S \in SUBSET Ticks, NEW T \in SUBSET Ticks,
         \A q \in Ticks \ {p} : q \in S <=> q \in T
  PROVE  /\ Cardinality(S) \in Nat /\ Cardinality(T) \in Nat
         /\ (p \in S <=> p \in T) => Cardinality(T) = Cardinality(S)
         /\ p \in S /\ p \notin T => Cardinality(T) = Cardinality(S) - 1
         /\ p \notin S /\ p \in T => Cardinality(T) = Cardinality(S) + 1
<1>1. IsFiniteSet(S) /\ IsFiniteSet(T)
  BY FS_Subset, TickAssumption
<1>2. Cardinality(S) \in Nat /\ Cardinality(T) \in Nat
  BY <1>1, FS_CardinalityType
<1>3. (p \in S <=> p \in T) => T = S
  OBVIOUS
<1>4. ASSUME p \in S, p \notin T PROVE Cardinality(T) = Cardinality(S) - 1
  <2>1. T = S \ {p}
    BY <1>4
  <2> QED
    BY <1>1, <1>4, <2>1, FS_RemoveElement
<1>5. ASSUME p \notin S, p \in T PROVE Cardinality(T) = Cardinality(S) + 1
  <2>1. T = S \union {p}
    BY <1>5
  <2> QED
    BY <1>1, <1>5, <2>1, FS_AddElement
<1> QED
  BY <1>2, <1>3, <1>4, <1>5

\* What becomes of the three counts when p moves to a place.
Moved(p, place) ==
  /\ Cardinality(Notifying)' = Cardinality(Notifying)
       + (IF place = "notify" THEN 1 ELSE 0) - (IF pc[p] = "notify" THEN 1 ELSE 0)
  /\ Cardinality(Ran)' = Cardinality(Ran)
       + (IF place \in {"notify", "record"} THEN 1 ELSE 0)
       - (IF pc[p] \in {"notify", "record"} THEN 1 ELSE 0)
  /\ Cardinality(MayRun)' = Cardinality(MayRun)
       + (IF place \in {"running", "remediate", "retry"} THEN 1 ELSE 0)
       - (IF pc[p] \in {"running", "remediate", "retry"} THEN 1 ELSE 0)
  /\ Cardinality(Notifying) \in Nat /\ Cardinality(Ran) \in Nat
  /\ Cardinality(MayRun) \in Nat

LEMMA Counting ==
  ASSUME TypeOK, NEW p \in Ticks, NEW place, pc' = [pc EXCEPT ![p] = place]
  PROVE  Moved(p, place)
<1>1. pc'[p] = place /\ \A q \in Ticks \ {p} : pc'[q] = pc[q]
  BY DEF TypeOK
<1>2. /\ Cardinality(Notifying) \in Nat
      /\ Cardinality(Notifying)' = Cardinality(Notifying)
           + (IF place = "notify" THEN 1 ELSE 0) - (IF pc[p] = "notify" THEN 1 ELSE 0)
  <2>1. /\ Notifying \in SUBSET Ticks /\ Notifying' \in SUBSET Ticks
        /\ p \in Notifying <=> pc[p] = "notify"
        /\ p \in Notifying' <=> place = "notify"
        /\ \A q \in Ticks \ {p} : q \in Notifying <=> q \in Notifying'
    BY <1>1 DEF Notifying
  <2> QED
    BY <2>1, OneMoves
<1>3. /\ Cardinality(Ran) \in Nat
      /\ Cardinality(Ran)' = Cardinality(Ran)
           + (IF place \in {"notify", "record"} THEN 1 ELSE 0)
           - (IF pc[p] \in {"notify", "record"} THEN 1 ELSE 0)
  <2>1. /\ Ran \in SUBSET Ticks /\ Ran' \in SUBSET Ticks
        /\ p \in Ran <=> pc[p] \in {"notify", "record"}
        /\ p \in Ran' <=> place \in {"notify", "record"}
        /\ \A q \in Ticks \ {p} : q \in Ran <=> q \in Ran'
    BY <1>1 DEF Ran
  <2> QED
    BY <2>1, OneMoves
<1>4. /\ Cardinality(MayRun) \in Nat
      /\ Cardinality(MayRun)' = Cardinality(MayRun)
           + (IF place \in {"running", "remediate", "retry"} THEN 1 ELSE 0)
           - (IF pc[p] \in {"running", "remediate", "retry"} THEN 1 ELSE 0)
  <2>1. /\ MayRun \in SUBSET Ticks /\ MayRun' \in SUBSET Ticks
        /\ p \in MayRun <=> pc[p] \in {"running", "remediate", "retry"}
        /\ p \in MayRun' <=> place \in {"running", "remediate", "retry"}
        /\ \A q \in Ticks \ {p} : q \in MayRun <=> q \in MayRun'
    BY <1>1 DEF MayRun
  <2> QED
    BY <2>1, OneMoves
<1> QED
  BY <1>2, <1>3, <1>4 DEF Moved

\* Who completed a cycle is not about to.
LEMMA Disjoint ==
  ASSUME TypeOK
  PROVE  /\ Cardinality(Ran) + Cardinality(MayRun) <= Cardinality(Ticks)
         /\ Cardinality(Ticks) \in Nat /\ Cardinality(MayRun) \in Nat
<1>1. IsFiniteSet(Ran) /\ IsFiniteSet(MayRun) /\ IsFiniteSet(Ran \union MayRun)
  BY FS_Subset, TickAssumption DEF Ran, MayRun
<1>2. Ran \cap MayRun = {}
  BY DEF Ran, MayRun
<1>3. Cardinality(Ran \union MayRun) = Cardinality(Ran) + Cardinality(MayRun)
  <2>1. Cardinality(Ran \union MayRun)
          = Cardinality(Ran) + Cardinality(MayRun) - Cardinality(Ran \cap MayRun)
    BY <1>1, FS_Union
  <2>2. Cardinality(Ran \cap MayRun) = 0
    BY <1>2, FS_EmptySet
  <2> QED
    BY <1>1, <2>1, <2>2, FS_CardinalityType
<1>4. Cardinality(Ran \union MayRun) <= Cardinality(Ticks)
  BY FS_Subset, TickAssumption DEF Ran, MayRun
<1> QED
  BY <1>1, <1>3, <1>4, FS_CardinalityType, TickAssumption
-----------------------------------------------------------------------------
LEMMA InitIInv == Init => IInv
<1> SUFFICES ASSUME Init PROVE IInv
  OBVIOUS
<1>1. TypeOK
  <2>1. /\ due \in [Kinds -> BOOLEAN] /\ fresh \in BOOLEAN
        /\ published \in [Feeds -> SUBSET (1..LastTs)]
        /\ stored \in [Feeds -> SUBSET (1..LastTs)]
    BY DEF Init
  <2>2. watermark \in [Feeds -> 0..LastTs] /\ tries \in [Ticks -> 0..MaxRetries]
    BY TickAssumption DEF Init
  <2>3. /\ toPoll \in [Ticks -> SUBSET Feeds]
        /\ fetched \in [Ticks -> SUBSET (Feeds \X (1..LastTs))]
        /\ foundNew \in [Ticks -> BOOLEAN]
    BY DEF Init
  <2>4. owed \in Nat /\ lost \in Nat /\ burst \in Nat /\ deaths \in 0..MaxDeaths
    BY TickAssumption DEF Init
  <2> QED
    BY <2>1, <2>2, <2>3, <2>4 DEF Init, TypeOK
<1>2. Notifying = {} /\ Ran = {}
  BY DEF Init, Notifying, Ran
<1>3. Cardinality(Notifying) = 0 /\ Cardinality(Ran) = 0
  BY <1>2, FS_EmptySet
<1>4. ShortlistForEveryCycle
  BY <1>3 DEF Init, ShortlistForEveryCycle, Notifying
<1>5. BurstBound
  BY <1>3 DEF Init, BurstBound, Kinds
<1> QED
  BY <1>1, <1>4, <1>5 DEF Init, IInv, OutOfTries

\* Types, group by group.
LEMMA TypeOKRefreshAndPoll ==
  ASSUME TypeOK, NEW p \in Ticks, Start(p) \/ RefreshStep(p) \/ PollStep(p)
  PROVE  TypeOK'
<1> USE DEF TypeOK, Goto, Return, world, agent, locals, history, IngestSucceeds, IngestFails
<1>1. CASE Start(p)
  BY <1>1, TickAssumption DEF Start
<1>2. CASE RefreshNotDue(p) \/ RecordRefresh(p)
  BY <1>2 DEF RefreshNotDue, RecordRefresh, Fired
<1>3. CASE RefreshSucceeds(p)
  BY <1>3 DEF RefreshSucceeds
<1>4. CASE RefreshFails(p)
  BY <1>4 DEF RefreshFails
<1>5. CASE PollNotDue(p) \/ StartPoll(p) \/ EndPoll(p)
  BY <1>5 DEF PollNotDue, StartPoll, EndPoll
<1>6. CASE IngestDocs(p)
  BY <1>6 DEF IngestDocs
<1>7. CASE IngestDocsRaises(p)
  BY <1>7 DEF IngestDocsRaises
<1>8. CASE RecordPoll(p)
  BY <1>8 DEF RecordPoll, Fired
<1>9. ASSUME NEW f \in Feeds, SkipFeed(p, f) PROVE TypeOK'
  BY <1>9 DEF SkipFeed
<1>10. ASSUME NEW f \in Feeds, FetchNewDocs(p, f) PROVE TypeOK'
  <2>1. PICK t \in NewDocs(f) : fetched' = [fetched EXCEPT ![p] = {<<f, t>>}]
    BY <1>10 DEF FetchNewDocs
  <2>2. {<<f, t>>} \in SUBSET (Feeds \X (1..LastTs))
    BY DEF NewDocs
  <2> QED
    BY <1>10, <2>1, <2>2 DEF FetchNewDocs
<1>11. ASSUME NEW f \in Feeds, NEW t \in 1..LastTs, UpdateWatermark(p, f, t) PROVE TypeOK'
  BY <1>11, TickAssumption DEF UpdateWatermark
<1> QED
  BY <1>1, <1>2, <1>3, <1>4, <1>5, <1>6, <1>7, <1>8, <1>9, <1>10, <1>11
     DEF RefreshStep, PollStep

LEMMA TypeOKCycle ==
  ASSUME TypeOK, NEW p \in Ticks, CycleStep(p) \/ RemediationStep(p),
         owed' \in Nat
  PROVE  TypeOK'
<1> USE DEF TypeOK, Goto, Return, world, agent, locals, history
<1>1. CASE CycleNotDue(p) \/ RunCycle(p)
  BY <1>1 DEF CycleNotDue, RunCycle
<1>2. CASE CompleteCycle(p) \/ CycleRaises(p)
  BY <1>2 DEF CompleteCycle, CycleRaises
<1>3. CASE NotifyShortlist(p) \/ RecordCycle(p)
  BY <1>3 DEF NotifyShortlist, RecordCycle, Fired
<1>4. CASE RemediateIngest(p)
  <2>1. tries' \in [Ticks -> 0..MaxRetries]
    BY <1>4, TickAssumption DEF RemediateIngest, MayRemediate
  <2> QED
    BY <1>4, <2>1 DEF RemediateIngest, IngestSucceeds, IngestFails
<1>5. CASE RetryCycle(p) \/ GiveUp(p) \/ Escalate(p)
  BY <1>5 DEF RetryCycle, GiveUp, Escalate
<1> QED
  BY <1>1, <1>2, <1>3, <1>4, <1>5 DEF CycleStep, RemediationStep

LEMMA TypeOKWorld ==
  ASSUME TypeOK,
         World \/ UNCHANGED vars
           \/ (\E p \in Ticks : \E how \in {"raised", "killed"} : Die(p, how))
  PROVE  TypeOK'
<1> USE DEF TypeOK, Goto, Return, world, agent, locals, history, vars
<1>1. CASE UNCHANGED vars
  BY <1>1
<1>2. ASSUME NEW p \in Ticks, NEW how \in {"raised", "killed"}, Die(p, how) PROVE TypeOK'
  BY <1>2, TickAssumption DEF Die
<1>3. CASE Age
  BY <1>3 DEF Age
<1>4. ASSUME NEW kind \in Kinds, Elapse(kind) PROVE TypeOK'
  BY <1>4 DEF Elapse
<1>5. ASSUME NEW f \in Feeds, NEW t \in 1..LastTs, Publish(f, t) PROVE TypeOK'
  BY <1>5 DEF Publish
<1> QED
  BY <1>1, <1>2, <1>3, <1>4, <1>5 DEF World
-----------------------------------------------------------------------------
(***************************************************************************)
(* The counts.                                                             *)
(***************************************************************************)

\* A step that neither completes nor settles a cycle, and begins one only if it is due.
LEMMA CountsKept ==
  ASSUME TypeOK, ShortlistForEveryCycle, BurstBound,
         NEW p \in Ticks, NEW place, pc' = [pc EXCEPT ![p] = place],
         UNCHANGED <<owed, lost, burst, deaths>>, due'["cycle"] <=> due["cycle"],
         pc[p] \notin {"notify", "record"}, place \notin {"notify", "record"},
         \/ due["cycle"]
         \/ pc[p] \in {"running", "remediate", "retry"}
         \/ place \notin {"running", "remediate", "retry"}
  PROVE  ShortlistForEveryCycle' /\ BurstBound'
<1>1. /\ Cardinality(Notifying)' = Cardinality(Notifying)
      /\ Cardinality(Ran)' = Cardinality(Ran)
      /\ ~due["cycle"] => Cardinality(MayRun)' <= Cardinality(MayRun)
      /\ Cardinality(MayRun) \in Nat /\ Cardinality(MayRun)' \in Int
  <2>1. Moved(p, place)
    BY Counting
  <2> QED
    BY <2>1 DEF Moved
<1>2. ShortlistForEveryCycle'
  BY <1>1 DEF ShortlistForEveryCycle, Notifying
<1>3. BurstBound'
  BY <1>1, Disjoint DEF BurstBound, TypeOK
<1> QED
  BY <1>2, <1>3

LEMMA CompleteCounts ==
  ASSUME TypeOK, ShortlistForEveryCycle, BurstBound, NEW p \in Ticks, CompleteCycle(p)
  PROVE  owed' \in Nat /\ ShortlistForEveryCycle' /\ BurstBound'
<1>1. /\ pc[p] = "running" /\ pc' = [pc EXCEPT ![p] = "notify"]
      /\ owed' = owed + 1 /\ burst' = burst + 1 /\ UNCHANGED <<lost, deaths, due>>
      /\ owed \in Nat /\ burst \in Nat /\ lost \in Nat /\ deaths \in Nat
  BY TickAssumption DEF CompleteCycle, Goto, agent, TypeOK
<1>2. /\ Cardinality(Notifying)' = Cardinality(Notifying) + 1
      /\ Cardinality(Ran)' = Cardinality(Ran) + 1
      /\ Cardinality(MayRun)' = Cardinality(MayRun) - 1
      /\ Cardinality(Notifying) \in Nat /\ Cardinality(Ran) \in Nat
      /\ Cardinality(MayRun) \in Nat
  <2>1. Moved(p, "notify")
    BY <1>1, Counting
  <2> QED
    BY <1>1, <2>1 DEF Moved
<1>3. ShortlistForEveryCycle'
  BY <1>1, <1>2 DEF ShortlistForEveryCycle, Notifying
<1>4. BurstBound'
  BY <1>1, <1>2, Disjoint DEF BurstBound
<1> QED
  BY <1>1, <1>3, <1>4

LEMMA NotifyCounts ==
  ASSUME TypeOK, ShortlistForEveryCycle, BurstBound, NEW p \in Ticks, NotifyShortlist(p)
  PROVE  owed' \in Nat /\ ShortlistForEveryCycle' /\ BurstBound'
<1>1. /\ pc[p] = "notify" /\ pc' = [pc EXCEPT ![p] = "record"]
      /\ owed' = owed - 1 /\ UNCHANGED <<lost, burst, deaths, due>>
      /\ owed \in Nat /\ burst \in Nat /\ lost \in Nat /\ deaths \in Nat
  BY TickAssumption DEF NotifyShortlist, Goto, agent, TypeOK
<1>2. /\ Cardinality(Notifying)' = Cardinality(Notifying) - 1
      /\ Cardinality(Ran)' = Cardinality(Ran)
      /\ Cardinality(MayRun)' = Cardinality(MayRun)
      /\ Cardinality(Notifying) \in Nat
  <2>1. Moved(p, "record")
    BY <1>1, Counting
  <2> QED
    BY <1>1, <2>1 DEF Moved
<1>3. p \in Notifying /\ Cardinality(Notifying) >= 1
  <2>1. p \in Notifying /\ IsFiniteSet(Notifying)
    BY <1>1, FS_Subset, TickAssumption DEF Notifying
  <2> QED
    BY <2>1, <1>2, FS_EmptySet
<1>4. owed' \in Nat /\ ShortlistForEveryCycle'
  BY <1>1, <1>2, <1>3 DEF ShortlistForEveryCycle, Notifying
<1>5. BurstBound'
  BY <1>1, <1>2 DEF BurstBound
<1> QED
  BY <1>4, <1>5

\* Recording ends the cadence's due time: what may still run was counted as idle before.
LEMMA RecordCounts ==
  ASSUME TypeOK, ShortlistForEveryCycle, BurstBound, NEW p \in Ticks, RecordCycle(p)
  PROVE  ShortlistForEveryCycle' /\ BurstBound'
<1>1. /\ pc[p] = "record" /\ pc' = [pc EXCEPT ![p] = "idle"]
      /\ ~due'["cycle"] /\ UNCHANGED <<owed, lost, burst, deaths>>
      /\ burst \in Nat /\ deaths \in Nat
  BY TickAssumption DEF RecordCycle, Return, Goto, Fired, history, TypeOK, Kinds
<1>2. /\ Cardinality(Notifying)' = Cardinality(Notifying)
      /\ Cardinality(MayRun)' = Cardinality(MayRun)
      /\ Cardinality(Ran) \in Nat /\ Cardinality(MayRun) \in Nat
  <2>1. Moved(p, "idle")
    BY <1>1, Counting
  <2> QED
    BY <1>1, <2>1 DEF Moved
<1>3. ShortlistForEveryCycle'
  BY <1>1, <1>2 DEF ShortlistForEveryCycle, Notifying
<1>4. BurstBound'
  BY <1>1, <1>2, Disjoint DEF BurstBound
<1> QED
  BY <1>3, <1>4

LEMMA DieCounts ==
  ASSUME TypeOK, ShortlistForEveryCycle, BurstBound, NEW p \in Ticks, NEW how, Die(p, how)
  PROVE  ShortlistForEveryCycle' /\ BurstBound'
<1>1. /\ pc' = [pc EXCEPT ![p] = "idle"] /\ deaths' = deaths + 1
      /\ lost' = (IF pc[p] = "notify" THEN lost + 1 ELSE lost)
      /\ UNCHANGED <<owed, burst, due>>
      /\ owed \in Nat /\ burst \in Nat /\ lost \in Nat /\ deaths \in Nat
  BY TickAssumption DEF Die, Return, Goto, agent, TypeOK
<1>2. /\ Cardinality(Notifying)' = Cardinality(Notifying) - (IF pc[p] = "notify" THEN 1 ELSE 0)
      /\ Cardinality(Ran)' >= Cardinality(Ran) - 1
      /\ Cardinality(MayRun)' <= Cardinality(MayRun)
      /\ Cardinality(Notifying) \in Nat /\ Cardinality(Ran) \in Nat
      /\ Cardinality(MayRun) \in Nat
      /\ Cardinality(Ran)' \in Int /\ Cardinality(MayRun)' \in Int
  <2>1. Moved(p, "idle")
    BY <1>1, Counting
  <2> QED
    BY <1>1, <2>1 DEF Moved
<1>3. ShortlistForEveryCycle'
  BY <1>1, <1>2 DEF ShortlistForEveryCycle, Notifying
<1>4. BurstBound'
  BY <1>1, <1>2, Disjoint DEF BurstBound
<1> QED
  BY <1>3, <1>4

\* Time and vendors move no tick; a cadence that passes starts the count again.
LEMMA WorldCounts ==
  ASSUME TypeOK, ShortlistForEveryCycle, BurstBound, World \/ UNCHANGED vars
  PROVE  ShortlistForEveryCycle' /\ BurstBound'
<1> USE DEF history, agent, world, vars
<1>1. UNCHANGED <<pc, owed, lost, deaths>>
  BY DEF World, Age, Elapse, Publish
<1>2. ((due'["cycle"] <=> due["cycle"]) /\ burst' = burst) \/ (due'["cycle"] /\ burst' = 0)
  <2>1. ASSUME NEW kind \in Kinds, Elapse(kind)
        PROVE  ((due'["cycle"] <=> due["cycle"]) /\ burst' = burst) \/ (due'["cycle"] /\ burst' = 0)
    <3>1. CASE kind = "cycle"
      BY <2>1, <3>1 DEF Elapse, TypeOK
    <3>2. CASE kind # "cycle"
      <4>1. due' = [due EXCEPT ![kind] = TRUE] /\ burst' = burst
        BY <2>1, <3>2 DEF Elapse
      <4>2. DOMAIN due = Kinds /\ "cycle" \in Kinds
        BY DEF TypeOK, Kinds
      <4>3. due'["cycle"] <=> due["cycle"]
        BY <3>2, <4>1, <4>2
      <4> QED
        BY <4>1, <4>3
    <3> QED
      BY <3>1, <3>2
  <2>2. ~(\E kind \in Kinds : Elapse(kind)) => ((due'["cycle"] <=> due["cycle"]) /\ burst' = burst)
    <3>1. ~(\E kind \in Kinds : Elapse(kind)) => due' = due /\ burst' = burst
      BY DEF World, Age, Publish
    <3> QED
      BY <3>1
  <2> QED
    BY <2>1, <2>2
<1>3. UNCHANGED <<Notifying, Ran, MayRun>>
  BY <1>1 DEF Notifying, Ran, MayRun
<1>4. ShortlistForEveryCycle'
  BY <1>1, <1>3 DEF ShortlistForEveryCycle, Notifying
<1>5. Cardinality(Ran) \in Nat /\ deaths \in Nat
  BY FS_Subset, FS_CardinalityType, TickAssumption DEF Ran, TypeOK
<1>6. BurstBound'
  BY <1>1, <1>2, <1>3, <1>5 DEF BurstBound
<1> QED
  BY <1>4, <1>6
-----------------------------------------------------------------------------
(***************************************************************************)
(* Attempts, and the whole invariant.                                      *)
(***************************************************************************)
LEMMA StepOutOfTries ==
  ASSUME TypeOK, OutOfTries, NEW p \in Ticks, Step(p)
  PROVE  OutOfTries'
<1> USE DEF Goto, Return, world, agent, locals, history
<1>1. \A q \in Ticks \ {p} : pc'[q] = pc[q] /\ ended'[q] = ended[q] /\ tries'[q] = tries[q]
  <2>1. CASE Start(p) \/ RefreshStep(p)
    BY <2>1 DEF TypeOK, Start, RefreshStep, RefreshNotDue, RefreshSucceeds, RefreshFails,
                RecordRefresh
  <2>2. CASE PollStep(p)
    BY <2>2 DEF TypeOK, PollStep, PollNotDue, StartPoll, EndPoll, IngestDocs,
                IngestDocsRaises, RecordPoll, SkipFeed, FetchNewDocs, UpdateWatermark
  <2>3. CASE CycleStep(p)
    BY <2>3 DEF TypeOK, CycleStep, CycleNotDue, RunCycle, CompleteCycle, CycleRaises,
                NotifyShortlist, RecordCycle
  <2>4. CASE RemediationStep(p)
    BY <2>4 DEF TypeOK, RemediationStep, RemediateIngest, RetryCycle, GiveUp, Escalate
  <2> QED
    BY <2>1, <2>2, <2>3, <2>4 DEF Step
<1>2. /\ pc'[p] = "escalate" => tries'[p] = MaxRetries
      /\ ended'[p] = "escalated" => pc'[p] = "idle" /\ tries'[p] = MaxRetries
  <2>1. CASE Start(p) \/ RefreshStep(p)
    BY <2>1 DEF OutOfTries, TypeOK, Start, RefreshStep, RefreshNotDue, RefreshSucceeds,
                RefreshFails, RecordRefresh
  <2>2. CASE PollStep(p)
    BY <2>2 DEF OutOfTries, TypeOK, PollStep, PollNotDue, StartPoll, EndPoll, IngestDocs,
                IngestDocsRaises, RecordPoll, SkipFeed, FetchNewDocs, UpdateWatermark
  <2>3. CASE CycleStep(p)
    BY <2>3 DEF OutOfTries, TypeOK, CycleStep, CycleNotDue, RunCycle, CompleteCycle,
                CycleRaises, NotifyShortlist, RecordCycle
  <2>4. CASE RemediateIngest(p) \/ RetryCycle(p) \/ Escalate(p)
    BY <2>4 DEF OutOfTries, TypeOK, RemediateIngest, MayRemediate, RetryCycle, Escalate
  <2>5. CASE GiveUp(p)
    <3>1. tries[p] \in 0..MaxRetries /\ ~(tries[p] < MaxRetries)
      BY <2>5 DEF GiveUp, MayRemediate, TypeOK
    <3>2. tries[p] = MaxRetries
      BY <3>1, TickAssumption
    <3> QED
      BY <2>5, <3>2 DEF GiveUp, OutOfTries, TypeOK
  <2> QED
    BY <2>1, <2>2, <2>3, <2>4, <2>5 DEF Step, RemediationStep
<1> QED
  BY <1>1, <1>2 DEF OutOfTries

\* Every step of a tick's code keeps the types and the counts.
LEMMA StepCounts ==
  ASSUME TypeOK, ShortlistForEveryCycle, BurstBound, NEW p \in Ticks, Step(p)
  PROVE  TypeOK' /\ ShortlistForEveryCycle' /\ BurstBound'
<1> USE DEF Goto, Return, world, agent, locals, history
<1>1. CASE Start(p) \/ RefreshStep(p) \/ PollStep(p)
  <2>1. TypeOK'
    BY <1>1, TypeOKRefreshAndPoll
  <2>2. /\ UNCHANGED <<owed, lost, burst, deaths>>
        /\ due'["cycle"] <=> due["cycle"]
    BY <1>1 DEF Start, RefreshStep, RefreshNotDue, RefreshSucceeds, RefreshFails,
                RecordRefresh, PollStep, PollNotDue, StartPoll, EndPoll, IngestDocs,
                IngestDocsRaises, RecordPoll, SkipFeed, FetchNewDocs, UpdateWatermark, Fired,
                TypeOK, Kinds
  <2>3. /\ pc' = [pc EXCEPT ![p] = pc'[p]]
        /\ pc[p] \notin {"notify", "record"}
        /\ pc'[p] \notin {"notify", "record", "running", "remediate", "retry"}
    BY <1>1 DEF Start, RefreshStep, RefreshNotDue, RefreshSucceeds, RefreshFails,
                RecordRefresh, PollStep, PollNotDue, StartPoll, EndPoll, IngestDocs,
                IngestDocsRaises, RecordPoll, SkipFeed, FetchNewDocs, UpdateWatermark, TypeOK
  <2> QED
    BY <2>1, <2>2, <2>3, CountsKept
<1>2. CASE CycleNotDue(p) \/ RunCycle(p) \/ CycleRaises(p) \/ RemediationStep(p)
  <2>1. UNCHANGED <<owed, lost, burst, deaths, due>>
    BY <1>2 DEF CycleNotDue, RunCycle, CycleRaises, RemediationStep, RemediateIngest,
                RetryCycle, GiveUp, Escalate
  <2>2. TypeOK'
    <3>1. owed' \in Nat
      BY <2>1 DEF TypeOK
    <3> QED
      BY <1>2, <3>1, TypeOKCycle DEF CycleStep
  <2>3. /\ pc' = [pc EXCEPT ![p] = pc'[p]]
        /\ pc[p] \notin {"notify", "record"}
        /\ pc'[p] \notin {"notify", "record"}
        /\ \/ due["cycle"]
           \/ pc[p] \in {"running", "remediate", "retry"}
           \/ pc'[p] \notin {"running", "remediate", "retry"}
    BY <1>2 DEF CycleNotDue, RunCycle, CycleRaises, RemediationStep, RemediateIngest,
                MayRemediate, RetryCycle, GiveUp, Escalate, TypeOK
  <2> QED
    BY <2>1, <2>2, <2>3, CountsKept
<1>3. CASE CompleteCycle(p)
  BY <1>3, CompleteCounts, TypeOKCycle DEF CycleStep
<1>4. CASE NotifyShortlist(p)
  BY <1>4, NotifyCounts, TypeOKCycle DEF CycleStep
<1>5. CASE RecordCycle(p)
  <2>1. owed' \in Nat
    BY <1>5 DEF RecordCycle, TypeOK
  <2> QED
    BY <1>5, <2>1, RecordCounts, TypeOKCycle DEF CycleStep
<1> QED
  BY <1>1, <1>2, <1>3, <1>4, <1>5 DEF Step, CycleStep

LEMMA NextIInv == IInv /\ [Next]_vars => IInv'
<1> SUFFICES ASSUME IInv, [Next]_vars PROVE IInv'
  OBVIOUS
<1>1. ASSUME NEW p \in Ticks, Step(p) PROVE IInv'
  BY <1>1, StepCounts, StepOutOfTries DEF IInv
<1>2. ASSUME NEW p \in Ticks, NEW how \in {"raised", "killed"}, Die(p, how) PROVE IInv'
  <2>1. TypeOK' /\ ShortlistForEveryCycle' /\ BurstBound'
    BY <1>2, TypeOKWorld, DieCounts DEF IInv
  <2>2. OutOfTries'
    BY <1>2 DEF IInv, OutOfTries, Die, Return, Goto, TypeOK
  <2> QED
    BY <2>1, <2>2 DEF IInv
<1>3. CASE World \/ UNCHANGED vars
  <2>1. TypeOK' /\ ShortlistForEveryCycle' /\ BurstBound'
    BY <1>3, TypeOKWorld, WorldCounts DEF IInv
  <2>2. UNCHANGED <<pc, tries, ended>>
    BY <1>3 DEF World, Age, Elapse, Publish, locals, vars
  <2>3. OutOfTries'
    BY <2>2 DEF IInv, OutOfTries
  <2> QED
    BY <2>1, <2>3 DEF IInv
<1> QED
  BY <1>1, <1>2, <1>3 DEF Next, Kill, SinkRaises

LEMMA Invariance == Spec => []IInv
BY InitIInv, NextIInv, PTL DEF Spec

-----------------------------------------------------------------------------
\* Schedule, watermarks, data and ticks keep their types.
THEOREM TypeCorrect == Spec => []TypeOK
<1>1. IInv => TypeOK
  BY DEF IInv
<1> QED
  BY <1>1, Invariance, PTL

\* tick and its shortlist: only a tick that died after its cycle owes one.
THEOREM ShortlistsSent == Spec => []ShortlistForEveryCycle
<1>1. IInv => ShortlistForEveryCycle
  BY DEF IInv
<1> QED
  BY <1>1, Invariance, PTL

\* tick without a lock: a cadence triggers at most one cycle per overlapping tick, and one
\* per death.
THEOREM CadenceBounded == Spec => []CyclesPerCadence
<1>1. IInv => CyclesPerCadence
  <2> SUFFICES ASSUME IInv PROVE CyclesPerCadence
    OBVIOUS
  <2>1. /\ Cardinality(Ran) \in Nat /\ Cardinality(MayRun) \in Nat
        /\ Cardinality(Ran) + Cardinality(MayRun) <= Cardinality(Ticks)
        /\ Cardinality(Ticks) \in Nat /\ burst \in Nat /\ deaths \in Nat
    BY Disjoint, FS_Subset, FS_CardinalityType, TickAssumption DEF Ran, IInv, TypeOK
  <2> QED
    BY <2>1 DEF IInv, BurstBound, CyclesPerCadence
<1> QED
  BY <1>1, Invariance, PTL

\* remediate_and_run_cycle: an escalation comes after max_retries attempts, not before.
THEOREM EscalationEarned == Spec => []EscalationIsEarned
<1>1. IInv => EscalationIsEarned
  BY DEF IInv, OutOfTries, EscalationIsEarned
<1> QED
  BY <1>1, Invariance, PTL

\* tick: an escalation, an exception or a death leaves the cycle due; a recorded run ends it.
THEOREM StaysDue == Spec => DueUntilRun
<1> DEFINE A == due["cycle"] /\ ~due'["cycle"] =>
                  \E p \in Ticks : pc[p] = "record" /\ ended'[p] = "ran"
<1>1. TypeOK /\ [Next]_vars => [A]_vars
  <2> SUFFICES ASSUME TypeOK, Next, due["cycle"], ~due'["cycle"]
               PROVE  \E p \in Ticks : pc[p] = "record" /\ ended'[p] = "ran"
    OBVIOUS
  <2> USE DEF Goto, Return, world, agent, locals, history
  <2>1. ASSUME NEW p \in Ticks, Step(p) PROVE RecordCycle(p)
    <3>1. CASE Start(p) \/ RefreshStep(p) \/ PollStep(p)
      <4>1. due'["cycle"] <=> due["cycle"]
        BY <3>1 DEF Start, RefreshStep, RefreshNotDue, RefreshSucceeds, RefreshFails,
                RecordRefresh, PollStep, PollNotDue, StartPoll, EndPoll, IngestDocs,
                IngestDocsRaises, RecordPoll, SkipFeed, FetchNewDocs, UpdateWatermark, Fired,
                TypeOK, Kinds
      <4> QED
        BY <4>1
    <3>2. CASE CycleStep(p) \/ RemediationStep(p)
      <4>1. RecordCycle(p) \/ due' = due
        BY <3>2 DEF CycleStep, CycleNotDue, RunCycle, CompleteCycle, CycleRaises,
                NotifyShortlist, RemediationStep, RemediateIngest, RetryCycle, GiveUp, Escalate
      <4> QED
        BY <4>1
    <3> QED
      BY <2>1, <3>1, <3>2 DEF Step
  <2>2. ~(\E p \in Ticks : Kill(p) \/ SinkRaises(p))
    BY DEF Kill, SinkRaises, Die
  <2>3. ~World
    <3>1. ASSUME NEW kind \in Kinds, Elapse(kind) PROVE FALSE
      BY <3>1 DEF Elapse, TypeOK, Kinds
    <3> QED
      BY <3>1 DEF World, Age, Publish
  <2>4. PICK p \in Ticks : RecordCycle(p)
    BY <2>1, <2>2, <2>3 DEF Next
  <2>5. pc[p] = "record" /\ ended'[p] = "ran"
    BY <2>4 DEF RecordCycle, TypeOK
  <2> QED
    BY <2>5
<1> QED
  BY <1>1, TypeCorrect, PTL DEF Spec, DueUntilRun
-----------------------------------------------------------------------------
(***************************************************************************)
(* A tick has boundedly many steps.                                        *)
(***************************************************************************)
\* Places of the code of tick still ahead.
Ahead ==
  [idle |-> 0, record |-> 1, escalate |-> 1, notify |-> 2, running |-> 3, remediate |-> 4,
   retry |-> 5, cycle |-> 6, polled |-> 7, ingest_docs |-> 8, mark_feed |-> 8,
   poll_feed |-> 9, poll |-> 10, refreshed |-> 11, refresh |-> 12]

FeedsAhead(p) == IF pc[p] \in {"refresh", "refreshed", "poll"} THEN Feeds ELSE toPoll[p]

\* Two steps for each attempt left, out and back, and for each feed left.
StepsLeft(p) ==
  IF pc[p] = "idle" THEN 0
  ELSE Ahead[pc[p]] + 2 * (MaxRetries - tries[p]) + 2 * Cardinality(FeedsAhead(p))

MostSteps == 12 + 2 * MaxRetries + 2 * Cardinality(Feeds)

\* A fetched document is of a feed that the poll has still to finish.
FetchedIsToFinish ==
  \A p \in Ticks :
    /\ pc[p] # "mark_feed" => fetched[p] = {}
    /\ \A f \in Feeds, t \in 1..LastTs : <<f, t>> \in fetched[p] => f \in toPoll[p]

-----------------------------------------------------------------------------
LEMMA PlacesAhead ==
  /\ Ahead["idle"] = 0 /\ Ahead["record"] = 1 /\ Ahead["escalate"] = 1
  /\ Ahead["notify"] = 2 /\ Ahead["running"] = 3 /\ Ahead["remediate"] = 4
  /\ Ahead["retry"] = 5 /\ Ahead["cycle"] = 6 /\ Ahead["polled"] = 7
  /\ Ahead["ingest_docs"] = 8 /\ Ahead["mark_feed"] = 8 /\ Ahead["poll_feed"] = 9
  /\ Ahead["poll"] = 10 /\ Ahead["refreshed"] = 11 /\ Ahead["refresh"] = 12
BY DEF Ahead

LEMMA PlacesAreNumbers ==
  ASSUME TypeOK, NEW p \in Ticks
  PROVE  Ahead[pc[p]] \in 0..12 /\ (Ahead[pc[p]] = 0 <=> pc[p] = "idle")
<1>1. pc[p] \in {"idle", "refresh", "refreshed", "poll", "poll_feed", "mark_feed",
                 "ingest_docs", "polled", "cycle", "running", "remediate", "retry",
                 "escalate", "notify", "record"}
  BY DEF TypeOK
<1> QED
  BY <1>1, PlacesAhead

\* A tick moves no other.
LEMMA OthersStay ==
  ASSUME TypeOK, NEW p \in Ticks, NEW q \in Ticks \ {p},
         \/ Step(p)
         \/ \E how \in {"raised", "killed"} : Die(p, how)
  PROVE  /\ pc'[q] = pc[q] /\ tries'[q] = tries[q]
         /\ toPoll'[q] = toPoll[q] /\ fetched'[q] = fetched[q]
<1> USE DEF TypeOK, Goto, Return, world, agent, locals, history
<1>1. CASE \E how \in {"raised", "killed"} : Die(p, how)
  BY <1>1 DEF Die
<1>2. CASE Start(p) \/ RefreshStep(p)
  BY <1>2 DEF Start, RefreshStep, RefreshNotDue, RefreshSucceeds, RefreshFails, RecordRefresh
<1>3. CASE PollStep(p)
  BY <1>3 DEF PollStep, PollNotDue, StartPoll, EndPoll, IngestDocs, IngestDocsRaises,
              RecordPoll, SkipFeed, FetchNewDocs, UpdateWatermark
<1>4. CASE CycleStep(p)
  BY <1>4 DEF CycleStep, CycleNotDue, RunCycle, CompleteCycle, CycleRaises, NotifyShortlist,
              RecordCycle
<1>5. CASE RemediationStep(p)
  BY <1>5 DEF RemediationStep, RemediateIngest, RetryCycle, GiveUp, Escalate
<1> QED
  BY <1>1, <1>2, <1>3, <1>4, <1>5 DEF Step

LEMMA WorldMovesNoTick ==
  ASSUME World \/ UNCHANGED vars
  PROVE  UNCHANGED <<pc, tries, toPoll, fetched>>
BY DEF World, Age, Elapse, Publish, locals, vars

LEMMA FetchedStays ==
  ASSUME TypeOK, FetchedIsToFinish, [Next]_vars
  PROVE  FetchedIsToFinish'
<1> USE DEF FetchedIsToFinish
<1>1. CASE World \/ UNCHANGED vars
  BY <1>1, WorldMovesNoTick
<1>2. ASSUME NEW p \in Ticks, Step(p) \/ (\E how \in {"raised", "killed"} : Die(p, how)),
             /\ pc'[p] # "mark_feed" => fetched'[p] = {}
             /\ \A f \in Feeds, t \in 1..LastTs : <<f, t>> \in fetched'[p] => f \in toPoll'[p]
      PROVE  FetchedIsToFinish'
  BY <1>2, OthersStay
<1>3. ASSUME NEW p \in Ticks, Step(p) \/ (\E how \in {"raised", "killed"} : Die(p, how))
      PROVE  /\ pc'[p] # "mark_feed" => fetched'[p] = {}
             /\ \A f \in Feeds, t \in 1..LastTs : <<f, t>> \in fetched'[p] => f \in toPoll'[p]
  <2> USE DEF TypeOK, Goto, Return, world, agent, locals, history
  <2>1. CASE \E how \in {"raised", "killed"} : Die(p, how)
    BY <2>1 DEF Die
  <2>2. CASE Start(p) \/ RefreshStep(p)
    BY <2>2 DEF Start, RefreshStep, RefreshNotDue, RefreshSucceeds, RefreshFails,
                RecordRefresh
  <2>3. CASE PollNotDue(p) \/ StartPoll(p) \/ EndPoll(p) \/ IngestDocs(p)
               \/ IngestDocsRaises(p) \/ RecordPoll(p)
    BY <2>3 DEF PollNotDue, StartPoll, EndPoll, IngestDocs, IngestDocsRaises, RecordPoll
  <2>4. ASSUME NEW f \in Feeds, SkipFeed(p, f)
        PROVE  fetched'[p] = {}
    BY <2>4 DEF SkipFeed
  <2>5. ASSUME NEW f \in Feeds, FetchNewDocs(p, f)
        PROVE  /\ pc'[p] = "mark_feed"
               /\ \A g \in Feeds, t \in 1..LastTs : <<g, t>> \in fetched'[p] => g \in toPoll'[p]
    <3>1. PICK t \in NewDocs(f) : fetched' = [fetched EXCEPT ![p] = {<<f, t>>}]
      BY <2>5 DEF FetchNewDocs
    <3> QED
      BY <2>5, <3>1 DEF FetchNewDocs
  <2>6. ASSUME NEW f \in Feeds, NEW t \in 1..LastTs, UpdateWatermark(p, f, t)
        PROVE  fetched'[p] = {}
    BY <2>6 DEF UpdateWatermark
  <2>7. CASE CycleStep(p)
    BY <2>7 DEF CycleStep, CycleNotDue, RunCycle, CompleteCycle, CycleRaises,
                NotifyShortlist, RecordCycle
  <2>8. CASE RemediationStep(p)
    <3>1. /\ pc[p] # "mark_feed" /\ pc'[p] # "mark_feed"
          /\ fetched' = fetched /\ toPoll' = toPoll
      BY <2>8 DEF RemediationStep, RemediateIngest, MayRemediate, RetryCycle, GiveUp, Escalate
    <3> QED
      BY <3>1
  <2> QED
    BY <1>3, <2>1, <2>2, <2>3, <2>4, <2>5, <2>6, <2>7, <2>8 DEF Step, PollStep
<1> QED
  BY <1>1, <1>2, <1>3 DEF Next, Kill, SinkRaises

LEMMA StepsAreBounded ==
  ASSUME TypeOK, NEW p \in Ticks
  PROVE  /\ StepsLeft(p) \in 0..MostSteps
         /\ StepsLeft(p) = 0 <=> pc[p] = "idle"
         /\ Cardinality(FeedsAhead(p)) \in Nat
         /\ MaxRetries - tries[p] \in Nat
<1>1. /\ FeedsAhead(p) \subseteq Feeds
      /\ MaxRetries - tries[p] \in 0..MaxRetries /\ MaxRetries \in Nat
  BY TickAssumption DEF FeedsAhead, TypeOK
<1>2. /\ Cardinality(FeedsAhead(p)) \in Nat /\ Cardinality(Feeds) \in Nat
      /\ Cardinality(FeedsAhead(p)) <= Cardinality(Feeds)
  BY <1>1, FS_Subset, FS_CardinalityType, TickAssumption
<1>3. Ahead[pc[p]] \in 0..12 /\ (pc[p] # "idle" => Ahead[pc[p]] # 0)
  BY PlacesAreNumbers
<1> QED
  BY <1>1, <1>2, <1>3 DEF StepsLeft, MostSteps

LEMMA StepsAreBoundedThen ==
  (TypeOK => \A p \in Ticks : /\ Cardinality(FeedsAhead(p)) \in Nat
                              /\ Ahead[pc[p]] \in 0..12
                              /\ StepsLeft(p) \in 0..MostSteps
                              /\ StepsLeft(p) = 0 <=> pc[p] = "idle")'
<1>1. TypeOK => \A p \in Ticks : /\ Cardinality(FeedsAhead(p)) \in Nat
                                 /\ Ahead[pc[p]] \in 0..12
                                 /\ StepsLeft(p) \in 0..MostSteps
                                 /\ StepsLeft(p) = 0 <=> pc[p] = "idle"
  BY StepsAreBounded, PlacesAreNumbers
<1> QED
  BY <1>1, PTL

\* The ways a step leaves fewer: the tick ends, it goes on, it is done with a feed, or it has
\* begun an attempt.
Goes(p) ==
  \/ pc'[p] = "idle"
  \/ /\ Ahead[pc'[p]] < Ahead[pc[p]]
     /\ tries'[p] = tries[p] /\ FeedsAhead(p)' \subseteq FeedsAhead(p)
  \/ /\ Ahead[pc'[p]] <= Ahead[pc[p]] + 1
     /\ tries'[p] = tries[p]
     /\ \E f \in FeedsAhead(p) : FeedsAhead(p)' = FeedsAhead(p) \ {f}
  \/ /\ Ahead[pc'[p]] <= Ahead[pc[p]] + 1
     /\ tries'[p] = tries[p] + 1 /\ FeedsAhead(p)' = FeedsAhead(p)

LEMMA GoingLeavesFewer ==
  ASSUME TypeOK, TypeOK', NEW p \in Ticks, pc[p] # "idle", Goes(p)
  PROVE  StepsLeft(p)' < StepsLeft(p)
<1> DEFINE feeds == Cardinality(FeedsAhead(p))
           later == Cardinality(FeedsAhead(p)')
<1>1. StepsLeft(p) \in Nat /\ StepsLeft(p) # 0 /\ feeds \in Nat /\ later \in Nat
  BY StepsAreBounded, StepsAreBoundedThen
<1>2. tries[p] \in 0..MaxRetries /\ tries'[p] \in 0..MaxRetries /\ MaxRetries \in Nat
  BY TickAssumption DEF TypeOK
<1>3. Ahead' = Ahead /\ MaxRetries' = MaxRetries
  BY DEF Ahead
<1>4. Ahead[pc[p]] \in Nat /\ Ahead[pc'[p]] \in Nat
  BY <1>3, PlacesAreNumbers, StepsAreBoundedThen
<1>5. IsFiniteSet(FeedsAhead(p))
  BY FS_Subset, TickAssumption DEF FeedsAhead, TypeOK
<1>6. StepsLeft(p) = Ahead[pc[p]] + 2 * (MaxRetries - tries[p]) + 2 * feeds
  BY DEF StepsLeft
<1>7. StepsLeft(p)' = IF pc'[p] = "idle" THEN 0
                      ELSE Ahead[pc'[p]] + 2 * (MaxRetries - tries'[p]) + 2 * later
  BY <1>3 DEF StepsLeft
<1> HIDE DEF feeds, later
<1>8. CASE pc'[p] = "idle"
  BY <1>1, <1>7, <1>8
<1>9. CASE /\ Ahead[pc'[p]] < Ahead[pc[p]]
           /\ tries'[p] = tries[p] /\ FeedsAhead(p)' \subseteq FeedsAhead(p)
  <2>1. later <= feeds
    BY <1>5, <1>9, FS_Subset DEF feeds, later
  <2> QED
    BY <1>1, <1>2, <1>4, <1>6, <1>7, <1>9, <2>1
<1>10. CASE /\ Ahead[pc'[p]] <= Ahead[pc[p]] + 1
            /\ tries'[p] = tries[p]
            /\ \E f \in FeedsAhead(p) : FeedsAhead(p)' = FeedsAhead(p) \ {f}
  <2>1. later = feeds - 1
    BY <1>5, <1>10, FS_RemoveElement DEF feeds, later
  <2> QED
    BY <1>1, <1>2, <1>4, <1>6, <1>7, <1>10, <2>1
<1>11. CASE /\ Ahead[pc'[p]] <= Ahead[pc[p]] + 1
            /\ tries'[p] = tries[p] + 1 /\ FeedsAhead(p)' = FeedsAhead(p)
  <2>1. later = feeds
    BY <1>11 DEF feeds, later
  <2> QED
    BY <1>1, <1>2, <1>4, <1>6, <1>7, <1>11, <2>1
<1> QED
  BY <1>8, <1>9, <1>10, <1>11 DEF Goes

LEMMA StepGoes ==
  ASSUME TypeOK, FetchedIsToFinish, NEW p \in Ticks, Step(p), pc[p] # "idle"
  PROVE  Goes(p)
<1> USE PlacesAhead DEF TypeOK, Goto, Return, world, agent, locals, history
<1>1. CASE RefreshStep(p)
  BY <1>1 DEF RefreshStep, RefreshNotDue, RefreshSucceeds, RefreshFails, RecordRefresh, Goes,
              FeedsAhead
<1>2. CASE PollNotDue(p) \/ StartPoll(p) \/ EndPoll(p) \/ IngestDocs(p)
             \/ IngestDocsRaises(p) \/ RecordPoll(p)
  BY <1>2 DEF PollNotDue, StartPoll, EndPoll, IngestDocs, IngestDocsRaises, RecordPoll, Goes,
              FeedsAhead
<1>3. ASSUME NEW f \in Feeds, SkipFeed(p, f) PROVE Goes(p)
  <2>1. /\ pc[p] = "poll_feed" /\ pc'[p] = "poll_feed" /\ tries'[p] = tries[p]
        /\ FeedsAhead(p) = toPoll[p] /\ FeedsAhead(p)' = toPoll[p] \ {f} /\ f \in toPoll[p]
    BY <1>3 DEF SkipFeed, FeedsAhead
  <2> QED
    BY <2>1 DEF Goes
<1>4. ASSUME NEW f \in Feeds, FetchNewDocs(p, f) PROVE Goes(p)
  BY <1>4 DEF FetchNewDocs, Goes, FeedsAhead
<1>5. ASSUME NEW f \in Feeds, NEW t \in 1..LastTs, UpdateWatermark(p, f, t) PROVE Goes(p)
  <2>1. f \in toPoll[p]
    BY <1>5 DEF UpdateWatermark, FetchedIsToFinish
  <2>2. /\ pc[p] = "mark_feed" /\ pc'[p] = "poll_feed" /\ tries'[p] = tries[p]
        /\ FeedsAhead(p) = toPoll[p] /\ FeedsAhead(p)' = toPoll[p] \ {f}
    BY <1>5 DEF UpdateWatermark, FeedsAhead
  <2> QED
    BY <2>1, <2>2 DEF Goes
<1>6. CASE CycleStep(p)
  BY <1>6 DEF CycleStep, CycleNotDue, RunCycle, CompleteCycle, CycleRaises, NotifyShortlist,
              RecordCycle, Goes, FeedsAhead
<1>7. CASE RemediateIngest(p)
  <2>1. /\ pc[p] = "remediate" /\ pc'[p] \in {"retry", "remediate"}
        /\ tries'[p] = tries[p] + 1 /\ toPoll' = toPoll
    BY <1>7 DEF RemediateIngest, MayRemediate
  <2> QED
    BY <2>1 DEF Goes, FeedsAhead
<1>8. CASE RetryCycle(p) \/ GiveUp(p) \/ Escalate(p)
  BY <1>8 DEF RetryCycle, GiveUp, Escalate, MayRemediate, Goes, FeedsAhead
<1>9. CASE Start(p)
  BY <1>9 DEF Start
<1> QED
  BY <1>1, <1>2, <1>3, <1>4, <1>5, <1>6, <1>7, <1>8, <1>9 DEF Step, PollStep, RemediationStep

\* tick and remediate_and_run_cycle: from its start a tick has boundedly many steps, whatever
\* fails, is due or is published meanwhile and however many other ticks run.  Each of its own
\* steps uses some up, no step of another brings any back, and with none left it has ended.
\* This is what TicksEnd needs beside the fairness of a tick's steps.
THEOREM TicksUseUpTheirSteps ==
  Spec => [][\A p \in Ticks :
               /\ StepsLeft(p) \in 0..MostSteps
               /\ StepsLeft(p) = 0 <=> pc[p] = "idle"
               /\ pc[p] # "idle" => /\ StepsLeft(p)' <= StepsLeft(p)
                                    /\ Step(p) => StepsLeft(p)' < StepsLeft(p)]_vars
<1> DEFINE Progress == \A p \in Ticks :
               /\ StepsLeft(p) \in 0..MostSteps
               /\ StepsLeft(p) = 0 <=> pc[p] = "idle"
               /\ pc[p] # "idle" => /\ StepsLeft(p)' <= StepsLeft(p)
                                    /\ Step(p) => StepsLeft(p)' < StepsLeft(p)
<1>1. Init => FetchedIsToFinish
  BY DEF Init, FetchedIsToFinish
<1>2. TypeOK /\ TypeOK' /\ FetchedIsToFinish /\ [Next]_vars => [Progress]_vars
  <2> SUFFICES ASSUME TypeOK, TypeOK', FetchedIsToFinish, Next, NEW q \in Ticks
               PROVE  /\ StepsLeft(q) \in 0..MostSteps
                      /\ StepsLeft(q) = 0 <=> pc[q] = "idle"
                      /\ pc[q] # "idle" => /\ StepsLeft(q)' <= StepsLeft(q)
                                           /\ Step(q) => StepsLeft(q)' < StepsLeft(q)
    OBVIOUS
  <2>1. StepsLeft(q) \in 0..MostSteps /\ (StepsLeft(q) = 0 <=> pc[q] = "idle")
    BY StepsAreBounded
  <2>2. StepsLeft(q)' \in 0..MostSteps' /\ (StepsLeft(q)' = 0 <=> pc'[q] = "idle")
    BY StepsAreBoundedThen
  <2>3. ASSUME pc[q] # "idle", Step(q) PROVE StepsLeft(q)' < StepsLeft(q)
    BY <2>3, StepGoes, GoingLeavesFewer
  <2>4. ASSUME pc[q] # "idle", ~Step(q) PROVE StepsLeft(q)' <= StepsLeft(q)
    <3>1. CASE pc'[q] = "idle"
      BY <2>1, <2>2, <3>1
    <3>2. CASE pc'[q] = pc[q] /\ tries'[q] = tries[q] /\ toPoll'[q] = toPoll[q]
      <4>1. FeedsAhead(q)' = FeedsAhead(q)
        BY <3>2 DEF FeedsAhead
      <4>2. Ahead' = Ahead
        BY DEF Ahead
      <4>3. StepsLeft(q)' = StepsLeft(q)
        BY <3>2, <4>1, <4>2 DEF StepsLeft
      <4> QED
        BY <2>1, <4>3
    <3>3. ASSUME NEW p \in Ticks, Step(p) \/ (\E how \in {"raised", "killed"} : Die(p, how))
          PROVE  \/ pc'[q] = "idle"
                 \/ pc'[q] = pc[q] /\ tries'[q] = tries[q] /\ toPoll'[q] = toPoll[q]
      <4>1. CASE p = q
        BY <2>4, <3>3, <4>1 DEF Die, Return, Goto, TypeOK
      <4>2. CASE p # q
        BY <3>3, <4>2, OthersStay
      <4> QED
        BY <4>1, <4>2
    <3>4. CASE World
      BY <3>2, <3>4, WorldMovesNoTick
    <3> QED
      BY <3>1, <3>2, <3>3, <3>4 DEF Next, Kill, SinkRaises
  <2> QED
    BY <2>1, <2>2, <2>3, <2>4
<1> QED
  BY <1>1, <1>2, FetchedStays, TypeCorrect, PTL DEF Spec
=============================================================================
