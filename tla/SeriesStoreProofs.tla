-------------------------- MODULE SeriesStoreProofs --------------------------
(***************************************************************************)
(* Rows describe their files, the gate tells the truth and the splits      *)
(* follow one another in time and stay what they were, for any number of   *)
(* series, providers, days and overlapping ingests.  For the store, the    *)
(* argument follows a frame from its fetch to its row, and says what the   *)
(* process that holds it may rely on while no other process holds one of   *)
(* the same series.  For the cycle, it is that the ranges are set once,    *)
(* from real dates, before the first panel is read, and that a file which  *)
(* no two ingests write at once is never shorter than they were set from,  *)
(* as long as no vendor has changed what it served before.                 *)
(***************************************************************************)
EXTENDS SeriesStore, FiniteSetTheorems, WellFoundedInduction, TLAPS

At(i) == Order[job[i].at]
Holding(i) == job[i].step \in {"write", "fill", "upsert"}

\* The days reach as far as day n.
Reach(days, n) == \E d \in days : n <= d

\* What a process holds between a fetch and a row was published: its vendor, which may have
\* dropped early days since, still serves days as late.
HeldWasPublished ==
  \A i \in Ingests :
    /\ Holding(i) => /\ job[i].held.days # {}
                     /\ \A d \in job[i].held.days : Reach(vendor[At(i)].days, d)
    /\ ~Holding(i) => job[i].held = NoFrame

\* Two processes that hold a frame of one series know of each other, in the model.
SharingIsNoted ==
  \A i, j \in Ingests :
    i # j /\ Holding(i) /\ Holding(j) /\ At(i) = At(j) => ~job[i].alone

\* What a process that had the series to itself has written is there until its row is.
WrittenAlone ==
  \A i \in Ingests : job[i].step = "upsert" /\ job[i].alone => file[At(i)] = job[i].held

\* Nothing is published ahead of its day.  A file that can be read has prices, and a row was
\* written once, of published ones.
StoreIsReal ==
  \A s \in Series :
    /\ vendor[s].days \subseteq 1..now
    /\ file[s] = NoFrame \/ file[s].days # {}
    /\ row[s] # NoRow => Reach(vendor[s].days, row[s].fresh) /\ row[s].at \in 1..stamp

\* While no two processes have written a series, its newest row is no newer than any frame
\* fetched since, nor than its file.
NeverCrossed ==
  \A s \in Series \ crossed :
    /\ \A i \in Ingests : Holding(i) /\ At(i) = s =>
         job[i].alone /\ (row[s] # NoRow => Reach(job[i].held.days, row[s].fresh))
    /\ row[s] # NoRow => \/ Reach(file[s].days, row[s].fresh)
                         \/ Halfway(s) /\ file[s] = NoFrame

StoreInv ==
  /\ HeldWasPublished /\ SharingIsNoted /\ WrittenAlone
  /\ StoreIsReal /\ NeverCrossed /\ RowDescribesFile

\* Past the gate every instrument has a row, and what is looked up and read is real.
LookupsAreReal ==
  /\ pc # "gate" => Missing = {}
  /\ pc = "files" =>
       /\ refs \in [Universe -> Series]
       /\ DOMAIN frames \subseteq Universe
       /\ \A k \in DOMAIN frames : frames[k] \in Frame /\ frames[k].days # {}

Allocated == \E start, end \in Int : ranges = SplitRanges(start, end)

\* The splits are allocated once, before the first panel, and every panel is within its own.
ReadsAreInRange ==
  /\ pc = "ready" \/ split # "none" => Allocated
  /\ pc = "gate" => split = "none"
  /\ pc \in {"gate", "rows", "files"} /\ split = "none" => \A p \in Splits : reads[p] = {}
  /\ \A p \in Splits : \A panel \in reads[p] :
       Allocated /\ panel.days \subseteq Span(ranges[p])

CycleInv == LookupsAreReal /\ ReadsAreInRange

IInv == TypeOK /\ StoreInv /\ CycleInv

-----------------------------------------------------------------------------
\* A non-empty set of natural numbers has a least one.
LEMMA LeastOfNat ==
  ASSUME NEW S \in SUBSET Nat, S # {}
  PROVE  \E x \in S : \A y \in S : x <= y
<1> DEFINE Less == {ss \in Nat \X Nat : ss[1] < ss[2]}
<1>1. Less = OpToRel(<, Nat)
  BY DEF OpToRel
<1>2. IsWellFoundedOn(Less, Nat)
  BY <1>1, NatLessThanWellFounded
<1> HIDE DEF Less
<1>3. PICK x \in S : \A y \in S : ~(<<y, x>> \in Less)
  BY <1>2, WFMin
<1>4. ASSUME NEW y \in S PROVE x <= y
  <2>1. ~(<<y, x>> \in Less)
    BY <1>3
  <2> QED
    BY <2>1 DEF Less
<1> QED
  BY <1>3, <1>4

\* A non-empty bounded set of natural numbers has a greatest one.
LEMMA GreatestOfBounded ==
  ASSUME NEW n \in Nat, NEW S \in SUBSET (0..n), S # {}
  PROVE  \E x \in S : \A y \in S : x >= y
<1> DEFINE T == {n - x : x \in S}
<1>1. T \in SUBSET Nat
  OBVIOUS
<1>0. T # {}
  OBVIOUS
<1> HIDE DEF T
<1>2. PICK t \in T : \A u \in T : t <= u
  BY <1>0, <1>1, LeastOfNat
<1>3. PICK x \in S : t = n - x
  BY DEF T
<1>4. ASSUME NEW y \in S PROVE x >= y
  <2>1. n - y \in T
    BY DEF T
  <2> QED
    BY <2>1, <1>2, <1>3
<1> QED
  BY <1>4

\* The first and the last of a set of days.
LEMMA MinMaxOfDays ==
  ASSUME NEW S \in SUBSET Days, S # {}
  PROVE  /\ Max(S) \in S /\ \A d \in S : d <= Max(S)
         /\ Min(S) \in S /\ \A d \in S : Min(S) <= d
<1>1. S \in SUBSET (0..LastDay) /\ S \in SUBSET Nat /\ LastDay \in Nat
  BY StoreAssumption DEF Days
<1>2. \E x \in S : \A y \in S : x >= y
  BY <1>1, GreatestOfBounded
<1>3. \E x \in S : \A y \in S : x <= y
  BY <1>1, LeastOfNat
<1>4. Max(S) \in S /\ \A y \in S : Max(S) >= y
  BY <1>2 DEF Max
<1>5. Min(S) \in S /\ \A y \in S : Min(S) <= y
  BY <1>3 DEF Min
<1> QED
  BY <1>1, <1>4, <1>5

\* There is a series, and ingest_all is always at one.
LEMMA SeriesFacts ==
  /\ Series # {} /\ Universe # {} /\ Len(Order) \in Nat /\ 1 \in 1..Len(Order)
  /\ \A n \in 1..Len(Order) : Order[n] \in Series
  /\ TypeOK => \A i \in Ingests : At(i) \in Series
<1>1. Order \in Seq(Series) /\ Order # <<>>
  BY StoreAssumption
<1>2. Len(Order) \in Nat /\ DOMAIN Order = 1..Len(Order) /\ 1 \in 1..Len(Order)
  BY <1>1
<1>3. \A n \in 1..Len(Order) : Order[n] \in Series
  BY <1>1, <1>2
<1> QED
  BY <1>2, <1>3 DEF Universe, TypeOK, At

\* The fractions of the splits leave something to the third.
LEMMA Fractions ==
  DiscoveryPct \in Nat /\ RefinementPct \in Nat /\ DiscoveryPct + RefinementPct <= 94
BY StoreAssumption DEF SplitsConfig

\* Two shares of something together are never all of it.
LEMMA SharesAreLess ==
  ASSUME NEW n \in Nat, n > 0
  PROVE  /\ (n * DiscoveryPct) \div 100 \in Int /\ (n * RefinementPct) \div 100 \in Int
         /\ (n * DiscoveryPct) \div 100 + (n * RefinementPct) \div 100 < n
<1> DEFINE x == n * DiscoveryPct
<1> DEFINE y == n * RefinementPct
<1>1. x \in Nat /\ y \in Nat
  BY Fractions
<1>2. x + y = n * (DiscoveryPct + RefinementPct)
  BY Fractions
<1>3. n * (DiscoveryPct + RefinementPct) <= n * 94
  BY Fractions
<1> HIDE DEF x, y
<1>4. /\ 100 * (x \div 100) <= x /\ 100 * (y \div 100) <= y
      /\ x \div 100 \in Nat /\ y \div 100 \in Nat
  BY <1>1
<1>5. x + y < 100 * n
  BY <1>1, <1>2, <1>3
<1>6. x \div 100 + y \div 100 < n
  BY <1>1, <1>4, <1>5
<1> QED
  BY <1>4, <1>6 DEF x, y

\* The shares of a span move the splits forwards; of a negative one, between histories that
\* do not overlap, backwards, but never past its end.
LEMMA SharesOfSpan ==
  ASSUME NEW span \in Int
  PROVE  /\ Share(span, DiscoveryPct) \in Int /\ Share(span, RefinementPct) \in Int
         /\ span >= 0 => Share(span, DiscoveryPct) >= 0 /\ Share(span, RefinementPct) >= 0
         /\ span < 0 => span < Share(span, DiscoveryPct) + Share(span, RefinementPct)
<1>1. CASE span >= 0
  <2> DEFINE x == span * DiscoveryPct
  <2> DEFINE y == span * RefinementPct
  <2>1. x \in Nat /\ y \in Nat
    BY <1>1, Fractions
  <2>2. Share(span, DiscoveryPct) = x \div 100 /\ Share(span, RefinementPct) = y \div 100
    BY <1>1 DEF Share
  <2> HIDE DEF x, y
  <2>3. x \div 100 \in Nat /\ y \div 100 \in Nat
    BY <2>1
  <2> QED
    BY <1>1, <2>2, <2>3
<1>2. CASE span < 0
  <2> DEFINE x == ((-span) * DiscoveryPct) \div 100
  <2> DEFINE y == ((-span) * RefinementPct) \div 100
  <2>1. -span \in Nat /\ -span > 0
    BY <1>2
  <2>2. x \in Int /\ y \in Int /\ x + y < -span
    BY <2>1, SharesAreLess
  <2>3. Share(span, DiscoveryPct) = -x
    BY <1>2 DEF Share
  <2>4. Share(span, RefinementPct) = -y
    BY <1>2 DEF Share
  <2> HIDE DEF x, y
  <2> QED
    BY <1>2, <2>2, <2>3, <2>4
<1> QED
  BY <1>1, <1>2

\* No day is in two splits, and the splits follow one another, also when the histories do
\* not overlap and the span is negative.
LEMMA RangesInOrder ==
  ASSUME NEW start \in Int, NEW end \in Int,
         NEW i \in DOMAIN SplitOrder, NEW j \in DOMAIN SplitOrder, i < j,
         NEW d \in Span(SplitRanges(start, end)[SplitOrder[i]]),
         NEW e \in Span(SplitRanges(start, end)[SplitOrder[j]])
  PROVE  d < e
<1> DEFINE span == end - start
<1> DEFINE a == Share(span, DiscoveryPct)
<1> DEFINE b == Share(span, RefinementPct)
<1>1. /\ a \in Int /\ b \in Int
      /\ span >= 0 => a >= 0 /\ b >= 0
      /\ span < 0 => span < a + b
  BY SharesOfSpan
<1>2. /\ SplitRanges(start, end).discovery = [start |-> start, end |-> start + a]
      /\ SplitRanges(start, end).refinement = [start |-> start + a + 1, end |-> start + a + b]
      /\ SplitRanges(start, end).final_evaluation = [start |-> start + a + b + 1, end |-> end]
  BY DEF SplitRanges, DiscoveryEnd, RefinementEnd
<1>3. /\ SplitOrder[1] = "discovery" /\ SplitOrder[2] = "refinement"
      /\ SplitOrder[3] = "final_evaluation" /\ DOMAIN SplitOrder = 1..3
  BY DEF SplitOrder
<1>4. span = end - start
  OBVIOUS
<1> HIDE DEF a, b, span
<1>5. CASE i = 1 /\ j = 2
  BY <1>1, <1>2, <1>3, <1>5 DEF Span
<1>6. CASE i = 2 /\ j = 3
  BY <1>1, <1>2, <1>3, <1>6 DEF Span
<1>7. CASE i = 1 /\ j = 3
  <2>1. d \in start..(start + a) /\ e \in (start + a + b + 1)..end
    BY <1>2, <1>3, <1>7 DEF Span
  <2> QED
    BY <1>1, <1>4, <2>1
<1> QED
  BY <1>3, <1>5, <1>6, <1>7
\* A panel has only days that every instrument has, inside the range of its split.
LEMMA PanelFacts ==
  ASSUME LookupsAreReal, pc = "files", AllRead
  PROVE  JoinDays \ Holes \in SUBSET (Days \intersect Span(ranges[split]))
<1> SUFFICES ASSUME NEW d \in JoinDays, d \notin Holes
             PROVE  d \in Days /\ d \in Span(ranges[split])
  OBVIOUS
<1>1. PICK k \in Universe : TRUE
  BY SeriesFacts
<1>2. d \in Sliced(k)
  BY DEF Holes
<1>3. frames[k].days \in SUBSET Days
  BY DEF LookupsAreReal, AllRead, Frame
<1> QED
  BY <1>2, <1>3 DEF Sliced

-----------------------------------------------------------------------------
LEMMA InitIInv == Init => IInv
<1> SUFFICES ASSUME Init PROVE IInv
  OBVIOUS
<1>1. PICK setup \in Setups :
        /\ vendor = [s \in Series |-> [days |-> setup.published[s],
                                        synthetic |-> setup.kind[s] = "sample", edition |-> 0]]
        /\ keyOf = setup.key /\ kindOf = setup.kind /\ running = setup.ingests
  BY DEF Init
<1>2. /\ setup.published \in [Series -> SUBSET (1..FirstDay)] /\ setup.ingests \subseteq Ingests
      /\ setup.kind \in [Series -> VendorKinds]
      /\ LastDay \in Nat \ {0} /\ FirstDay \in 0..LastDay
  BY StoreAssumption DEF IsSetup
<1>3. 1..FirstDay \subseteq Days
  BY <1>2 DEF Days
<1>4. NoFrame \in Frame /\ NoRow \in Row
  BY <1>2 DEF NoFrame, NoRow, Frame, Row
<1>5. vendor \in [Series -> Frame]
  BY <1>1, <1>2, <1>3 DEF Frame
<1>6. TypeOK
  BY <1>1, <1>2, <1>4, <1>5, SeriesFacts DEF Init, TypeOK, Idle, Splits
<1>7. StoreInv
  BY <1>1, <1>2 DEF Init, StoreInv, HeldWasPublished, SharingIsNoted, WrittenAlone, StoreIsReal,
         NeverCrossed, RowDescribesFile, Holding, Idle
<1>8. CycleInv
  BY DEF Init, CycleInv, LookupsAreReal, ReadsAreInRange
<1> QED
  BY <1>6, <1>7, <1>8 DEF IInv

\* A frame that is fetched was published: it is one, and not the empty one.
LEMMA AdvanceType ==
  ASSUME TypeOK, NEW i \in Ingests
  PROVE  /\ Advance(i) \in [step : {"idle", "fetch", "write", "fill", "upsert"},
                            at : 1..Len(Order), held : Frame, alone : BOOLEAN]
         /\ Advance(i).step \in {"idle", "fetch"} /\ Advance(i).held = NoFrame
<1>1. NoFrame \in Frame
  BY DEF NoFrame, Frame
<1>2. job[i].at \in 1..Len(Order) /\ Len(Order) \in Nat
  BY SeriesFacts DEF TypeOK
<1>3. job[i].at # Len(Order) => job[i].at + 1 \in 1..Len(Order)
  BY <1>2
<1> QED
  BY <1>1, <1>3, SeriesFacts DEF Advance, Idle

\* The instruments stay what they are.
LEMMA UniverseIsFixed == [Next]_vars => Universe' = Universe /\ keyOf' = keyOf
BY DEF Next, NextDay, IngestStep, StartIngest, FetchNothing, Fetch, OpenFile, WriteFile,
       UpsertRow, StopIngest, CycleStep, GatePasses, SelectRows, ReadFile, ReadFails,
       AllocateSplits, StartRead, Deliver, RefusePanel, vars, world, Universe

\* Types are kept by every step.
LEMMA TypeStep == IInv /\ [Next]_vars => TypeOK'
<1> SUFFICES ASSUME IInv, [Next]_vars PROVE TypeOK'
  OBVIOUS
<1>u. Universe' = Universe
  BY UniverseIsFixed
<1> USE <1>u DEF TypeOK
<1>0. TypeOK /\ HeldWasPublished
  BY DEF IInv, StoreInv
<1>1. CASE NextDay
  <2>1. now + 1 \in 0..LastDay /\ now + 1 \in Days /\ LastDay \in Nat
    BY <1>0, <1>1, StoreAssumption DEF NextDay, Days
  <2>2. vendor' \in [Series -> Frame]
    <3>1. SampleWindow(now + 1) \in SUBSET Days
      BY DEF SampleWindow
    <3>2. PICK relabelled \in SUBSET Relabelled, revised \in SUBSET Kind("revises") :
            vendor' = [s \in Series |->
              [days |-> IF s \in Kind("sample") THEN SampleWindow(now + 1)
                        ELSE vendor[s].days \union {now + 1},
               synthetic |-> vendor[s].synthetic \/ s \in relabelled,
               edition |-> vendor[s].edition
                             + IF s \in Kind("sample") \union revised THEN 1 ELSE 0]]
      BY <1>1 DEF NextDay
    <3> SUFFICES ASSUME NEW s \in Series PROVE vendor'[s] \in Frame
      BY <3>2
    <3>3. vendor[s].days \in SUBSET Days /\ vendor[s].synthetic \in BOOLEAN
          /\ vendor[s].edition \in Nat
      BY <1>0 DEF Frame
    <3>4. vendor[s].edition + (IF s \in Kind("sample") \union revised THEN 1 ELSE 0) \in Nat
      BY <3>3
    <3>5. /\ (IF s \in Kind("sample") THEN SampleWindow(now + 1)
              ELSE vendor[s].days \union {now + 1}) \in SUBSET Days
          /\ (vendor[s].synthetic \/ s \in relabelled) \in BOOLEAN
      BY <2>1, <3>1, <3>3
    <3> QED
      BY <3>2, <3>4, <3>5 DEF Frame
  <2> QED
    BY <1>0, <1>1, <2>1, <2>2 DEF NextDay, store, history, cycle
<1>2. ASSUME NEW i \in Ingests, IngestStep(i) PROVE TypeOK'
  <2>0. At(i) \in Series /\ Advance(i) \in [step : {"idle", "fetch", "write", "fill", "upsert"},
                            at : 1..Len(Order), held : Frame, alone : BOOLEAN]
    BY <1>0, SeriesFacts, AdvanceType
  <2>1. CASE StartIngest(i)
    BY <1>0, <2>1 DEF StartIngest, world, store, history, cycle
  <2>2. CASE FetchNothing(i)
    BY <1>0, <2>0, <2>2 DEF FetchNothing, world, store, history, cycle
  <2>3. CASE Fetch(i)
    <3>1. vendor[At(i)] \in Frame
      BY <1>0, <2>0
    <3>2. job' \in [Ingests -> [step : {"idle", "fetch", "write", "fill", "upsert"},
                                at : 1..Len(Order), held : Frame, alone : BOOLEAN]]
      <4> SUFFICES ASSUME NEW j \in Ingests
                   PROVE  job'[j] \in [step : {"idle", "fetch", "write", "fill", "upsert"},
                                       at : 1..Len(Order), held : Frame, alone : BOOLEAN]
        BY <2>3 DEF Fetch
      <4>1. CASE j = i
        BY <1>0, <2>3, <3>1, <4>1 DEF Fetch, At
      <4>2. CASE j # i
        BY <1>0, <2>3, <4>2 DEF Fetch
      <4> QED
        BY <4>1, <4>2
    <3> QED
      BY <1>0, <2>0, <2>3, <3>2 DEF Fetch, At, world, store, cycle
  <2>4. CASE OpenFile(i)
    BY <1>0, <2>0, <2>4 DEF OpenFile, At, NoFrame, Frame, world, history, cycle
  <2>5. CASE WriteFile(i)
    <3>1. PICK frame \in {job[i].held, NoFrame} : file' = [file EXCEPT ![At(i)] = frame]
      BY <2>5 DEF WriteFile, At
    <3>2. job[i].held \in Frame /\ NoFrame \in Frame
      BY <1>0 DEF NoFrame, Frame
    <3>3. frame \in Frame
      BY <3>1, <3>2
    <3> QED
      BY <1>0, <2>0, <2>5, <3>1, <3>3 DEF WriteFile, world, history, cycle
  <2>6. CASE UpsertRow(i)
    <3>1. job[i].held.days \in SUBSET Days /\ job[i].held.days # {}
          /\ job[i].held.synthetic \in BOOLEAN
      BY <1>0, <2>6 DEF HeldWasPublished, Holding, UpsertRow, Frame
    <3>2. Max(job[i].held.days) \in 0..LastDay
      BY <3>1, MinMaxOfDays, StoreAssumption DEF Days
    <3>3. [fresh |-> Max(job[i].held.days), synthetic |-> job[i].held.synthetic,
           at |-> stamp + 1] \in Row /\ stamp + 1 \in Nat
      BY <1>0, <3>1, <3>2 DEF Row
    <3> QED
      BY <1>0, <2>0, <2>6, <3>3 DEF UpsertRow, At, world, cycle
  <2>7. CASE StopIngest(i)
    <3>1. Idle \in [step : {"idle", "fetch", "write", "fill", "upsert"},
                    at : 1..Len(Order), held : Frame, alone : BOOLEAN]
      BY SeriesFacts DEF Idle, NoFrame, Frame
    <3> QED
      BY <1>0, <2>0, <2>7, <3>1 DEF StopIngest, At, world, store, cycle
  <2> QED
    BY <1>2, <2>1, <2>2, <2>3, <2>4, <2>5, <2>6, <2>7 DEF IngestStep
<1>3. CASE CycleStep
  <2> USE DEF world, store, history
  <2>1. CASE GatePasses
    BY <1>0, <2>1 DEF GatePasses
  <2>2. CASE SelectRows
    BY <1>0, <2>2 DEF SelectRows
  <2>3. CASE ReadFile
    BY <1>0, <2>3 DEF ReadFile
  <2>4. CASE ReadFails
    BY <1>0, <2>4 DEF ReadFails
  <2>5. CASE AllocateSplits
    BY <1>0, <2>5 DEF AllocateSplits
  <2>6. CASE StartRead
    BY <1>0, <2>6 DEF StartRead
  <2>7. CASE Deliver
    <3>1. Universe # {} /\ split \in Splits
      BY <1>0, <2>7, SeriesFacts DEF Deliver
    <3>2. JoinDays \ Holes \subseteq Days
      BY <1>0, <2>7, PanelFacts DEF IInv, CycleInv, Deliver
    <3>3. \A k \in Universe : frames[k].edition \in Nat
      BY <2>7 DEF IInv, CycleInv, LookupsAreReal, Deliver, AllRead, Frame
    <3>4. Panel \in [days : SUBSET Days, editions : [Universe -> Nat]]
      BY <3>2, <3>3 DEF Panel
    <3>5. reads' = [reads EXCEPT ![split] = @ \union {Panel}] /\ Universe' = Universe
      BY <2>7 DEF Deliver, Universe
    <3>6. reads' \in [Splits -> SUBSET [days : SUBSET Days, editions : [Universe -> Nat]]]
      BY <1>0, <3>1, <3>4, <3>5
    <3> QED
      BY <1>0, <2>7, <3>5, <3>6 DEF Deliver, Forget
  <2>8. CASE RefusePanel
    BY <1>0, <2>8 DEF RefusePanel
  <2> QED
    BY <1>3, <2>1, <2>2, <2>3, <2>4, <2>5, <2>6, <2>7, <2>8 DEF CycleStep
<1>4. CASE UNCHANGED vars
  BY <1>0, <1>4 DEF vars, world, store, history, cycle
<1> QED
  BY <1>0, <1>1, <1>2, <1>3, <1>4 DEF Next

-----------------------------------------------------------------------------
LEMMA HoldersHold ==
  ASSUME HeldWasPublished, NEW s, NEW j \in Ingests
  PROVE  j \in Holders(s) <=> Holding(j) /\ At(j) = s
BY DEF HeldWasPublished, Holders, At, NoFrame

\* The cycle reads what the ingests write and writes none of it.
LEMMA StoreStable ==
  ASSUME StoreInv, UNCHANGED <<now, vendor, file, row, stamp, job, torn, crossed>>
  PROVE  StoreInv'
BY DEF StoreInv, HeldWasPublished, SharingIsNoted, WrittenAlone, StoreIsReal,
       NeverCrossed, RowDescribesFile, Holding, At, Halfway

\* Every vendor serves the new day, and none a later one: whatever it drops, it reaches as
\* far as before.
LEMMA VendorsReachOn ==
  ASSUME TypeOK, StoreIsReal, NextDay, NEW s \in Series
  PROVE  /\ vendor'[s].days \subseteq 1..now'
         /\ \A n \in Int : Reach(vendor[s].days, n) => Reach(vendor'[s].days, n)
<1>1. /\ now \in Nat /\ now' = now + 1 /\ now + 1 \in Days /\ SampleDays \in Nat \ {0}
  BY StoreAssumption DEF TypeOK, NextDay, Days
<1>2. /\ now + 1 \in SampleWindow(now + 1)
      /\ SampleWindow(now + 1) \subseteq 1..(now + 1)
  BY <1>1, StoreAssumption DEF SampleWindow, Days
<1>3. \/ vendor'[s].days = SampleWindow(now + 1)
      \/ vendor'[s].days = vendor[s].days \union {now + 1}
  BY DEF NextDay
<1>4. vendor[s].days \subseteq 1..now
  BY DEF StoreIsReal
<1>5. /\ vendor'[s].days \subseteq 1..now'
      /\ now + 1 \in vendor'[s].days
  BY <1>1, <1>2, <1>3, <1>4
<1>6. ASSUME NEW n \in Int, Reach(vendor[s].days, n) PROVE Reach(vendor'[s].days, n)
  <2>1. PICK d \in vendor[s].days : n <= d
    BY <1>6 DEF Reach
  <2>2. CASE d \in vendor'[s].days
    BY <2>1, <2>2 DEF Reach
  <2>3. CASE d \notin vendor'[s].days
    <3>1. d \in 1..now /\ n <= now + 1
      BY <1>1, <1>4, <2>1
    <3> QED
      BY <1>5, <3>1 DEF Reach
  <2> QED
    BY <2>2, <2>3
<1> QED
  BY <1>5, <1>6

LEMMA StoreNextDay == TypeOK /\ StoreInv /\ NextDay => StoreInv'
<1> SUFFICES ASSUME TypeOK, StoreInv, NextDay PROVE StoreInv'
  OBVIOUS
<1>1. UNCHANGED <<file, row, stamp, job, torn, crossed>>
  BY DEF NextDay, store, history
<1>2. \A s \in Series :
        /\ vendor'[s].days \subseteq 1..now'
        /\ \A n \in Int : Reach(vendor[s].days, n) => Reach(vendor'[s].days, n)
  BY VendorsReachOn DEF StoreInv
<1>3. \A i \in Ingests : At(i) \in Series
  BY SeriesFacts
<1>4. HeldWasPublished'
  <2>1. \A i \in Ingests : job[i].held.days \subseteq Int
    BY StoreAssumption DEF TypeOK, Frame, Days
  <2> QED
    BY <1>1, <1>2, <1>3, <2>1 DEF StoreInv, HeldWasPublished, Holding, At
<1>5. StoreIsReal'
  <2>1. \A s \in Series : row[s].fresh \in Int
    BY StoreAssumption DEF TypeOK, Row
  <2> QED
    BY <1>1, <1>2, <2>1 DEF StoreInv, StoreIsReal
<1>6. (SharingIsNoted /\ WrittenAlone /\ NeverCrossed /\ RowDescribesFile)'
  BY <1>1 DEF StoreInv, SharingIsNoted, WrittenAlone, NeverCrossed, RowDescribesFile,
              Holding, At, Halfway
<1> QED
  BY <1>4, <1>5, <1>6 DEF StoreInv

\* The start of a run and an empty fetch move a process that holds nothing.
LEMMA StoreIdleStep ==
  ASSUME TypeOK, StoreInv, NEW i \in Ingests, StartIngest(i) \/ FetchNothing(i)
  PROVE  StoreInv'
<1>1. UNCHANGED <<now, vendor, file, row, stamp, torn, crossed>>
  BY DEF StartIngest, FetchNothing, world, store, history
<1>2. /\ ~Holding(i) /\ ~Holding(i)' /\ job'[i].held = NoFrame
      /\ job'[i].step \notin {"fill", "upsert"} /\ job[i].step \notin {"fill", "upsert"}
  BY AdvanceType DEF StartIngest, FetchNothing, TypeOK, Holding, StoreInv, HeldWasPublished
<1>3. \A j \in Ingests : j # i => job'[j] = job[j]
  BY DEF StartIngest, FetchNothing, TypeOK
<1>4. \A j \in Ingests : j # i => At(j)' = At(j) /\ (Holding(j)' <=> Holding(j))
  BY <1>3 DEF At, Holding
<1>5. \A s \in Series : Halfway(s) => Halfway(s)'
  BY <1>1, <1>2, <1>3 DEF Halfway
<1>6. HeldWasPublished'
  BY <1>1, <1>2, <1>3, <1>4 DEF StoreInv, HeldWasPublished
<1>7. SharingIsNoted'
  BY <1>2, <1>3, <1>4 DEF StoreInv, SharingIsNoted
<1>8. WrittenAlone'
  BY <1>1, <1>2, <1>3, <1>4 DEF StoreInv, WrittenAlone
<1>9. StoreIsReal'
  BY <1>1 DEF StoreInv, StoreIsReal
<1>10. NeverCrossed'
  BY <1>1, <1>2, <1>3, <1>4, <1>5 DEF StoreInv, NeverCrossed
<1>11. RowDescribesFile'
  BY <1>1, <1>5 DEF StoreInv, RowDescribesFile
<1> QED
  BY <1>6, <1>7, <1>8, <1>9, <1>10, <1>11 DEF StoreInv

\* A fetch makes a holder; whoever held a frame of the series is no longer alone.
LEMMA StoreFetch ==
  ASSUME TypeOK, StoreInv, NEW i \in Ingests, Fetch(i)
  PROVE  StoreInv'
<1>1. UNCHANGED <<now, vendor, file, row, stamp, torn>> /\ crossed \subseteq crossed'
  BY DEF Fetch, world, store
<1>2. /\ ~Holding(i) /\ Holding(i)' /\ job'[i].step = "write" /\ job[i].step = "fetch"
      /\ At(i)' = At(i) /\ job'[i].held = vendor[At(i)] /\ vendor[At(i)].days # {}
      /\ job'[i].alone = (Holders(At(i)) = {})
  BY DEF Fetch, TypeOK, Holding, At
<1>3. \A j \in Ingests : j # i =>
        /\ job'[j].step = job[j].step /\ job'[j].held = job[j].held
        /\ job'[j].at = job[j].at /\ At(j)' = At(j) /\ (Holding(j)' <=> Holding(j))
        /\ job'[j].alone = (job[j].alone /\ j \notin Holders(At(i)))
  BY DEF Fetch, TypeOK, Holding, At
<1>4. \A s \in Series : Halfway(s) => Halfway(s)'
  BY <1>1, <1>2, <1>3 DEF Halfway
<1>5. HeldWasPublished'
  <2>1. \A d \in vendor[At(i)].days : Reach(vendor[At(i)].days, d)
    <3>1. vendor[At(i)].days \subseteq 1..now /\ now \in Nat
      BY SeriesFacts DEF StoreInv, StoreIsReal, TypeOK
    <3>2. \A d \in vendor[At(i)].days : d <= d
      BY <3>1
    <3> QED
      BY <3>2 DEF Reach
  <2> QED
    BY <1>1, <1>2, <1>3, <2>1 DEF StoreInv, HeldWasPublished
<1>6. \A j \in Ingests : j \in Holders(At(i)) <=> Holding(j) /\ At(j) = At(i)
  BY HoldersHold DEF StoreInv
<1>7. SharingIsNoted'
  <2> SUFFICES ASSUME NEW j \in Ingests, NEW k \in Ingests, j # k,
                      Holding(j)', Holding(k)', At(j)' = At(k)'
               PROVE  ~job'[j].alone
    BY DEF SharingIsNoted
  <2>1. CASE j = i
    <3>1. k \in Holders(At(i))
      BY <1>2, <1>3, <1>6, <2>1
    <3> QED
      BY <1>2, <2>1, <3>1
  <2>2. CASE k = i
    BY <1>2, <1>3, <1>6, <2>2
  <2>3. CASE j # i /\ k # i
    BY <1>3, <2>3 DEF StoreInv, SharingIsNoted
  <2> QED
    BY <2>1, <2>2, <2>3
<1>8. WrittenAlone'
  BY <1>1, <1>2, <1>3 DEF StoreInv, WrittenAlone
<1>9. StoreIsReal'
  BY <1>1 DEF StoreInv, StoreIsReal
<1>10. NeverCrossed'
  <2> SUFFICES ASSUME NEW s \in Series, s \notin crossed'
               PROVE  /\ \A j \in Ingests : Holding(j)' /\ At(j)' = s =>
                           /\ job'[j].alone
                           /\ row[s] # NoRow => Reach(job'[j].held.days, row[s].fresh)
                      /\ row[s] # NoRow => \/ Reach(file[s].days, row[s].fresh)
                                           \/ Halfway(s)' /\ file[s] = NoFrame
    BY <1>1 DEF NeverCrossed
  <2>1. s \notin crossed
    BY <1>1
  <2>2. s = At(i) => Holders(At(i)) = {}
    BY DEF Fetch, At
  <2>3. row[s] # NoRow => Reach(vendor[s].days, row[s].fresh)
    BY DEF StoreInv, StoreIsReal
  <2>4. ASSUME NEW j \in Ingests, Holding(j)', At(j)' = s
        PROVE  job'[j].alone /\ (row[s] # NoRow => Reach(job'[j].held.days, row[s].fresh))
    <3>1. CASE j = i
      BY <1>2, <2>2, <2>3, <2>4, <3>1
    <3>2. CASE j # i
      <4>1. Holding(j) /\ At(j) = s
        BY <1>3, <2>4, <3>2
      <4>2. job[j].alone /\ (row[s] # NoRow => Reach(job[j].held.days, row[s].fresh))
        BY <2>1, <4>1 DEF StoreInv, NeverCrossed
      <4>3. j \notin Holders(At(i))
        BY <1>6, <2>2, <4>1
      <4> QED
        BY <1>3, <3>2, <4>2, <4>3
    <3> QED
      BY <3>1, <3>2
  <2> QED
    BY <1>4, <2>1, <2>4 DEF StoreInv, NeverCrossed
<1>11. RowDescribesFile'
  BY <1>1, <1>4 DEF StoreInv, RowDescribesFile
<1> QED
  BY <1>5, <1>7, <1>8, <1>9, <1>10, <1>11 DEF StoreInv

\* The file is opened, and then filled, by process i.
LEMMA StoreFile ==
  ASSUME TypeOK, StoreInv, NEW i \in Ingests, OpenFile(i) \/ WriteFile(i)
  PROVE  StoreInv'
<1>s. PICK s \in Series : s = At(i)
  BY SeriesFacts
<1>0. s = At(i) /\ Holding(i)
  BY <1>s DEF OpenFile, WriteFile, Holding
<1>1. UNCHANGED <<now, vendor, row, stamp, torn, crossed>>
  BY DEF OpenFile, WriteFile, world, history
<1>2. /\ job'[i].held = job[i].held /\ job'[i].at = job[i].at /\ job'[i].alone = job[i].alone
      /\ job'[i].step \in {"fill", "upsert"}
      /\ \A j \in Ingests : j # i => job'[j] = job[j]
  BY DEF OpenFile, WriteFile, TypeOK
<1>3. \A j \in Ingests : /\ At(j)' = At(j) /\ (Holding(j)' <=> Holding(j))
                         /\ job'[j].held = job[j].held /\ job'[j].alone = job[j].alone
  BY <1>0, <1>2 DEF At, Holding
<1>4. /\ \A t \in Series : t # s => file'[t] = file[t]
      /\ file'[s] = NoFrame \/ file'[s] = job[i].held
      /\ job'[i].step = "upsert" /\ job[i].alone => file'[s] = job[i].held
  <2>1. CASE OpenFile(i)
    BY <1>0, <2>1 DEF OpenFile, TypeOK, At
  <2>2. CASE WriteFile(i)
    BY <1>0, <2>2 DEF WriteFile, TypeOK, At
  <2> QED
    BY <2>1, <2>2
<1>5. \A t \in Series : Halfway(t) => Halfway(t)'
  BY <1>1, <1>2 DEF Halfway
<1>6. Halfway(s)'
  BY <1>0, <1>2, <1>3 DEF Halfway, At
<1>7. job[i].held.days # {}
  BY <1>0 DEF StoreInv, HeldWasPublished
<1>8. HeldWasPublished'
  BY <1>1, <1>3 DEF StoreInv, HeldWasPublished
<1>9. SharingIsNoted'
  BY <1>3 DEF StoreInv, SharingIsNoted
<1>10. WrittenAlone'
  <2> SUFFICES ASSUME NEW j \in Ingests, job'[j].step = "upsert", job'[j].alone
               PROVE  file'[At(j)'] = job'[j].held
    BY DEF WrittenAlone
  <2>1. CASE j = i
    BY <1>0, <1>2, <1>3, <1>4, <2>1
  <2>2. CASE j # i
    <3>1. Holding(j) /\ job[j].step = "upsert" /\ job[j].alone
      BY <1>2, <2>2 DEF Holding
    <3>2. At(j) # s
      BY <1>0, <2>2, <3>1 DEF StoreInv, SharingIsNoted
    <3>3. At(j) \in Series
      BY SeriesFacts
    <3> QED
      BY <1>3, <1>4, <3>1, <3>2, <3>3 DEF StoreInv, WrittenAlone
  <2> QED
    BY <2>1, <2>2
<1>11. StoreIsReal'
  BY <1>1, <1>4, <1>7 DEF StoreInv, StoreIsReal
<1>12. NeverCrossed'
  <2> SUFFICES ASSUME NEW t \in Series, t \notin crossed
               PROVE  /\ \A j \in Ingests : Holding(j)' /\ At(j)' = t =>
                           /\ job'[j].alone
                           /\ row[t] # NoRow => Reach(job'[j].held.days, row[t].fresh)
                      /\ row[t] # NoRow => \/ Reach(file'[t].days, row[t].fresh)
                                           \/ Halfway(t)' /\ file'[t] = NoFrame
    BY <1>1 DEF NeverCrossed
  <2>1. \A j \in Ingests : Holding(j)' /\ At(j)' = t =>
           job'[j].alone /\ (row[t] # NoRow => Reach(job'[j].held.days, row[t].fresh))
    BY <1>3 DEF StoreInv, NeverCrossed
  <2>2. CASE t # s
    BY <1>4, <1>5, <2>1, <2>2 DEF StoreInv, NeverCrossed
  <2>3. CASE t = s
    <3>1. row[t] # NoRow => Reach(job[i].held.days, row[t].fresh)
      BY <1>0, <2>3 DEF StoreInv, NeverCrossed
    <3>2. file'[s] = job[i].held => (row[t] # NoRow => Reach(file'[t].days, row[t].fresh))
      BY <2>3, <3>1
    <3> QED
      BY <1>4, <1>6, <2>1, <2>3, <3>2
  <2> QED
    BY <2>2, <2>3
<1>13. RowDescribesFile'
  BY <1>1, <1>4, <1>5, <1>6 DEF StoreInv, RowDescribesFile
<1> QED
  BY <1>8, <1>9, <1>10, <1>11, <1>12, <1>13 DEF StoreInv

\* The row is written by process i, whose frame is in the file if nobody else held one.
LEMMA StoreUpsert ==
  ASSUME TypeOK, StoreInv, NEW i \in Ingests, UpsertRow(i)
  PROVE  StoreInv'
<1>s. PICK s \in Series : s = At(i)
  BY SeriesFacts
<1>0. s = At(i) /\ Holding(i) /\ job[i].step = "upsert"
  BY <1>s DEF UpsertRow, Holding
<1>1. UNCHANGED <<now, vendor, file, crossed>> /\ stamp' = stamp + 1 /\ stamp \in Nat
  BY DEF UpsertRow, world, TypeOK
<1>2. ~Holding(i)' /\ job'[i].held = NoFrame
  BY AdvanceType DEF UpsertRow, TypeOK, Holding
<1>3. \A j \in Ingests : j # i =>
        job'[j] = job[j] /\ At(j)' = At(j) /\ (Holding(j)' <=> Holding(j))
  BY DEF UpsertRow, TypeOK, At, Holding
<1>4. /\ \A t \in Series : t # s => row'[t] = row[t]
      /\ row'[s].fresh = Max(job[i].held.days) /\ row'[s].synthetic = job[i].held.synthetic
      /\ row'[s].at = stamp + 1
  BY <1>0 DEF UpsertRow, TypeOK, At
<1>5. torn' = IF job[i].alone THEN torn \ {s} ELSE torn \union {s}
  BY <1>0 DEF UpsertRow, At
<1>6. job[i].held.days \in SUBSET Days /\ job[i].held.days # {}
      /\ \A d \in job[i].held.days : Reach(vendor[s].days, d)
  BY <1>0 DEF StoreInv, HeldWasPublished, TypeOK, Frame
<1>7. /\ Max(job[i].held.days) \in job[i].held.days
      /\ Reach(job[i].held.days, Max(job[i].held.days))
  <2>1. Max(job[i].held.days) \in job[i].held.days /\ Max(job[i].held.days) \in Days
    BY <1>6, MinMaxOfDays
  <2>2. Max(job[i].held.days) <= Max(job[i].held.days)
    BY <2>1, StoreAssumption DEF Days
  <2> QED
    BY <2>1, <2>2 DEF Reach
<1>8. \A t \in Series : t # s => (Halfway(t) => Halfway(t)')
  BY <1>0, <1>2, <1>3, <1>5 DEF Halfway, At, Holding
<1>9. job[i].alone => file[s] = job[i].held
  BY <1>0 DEF StoreInv, WrittenAlone
<1>10. ~job[i].alone => Halfway(s)'
  BY <1>5 DEF Halfway
<1>11. s \notin crossed => job[i].alone
  BY <1>0 DEF StoreInv, NeverCrossed
<1>12. HeldWasPublished'
  BY <1>1, <1>2, <1>3 DEF StoreInv, HeldWasPublished
<1>13. SharingIsNoted'
  BY <1>2, <1>3 DEF StoreInv, SharingIsNoted
<1>14. WrittenAlone'
  BY <1>1, <1>2, <1>3 DEF StoreInv, WrittenAlone, Holding
<1>15. StoreIsReal'
  BY <1>0, <1>1, <1>4, <1>6, <1>7 DEF StoreInv, StoreIsReal
<1>16. NeverCrossed'
  <2> SUFFICES ASSUME NEW t \in Series, t \notin crossed
               PROVE  /\ \A j \in Ingests : Holding(j)' /\ At(j)' = t =>
                           /\ job'[j].alone
                           /\ row'[t] # NoRow => Reach(job'[j].held.days, row'[t].fresh)
                      /\ row'[t] # NoRow => \/ Reach(file[t].days, row'[t].fresh)
                                            \/ Halfway(t)' /\ file[t] = NoFrame
    BY <1>1 DEF NeverCrossed
  <2>1. CASE t # s
    BY <1>2, <1>3, <1>4, <1>8, <2>1 DEF StoreInv, NeverCrossed
  <2>2. CASE t = s
    <3>1. \A j \in Ingests : ~(Holding(j)' /\ At(j)' = t)
      BY <1>0, <1>2, <1>3, <1>11, <2>2 DEF StoreInv, SharingIsNoted
    <3>2. file[t].days = job[i].held.days /\ row'[t].fresh = Max(job[i].held.days)
      BY <1>4, <1>9, <1>11, <2>2
    <3>3. Reach(file[t].days, row'[t].fresh)
      BY <1>7, <3>2
    <3> QED
      BY <3>1, <3>3
  <2> QED
    BY <2>1, <2>2
<1>17. RowDescribesFile'
  <2> SUFFICES ASSUME NEW t \in Series
               PROVE  \/ row'[t] = NoRow \/ Halfway(t)'
                      \/ /\ file[t] # NoFrame
                         /\ row'[t].fresh = Max(file[t].days)
                         /\ row'[t].synthetic = file[t].synthetic
    BY <1>1 DEF RowDescribesFile
  <2>1. CASE t # s
    BY <1>4, <1>8, <2>1 DEF StoreInv, RowDescribesFile
  <2>2. CASE t = s
    BY <1>4, <1>6, <1>9, <1>10, <2>2 DEF NoFrame
  <2> QED
    BY <2>1, <2>2
<1> QED
  BY <1>12, <1>13, <1>14, <1>15, <1>16, <1>17 DEF StoreInv

\* A process that stops between the file and the row leaves the series torn.
LEMMA StoreStop ==
  ASSUME TypeOK, StoreInv, NEW i \in Ingests, StopIngest(i)
  PROVE  StoreInv'
<1>1. UNCHANGED <<now, vendor, file, row, stamp, crossed>>
  BY DEF StopIngest, world, store
<1>2. ~Holding(i)' /\ job'[i].held = NoFrame
  BY DEF StopIngest, TypeOK, Holding, Idle
<1>3. \A j \in Ingests : j # i =>
        job'[j] = job[j] /\ At(j)' = At(j) /\ (Holding(j)' <=> Holding(j))
  BY DEF StopIngest, TypeOK, At, Holding
<1>4. torn' = IF job[i].step \in {"fill", "upsert"} THEN torn \union {At(i)} ELSE torn
  BY DEF StopIngest, At
<1>5. \A s \in Series : Halfway(s) => Halfway(s)'
  BY <1>3, <1>4 DEF Halfway, At
<1>6. HeldWasPublished'
  BY <1>1, <1>2, <1>3 DEF StoreInv, HeldWasPublished
<1>7. SharingIsNoted'
  BY <1>2, <1>3 DEF StoreInv, SharingIsNoted
<1>8. WrittenAlone'
  BY <1>1, <1>2, <1>3 DEF StoreInv, WrittenAlone, Holding
<1>9. StoreIsReal'
  BY <1>1 DEF StoreInv, StoreIsReal
<1>10. NeverCrossed'
  BY <1>1, <1>2, <1>3, <1>5 DEF StoreInv, NeverCrossed
<1>11. RowDescribesFile'
  BY <1>1, <1>5 DEF StoreInv, RowDescribesFile
<1> QED
  BY <1>6, <1>7, <1>8, <1>9, <1>10, <1>11 DEF StoreInv

LEMMA StoreStep == IInv /\ [Next]_vars => StoreInv'
<1> SUFFICES ASSUME IInv, [Next]_vars PROVE StoreInv'
  OBVIOUS
<1>0. TypeOK /\ StoreInv
  BY DEF IInv
<1>1. CASE NextDay
  BY <1>0, <1>1, StoreNextDay
<1>2. ASSUME NEW i \in Ingests, IngestStep(i) PROVE StoreInv'
  BY <1>0, <1>2, StoreIdleStep, StoreFetch, StoreFile, StoreUpsert, StoreStop DEF IngestStep
<1>3. CASE CycleStep
  BY <1>0, <1>3, StoreStable
     DEF CycleStep, GatePasses, SelectRows, ReadFile, ReadFails, AllocateSplits, StartRead,
         Deliver, RefusePanel, world, store, history
<1>4. CASE UNCHANGED vars
  BY <1>0, <1>4, StoreStable DEF vars, world, store, history
<1> QED
  BY <1>0, <1>1, <1>2, <1>3, <1>4 DEF Next, TypeOK

-----------------------------------------------------------------------------
\* Which of the rows of an instrument is the last ingested is well-defined.
LEMMA LastIngestedIsARow ==
  ASSUME TypeOK, StoreIsReal, Missing = {}, NEW k \in Universe
  PROVE  /\ LastIngested(k) \in Series /\ keyOf[LastIngested(k)] = k
         /\ row[LastIngested(k)] # NoRow
<1> DEFINE T == {row[s].at : s \in RowsOf(k)}
<1>1. RowsOf(k) # {}
  BY DEF Missing
<1>2. T # {} /\ T \in SUBSET (0..stamp) /\ stamp \in Nat
  BY <1>1 DEF TypeOK, StoreIsReal, RowsOf
<1>3. PICK last \in T : \A n \in T : last >= n
  <2> HIDE DEF T
  <2> QED
    BY <1>2, GreatestOfBounded
<1>4. PICK s \in RowsOf(k) : last = row[s].at
  BY <1>3
<1>5. \A t \in RowsOf(k) : row[t].at <= row[s].at
  BY <1>2, <1>3, <1>4
<1>6. LastIngested(k) \in RowsOf(k)
  BY <1>5 DEF LastIngested
<1> QED
  BY <1>6 DEF RowsOf

\* The bounds the splits are sized from are days.
LEMMA CommonBounds ==
  ASSUME LookupsAreReal, pc = "files", AllRead
  PROVE  CommonStart \in Int /\ CommonEnd \in Int
<1>1. \A k \in Universe : frames[k].days \in SUBSET Days /\ frames[k].days # {}
  BY DEF LookupsAreReal, AllRead, Frame
<1>2. \A k \in Universe : Min(frames[k].days) \in Days /\ Max(frames[k].days) \in Days
  BY <1>1, MinMaxOfDays
<1> DEFINE firsts == {Min(frames[k].days) : k \in Universe}
<1> DEFINE lasts == {Max(frames[k].days) : k \in Universe}
<1>3. /\ firsts \in SUBSET Days /\ firsts # {}
      /\ lasts \in SUBSET Days /\ lasts # {}
  BY <1>2, SeriesFacts
<1>4. CommonStart = Max(firsts) /\ CommonEnd = Min(lasts)
  BY DEF CommonStart, CommonEnd
<1> HIDE DEF firsts, lasts
<1>5. Max(firsts) \in Days /\ Min(lasts) \in Days
  BY <1>3, MinMaxOfDays
<1> QED
  BY <1>4, <1>5, StoreAssumption DEF Days

\* The ingests and the days leave the cycle what it has, and rows are never deleted.
LEMMA CycleStable ==
  ASSUME CycleInv, UNCHANGED <<keyOf, cycle>>,
         \A s \in Series : row[s] # NoRow => row'[s] # NoRow
  PROVE  CycleInv'
<1>1. UNCHANGED <<pc, split, refs, frames, ranges, reads>> /\ Universe' = Universe
  BY DEF cycle, Universe
<1>2. Missing = {} => Missing' = {}
  BY <1>1 DEF Missing, RowsOf
<1>3. LookupsAreReal'
  BY <1>1, <1>2 DEF CycleInv, LookupsAreReal
<1>4. ReadsAreInRange'
  BY <1>1 DEF CycleInv, ReadsAreInRange, Allocated
<1> QED
  BY <1>3, <1>4 DEF CycleInv

\* What a read looks up and reads is real.
LEMMA LookupStep ==
  ASSUME IInv, CycleStep
  PROVE  LookupsAreReal'
<1>0. TypeOK /\ StoreIsReal /\ LookupsAreReal
  BY DEF IInv, StoreInv, CycleInv
<1>1. UNCHANGED <<keyOf, file, row, stamp>>
  BY DEF CycleStep, GatePasses, SelectRows, ReadFile, ReadFails, AllocateSplits, StartRead,
         Deliver, RefusePanel, world, store
<1>2. Universe' = Universe /\ Missing' = Missing
  BY <1>1 DEF Universe, Missing, RowsOf
<1>3. pc' # "gate" => Missing' = {}
  BY <1>0, <1>2 DEF LookupsAreReal, CycleStep, GatePasses, SelectRows, ReadFile, ReadFails,
                    AllocateSplits, StartRead, Deliver, RefusePanel
<1>4. CASE SelectRows
  <2>1. Missing = {}
    BY <1>0, <1>4 DEF SelectRows, LookupsAreReal
  <2>2. \A k \in Universe : LastIngested(k) \in Series
    BY <1>0, <2>1, LastIngestedIsARow
  <2> QED
    BY <1>2, <1>3, <1>4, <2>2 DEF SelectRows, LookupsAreReal
<1>5. CASE ReadFile
  <2>1. Unread \in Universe
    BY <1>0, <1>5 DEF ReadFile, AllRead, Unread, LookupsAreReal
  <2>2. file[refs[Unread]] \in Frame /\ file[refs[Unread]].days # {}
    BY <1>0, <1>5, <2>1 DEF ReadFile, LookupsAreReal, StoreIsReal, TypeOK
  <2>3. UNCHANGED <<pc, refs>> /\ DOMAIN frames' = DOMAIN frames \union {Unread}
    BY <1>5 DEF ReadFile
  <2>4. \A k \in DOMAIN frames' :
          frames'[k] = IF k = Unread THEN file[refs[Unread]] ELSE frames[k]
    BY <1>5 DEF ReadFile
  <2>5. \A k \in DOMAIN frames' : frames'[k] \in Frame /\ frames'[k].days # {}
    BY <1>0, <1>5, <2>2, <2>3, <2>4 DEF ReadFile, LookupsAreReal
  <2> QED
    BY <1>0, <1>2, <1>3, <1>5, <2>1, <2>3, <2>5 DEF ReadFile, LookupsAreReal
<1>6. CASE pc' # "files"
  BY <1>3, <1>6 DEF LookupsAreReal
<1> QED
  BY <1>4, <1>5, <1>6 DEF CycleStep, GatePasses, ReadFails, AllocateSplits, StartRead,
                          Deliver, RefusePanel

\* The splits are allocated before the first panel, and every panel is within its own.
LEMMA ReadStep ==
  ASSUME IInv, CycleStep
  PROVE  ReadsAreInRange'
<1>0. TypeOK /\ LookupsAreReal /\ ReadsAreInRange
  BY DEF IInv, CycleInv
<1>1. CASE GatePasses
  BY <1>0, <1>1 DEF GatePasses, ReadsAreInRange, Allocated
<1>2. CASE SelectRows
  BY <1>0, <1>2 DEF SelectRows, ReadsAreInRange, Allocated
<1>3. CASE ReadFile
  BY <1>0, <1>3 DEF ReadFile, ReadsAreInRange, Allocated
<1>4. CASE ReadFails
  BY <1>0, <1>4 DEF ReadFails, ReadsAreInRange, Allocated
<1>5. CASE AllocateSplits
  <2>1. CommonStart \in Int /\ CommonEnd \in Int
    BY <1>0, <1>5, CommonBounds DEF AllocateSplits
  <2>2. Allocated'
    BY <1>5, <2>1 DEF AllocateSplits, Allocated
  <2>3. \A p \in Splits : reads'[p] = {}
    BY <1>0, <1>5 DEF AllocateSplits, ReadsAreInRange
  <2> QED
    BY <1>5, <2>2, <2>3 DEF AllocateSplits, ReadsAreInRange
<1>6. CASE StartRead
  BY <1>0, <1>6 DEF StartRead, ReadsAreInRange, Allocated, Splits
<1>7. CASE Deliver
  <2>1. split \in Splits /\ Allocated
    BY <1>0, <1>7 DEF Deliver, TypeOK, ReadsAreInRange
  <2>2. JoinDays \ Holes \subseteq Span(ranges[split])
    BY <1>0, <1>7, PanelFacts DEF Deliver
  <2>3. \A p \in Splits : \A panel \in reads'[p] :
          panel \in reads[p] \/ (p = split /\ panel.days = JoinDays \ Holes)
    BY <1>0, <1>7, <2>1 DEF Deliver, TypeOK, Panel
  <2>4. Allocated' /\ ranges' = ranges
    BY <1>7, <2>1 DEF Deliver, Allocated
  <2>5. \A p \in Splits : \A panel \in reads'[p] : panel.days \subseteq Span(ranges[p])
    BY <1>0, <2>2, <2>3 DEF ReadsAreInRange
  <2> QED
    BY <1>7, <2>4, <2>5 DEF Deliver, ReadsAreInRange
<1>8. CASE RefusePanel
  BY <1>0, <1>8 DEF RefusePanel, ReadsAreInRange, Allocated
<1> QED
  BY <1>1, <1>2, <1>3, <1>4, <1>5, <1>6, <1>7, <1>8 DEF CycleStep

LEMMA CycleInvStep == IInv /\ [Next]_vars => CycleInv'
<1> SUFFICES ASSUME IInv, [Next]_vars PROVE CycleInv'
  OBVIOUS
<1>0. TypeOK /\ CycleInv
  BY DEF IInv
<1>1. CASE NextDay
  BY <1>0, <1>1, CycleStable DEF NextDay, store
<1>2. ASSUME NEW i \in Ingests, IngestStep(i) PROVE CycleInv'
  <2>1. UNCHANGED <<keyOf, cycle>>
    BY <1>2 DEF IngestStep, StartIngest, FetchNothing, Fetch, OpenFile, WriteFile, UpsertRow,
                StopIngest, world
  <2>2. \A s \in Series : row[s] # NoRow => row'[s] # NoRow
    <3>1. CASE UpsertRow(i)
      <4>1. \A s \in Series : row'[s] = row[s] \/ row'[s].at = stamp + 1
        BY <1>0, <3>1 DEF UpsertRow, TypeOK
      <4>2. stamp + 1 # 0
        BY <1>0 DEF TypeOK
      <4> QED
        BY <4>1, <4>2 DEF NoRow
    <3> QED
      BY <1>2, <3>1 DEF IngestStep, StartIngest, FetchNothing, Fetch, OpenFile, WriteFile,
                        StopIngest, store
  <2> QED
    BY <1>0, <2>1, <2>2, CycleStable
<1>3. CASE CycleStep
  BY <1>3, LookupStep, ReadStep DEF CycleInv
<1>4. CASE UNCHANGED vars
  BY <1>0, <1>4, CycleStable DEF vars, world, store
<1> QED
  BY <1>0, <1>1, <1>2, <1>3, <1>4 DEF Next, TypeOK

-----------------------------------------------------------------------------
\* The inductive invariant holds of every behaviour of the store.
THEOREM Invariance == Spec => []IInv
<1>1. IInv /\ [Next]_vars => IInv'
  BY TypeStep, StoreStep, CycleInvStep DEF IInv
<1> QED
  BY InitIInv, <1>1, PTL DEF Spec

\* Every state is well-typed.
THEOREM TypeCorrect == Spec => []TypeOK
<1>1. IInv => TypeOK
  BY DEF IInv
<1> QED
  BY Invariance, <1>1, PTL

\* Outside of store_cleaned_series a row has the freshness and the provenance of its file,
\* for any number of series and of ingests, overlapping or killed anywhere.
THEOREM RowsAreTrue == Spec => []RowDescribesFile
<1>1. IInv => RowDescribesFile
  BY DEF IInv, StoreInv
<1> QED
  BY Invariance, <1>1, PTL

\* No day is delivered for two splits, and the splits follow one another in time, for all
\* fractions the settings allow, whatever histories the splits are sized from.
THEOREM SplitsFollow == Spec => []SplitsInOrder
<1>1. IInv => SplitsInOrder
  <2> SUFFICES ASSUME IInv, NEW i \in DOMAIN SplitOrder, NEW j \in DOMAIN SplitOrder, i < j,
                      NEW d \in DaysRead(SplitOrder[i]), NEW e \in DaysRead(SplitOrder[j])
               PROVE  d < e
    BY DEF SplitsInOrder
  <2>1. SplitOrder[i] \in Splits /\ SplitOrder[j] \in Splits
    BY DEF SplitOrder, Splits
  <2>2. /\ Allocated
        /\ d \in Span(ranges[SplitOrder[i]]) /\ e \in Span(ranges[SplitOrder[j]])
    BY <2>1 DEF IInv, CycleInv, ReadsAreInRange, DaysRead
  <2>3. PICK start, end \in Int : ranges = SplitRanges(start, end)
    BY <2>2 DEF Allocated
  <2> QED
    BY <2>2, <2>3, RangesInOrder
<1> QED
  BY Invariance, <1>1, PTL

\* A cycle that assert_fresh lets start finds fresh files, or halfway ones.
THEOREM GateTellsTheTruth == Spec => GateIsTrue
<1> DEFINE Finds(s) == \/ Halfway(s) /\ (file[s] = NoFrame \/ s \in crossed)
                       \/ file[s] # NoFrame /\ now - Max(file[s].days) <= Tolerance
<1>1. IInv /\ [Next]_vars =>
        (pc = "gate" /\ pc' = "rows" => \A k \in Universe : Finds(LastIngested(k)))
  <2> SUFFICES ASSUME IInv, [Next]_vars, pc = "gate", pc' = "rows", NEW k \in Universe
               PROVE  Finds(LastIngested(k))
    OBVIOUS
  <2>0. TypeOK /\ StoreInv /\ StoreIsReal
    BY DEF IInv, StoreInv
  <2>1. GatePasses
    BY DEF Next, NextDay, IngestStep, StartIngest, FetchNothing, Fetch, OpenFile, WriteFile,
           UpsertRow, StopIngest, CycleStep, SelectRows, ReadFile, ReadFails, AllocateSplits,
           StartRead, Deliver, RefusePanel, vars, cycle
  <2>2. PICK s \in Series : s = LastIngested(k) /\ row[s] # NoRow
    BY <2>0, <2>1, LastIngestedIsARow DEF GatePasses
  <2>3. ~(now - row[s].fresh > Tolerance)
    BY <2>1, <2>2 DEF GatePasses, Stale
  <2>4. now \in Int /\ row[s].fresh \in Int /\ Tolerance \in Nat
    BY <2>0, StoreAssumption DEF TypeOK, Row
  <2>5. CASE s \in crossed
    <3>1. CASE Halfway(s)
      BY <2>2, <2>5, <3>1
    <3>2. CASE ~Halfway(s)
      <4>1. file[s] # NoFrame /\ row[s].fresh = Max(file[s].days)
        BY <2>0, <2>2, <3>2 DEF StoreInv, RowDescribesFile
      <4>2. now - Max(file[s].days) <= Tolerance
        BY <2>3, <2>4, <4>1
      <4> QED
        BY <2>2, <4>1, <4>2
    <3> QED
      BY <3>1, <3>2
  <2>6. CASE s \notin crossed
    <3>1. CASE Halfway(s) /\ file[s] = NoFrame
      BY <2>2, <3>1
    <3>2. CASE Reach(file[s].days, row[s].fresh)
      <4>1. file[s].days \in SUBSET Days /\ file[s].days # {} /\ file[s] # NoFrame
        BY <2>0, <3>2 DEF TypeOK, Frame, NoFrame, Reach
      <4>0. PICK d \in file[s].days : row[s].fresh <= d
        BY <3>2 DEF Reach
      <4>2. Max(file[s].days) \in Days /\ d \in Days /\ d <= Max(file[s].days)
        BY <4>0, <4>1, MinMaxOfDays
      <4>3. Max(file[s].days) \in Int /\ row[s].fresh <= Max(file[s].days)
        BY <2>4, <4>0, <4>2, StoreAssumption DEF Days
      <4>4. now - Max(file[s].days) <= Tolerance
        BY <2>3, <2>4, <4>3
      <4> QED
        BY <2>2, <4>1, <4>4
    <3> QED
      BY <2>0, <2>2, <2>6, <3>1, <3>2 DEF StoreInv, NeverCrossed
  <2> QED
    BY <2>5, <2>6
<1> QED
  BY Invariance, <1>1, PTL DEF Spec, GateIsTrue

-----------------------------------------------------------------------------
(***************************************************************************)
(* A split read again is the panel it was.  A vendor that has changed      *)
(* nothing it served has published new days only, so every frame is the    *)
(* start of its vendor's history and has its prices, and while no two      *)
(* ingests write a series, what is read of it later is never shorter.      *)
(* From the allocation on, all of it therefore reaches the day the ranges  *)
(* end on, and cut to a range it is the same set of days for good.         *)
(***************************************************************************)
StartOf(older, newer) == older \subseteq newer /\ \A d \in newer \ older, e \in older : e < d

HistoriesGrowAtTheEnd ==
  /\ \A s \in Series : StartOf(file[s].days, vendor[s].days)
  /\ \A i \in Ingests : Holding(i) => StartOf(job[i].held.days, vendor[At(i)].days)
  /\ pc = "files" =>
       /\ \A k \in Universe : keyOf[refs[k]] = k
       /\ \A k \in DOMAIN frames : StartOf(frames[k].days, vendor[refs[k]].days)
  /\ pc # "files" => frames = <<>>

\* Every price is as it was first served.
OneEdition ==
  /\ \A s \in Series : file[s].edition = 0
  /\ \A i \in Ingests : job[i].held.edition = 0
  /\ \A k \in DOMAIN frames : frames[k].edition = 0

\* What is held has all the days of the file, and both have all of those read before.
NeverShorter ==
  \A s \in Series \ crossed :
    /\ \A i \in Ingests : Holding(i) /\ At(i) = s => file[s].days \subseteq job[i].held.days
    /\ \A k \in DOMAIN frames : refs[k] = s =>
         /\ file[s] = NoFrame \/ frames[k].days \subseteq file[s].days
         /\ \A i \in Ingests : Holding(i) /\ At(i) = s => frames[k].days \subseteq job[i].held.days

OneProvider == \A s, t \in Series : keyOf[s] = keyOf[t] => s = t
LastOfRanges == ranges.final_evaluation.end
Reaches(days) == Reach(days, LastOfRanges)

\* Once the splits are allocated, every frame reaches the day they end on.
RangesAreCovered ==
  ranges # <<>> /\ OneProvider =>
    \A s \in Series \ crossed :
      /\ Reaches(vendor[s].days)
      /\ file[s] = NoFrame \/ Reaches(file[s].days)
      /\ \A i \in Ingests : Holding(i) /\ At(i) = s => Reaches(job[i].held.days)
      /\ \A k \in DOMAIN frames : refs[k] = s => Reaches(frames[k].days)

\* The panel that _align_panel makes of the days each instrument has in a range.
PanelOf(days) ==
  LET window == IF \E k \in Universe : days[k] = {} THEN {}
                ELSE Max({Min(days[k]) : k \in Universe})..Min({Max(days[k]) : k \in Universe})
      join == IF Universe \intersect BusinessKeys # {} THEN window \intersect BusinessDays
              ELSE window \intersect UNION {days[k] : k \in Universe}
  IN {d \in join : \A k \in Universe : d \in days[k]}

SeriesOf(k) == CHOOSE s \in Series : keyOf[s] = k
Cut(p) == [k \in Universe |-> vendor[SeriesOf(k)].days \intersect Span(ranges[p])]

Undisturbed ==
  /\ OneProvider /\ crossed = {}
  /\ ranges # <<>> /\ ranges.discovery.start <= LastOfRanges

CutPanel(p) == [days |-> PanelOf(Cut(p)), editions |-> [k \in Universe |-> 0]]

PanelsAreCuts == Undisturbed => \A p \in Splits : reads[p] \subseteq {CutPanel(p)}

StableInv ==
  HistoriesGrowAtTheEnd /\ OneEdition /\ NeverShorter /\ RangesAreCovered /\ PanelsAreCuts

LEMMA InitStableInv == Init => StableInv
<1> SUFFICES ASSUME Init PROVE StableInv
  OBVIOUS
<1>3. \A s \in Series : file[s].days = {} /\ file[s].edition = 0
  BY DEF Init, NoFrame
<1>4. /\ \A i \in Ingests : ~Holding(i) /\ job[i].held.edition = 0
      /\ pc = "gate" /\ frames = <<>> /\ DOMAIN frames = {} /\ ranges = <<>>
      /\ \A p \in Splits : reads[p] = {}
  BY DEF Init, Idle, NoFrame, Holding
<1>5. \A newer : StartOf({}, newer)
  BY DEF StartOf
<1>6. HistoriesGrowAtTheEnd
  BY <1>3, <1>4, <1>5 DEF HistoriesGrowAtTheEnd
<1>7. NeverShorter
  BY <1>4 DEF NeverShorter
<1>8. RangesAreCovered /\ PanelsAreCuts
  BY <1>4 DEF RangesAreCovered, PanelsAreCuts, Undisturbed
<1>9. OneEdition
  BY <1>3, <1>4 DEF OneEdition
<1> QED
  BY <1>6, <1>7, <1>8, <1>9 DEF StableInv

\* All three ranges end by the end of the common history, when there is one.
LEMMA RangesEndInside ==
  ASSUME Allocated, ranges.discovery.start <= LastOfRanges, NEW p \in Splits
  PROVE  LastOfRanges \in Int /\ \A d \in Span(ranges[p]) : d \in Int /\ d <= LastOfRanges
<1>1. PICK start \in Int, end \in Int : ranges = SplitRanges(start, end)
  BY DEF Allocated
<1> DEFINE span == end - start
<1> DEFINE x == Share(span, DiscoveryPct)
<1> DEFINE y == Share(span, RefinementPct)
<1>2. ranges = [discovery |-> [start |-> start, end |-> start + x],
                refinement |-> [start |-> start + x + 1, end |-> start + x + y],
                final_evaluation |-> [start |-> start + x + y + 1, end |-> end]]
  BY <1>1 DEF SplitRanges, RefinementEnd, DiscoveryEnd
<1>3. LastOfRanges = end /\ span \in Nat
  <2>1. ranges.discovery.start = start /\ ranges.final_evaluation.end = end
    BY <1>2
  <2>2. start <= end
    BY <2>1 DEF LastOfRanges
  <2> QED
    BY <2>1, <2>2 DEF LastOfRanges
<1> HIDE DEF span
<1>4. x \in Int /\ y \in Int /\ x >= 0 /\ y >= 0
  BY <1>3, SharesOfSpan
<1>5. x + y <= span
  <2>1. x = (span * DiscoveryPct) \div 100 /\ y = (span * RefinementPct) \div 100
    BY <1>3 DEF Share
  <2>2. CASE span = 0
    BY <2>1, <2>2, Fractions
  <2>3. CASE span > 0
    BY <1>3, <2>1, <2>3, SharesAreLess
  <2> QED
    BY <1>3, <2>2, <2>3
<1> HIDE DEF x, y
<1>6. start + x <= end /\ start + x + y <= end
  BY <1>4, <1>5, <1>3 DEF span
<1>7. /\ Span(ranges["discovery"]) = start..(start + x)
      /\ Span(ranges["refinement"]) = (start + x + 1)..(start + x + y)
      /\ Span(ranges["final_evaluation"]) = (start + x + y + 1)..end
  BY <1>2 DEF Span
<1>8. CASE p = "discovery"
  BY <1>3, <1>4, <1>6, <1>7, <1>8
<1>9. CASE p = "refinement"
  BY <1>3, <1>4, <1>6, <1>7, <1>9
<1>10. CASE p = "final_evaluation"
  BY <1>3, <1>4, <1>6, <1>7, <1>10
<1> QED
  BY <1>8, <1>9, <1>10 DEF Splits

LEMMA SeriesOfKey ==
  ASSUME NEW k \in Universe
  PROVE  SeriesOf(k) \in Series /\ keyOf[SeriesOf(k)] = k
BY DEF Universe, SeriesOf

\* While nothing disturbs it, no day to come falls into a range a panel was cut to.
LEMMA RangesArePast ==
  ASSUME TypeOK, ReadsAreInRange, StoreIsReal, RangesAreCovered, Undisturbed,
         NEW p \in Splits, reads[p] # {} \/ split # "none"
  PROVE  now + 1 \notin Span(ranges[p])
<1>1. Allocated
  BY DEF ReadsAreInRange
<1>2. PICK s \in Series : TRUE
  BY SeriesFacts
<1>3. PICK d \in vendor[s].days : LastOfRanges <= d
  BY <1>2 DEF RangesAreCovered, Undisturbed, Reaches, Reach
<1>4. d \in 1..now /\ now \in Nat
  BY <1>2 DEF StoreIsReal, TypeOK
<1>5. LastOfRanges \in Int /\ \A e \in Span(ranges[p]) : e \in Int /\ e <= LastOfRanges
  BY <1>1, RangesEndInside DEF Undisturbed
<1> QED
  BY <1>3, <1>4, <1>5

\* What a vendor changes it has changed for good; one that has not has added days only.
LEMMA EditionsGrow ==
  ASSUME TypeOK, NextDay, Unrevised'
  PROVE  Unrevised /\ \A s \in Series : vendor'[s].days = vendor[s].days \union {now + 1}
<1>1. PICK relabelled \in SUBSET Relabelled, revised \in SUBSET Kind("revises") :
        vendor' = [s \in Series |->
          [days |-> IF s \in Kind("sample") THEN SampleWindow(now + 1)
                    ELSE vendor[s].days \union {now + 1},
           synthetic |-> vendor[s].synthetic \/ s \in relabelled,
           edition |-> vendor[s].edition
                         + IF s \in Kind("sample") \union revised THEN 1 ELSE 0]]
  BY DEF NextDay
<1> SUFFICES ASSUME NEW s \in Series
             PROVE  vendor[s].edition = 0 /\ vendor'[s].days = vendor[s].days \union {now + 1}
  BY DEF Unrevised
<1>2. vendor[s].edition \in Nat
  BY DEF TypeOK, Frame
<1>3. vendor[s].edition + (IF s \in Kind("sample") \union revised THEN 1 ELSE 0) = 0
  BY <1>1 DEF Unrevised
<1>4. vendor[s].edition = 0 /\ s \notin Kind("sample")
  BY <1>2, <1>3
<1> QED
  BY <1>1, <1>4

LEMMA StableNextDay ==
  ASSUME TypeOK, StoreInv, CycleInv, StableInv, NextDay, Unrevised'
  PROVE  StableInv'
<1>1. UNCHANGED <<keyOf, file, row, job, crossed, pc, split, refs, frames, ranges, reads>>
  BY DEF NextDay, store, history, cycle
<1>2. /\ now \in Nat /\ now' = now + 1
      /\ \A s \in Series : vendor'[s].days = vendor[s].days \union {now + 1}
  <2>1. \A s \in Series : vendor'[s].days = vendor[s].days \union {now + 1}
    BY EditionsGrow
  <2> QED
    BY <2>1 DEF NextDay, TypeOK
<1>3. ASSUME NEW s \in Series, NEW days, StartOf(days, vendor[s].days)
      PROVE  StartOf(days, vendor'[s].days)
  BY <1>2, <1>3 DEF StartOf, StoreInv, StoreIsReal
<1>4. /\ \A i \in Ingests : At(i) \in Series /\ At(i)' = At(i) /\ (Holding(i)' <=> Holding(i))
      /\ pc = "files" => \A k \in DOMAIN frames : k \in Universe /\ refs[k] \in Series
      /\ Universe' = Universe /\ LastOfRanges' = LastOfRanges
  BY <1>1, SeriesFacts DEF At, Holding, CycleInv, LookupsAreReal, Universe, LastOfRanges
<1>5. HistoriesGrowAtTheEnd'
  BY <1>1, <1>3, <1>4 DEF StableInv, HistoriesGrowAtTheEnd
<1>6. NeverShorter'
  BY <1>1, <1>4 DEF StableInv, NeverShorter
<1>7. RangesAreCovered'
  BY <1>1, <1>2, <1>4 DEF StableInv, RangesAreCovered, OneProvider, Reaches, Reach
<1>8. PanelsAreCuts'
  <2> SUFFICES ASSUME Undisturbed', NEW p \in Splits, NEW panel \in reads[p]
               PROVE  panel = CutPanel(p)'
    BY <1>1 DEF PanelsAreCuts
  <2>1. Undisturbed
    BY <1>1, <1>4 DEF Undisturbed, OneProvider
  <2>2. now + 1 \notin Span(ranges[p])
    BY <2>1, RangesArePast DEF StableInv, CycleInv, StoreInv
  <2>3. \A k \in Universe : vendor'[SeriesOf(k)].days \intersect Span(ranges[p])
                              = vendor[SeriesOf(k)].days \intersect Span(ranges[p])
    BY <1>2, <2>2, SeriesOfKey
  <2>4. Cut(p)' = Cut(p)
    BY <1>1, <1>4, <2>3 DEF Cut, SeriesOf, Span
  <2>5. panel = CutPanel(p)
    BY <2>1 DEF StableInv, PanelsAreCuts
  <2>6. PanelOf(Cut(p))' = PanelOf(Cut(p))
    BY <1>4, <2>4 DEF PanelOf
  <2> QED
    BY <1>4, <2>5, <2>6 DEF CutPanel
<1>9. OneEdition'
  BY <1>1 DEF StableInv, OneEdition
<1> QED
  BY <1>5, <1>6, <1>7, <1>8, <1>9 DEF StableInv

\* What the ingests do not touch.
LEMMA IngestLeaves ==
  ASSUME NEW i \in Ingests, IngestStep(i)
  PROVE  /\ UNCHANGED <<now, vendor, keyOf, pc, split, refs, frames, ranges, reads>>
         /\ crossed \subseteq crossed'
BY DEF IngestStep, StartIngest, FetchNothing, Fetch, OpenFile, WriteFile, UpsertRow,
       StopIngest, world, cycle, history

\* The panels read so far are as they were when the histories, the ranges and they are.
LEMMA PanelsStable ==
  ASSUME PanelsAreCuts, UNCHANGED <<vendor, keyOf, ranges, reads>>, crossed \subseteq crossed'
  PROVE  PanelsAreCuts'
<1>1. Universe' = Universe /\ LastOfRanges' = LastOfRanges /\ (Undisturbed' => Undisturbed)
  BY DEF Universe, LastOfRanges, Undisturbed, OneProvider
<1>2. \A p \in Splits : Cut(p)' = Cut(p)
  BY <1>1 DEF Cut, SeriesOf, Span
<1>3. ASSUME NEW p \in Splits PROVE PanelOf(Cut(p))' = PanelOf(Cut(p))
  <2>1. Cut(p)' = Cut(p)
    BY <1>2
  <2> QED
    BY <1>1, <2>1 DEF PanelOf
<1>4. \A p \in Splits : CutPanel(p)' = CutPanel(p)
  BY <1>1, <1>3 DEF CutPanel
<1> QED
  BY <1>1, <1>4 DEF PanelsAreCuts

\* A process that lets go of its frame, or had none, leaves the others theirs.
LEMMA StableRelease ==
  ASSUME TypeOK, StableInv, NEW i \in Ingests,
         StartIngest(i) \/ FetchNothing(i) \/ UpsertRow(i) \/ StopIngest(i)
  PROVE  StableInv'
<1>1. /\ UNCHANGED <<now, vendor, keyOf, pc, split, refs, frames, ranges, reads>>
      /\ crossed \subseteq crossed'
  BY IngestLeaves DEF IngestStep
<1>2. file' = file /\ Universe' = Universe
  BY <1>1 DEF StartIngest, FetchNothing, UpsertRow, StopIngest, store, Universe
<1>3. job'[i].step \in {"idle", "fetch"} /\ \A j \in Ingests : j # i => job'[j] = job[j]
  BY AdvanceType DEF StartIngest, FetchNothing, UpsertRow, StopIngest, TypeOK, Idle
<1>4. \A j \in Ingests : Holding(j)' =>
        Holding(j) /\ At(j)' = At(j) /\ job'[j].held = job[j].held
  BY <1>3 DEF Holding, At
<1>8. OneEdition'
  <2>1. job'[i].held = NoFrame \/ job'[i].held = job[i].held
    BY AdvanceType DEF StartIngest, FetchNothing, UpsertRow, StopIngest, TypeOK, Idle
  <2> QED
    BY <1>1, <1>2, <1>3, <2>1 DEF StableInv, OneEdition, NoFrame
<1>5. HistoriesGrowAtTheEnd'
  BY <1>1, <1>2, <1>4 DEF StableInv, HistoriesGrowAtTheEnd
<1>6. NeverShorter'
  BY <1>1, <1>2, <1>4 DEF StableInv, NeverShorter
<1>7. RangesAreCovered'
  BY <1>1, <1>2, <1>4 DEF StableInv, RangesAreCovered, OneProvider, Reaches, LastOfRanges
<1> QED
  BY <1>1, <1>5, <1>6, <1>7, <1>8, PanelsStable DEF StableInv

\* What is fetched is all there is so far.
LEMMA StableFetch ==
  ASSUME TypeOK, CycleInv, StableInv, Unrevised, NEW i \in Ingests, Fetch(i)
  PROVE  StableInv'
<1>1. /\ UNCHANGED <<now, vendor, keyOf, pc, split, refs, frames, ranges, reads>>
      /\ crossed \subseteq crossed'
  BY IngestLeaves DEF IngestStep
<1>2. file' = file /\ Universe' = Universe /\ LastOfRanges' = LastOfRanges
  BY <1>1 DEF Fetch, store, Universe, LastOfRanges
<1>3. /\ At(i)' = At(i) /\ At(i) \in Series /\ job'[i].held = vendor[At(i)]
      /\ \A j \in Ingests : j # i =>
           job'[j].held = job[j].held /\ At(j)' = At(j) /\ (Holding(j)' <=> Holding(j))
  BY SeriesFacts DEF Fetch, TypeOK, Holding, At
<1>4. pc = "files" => \A k \in DOMAIN frames : k \in Universe /\ refs[k] \in Series
  BY DEF CycleInv, LookupsAreReal
<1>5. HistoriesGrowAtTheEnd'
  <2>1. \A days : StartOf(days, days)
    BY DEF StartOf
  <2> QED
    BY <1>1, <1>2, <1>3, <2>1 DEF StableInv, HistoriesGrowAtTheEnd
<1>6. NeverShorter'
  <2> SUFFICES ASSUME NEW s \in Series, s \notin crossed, NEW j \in Ingests,
                      Holding(j)', At(j)' = s
               PROVE  /\ file[s].days \subseteq job'[j].held.days
                      /\ \A k \in DOMAIN frames :
                           refs[k] = s => frames[k].days \subseteq job'[j].held.days
    BY <1>1, <1>2 DEF StableInv, NeverShorter
  <2>1. CASE j = i
    <3>1. /\ file[s].days \subseteq vendor[s].days
          /\ \A k \in DOMAIN frames : refs[k] = s => frames[k].days \subseteq vendor[s].days
      <4>1. pc # "files" => DOMAIN frames = {}
        BY DEF StableInv, HistoriesGrowAtTheEnd
      <4> QED
        BY <4>1 DEF StableInv, HistoriesGrowAtTheEnd, StartOf
    <3> QED
      BY <1>3, <2>1, <3>1
  <2>2. CASE j # i
    BY <1>3, <2>2 DEF StableInv, NeverShorter
  <2> QED
    BY <2>1, <2>2
<1>7. RangesAreCovered'
  <2> SUFFICES ASSUME ranges # <<>>, OneProvider, NEW s \in Series, s \notin crossed,
                      NEW j \in Ingests, Holding(j)', At(j)' = s
               PROVE  Reaches(job'[j].held.days)
    BY <1>1, <1>2 DEF StableInv, RangesAreCovered, OneProvider, Reaches, Reach
  <2>1. CASE j = i
    BY <1>3, <2>1 DEF StableInv, RangesAreCovered
  <2>2. CASE j # i
    BY <1>3, <2>2 DEF StableInv, RangesAreCovered
  <2> QED
    BY <2>1, <2>2
<1>8. OneEdition'
  BY <1>1, <1>2, <1>3 DEF StableInv, OneEdition, Unrevised
<1> QED
  BY <1>1, <1>5, <1>6, <1>7, <1>8, PanelsStable DEF StableInv

\* A file is emptied, and filled with what its process holds.
LEMMA StableFile ==
  ASSUME TypeOK, StoreInv, CycleInv, StableInv, NEW i \in Ingests, OpenFile(i) \/ WriteFile(i)
  PROVE  StableInv'
<1>s. PICK s \in Series : s = At(i)
  BY SeriesFacts
<1>1. /\ UNCHANGED <<now, vendor, keyOf, pc, split, refs, frames, ranges, reads>>
      /\ crossed' = crossed
  BY IngestLeaves DEF IngestStep, OpenFile, WriteFile, history
<1>2. /\ Universe' = Universe /\ LastOfRanges' = LastOfRanges
      /\ \A j \in Ingests :
           job'[j].held = job[j].held /\ At(j)' = At(j) /\ (Holding(j)' <=> Holding(j))
      /\ Holding(i)
  BY <1>1 DEF OpenFile, WriteFile, TypeOK, Holding, At, Universe, LastOfRanges
<1>3. /\ \A t \in Series : t # s => file'[t] = file[t]
      /\ file'[s] = NoFrame \/ file'[s] = job[i].held
  BY <1>s DEF OpenFile, WriteFile, TypeOK, At
<1>4. NoFrame.days = {}
  BY DEF NoFrame
<1>5. HistoriesGrowAtTheEnd'
  <2>1. \A days : StartOf({}, days)
    BY DEF StartOf
  <2>2. StartOf(file'[s].days, vendor[s].days)
    BY <1>s, <1>2, <1>3, <1>4, <2>1 DEF StableInv, HistoriesGrowAtTheEnd
  <2> QED
    BY <1>1, <1>2, <1>3, <2>2 DEF StableInv, HistoriesGrowAtTheEnd
<1>6. s \notin crossed => \A j \in Ingests : Holding(j) /\ At(j) = s => j = i
  BY <1>s, <1>2 DEF StoreInv, SharingIsNoted, NeverCrossed
<1>7. NeverShorter'
  <2> SUFFICES ASSUME NEW t \in Series, t \notin crossed
        PROVE  /\ \A j \in Ingests :
                    Holding(j) /\ At(j) = t => file'[t].days \subseteq job[j].held.days
               /\ \A k \in DOMAIN frames : refs[k] = t =>
                    file'[t] = NoFrame \/ frames[k].days \subseteq file'[t].days
    BY <1>1, <1>2 DEF StableInv, NeverShorter
  <2>1. CASE t # s
    BY <1>3, <2>1 DEF StableInv, NeverShorter
  <2>2. CASE t = s
    <3>1. \A j \in Ingests : Holding(j) /\ At(j) = t => file'[t].days \subseteq job[j].held.days
      BY <1>3, <1>4, <1>6, <2>2
    <3>2. \A k \in DOMAIN frames : refs[k] = t => frames[k].days \subseteq job[i].held.days
      BY <1>s, <1>2, <2>2 DEF StableInv, NeverShorter
    <3> QED
      BY <1>3, <2>2, <3>1, <3>2
  <2> QED
    BY <2>1, <2>2
<1>8. RangesAreCovered'
  <2> SUFFICES ASSUME ranges # <<>>, OneProvider, NEW t \in Series, t \notin crossed
               PROVE  file'[t] = NoFrame \/ Reaches(file'[t].days)
    BY <1>1, <1>2 DEF StableInv, RangesAreCovered, OneProvider, Reaches, Reach
  <2> QED
    BY <1>s, <1>2, <1>3 DEF StableInv, RangesAreCovered
<1>9. OneEdition'
  <2>1. NoFrame.edition = 0
    BY DEF NoFrame
  <2> QED
    BY <1>1, <1>2, <1>3, <2>1 DEF StableInv, OneEdition
<1> QED
  BY <1>1, <1>5, <1>7, <1>8, <1>9, PanelsStable DEF StableInv

\* The splits end no later than any of the histories they are sized from.
LEMMA CommonEndIsReached ==
  ASSUME LookupsAreReal, pc = "files", AllRead, NEW k \in Universe
  PROVE  \E d \in frames[k].days : CommonEnd <= d
<1>1. \A j \in Universe : frames[j].days \in SUBSET Days /\ frames[j].days # {}
  BY DEF LookupsAreReal, AllRead, Frame
<1>2. \A j \in Universe : Max(frames[j].days) \in frames[j].days
  BY <1>1, MinMaxOfDays
<1> DEFINE lasts == {Max(frames[j].days) : j \in Universe}
<1>3. /\ lasts \in SUBSET Days /\ lasts # {}
      /\ Max(frames[k].days) \in lasts
  BY <1>1, <1>2
<1>4. CommonEnd = Min(lasts)
  BY DEF CommonEnd
<1> HIDE DEF lasts
<1>5. Min(lasts) <= Max(frames[k].days)
  BY <1>3, MinMaxOfDays
<1> QED
  BY <1>2, <1>4, <1>5

\* What is read of a split is what its ranges cut from the histories as they are.
LEMMA SlicesAreCuts ==
  ASSUME TypeOK, CycleInv, HistoriesGrowAtTheEnd, RangesAreCovered, Undisturbed,
         pc = "files", split \in Splits, AllRead, NEW k \in Universe
  PROVE  Sliced(k) = Cut(split)[k]
<1>1. Allocated /\ k \in DOMAIN frames /\ refs[k] \in Series /\ split # "none"
  BY DEF CycleInv, LookupsAreReal, ReadsAreInRange, AllRead, Splits
<1> DEFINE s == refs[k]
<1> DEFINE F == frames[k].days
<1>2. s = SeriesOf(k)
  BY <1>1, SeriesOfKey DEF HistoriesGrowAtTheEnd, Undisturbed, OneProvider
<1>3. StartOf(F, vendor[s].days)
  BY <1>1 DEF HistoriesGrowAtTheEnd
<1>4. PICK e \in F : LastOfRanges <= e
  BY <1>1 DEF RangesAreCovered, Undisturbed, Reaches, Reach
<1>5. F \in SUBSET Nat
  BY <1>1, StoreAssumption DEF CycleInv, LookupsAreReal, Frame, Days
<1>6. LastOfRanges \in Int /\ \A d \in Span(ranges[split]) : d \in Int /\ d <= LastOfRanges
  BY <1>1, RangesEndInside DEF Undisturbed
<1>7. ASSUME NEW d \in vendor[s].days, d \in Span(ranges[split]) PROVE d \in F
  <2> SUFFICES ASSUME d \notin F PROVE FALSE
    OBVIOUS
  <2>1. e < d
    BY <1>3, <1>4 DEF StartOf
  <2>2. d \in Int /\ d <= LastOfRanges /\ e \in Nat
    BY <1>5, <1>6, <1>7
  <2> QED
    BY <1>4, <1>6, <2>1, <2>2
<1>8. F \intersect Span(ranges[split]) = vendor[s].days \intersect Span(ranges[split])
  BY <1>3, <1>7 DEF StartOf
<1>9. Cut(split)[k] = vendor[SeriesOf(k)].days \intersect Span(ranges[split])
  BY DEF Cut
<1>10. Sliced(k) = F \intersect Span(ranges[split])
  BY DEF Sliced
<1> QED
  BY <1>2, <1>8, <1>9, <1>10

\* The panel depends on the slices only.
LEMMA PanelOfSlices ==
  ASSUME NEW days, \A k \in Universe : Sliced(k) = days[k]
  PROVE  JoinDays \ Holes = PanelOf(days)
<1>1. /\ {Min(Sliced(k)) : k \in Universe} = {Min(days[k]) : k \in Universe}
      /\ {Max(Sliced(k)) : k \in Universe} = {Max(days[k]) : k \in Universe}
      /\ {Sliced(k) : k \in Universe} = {days[k] : k \in Universe}
      /\ (\E k \in Universe : Sliced(k) = {}) <=> (\E k \in Universe : days[k] = {})
  OBVIOUS
<1> DEFINE window == IF \E k \in Universe : days[k] = {} THEN {}
              ELSE Max({Min(days[k]) : k \in Universe})..Min({Max(days[k]) : k \in Universe})
<1> DEFINE join == IF Universe \intersect BusinessKeys # {} THEN window \intersect BusinessDays
                   ELSE window \intersect UNION {days[k] : k \in Universe}
<1>2. Window = window
  BY <1>1 DEF Window
<1>3. JoinDays = join
  BY <1>1, <1>2 DEF JoinDays
<1>4. JoinDays \ Holes = {d \in JoinDays : \A k \in Universe : d \in Sliced(k)}
  BY DEF Holes
<1>5. PanelOf(days) = {d \in join : \A k \in Universe : d \in days[k]}
  BY DEF PanelOf
<1> HIDE DEF join, window
<1> QED
  BY <1>3, <1>4, <1>5

LEMMA CycleLeaves ==
  ASSUME CycleStep
  PROVE  /\ UNCHANGED <<now, vendor, keyOf, file, row, job, crossed>>
         /\ Universe' = Universe
         /\ \A i \in Ingests : At(i)' = At(i) /\ (Holding(i)' <=> Holding(i))
BY DEF CycleStep, GatePasses, SelectRows, ReadFile, ReadFails, AllocateSplits, StartRead,
       Deliver, RefusePanel, world, store, history, Universe, At, Holding

\* The steps of the cycle that have nothing in hand afterwards and read no panel.
LEMMA StableForget ==
  ASSUME StableInv, CycleStep, UNCHANGED <<ranges, reads>>, frames' = <<>>,
         pc' = "files" => \A k \in Universe : keyOf[refs'[k]] = k
  PROVE  StableInv'
<1>1. /\ UNCHANGED <<now, vendor, keyOf, file, row, job, crossed>> /\ Universe' = Universe
      /\ \A i \in Ingests : At(i)' = At(i) /\ (Holding(i)' <=> Holding(i))
  BY CycleLeaves
<1>2. DOMAIN frames' = {} /\ LastOfRanges' = LastOfRanges
  BY DEF LastOfRanges
<1>3. HistoriesGrowAtTheEnd'
  BY <1>1, <1>2 DEF StableInv, HistoriesGrowAtTheEnd
<1>4. NeverShorter'
  BY <1>1, <1>2 DEF StableInv, NeverShorter
<1>5. RangesAreCovered'
  BY <1>1, <1>2 DEF StableInv, RangesAreCovered, OneProvider, Reaches, Reach
<1>6. OneEdition'
  BY <1>1, <1>2 DEF StableInv, OneEdition
<1> QED
  BY <1>1, <1>3, <1>4, <1>5, <1>6, PanelsStable DEF StableInv

\* A file that is read has all the days of those read of the series before.
LEMMA StableReadFile ==
  ASSUME TypeOK, CycleInv, StableInv, ReadFile
  PROVE  StableInv'
<1>1. /\ UNCHANGED <<now, vendor, keyOf, file, row, job, crossed>> /\ Universe' = Universe
      /\ \A i \in Ingests : At(i)' = At(i) /\ (Holding(i)' <=> Holding(i))
  BY CycleLeaves DEF CycleStep
<1>2. Unread \in Universe /\ pc = "files" /\ refs[Unread] \in Series
  BY DEF ReadFile, AllRead, Unread, CycleInv, LookupsAreReal
<1> PICK u \in Universe : u = Unread
  BY <1>2
<1>3. /\ UNCHANGED <<pc, refs, ranges, reads>>
      /\ DOMAIN frames' = DOMAIN frames \union {u}
      /\ \A k \in DOMAIN frames' : frames'[k] = IF k = u THEN file[refs[u]] ELSE frames[k]
      /\ file[refs[u]] # NoFrame /\ refs[u] \in Series /\ LastOfRanges' = LastOfRanges
  BY <1>2 DEF ReadFile, LastOfRanges
<1>4. HistoriesGrowAtTheEnd'
  <2>1. \A k \in DOMAIN frames' : StartOf(frames'[k].days, vendor[refs[k]].days)
    BY <1>2, <1>3 DEF StableInv, HistoriesGrowAtTheEnd
  <2> QED
    BY <1>1, <1>2, <1>3, <2>1 DEF StableInv, HistoriesGrowAtTheEnd
<1>5. NeverShorter'
  <2> SUFFICES ASSUME NEW s \in Series, s \notin crossed, NEW k \in DOMAIN frames', refs[k] = s
        PROVE  /\ file[s] = NoFrame \/ frames'[k].days \subseteq file[s].days
               /\ \A i \in Ingests : Holding(i) /\ At(i) = s =>
                    frames'[k].days \subseteq job[i].held.days
    BY <1>1, <1>3 DEF StableInv, NeverShorter
  <2>1. CASE k = u
    BY <1>3, <2>1 DEF StableInv, NeverShorter
  <2>2. CASE k # u
    BY <1>3, <2>2 DEF StableInv, NeverShorter
  <2> QED
    BY <2>1, <2>2
<1>6. RangesAreCovered'
  <2> SUFFICES ASSUME ranges # <<>>, OneProvider, NEW s \in Series, s \notin crossed,
                      NEW k \in DOMAIN frames', refs[k] = s
               PROVE  Reaches(frames'[k].days)
    BY <1>1, <1>3 DEF StableInv, RangesAreCovered, OneProvider, Reaches, Reach
  <2>1. CASE k = u
    BY <1>3, <2>1 DEF StableInv, RangesAreCovered
  <2>2. CASE k # u
    BY <1>3, <2>2 DEF StableInv, RangesAreCovered
  <2> QED
    BY <2>1, <2>2
<1>7. OneEdition'
  BY <1>1, <1>3 DEF StableInv, OneEdition
<1> QED
  BY <1>1, <1>3, <1>4, <1>5, <1>6, <1>7, PanelsStable DEF StableInv

\* All that was read to size the splits reaches their end, and so does all that is to come.
LEMMA StableAllocate ==
  ASSUME TypeOK, CycleInv, StableInv, AllocateSplits
  PROVE  StableInv'
<1>1. /\ UNCHANGED <<now, vendor, keyOf, file, row, job, crossed>> /\ Universe' = Universe
      /\ \A i \in Ingests : At(i)' = At(i) /\ (Holding(i)' <=> Holding(i))
  BY CycleLeaves DEF CycleStep
<1>2. pc = "files" /\ pc' = "ready" /\ frames' = <<>> /\ DOMAIN frames' = {}
  BY DEF AllocateSplits, Forget
<1>3. LastOfRanges' = CommonEnd
  BY DEF AllocateSplits, LastOfRanges, SplitRanges
<1>4. HistoriesGrowAtTheEnd'
  BY <1>1, <1>2 DEF StableInv, HistoriesGrowAtTheEnd
<1>5. NeverShorter'
  BY <1>1, <1>2 DEF StableInv, NeverShorter
<1>6. ASSUME OneProvider, NEW s \in Series, s \notin crossed
      PROVE  /\ Reaches(vendor[s].days)'
             /\ file[s] = NoFrame \/ Reaches(file[s].days)'
             /\ \A i \in Ingests : Holding(i) /\ At(i) = s => Reaches(job[i].held.days)'
  <2> DEFINE k == keyOf[s]
  <2>1. k \in Universe /\ k \in DOMAIN frames /\ AllRead
    BY DEF Universe, AllocateSplits, AllRead
  <2>2. refs[k] = s
    BY <1>2, <1>6, <2>1 DEF StableInv, HistoriesGrowAtTheEnd, OneProvider, CycleInv, LookupsAreReal
  <2>3. PICK d \in frames[k].days : CommonEnd <= d
    BY <1>2, <2>1, CommonEndIsReached DEF CycleInv
  <2>4. d \in vendor[s].days
    BY <1>2, <2>1, <2>2 DEF StableInv, HistoriesGrowAtTheEnd, StartOf
  <2>5. /\ file[s] = NoFrame \/ d \in file[s].days
        /\ \A i \in Ingests : Holding(i) /\ At(i) = s => d \in job[i].held.days
    BY <1>6, <2>1, <2>2 DEF StableInv, NeverShorter
  <2> QED
    BY <1>1, <1>3, <2>3, <2>4, <2>5 DEF Reaches, Reach
<1>7. RangesAreCovered'
  BY <1>1, <1>2, <1>6 DEF RangesAreCovered, OneProvider, Reaches
<1>8. PanelsAreCuts'
  <2>1. \A p \in Splits : reads'[p] = {}
    BY DEF AllocateSplits, CycleInv, ReadsAreInRange
  <2> QED
    BY <2>1 DEF PanelsAreCuts
<1>9. OneEdition'
  BY <1>1, <1>2 DEF StableInv, OneEdition
<1> QED
  BY <1>4, <1>5, <1>7, <1>8, <1>9 DEF StableInv

\* A panel that is delivered is cut from the histories.
LEMMA StableDeliver ==
  ASSUME TypeOK, CycleInv, StableInv, Deliver
  PROVE  StableInv'
<1>1. /\ UNCHANGED <<now, vendor, keyOf, file, row, job, crossed>> /\ Universe' = Universe
      /\ \A i \in Ingests : At(i)' = At(i) /\ (Holding(i)' <=> Holding(i))
  BY CycleLeaves DEF CycleStep
<1>2. /\ pc = "files" /\ pc' = "ready" /\ frames' = <<>> /\ DOMAIN frames' = {}
      /\ ranges' = ranges /\ LastOfRanges' = LastOfRanges /\ split \in Splits /\ AllRead
  BY DEF Deliver, Forget, LastOfRanges, TypeOK
<1>3. HistoriesGrowAtTheEnd'
  BY <1>1, <1>2 DEF StableInv, HistoriesGrowAtTheEnd
<1>4. NeverShorter'
  BY <1>1, <1>2 DEF StableInv, NeverShorter
<1>5. RangesAreCovered'
  BY <1>1, <1>2 DEF StableInv, RangesAreCovered, OneProvider, Reaches, Reach
<1>6. PanelsAreCuts'
  <2> SUFFICES ASSUME Undisturbed', NEW p \in Splits, NEW panel \in reads'[p]
               PROVE  panel = CutPanel(p)'
    BY DEF PanelsAreCuts
  <2>1. Undisturbed
    BY <1>1, <1>2 DEF Undisturbed, OneProvider
  <2>2. Cut(p)' = Cut(p)
    BY <1>1, <1>2 DEF Cut, SeriesOf, Span
  <2>3. CutPanel(p)' = CutPanel(p)
    <3>1. PanelOf(Cut(p))' = PanelOf(Cut(p))
      BY <1>1, <2>2 DEF PanelOf
    <3> QED
      BY <1>1, <3>1 DEF CutPanel
  <2>4. CASE panel \in reads[p]
    BY <2>1, <2>3, <2>4 DEF StableInv, PanelsAreCuts
  <2>5. CASE panel \notin reads[p]
    <3>1. p = split /\ panel = Panel
      BY <2>5 DEF Deliver, TypeOK
    <3>2. \A k \in Universe : Sliced(k) = Cut(split)[k]
      BY <1>2, <2>1, SlicesAreCuts DEF StableInv
    <3>3. JoinDays \ Holes = PanelOf(Cut(split))
      BY <3>2, PanelOfSlices
    <3>4. \A k \in Universe : frames[k].edition = 0
      BY <1>2 DEF AllRead, StableInv, OneEdition
    <3>5. Panel = CutPanel(split)
      BY <3>3, <3>4 DEF Panel, CutPanel
    <3> QED
      BY <2>3, <3>1, <3>5
  <2> QED
    BY <2>4, <2>5
<1>7. OneEdition'
  BY <1>1, <1>2 DEF StableInv, OneEdition
<1> QED
  BY <1>3, <1>4, <1>5, <1>6, <1>7 DEF StableInv

\* All this lasts until a vendor changes what it served.
StableUntilRevised == Unrevised => StableInv

LEMMA StableStep == IInv /\ StableUntilRevised /\ [Next]_vars => StableUntilRevised'
<1> SUFFICES ASSUME IInv, StableUntilRevised, [Next]_vars, Unrevised' PROVE StableInv'
  BY DEF StableUntilRevised
<1>0. TypeOK /\ StoreInv /\ CycleInv
  BY DEF IInv
<1>u. Unrevised
  <2>1. CASE NextDay
    BY <1>0, <2>1, EditionsGrow
  <2>2. CASE ~NextDay
    <3>1. vendor' = vendor
      BY <2>2 DEF Next, IngestStep, StartIngest, FetchNothing, Fetch, OpenFile, WriteFile,
             UpsertRow, StopIngest, CycleStep, GatePasses, SelectRows, ReadFile, ReadFails,
             AllocateSplits, StartRead, Deliver, RefusePanel, vars, world
    <3> QED
      BY <3>1 DEF Unrevised
  <2> QED
    BY <2>1, <2>2
<1>s. StableInv
  BY <1>u DEF StableUntilRevised
<1> USE <1>u, <1>s
<1>1. CASE NextDay
  BY <1>0, <1>1, StableNextDay
<1>2. ASSUME NEW i \in Ingests, IngestStep(i) PROVE StableInv'
  BY <1>0, <1>2, StableRelease, StableFetch, StableFile DEF IngestStep
<1>3. CASE CycleStep
  <2>1. CASE GatePasses \/ StartRead
    <3>1. UNCHANGED <<ranges, reads, frames>> /\ frames = <<>> /\ pc' # "files"
      BY <2>1 DEF GatePasses, StartRead, StableInv, HistoriesGrowAtTheEnd
    <3> QED
      BY <1>3, <3>1, StableForget
  <2>2. CASE SelectRows
    <3>1. \A k \in Universe : keyOf[refs'[k]] = k
      BY <1>0, <2>2, LastIngestedIsARow DEF SelectRows, CycleInv, LookupsAreReal, StoreInv
    <3> QED
      BY <1>3, <2>2, <3>1, StableForget DEF SelectRows
  <2>3. CASE ReadFails \/ RefusePanel
    BY <1>3, <2>3, StableForget DEF ReadFails, RefusePanel, Forget
  <2> QED
    BY <1>0, <1>3, <2>1, <2>2, <2>3, StableReadFile, StableAllocate, StableDeliver DEF CycleStep
<1>4. CASE UNCHANGED vars
  <2>1. UNCHANGED <<now, vendor, keyOf, file, row, job, crossed, pc, refs, frames, ranges, reads>>
    BY <1>4 DEF vars, world, store, history, cycle
  <2>2. Universe' = Universe /\ LastOfRanges' = LastOfRanges
        /\ \A i \in Ingests : At(i)' = At(i) /\ (Holding(i)' <=> Holding(i))
    BY <2>1 DEF Universe, LastOfRanges, At, Holding
  <2> QED
    BY <2>1, <2>2, PanelsStable
       DEF StableInv, HistoriesGrowAtTheEnd, OneEdition, NeverShorter, RangesAreCovered, OneProvider, Reaches, Reach
<1> QED
  BY <1>0, <1>1, <1>2, <1>3, <1>4 DEF Next, TypeOK

\* A split read twice is the same panel, although ingest_all rewrites the files between the
\* reads, while instruments have one provider, no two ingests write one series at once, and
\* no vendor has changed what it served, as sample_provider does every midnight.
THEOREM SplitsAreStable == Spec => []SplitIsStable
<1>1. StableUntilRevised => SplitIsStable
  <2> SUFFICES ASSUME StableInv, Undisturbed, NEW p \in Splits
               PROVE  Cardinality(reads[p]) <= 1
    BY DEF SplitIsStable, Undisturbed, OneProvider, LastOfRanges, StableUntilRevised
  <2>1. reads[p] \subseteq {CutPanel(p)}
    BY DEF StableInv, PanelsAreCuts
  <2>2. Cardinality({}) = 0 /\ Cardinality({CutPanel(p)}) = 1
    BY FS_EmptySet, FS_Singleton
  <2>3. reads[p] = {} \/ reads[p] = {CutPanel(p)}
    BY <2>1
  <2> QED
    BY <2>2, <2>3
<1>2. Init => StableUntilRevised
  BY InitStableInv DEF StableUntilRevised
<1> QED
  BY <1>1, <1>2, Invariance, StableStep, PTL DEF Spec
=============================================================================
