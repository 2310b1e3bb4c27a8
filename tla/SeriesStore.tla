----------------------------- MODULE SeriesStore -----------------------------
(***************************************************************************)
(* The price history between the vendors and a research cycle: ingest_all  *)
(* writes each cleaned series as a Parquet file and then as a row, and a   *)
(* cycle in another process gates on the rows, sizes its three splits from *)
(* the files and reads each split through rows and files again.  Files and *)
(* rows are separate stores and nothing locks the two together: one action *)
(* is one statement, one file, or one fetch.                               *)
(*                                                                         *)
(* A frame is the set of days it has a price for, whether it is labelled   *)
(* synthetic, and the edition of its prices: frames of one vendor and one  *)
(* edition have the same price on the days they share.                     *)
(***************************************************************************)
EXTENDS Integers, Sequences, FiniteSetsExt, TLC

CONSTANTS
  Order,         \* series ids in the order ingest_all visits them
  Ingests,       \* processes that may run ingest_all
  Setups,        \* what may be given at the start, see Setup
  MaxIngests,    \* bound: runs of ingest_all
  FirstDay,      \* the day it is at the start
  LastDay,       \* bound: days 1..LastDay
  Relabelled,    \* series whose vendor may turn synthetic
  SampleDays,    \* _N_DAYS of sample_provider
  Tolerance,     \* data_quality.freshness_tolerance_days
  GapLimit,      \* data_quality.max_cross_series_gap_days
  DiscoveryPct,  \* splits.discovery_fraction, in hundredths
  RefinementPct, \* splits.refinement_fraction, in hundredths
  BusinessDays,  \* br_business_days
  BusinessKeys   \* instruments with that calendar

Series == {Order[i] : i \in DOMAIN Order}
Days == 1..LastDay

SplitsConfig ==
  /\ DiscoveryPct \in 1..99 /\ RefinementPct \in 1..99
  /\ DiscoveryPct + RefinementPct < 95

\* The days sample_provider serves: the last _N_DAYS of them.
SampleWindow(day) == {d \in Days : day - SampleDays < d /\ d <= day}

\* sample_provider, or another vendor, which adds days only or also revises past prices.
VendorKinds == {"sample", "adds", "revises"}

\* The instrument each series (provider) is for, the kind of its vendor, the days each
\* vendor has published so far, and the processes that run ingest_all.
IsSetup(setup) ==
  /\ DOMAIN setup.key = Series
  /\ setup.kind \in [Series -> VendorKinds]
  /\ setup.published \in [Series -> SUBSET (1..FirstDay)]
  /\ \A s \in Series :
       setup.kind[s] = "sample" => setup.published[s] = SampleWindow(FirstDay)
  /\ setup.ingests \subseteq Ingests

ASSUME StoreAssumption ==
  /\ SplitsConfig
  /\ Order \in Seq(Series) /\ Order # <<>>
  /\ LastDay \in Nat \ {0} /\ FirstDay \in 0..LastDay /\ MaxIngests \in Nat
  /\ \A setup \in Setups : IsSetup(setup)
  /\ Tolerance \in Nat /\ GapLimit \in Nat
  /\ Relabelled \subseteq Series
  /\ SampleDays \in Nat \ {0}
  /\ BusinessDays \subseteq Days

Splits == {"discovery", "refinement", "final_evaluation"}
SplitOrder == <<"discovery", "refinement", "final_evaluation">>

NoFrame == [days |-> {}, synthetic |-> FALSE, edition |-> 0]
NoRow == [fresh |-> 0, synthetic |-> FALSE, at |-> 0]
Frame == [days : SUBSET Days, synthetic : BOOLEAN, edition : Nat]
Row == [fresh : 0..LastDay, synthetic : BOOLEAN, at : Nat]

VARIABLES
  now,      \* the day
  vendor,   \* series -> the frame its vendor serves
  keyOf,    \* series -> instrument_key, fixed by the configuration
  kindOf,   \* series -> kind of its vendor, fixed too
  running,  \* processes that run ingest_all, fixed too
  file,     \* the lake: series -> frame of its Parquet file
  row,      \* data_series: series -> freshness_ts, provenance and ingested_at
  stamp,    \* the last ingested_at
  runs,     \* runs of ingest_all so far, counted to bound them
  job,      \* ingest process -> step and position of ingest_all, cleaned frame held,
            \* and whether no other process held a frame of the series meanwhile
  torn,     \* history: series whose last write lost its process before the row, or
            \* overlapped another write
  crossed,  \* history: series that two processes ever wrote at once
  pc,       \* the cycle: its next step
  split,    \* the cycle: the split it reads
  refs,     \* the cycle: instrument -> series, by the rows of its last SELECT
  label,    \* the cycle: whether one of those rows was synthetic
  frames,   \* the cycle: instrument -> file, for the files read so far
  ranges,   \* data_split_allocations: split -> date range
  reads     \* history: split -> the panels delivered: days, and editions of the prices

world == <<now, vendor, keyOf, kindOf, running>>
history == <<torn, crossed>>
store == <<file, row, stamp>>
cycle == <<pc, split, refs, label, frames, ranges, reads>>
vars == <<world, store, runs, job, history, cycle>>

Universe == {keyOf[s] : s \in Series}
Span(r) == r.start..r.end
Idle == [step |-> "idle", at |-> 1, held |-> NoFrame, alone |-> TRUE]

Init ==
  /\ now = FirstDay
  /\ \E setup \in Setups :
       /\ vendor = [s \in Series |-> [days |-> setup.published[s],
                                       synthetic |-> setup.kind[s] = "sample",
                                       edition |-> 0]]
       /\ keyOf = setup.key
       /\ kindOf = setup.kind
       /\ running = setup.ingests
  /\ file = [s \in Series |-> NoFrame]
  /\ row = [s \in Series |-> NoRow]
  /\ stamp = 0
  /\ runs = 0
  /\ job = [i \in Ingests |-> Idle]
  /\ torn = {} /\ crossed = {}
  /\ pc = "gate" /\ split = "none"
  /\ refs = <<>> /\ label = FALSE /\ frames = <<>>
  /\ ranges = <<>>
  /\ reads = [p \in Splits |-> {}]

(***************************************************************************)
(* The vendors.  Those of a declarative document are external: histories   *)
(* may begin late, end early or have holes, each new day has its price,    *)
(* and a vendor may declare from then on that its series is synthetic, or  *)
(* revise the prices it served before.  The sample connector serves the    *)
(* same values every day for the days that end today: the first day of its *)
(* history drops out, and all that stay have another day's price.          *)
(***************************************************************************)
Kind(k) == {s \in Series : kindOf[s] = k}

NextDay ==
  /\ now < LastDay
  /\ \E relabelled \in SUBSET Relabelled, revised \in SUBSET Kind("revises") :
       vendor' = [s \in Series |->
         [days |-> IF s \in Kind("sample") THEN SampleWindow(now + 1)
                   ELSE vendor[s].days \union {now + 1},
          synthetic |-> vendor[s].synthetic \/ s \in relabelled,
          edition |-> vendor[s].edition + IF s \in Kind("sample") \union revised THEN 1 ELSE 0]]
  /\ now' = now + 1
  /\ UNCHANGED <<keyOf, kindOf, running, store, runs, job, history, cycle>>

(***************************************************************************)
(* ingest_all: every series in order is fetched and cleaned, its file is   *)
(* written, its row upserted.  clean_series keeps every day and stamps the *)
(* newest; a gap or a stale feed is an issue that repairs nothing.  The    *)
(* quality records and quality_status are left out, as nothing in the      *)
(* program reads them back.                                                *)
(***************************************************************************)
Advance(i) ==
  IF job[i].at = Len(Order) THEN Idle
  ELSE [Idle EXCEPT !.step = "fetch", !.at = job[i].at + 1]

StartIngest(i) ==
  /\ job[i].step = "idle"
  /\ runs < MaxIngests
  /\ runs' = runs + 1
  /\ job' = [job EXCEPT ![i].step = "fetch"]
  /\ UNCHANGED <<world, store, history, cycle>>

\* No observations: the problem is recorded and the series skipped.
FetchNothing(i) ==
  /\ job[i].step = "fetch"
  /\ vendor[Order[job[i].at]].days = {}
  /\ job' = [job EXCEPT ![i] = Advance(i)]
  /\ UNCHANGED <<world, store, runs, history, cycle>>

\* Processes between the fetch of series s and its row.
Holders(s) == {i \in Ingests : job[i].held # NoFrame /\ Order[job[i].at] = s}

Fetch(i) ==
  LET published == vendor[Order[job[i].at]] IN
  /\ job[i].step = "fetch"
  /\ published.days # {}
  /\ job' = [j \in Ingests |->
       IF j = i THEN [job[i] EXCEPT !.step = "write", !.held = published,
                                    !.alone = Holders(Order[job[i].at]) = {}]
       ELSE [job[j] EXCEPT !.alone = @ /\ j \notin Holders(Order[job[i].at])]]
  /\ crossed' = IF Holders(Order[job[i].at]) = {} THEN crossed
                ELSE crossed \union {Order[job[i].at]}
  /\ UNCHANGED <<world, store, runs, torn, cycle>>

\* to_parquet truncates the file of the run before and fills it: in between, and after a
\* kill in between, it cannot be read.
OpenFile(i) ==
  /\ job[i].step = "write"
  /\ file' = [file EXCEPT ![Order[job[i].at]] = NoFrame]
  /\ job' = [job EXCEPT ![i].step = "fill"]
  /\ UNCHANGED <<world, row, stamp, runs, history, cycle>>

\* Two processes that fill one file may leave one that cannot be read.
WriteFile(i) ==
  /\ job[i].step = "fill"
  /\ \E frame \in IF job[i].alone THEN {job[i].held} ELSE {job[i].held, NoFrame} :
       file' = [file EXCEPT ![Order[job[i].at]] = frame]
  /\ job' = [job EXCEPT ![i].step = "upsert"]
  /\ UNCHANGED <<world, row, stamp, runs, history, cycle>>

\* Mutant: the conflict clause leaves freshness_ts as it was.
UpsertOldFreshness(i) ==
  LET s == Order[job[i].at] IN
  /\ job[i].step = "upsert"
  /\ row' = [row EXCEPT ![s] = [fresh |-> IF row[s] = NoRow THEN Max(job[i].held.days) ELSE @.fresh,
                                synthetic |-> job[i].held.synthetic, at |-> stamp + 1]]
  /\ stamp' = stamp + 1
  /\ job' = [job EXCEPT ![i] = Advance(i)]
  /\ torn' = IF job[i].alone THEN torn \ {s} ELSE torn \union {s}
  /\ UNCHANGED <<world, file, runs, crossed, cycle>>

UpsertRow(i) ==
  LET s == Order[job[i].at] IN
  /\ job[i].step = "upsert"
  /\ row' = [row EXCEPT ![s] = [fresh |-> Max(job[i].held.days),
                                synthetic |-> job[i].held.synthetic, at |-> stamp + 1]]
  /\ stamp' = stamp + 1
  /\ job' = [job EXCEPT ![i] = Advance(i)]
  /\ torn' = IF job[i].alone THEN torn \ {s} ELSE torn \union {s}
  /\ UNCHANGED <<world, file, runs, crossed, cycle>>

\* A failed health check or a connector's exception ends ingest_all, and so does a kill.
StopIngest(i) ==
  /\ job[i].step # "idle"
  /\ job' = [job EXCEPT ![i] = Idle]
  /\ torn' = IF job[i].step \in {"fill", "upsert"} THEN torn \union {Order[job[i].at]} ELSE torn
  /\ UNCHANGED <<world, store, runs, crossed, cycle>>

(***************************************************************************)
(* The cycle.                                                              *)
(***************************************************************************)
\* series_rows in the order of ingested_at, the last one of each instrument kept.
RowsOf(k) == {s \in Series : keyOf[s] = k /\ row[s] # NoRow}
LastIngested(k) == CHOOSE s \in RowsOf(k) : \A t \in RowsOf(k) : row[t].at <= row[s].at
Missing == {k \in Universe : RowsOf(k) = {}}

\* Mutant: the age is compared with a day more.
StaleLater == {LastIngested(k) : k \in {k \in Universe \ Missing :
                                   now - row[LastIngested(k)].fresh > Tolerance + 1}}

Stale == {LastIngested(k) : k \in {k \in Universe \ Missing :
                                   now - row[LastIngested(k)].fresh > Tolerance}}

\* assert_fresh; a refusal ends the run and leaves nothing a later run would look at.
GatePasses ==
  /\ pc = "gate"
  /\ Missing = {} /\ Stale = {}
  /\ pc' = "rows"
  /\ UNCHANGED <<world, store, runs, job, history, split, refs, label, frames, ranges, reads>>

SelectRows ==
  /\ pc = "rows"
  /\ refs' = [k \in Universe |-> LastIngested(k)]
  /\ label' = (\E k \in Universe : row[LastIngested(k)].synthetic)
  /\ frames' = <<>>
  /\ pc' = "files"
  /\ UNCHANGED <<world, store, runs, job, history, split, ranges, reads>>

AllRead == DOMAIN frames = Universe

\* The next instrument, in the order of the universe.
Unread == CHOOSE k \in Universe \ DOMAIN frames : TRUE

\* What a read looked up and read is local to it.
Forget == refs' = <<>> /\ label' = FALSE /\ frames' = <<>>

ReadFile ==
  /\ pc = "files" /\ ~AllRead
  /\ file[refs[Unread]] # NoFrame
  /\ frames' = [k \in DOMAIN frames \union {Unread} |->
                  IF k = Unread THEN file[refs[k]] ELSE frames[k]]
  /\ UNCHANGED <<world, store, runs, job, history, pc, split, refs, label, ranges, reads>>

\* The file is being written, or was when its process was killed: read_parquet raises.
ReadFails ==
  /\ pc = "files" /\ ~AllRead
  /\ file[refs[Unread]] = NoFrame
  /\ Forget
  /\ pc' = "failed"
  /\ split' = "none"
  /\ UNCHANGED <<world, store, runs, job, history, ranges, reads>>

\* common_date_bounds
CommonStart == Max({Min(frames[k].days) : k \in Universe})

\* Mutant: the history of any series, not of all.
LatestEnd == Max({Max(frames[k].days) : k \in Universe})

CommonEnd == Min({Max(frames[k].days) : k \in Universe})

\* int(span_days * fraction), which truncates towards zero: the span is negative when
\* the histories do not overlap.
Share(span, pct) == IF span >= 0 THEN (span * pct) \div 100 ELSE -(((-span) * pct) \div 100)

DiscoveryEnd(start, span) == start + Share(span, DiscoveryPct)
RefinementEnd(start, span) == DiscoveryEnd(start, span) + Share(span, RefinementPct)

\* Mutant: each split starts on the day the one before ended.
TouchingRanges(start, end) ==
  LET d == DiscoveryEnd(start, end - start)
      r == RefinementEnd(start, end - start)
  IN [discovery |-> [start |-> start, end |-> d],
      refinement |-> [start |-> d, end |-> r],
      final_evaluation |-> [start |-> r, end |-> end]]

SplitRanges(start, end) ==
  LET d == DiscoveryEnd(start, end - start)
      r == RefinementEnd(start, end - start)
  IN [discovery |-> [start |-> start, end |-> d],
      refinement |-> [start |-> d + 1, end |-> r],
      final_evaluation |-> [start |-> r + 1, end |-> end]]

\* Three inserts, which nobody but this process reads.
AllocateSplits ==
  /\ pc = "files" /\ split = "none"
  /\ AllRead
  /\ ranges' = SplitRanges(CommonStart, CommonEnd)
  /\ Forget
  /\ pc' = "ready"
  /\ UNCHANGED <<world, store, runs, job, history, split, reads>>

\* Generation, screening and trends read discovery, the backtests refinement, in turn;
\* once the finals have begun only the final split is read, one lineage after another.
StartRead ==
  /\ pc = "ready"
  /\ \E p \in Splits :
       /\ reads["final_evaluation"] # {} => p = "final_evaluation"
       /\ split' = p
  /\ pc' = "rows"
  /\ UNCHANGED <<world, store, runs, job, history, refs, label, frames, ranges, reads>>

(***************************************************************************)
(* _align_panel: inside the window every instrument covers, on business    *)
(* days only if an instrument has that calendar, days missing from one     *)
(* instrument are dropped, and too many of them refuse the read.           *)
(***************************************************************************)
Sliced(k) == frames[k].days \intersect Span(ranges[split])
Window == IF \E k \in Universe : Sliced(k) = {} THEN {}
          ELSE Max({Min(Sliced(k)) : k \in Universe})..Min({Max(Sliced(k)) : k \in Universe})
JoinDays == IF Universe \intersect BusinessKeys # {} THEN Window \intersect BusinessDays
            ELSE Window \intersect UNION {Sliced(k) : k \in Universe}
Holes == {d \in JoinDays : \E k \in Universe : d \notin Sliced(k)}

Panel == [days |-> JoinDays \ Holes, editions |-> [k \in Universe |-> frames[k].edition]]

Deliver ==
  /\ pc = "files" /\ split # "none"
  /\ AllRead
  /\ Cardinality(Holes) <= GapLimit
  /\ reads' = [reads EXCEPT ![split] = @ \union {Panel}]
  /\ Forget
  /\ pc' = "ready"
  /\ split' = "none"
  /\ UNCHANGED <<world, store, runs, job, history, ranges>>

RefusePanel ==
  /\ pc = "files" /\ split # "none"
  /\ AllRead
  /\ Cardinality(Holes) > GapLimit
  /\ Forget
  /\ pc' = "failed"
  /\ split' = "none"
  /\ UNCHANGED <<world, store, runs, job, history, ranges, reads>>

IngestStep(i) ==
  \/ StartIngest(i) \/ FetchNothing(i) \/ Fetch(i)
  \/ OpenFile(i) \/ WriteFile(i) \/ UpsertRow(i) \/ StopIngest(i)

CycleStep ==
  \/ GatePasses \/ SelectRows \/ ReadFile \/ ReadFails \/ AllocateSplits
  \/ StartRead \/ Deliver \/ RefusePanel

Next ==
  \/ NextDay
  \/ \E i \in running : IngestStep(i)
  \/ CycleStep

Spec == Init /\ [][Next]_vars

(***************************************************************************)
(* Properties.                                                             *)
(***************************************************************************)
TypeOK ==
  /\ now \in 0..LastDay
  /\ kindOf \in [Series -> VendorKinds] /\ running \subseteq Ingests
  /\ vendor \in [Series -> Frame] /\ file \in [Series -> Frame]
  /\ row \in [Series -> Row] /\ stamp \in Nat
  /\ job \in [Ingests -> [step : {"idle", "fetch", "write", "fill", "upsert"},
                          at : 1..Len(Order), held : Frame, alone : BOOLEAN]]
  /\ torn \subseteq Series /\ crossed \subseteq Series
  /\ pc \in {"gate", "rows", "files", "ready", "failed"}
  /\ split \in Splits \union {"none"}
  /\ reads \in [Splits -> SUBSET [days : SUBSET Days, editions : [Universe -> Nat]]]

\* No day is delivered for two splits, and the splits follow one another in time, however
\* the series grow or are rewritten while the cycle runs: _create_split_allocations sizes
\* the splits once and every _read_split cuts to the stored range.
DaysRead(p) == UNION {panel.days : panel \in reads[p]}

SplitsInOrder ==
  \A i, j \in DOMAIN SplitOrder : i < j =>
    \A d \in DaysRead(SplitOrder[i]), e \in DaysRead(SplitOrder[j]) : d < e

\* No vendor has changed what it served before; sample_provider does at every midnight.
Unrevised == \A s \in Series : vendor[s].edition = 0

\* With one provider per instrument, histories that overlapped when the cycle began, no two
\* ingests at once and no vendor that has changed what it served, a split read again is the
\* panel it was, to its prices, although ingest_all rewrites the files between the reads and
\* between the files of one read: the allocations end where the shortest history ended, and
\* what vendors add is later.
SplitIsStable ==
  /\ \A s, t \in Series : keyOf[s] = keyOf[t] => s = t
  /\ crossed = {} /\ Unrevised
  /\ ranges # <<>> /\ ranges.discovery.start <= ranges.final_evaluation.end
  => \A p \in Splits : Cardinality(reads[p]) <= 1

\* Between the two writes of store_cleaned_series, and for good when a kill falls between
\* them or another process writes the series too, the row says nothing of the file.
Halfway(s) ==
  s \in torn \/ \E i \in Ingests : job[i].step \in {"fill", "upsert"} /\ Order[job[i].at] = s

\* A row has the freshness and the provenance of its file except halfway through
\* store_cleaned_series.  A kill there, and overlapping ingests that leave the row of one
\* with the file of the other, are undone by the next ingestion that has the series to
\* itself from its fetch to its row, whatever happened before.
RowDescribesFile ==
  \A s \in Series :
    \/ row[s] = NoRow
    \/ Halfway(s)
    \/ /\ file[s] # NoFrame
       /\ row[s].fresh = Max(file[s].days)
       /\ row[s].synthetic = file[s].synthetic

\* A cycle that assert_fresh lets start finds for every instrument a file whose newest price
\* is within the tolerance, or a halfway one that cannot be read and fails the cycle: the
\* gate looks at rows only, a row is written after its file, and only two ingests of one
\* series can put an older file under a newer row.
GateIsTrue ==
  [][pc = "gate" /\ pc' = "rows" =>
       \A k \in Universe :
         LET s == LastIngested(k) IN
         \/ Halfway(s) /\ (file[s] = NoFrame \/ s \in crossed)
         \/ file[s] # NoFrame /\ now - Max(file[s].days) <= Tolerance]_vars

(***************************************************************************)
(* What the documents say and the code does not do.                        *)
(***************************************************************************)

\* data-model.md:38: synthetic provenance propagates to everything that touches the
\* series.  The label of a panel is that of the rows, read before the files.
SyntheticIsLabelled ==
  [][reads' # reads => ((\E k \in Universe : frames[k].synthetic) => label)]_vars

\* sample_provider.py:81-83: the sample dataset is a fixture, identical across ingestions,
\* which is what makes replay meaningful.  Its values are; their dates move every midnight.
SampleIsAFixture ==
  Kind("sample") = Series /\ crossed = {} /\ (\A s, t \in Series : keyOf[s] = keyOf[t] => s = t)
  => \A p \in Splits : Cardinality(reads[p]) <= 1
=============================================================================
